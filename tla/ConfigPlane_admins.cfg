\* Two concurrent admin requests on one process that is gateway and control plane.
SPECIFICATION Spec
CONSTANTS
    ctl = ctl
    gw = gw
    h1 = h1
    h2 = h2
    NoContent = NoContent
    Instances <- OnlyGw
    Admin <- OnlyGw
    ControlOnly <- Nobody
    Handlers <- Two
    Versions <- ThreeVersions
    Contents <- MCContents
    Routeless = {"noRoutes"}
    Accepts <- SingleAccepts
    BootFile <- SingleBoot
    ReloadFiles <- SingleReload
    Drafts <- ThreeDrafts
    MaxOps = 4
    MaxFaults = 1
SYMMETRY Symmetry
INVARIANTS TypeOK ChecksStillHold ActivationsFormAChain AuditedOperationsCommitted ServesWhatWasActivated
PROPERTIES PointerNeverOrphaned ImplementsVersionStore
