\* The same deletions and creations: a gateway that recorded the number keeps the old document.
SPECIFICATION Spec
CONSTANTS
    ctl = ctl
    gw = gw
    h1 = h1
    h2 = h2
    NoContent = NoContent
    Instances <- Both
    Admin <- OnlyCtl
    ControlOnly <- OnlyCtl
    Handlers <- One
    Versions <- TwoVersions
    Contents <- MCContents
    Routeless = {"noRoutes"}
    Accepts <- SplitAccepts
    BootFile <- SplitBoot
    ReloadFiles <- SplitReload
    Drafts <- SecondDocument
    MaxOps = 5
    MaxFaults = 0
INVARIANTS DataPlaneSkipSeesTheDocument
