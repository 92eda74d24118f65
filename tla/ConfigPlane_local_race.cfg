\* The watch goroutine and an activation on one process: their swaps and stores interleave.
SPECIFICATION Spec
CONSTANTS
    ctl = ctl
    gw = gw
    h1 = h1
    h2 = h2
    NoContent = NoContent
    Instances <- OnlyGw
    Admin <- OnlyGw
    ControlOnly <- Nobody
    Handlers <- Two
    Versions <- ThreeVersions
    Contents <- MCContents
    Routeless = {"noRoutes"}
    Accepts <- SingleAccepts
    BootFile <- SingleBoot
    ReloadFiles <- SingleReload
    Drafts <- ThreeDrafts
    MaxOps = 4
    MaxFaults = 0
SYMMETRY Symmetry
INVARIANTS EverySkipIsSafe
