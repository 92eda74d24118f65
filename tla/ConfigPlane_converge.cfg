\* A control-only admin process and a gateway that polls: safety of its loads, and convergence.
SPECIFICATION FairSpec
CONSTANTS
    ctl = ctl
    gw = gw
    h1 = h1
    h2 = h2
    NoContent = NoContent
    Instances <- Both
    Admin <- OnlyCtl
    ControlOnly <- OnlyCtl
    Handlers <- One
    Versions <- TwoVersions
    Contents <- MCContents
    Routeless = {"noRoutes"}
    Accepts <- SplitAccepts
    BootFile <- SplitBoot
    ReloadFiles <- SplitReload
    Drafts <- TakenOrRejected
    MaxOps = 3
    MaxFaults = 1
INVARIANTS ServesWhatWasActivated DataPlaneSkipIsSafe
PROPERTIES NeverGoesBack DataPlaneConverges
