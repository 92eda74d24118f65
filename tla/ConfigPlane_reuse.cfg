\* Version 1 is deleted and stored again with another document while a gateway loads and polls.
SPECIFICATION Spec
CONSTANTS
    ctl = ctl
    gw = gw
    h1 = h1
    h2 = h2
    NoContent = NoContent
    Instances <- Both
    Admin <- OnlyCtl
    ControlOnly <- OnlyCtl
    Handlers <- One
    Versions <- TwoVersions
    Contents <- MCContents
    Routeless = {"noRoutes"}
    Accepts <- SplitAccepts
    BootFile <- SplitBoot
    ReloadFiles <- SplitReload
    Drafts <- SecondDocument
    MaxOps = 5
    MaxFaults = 0
INVARIANTS ServesWhatWasActivated DataPlaneSkipIsSafe
