SPECIFICATION Spec
CONSTANTS
    BootFiles <- MCBootFiles
    Edits <- MCEdits
    Certs = {"first", "second"}
    BootCert = "first"
    MaxEdits = 2
    MaxSignals = 3
INVARIANTS StartedRulesHold
PROPERTIES LastSignalWins QueuedTermStops ReloadsAreWhole
CHECK_DEADLOCK FALSE
