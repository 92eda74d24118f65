SPECIFICATION Spec
CONSTANTS
    BootFiles <- MCRunning
    Edits <- MCUnchecked
    Certs = {"first", "second"}
    BootCert = "first"
    MaxEdits = 2
    MaxSignals = 3
INVARIANTS ServingCanBeRun
CHECK_DEADLOCK FALSE
