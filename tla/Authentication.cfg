SPECIFICATION Spec
CONSTANTS
    Requests <- MCRequests
    KeyUses <- MCKeyUses
    Signer <- MCSigner
    MaxAge = 2
    Timeout = 1
    MaxRotations = 1
    MaxTime = 4
INVARIANTS OneTimeoutPerFetch RevokedKeysRefused
PROPERTIES VerdictsAreRecent StoresAreSpaced EveryRequestDecided
CHECK_DEADLOCK FALSE
