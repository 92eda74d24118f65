\* Two tabs of one browser beside a second browser, up to two logins and a session
\* or the other way round.
SPECIFICATION Spec
CONSTANTS
    a1 = a1
    a2 = a2
    b1 = b1
    Tabs <- TwoBrowsers
    Owner <- TwoOwners
    MaxSessions = 3
SYMMETRY TabsOfOneBrowser
INVARIANTS ExchangesAreBound OneSessionPerSignIn
PROPERTIES BrowsersDoNotInterfere
CHECK_DEADLOCK FALSE
