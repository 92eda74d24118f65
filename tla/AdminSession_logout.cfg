\* Two tabs of one browser that sign in again and again beside open pages.
SPECIFICATION Spec
CONSTANTS
    a1 = a1
    a2 = a2
    b1 = b1
    Tabs <- OneBrowser
    Owner <- OneOwner
    MaxSessions = 4
SYMMETRY TabsOfOneBrowser
PROPERTIES LogoutsActOnTheirPage
CHECK_DEADLOCK FALSE
