\* Three addresses and a reload; updates and answers get lost or are late.
SPECIFICATION FairSpec
CONSTANTS
    a = a
    b = b
    c = c
    Ips <- Three
    NoIp = NoIp
    MaxMoves = 3
    Address <- MovesOn
    MaxSnapshots = 2
PROPERTIES RecordFollowsAddress RetiredWorkersStop
CHECK_DEADLOCK FALSE
