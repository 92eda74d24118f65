\* Two activations that overlap: three snapshots whose workers start and stop in any order.
SPECIFICATION FairSpec
CONSTANTS
    a = a
    b = b
    c = c
    Ips <- Three
    NoIp = NoIp
    MaxMoves = 1
    Address <- Stays
    MaxSnapshots = 3
PROPERTIES RecordFollowsAddress RetiredWorkersStop
CHECK_DEADLOCK FALSE
