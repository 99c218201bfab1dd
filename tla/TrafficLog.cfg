SPECIFICATION FairSpec
CONSTANTS
    LogKeys = {k1, k2}
    Collectors = {c1, c2}
    Limit = 1
    Calendar <- MCCalendar
    MaxPackets = 3
    MaxStarts = 2
INVARIANTS
    IInv
    LogIsCut
    IdleScreenIsRight
PROPERTIES
    PruneDropsOldest
    ScreenSettles
CHECK_DEADLOCK FALSE
