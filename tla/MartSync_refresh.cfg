SPECIFICATION FairSpec
CONSTANTS
    MaxRecords = 2
    Writers = {w1}
    Syncers = {s1}
    Builders = {b1}
    PageSize = 1
    Ephemerals = {TRUE, FALSE}
    MaxClock = 2
    MaxWrites = 2
    MaxUpsets = 1
INVARIANT TypeOK
INVARIANT CursorIsHonest
INVARIANT BuildIsExact
PROPERTY EveryWriteArrives
CHECK_DEADLOCK FALSE
