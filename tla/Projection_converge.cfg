SPECIFICATION FairSpec
CONSTANTS
    SHAs = {s1, s2}
    Txs = {t1}
    Workers = {w1}
    Embeddings = {FALSE}
    PageSize = 1
    ScanCap = 3
    RepairCap = 1
    MaxRecords = 3
    MaxClock = 3
    MaxFaults = 0
    MaxDiscards = 1
INVARIANT TypeOK
INVARIANT OrphansHadNoRecord
PROPERTY PresenceConverges
