SPECIFICATION Spec
CONSTANTS
    SHAs = {s1}
    Txs = {t1}
    Workers = {w1, w2}
    Embeddings = {FALSE, TRUE}
    PageSize = 1
    ScanCap = 2
    RepairCap = 1
    MaxRecords = 2
    MaxClock = 4
    MaxFaults = 1
    MaxDiscards = 0
SYMMETRY Symmetry
INVARIANT NoWriteLeftBehind
