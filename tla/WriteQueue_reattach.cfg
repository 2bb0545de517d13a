SPECIFICATION Spec
CONSTANTS
    Notes = {}
    Blobs = {b1}
    Exts = {png}
    Writers = {w1}
    Drainers = {}
    Clis = {}
    BatchLimit = 2
    MaxAttempts = 2
    MaxCalls = 2
    MaxCliRuns = 0
    MaxCrashes = 0
INVARIANTS
    NoRowWithoutItsFile
CHECK_DEADLOCK FALSE
