SPECIFICATION FairSpec
CONSTANTS
    Notes = {}
    Blobs = {b1, b2}
    Exts = {png}
    Writers = {w1}
    Drainers = {d1}
    Clis = {}
    BatchLimit = 2
    MaxAttempts = 2
    MaxCalls = 2
    MaxCliRuns = 0
    MaxCrashes = 1
PROPERTIES
    EveryRowSettles
    OrphansAreSwept
