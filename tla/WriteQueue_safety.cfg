SPECIFICATION Spec
CONSTANTS
    Notes = {n1}
    Blobs = {b1}
    Exts = {png}
    Writers = {w1, w2}
    Drainers = {d1}
    Clis = {c1}
    BatchLimit = 1
    MaxAttempts = 2
    MaxCalls = 2
    MaxCliRuns = 1
    MaxCrashes = 0
INVARIANTS
    TypeOK
    QueuedIsDurable
    ItemsNameTheirWrite
PROPERTIES
    ImplementsOutbox
    DeadIsFinal
SYMMETRY Symmetry
