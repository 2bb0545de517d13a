SPECIFICATION Spec
CONSTANTS
    Brains = {b1, b2}
    Backends = {"local", "minio"}
    MaxUploads = 2
    Requests = {r1, r2}
    MaxRequests = 5
    MaxFaults = 2
SYMMETRY Symmetry
INVARIANT OwnTarball
INVARIANT PendingIsWhole
INVARIANT AckedIsStored
PROPERTY PendingIsKept
