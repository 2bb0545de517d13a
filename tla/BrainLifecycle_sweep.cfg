SPECIFICATION Spec
CONSTANTS
    Procs = {p1, p2}
    Named = {n1}
    Uuids = {u1}
    Cli = Cli
    None = None
    MaxBoots = 2
    MaxStarts = 2
    MaxCliRuns = 1
SYMMETRY Symmetry
INVARIANT TypeOK
INVARIANT RunningKeepsItsDirectory
INVARIANT DeathSticks
INVARIANT SweepLeavesNoCorpse
INVARIANT LiveBrainIsLeftAlone
CHECK_DEADLOCK FALSE
