SPECIFICATION MemorySpec
CONSTANTS
    Sessions = {s1, s2}
    Pids = {p1, p2}
    Calls = {c1, c2}
    Tasks = {t1}
    Findings = {f1}
    Unpromoted = {l1}
    Artifacts = {a1}
    Questions = {q1}
SYMMETRY Symmetry
INVARIANT CompletedIsPromoted
INVARIANT ServingKeepsItsShard
INVARIANT StartupLeavesNoOrphan
