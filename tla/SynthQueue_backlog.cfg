SPECIFICATION FairSpec
CONSTANTS
    SHAs = {s1, s2}
    BufferSize = 1
    PageSize = 1
    MaxSynthAttempts = 1
    Limits = {1}
    MaxRecords = 2
    MaxIngests = 2
    MaxResynths = 1
    MaxFaults = 1
INVARIANT TypeOK
INVARIANT SynthesisedOnce
INVARIANT PoisonIsBounded
INVARIANT BackfillFlag
PROPERTY BacklogSettles
