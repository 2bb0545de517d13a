SPECIFICATION Spec
CONSTANTS
    Profiles = {p, q}
    Vaults = {memory}
    AdminEnabled = TRUE
    MaxPools = 4
    MaxEdits = 2
    MaxReloads = 3
    MaxFaults = 1
SYMMETRY Symmetry
INVARIANT TypeOK
INVARIANT CleanReloadServesAll
INVARIANT FailedReloadIsSafe
PROPERTY StartsAfterPublish
PROPERTY SoloKeepsPresentProfiles
CHECK_DEADLOCK FALSE
