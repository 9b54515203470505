\* Three writers on two names, one death of the process.
SPECIFICATION MCSpec
SYMMETRY Symmetry
CONSTANTS
    Calls = {c1, c2, c3}
    Names = {default, n1}
    Default = default
    Values = {v1, v2}
    None = None
    Bad = Bad
    MaxCrashes = 1
INVARIANTS
    CacheIsOnDisk
    ConfirmedIsOnDisk
PROPERTY
    LegacyNamesKept
