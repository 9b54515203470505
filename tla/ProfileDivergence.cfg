\* Two writers on two names, no crash.
SPECIFICATION MCSpec
SYMMETRY Symmetry
CONSTANTS
    Calls = {c1, c2}
    Names = {default, n1}
    Default = default
    Values = {v1}
    None = None
    Bad = Bad
    MaxCrashes = 0
INVARIANT
    NeverDiverge
