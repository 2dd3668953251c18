SPECIFICATION Spec
CONSTANTS
    Proc = {p1, p2}
    Keys = {k1, k2}
    None = None
    MaxLookups = 2
SYMMETRY Symmetry
INVARIANTS
    TypeOK
    CountsAgree
    LinesMakeSense
