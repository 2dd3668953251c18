SPECIFICATION Spec
CONSTANTS
    MaxId = 3
    Statuses = {s0, s1}
    Gone = Gone
    AnyStatus = AnyStatus
    Pages <- MCPages
    Sizes <- MCSizes
    DefaultSize = 2
    Half = 16
SYMMETRY Symmetry
INVARIANTS
    TypeOK
    DescWalkSeesAll
    PageWalkSlips
    QuietWalkIsExact
