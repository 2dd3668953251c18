SPECIFICATION Spec
CONSTANTS
    Proc = {p1, p2}
    Ids = {i1, i2}
    bob = bob
    Bob = Bob
    Names = {bob, Bob}
    NoName = NoName
    Weight <- MCWeight
    UpdateNames = {bob, Bob}
    None = None
    Placeholder = Placeholder
    Junk = Junk
    JunkIds = {}
    MaxWrites = 2
    MaxFaults = 0
SYMMETRY Symmetry
INVARIANTS
    OldIsCurrent
    StaleOnlyIfExcused
PROPERTY RefinesTable
