SPECIFICATION Spec
CONSTANTS
    Proc = {p1, p2}
    Ids = {i1}
    bob = bob
    Bob = Bob
    Names = {bob}
    NoName = NoName
    Weight <- MCWeight
    UpdateNames = {bob, NoName}
    None = None
    Placeholder = Placeholder
    Junk = Junk
    JunkIds = {}
    MaxWrites = 0
    MaxFaults = 0
INVARIANT NilErrorMeansUser
