SPECIFICATION Spec
CONSTANTS
    Proc = {p1, p2}
    Ids = {i1, i2}
    bob = bob
    Bob = Bob
    Names = {bob}
    NoName = NoName
    Weight <- MCWeight
    UpdateNames = {NoName}
    None = None
    Placeholder = Placeholder
    Junk = Junk
    JunkIds = {}
    MaxWrites = 2
    MaxFaults = 0
PROPERTY AnswersTheId
