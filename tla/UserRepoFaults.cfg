SPECIFICATION FairSpec
CONSTANTS
    Proc = {p1, p2}
    Ids = {i1}
    bob = bob
    Bob = Bob
    Names = {bob}
    NoName = NoName
    Weight <- MCWeight
    UpdateNames = {NoName}
    None = None
    Placeholder = Placeholder
    Junk = Junk
    JunkIds = {i1}
    MaxWrites = 1
    MaxFaults = 1
INVARIANTS
    TypeOK
    StaleOnlyIfExcused
PROPERTIES
    RequestsReturn
    CacheConverges
