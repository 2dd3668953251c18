SPECIFICATION FairSpec
CONSTANTS
    Proc = {p1, p2}
    bob = bob
    Bob = Bob
    Names = {bob, Bob}
    Weight <- MCWeight
    None = None
    TTL = 2
    Timeout = 4
INVARIANTS
    TypeOK
    RegisteredOnce
    ExclusiveForTTL
    CheckedNameStaysFree
PROPERTIES
    OwnLockOnly
    LocksRunOut
