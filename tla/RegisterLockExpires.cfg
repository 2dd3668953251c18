SPECIFICATION Spec
CONSTANTS
    Proc = {p1, p2}
    bob = bob
    Bob = Bob
    Names = {bob}
    Weight <- MCWeight
    None = None
    TTL = 1
    Timeout = 2
INVARIANT MutualExclusion
