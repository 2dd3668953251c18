SPECIFICATION Spec
CONSTANTS
    Vals = {"a", "b", "B"}
    Malformed = Malformed
    Nil = Nil
    Unit = 2
    Rate = 3
    Burst = 2
    MaxTime = 2
    MaxRequests = 2
    Req = {r1, r2}
    Wires <- MCWires
    Whitelist = {"Register", "Login"}
    Expire = 1
    MaxUsers = 2
    NoName = NoName
    BadToken = BadToken
    Weight <- MCWeight
SYMMETRY Symmetry
INVARIANTS
    TypeOK
    NeverAboveRate
    AnswersTell
    TokensNameRegistered
    MetricsTally
CHECK_DEADLOCK FALSE
