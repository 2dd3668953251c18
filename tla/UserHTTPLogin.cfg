SPECIFICATION ServedSpec
CONSTANTS
    Vals = {"a", "b", "B"}
    Malformed = Malformed
    Nil = Nil
    Unit = 1
    Rate = 2
    Burst = 2
    MaxTime = 1
    MaxRequests = 2
    Req = {r1, r2}
    Wires <- MCWires
    Whitelist = {"Register", "Login"}
    Expire = 1
    MaxUsers = 2
    NoName = NoName
    BadToken = BadToken
    Weight <- MCWeight
PROPERTY LoginGetsToken
CHECK_DEADLOCK FALSE
