SPECIFICATION ShippedSpec
CONSTANTS
    Vals = {"a", "b", "B"}
    Malformed = Malformed
    Nil = Nil
    Unit = 1
    Rate = 1
    Burst = 2
    MaxTime = 2
    MaxRequests = 2
    Req = {r1, r2}
    Wires <- MCWires
    Whitelist = {"Register", "Login"}
    Expire = 1
    MaxUsers = 2
    NoName = NoName
    BadToken = BadToken
    Weight <- MCWeight
PROPERTY FirstIsAdmitted
CHECK_DEADLOCK FALSE
