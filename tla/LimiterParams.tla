---------------------------- MODULE LimiterParams ----------------------------
(***************************************************************************)
(* The parameters of the token bucket, shared by the limiter on its own    *)
(* (module RateLimiter) and by the server that uses it (module UserHTTP).  *)
(***************************************************************************)
EXTENDS Integers

CONSTANTS
    Unit,   \* units that make one token
    Rate,   \* rate, in units per tick
    Burst,  \* burst, in tokens
    MaxTime,    \* bound on the clock
    MaxRequests \* bound on the number of requests

ASSUME LimiterAssumption ==
    /\ Unit \in Nat \ {0}
    /\ Rate \in Nat
    /\ Burst \in Nat
    /\ MaxTime \in Nat
    /\ MaxRequests \in Nat
=============================================================================
