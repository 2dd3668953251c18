----------------------------- MODULE RateLimiter -----------------------------
(***************************************************************************)
(* internal/middleware/ratelimit: the token bucket Limiter, and the one    *)
(* instance the HTTP server uses.                                          *)
(*                                                                         *)
(* The code counts tokens in float64.  Here a token is Unit units and the  *)
(* rate is in units per tick, so that fractions of a token are integers.   *)
(***************************************************************************)
EXTENDS LimiterParams

VARIABLES
    tokens,   \* l.tokens, in units
    last,     \* l.last
    clock,    \* the time of day that callers of AddTokens read
    asked,    \* how often Allow was called
    admitted, \* history: how often Allow returned true
    mark      \* history: last and admitted as they were at some moment

vars == <<tokens, last, clock, asked, admitted, mark>>

\* NewLimiter leaves tokens and last at zero: a new bucket is empty.
NewLimiter ==
    /\ tokens = 0
    /\ last = 0

\* Allow, under l.mu: a refused request empties the bucket of its fraction.
Allow ==
    \/ /\ tokens < Unit
       /\ tokens' = 0
       /\ UNCHANGED admitted
    \/ /\ tokens >= Unit
       /\ tokens' = tokens - Unit
       /\ admitted' = admitted + 1

\* Mutation: l.last is set back by a caller whose reading of the clock is old.
AddTokensAnyOrder(now) ==
    /\ tokens' = IF now > last
                 THEN (IF tokens + (now - last) * Rate > Burst * Unit
                       THEN Burst * Unit ELSE tokens + (now - last) * Rate)
                 ELSE tokens
    /\ last' = now

\* Mutation: the bucket has no brim.
AddTokensNoCap(now) ==
    \/ /\ now > last
       /\ tokens' = tokens + (now - last) * Rate
       /\ last' = now
    \/ /\ now <= last
       /\ UNCHANGED <<tokens, last>>

\* AddTokens, under l.mu.  now was read before the lock was taken, so calls
\* may come out of order; the older ones change nothing.
AddTokens(now) ==
    \/ /\ now > last
       /\ tokens' = IF tokens + (now - last) * Rate > Burst * Unit
                    THEN Burst * Unit ELSE tokens + (now - last) * Rate
       /\ last' = now
    \/ /\ now <= last
       /\ UNCHANGED <<tokens, last>>

Request ==
    /\ asked < MaxRequests
    /\ asked' = asked + 1
    /\ Allow
    /\ UNCHANGED <<last, clock, mark>>

Refill == \E now \in 0..clock : AddTokens(now) /\ UNCHANGED <<clock, asked, admitted, mark>>

Tick == clock < MaxTime /\ clock' = clock + 1 /\ UNCHANGED <<tokens, last, asked, admitted, mark>>

\* Somebody begins to count.
Observe ==
    /\ mark' = [last |-> last, admitted |-> admitted]
    /\ UNCHANGED <<tokens, last, clock, asked, admitted>>

Init ==
    /\ NewLimiter
    /\ clock = 0
    /\ asked = 0
    /\ admitted = 0
    /\ mark = [last |-> 0, admitted |-> 0]

Next == Request \/ Refill \/ Tick \/ Observe

Spec == Init /\ [][Next]_vars

-----------------------------------------------------------------------------
\* Properties.

\* The bucket is between empty and the burst, last never runs ahead of the
\* clock or back, and no more is admitted than asked for (ratelimit.go).
TypeOK ==
    /\ tokens \in 0..(Burst * Unit)
    /\ clock \in 0..MaxTime
    /\ last \in 0..clock
    /\ asked \in 0..MaxRequests
    /\ admitted \in 0..asked
    /\ mark \in [last : 0..last, admitted : 0..admitted]

\* Over any stretch of time, however calls of Allow and AddTokens interleave
\* and whatever the order in which AddTokens sees the clock, no more requests
\* are admitted than a full bucket and what flowed in since (ratelimit.go).
NeverAboveRate ==
    (admitted - mark.admitted) * Unit + tokens <= Burst * Unit + (last - mark.last) * Rate
=============================================================================
