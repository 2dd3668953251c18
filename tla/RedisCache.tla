----------------------------- MODULE RedisCache -----------------------------
(***************************************************************************)
(* internal/pkg/cache/cache.go, the four guarded Redis commands: cacheGet, *)
(* cacheSet, cacheSetNotFound and cacheDel.  Each asks the circuit breaker *)
(* first, sends one command and reports the result back to the breaker.    *)
(* A module that uses the cache EXTENDS this one and conjoins a command to *)
(* what the caller does with its outcome.                                  *)
(***************************************************************************)
EXTENDS Naturals

CONSTANTS
    None,        \* the reply to GET for a key that is not there
    Placeholder, \* the value "*": the row was looked up and does not exist
    MaxFaults    \* bound on Redis and database faults and crashes; retries are free

ASSUME MaxFaultsAssumption == MaxFaults \in Nat

VARIABLES
    store,   \* Redis: key -> value, None when the key is absent or expired
    breaker, \* "closed", "open", or "noclient" when r.Client is nil
    faults   \* faults so far

redisVars == <<store, breaker, faults>>

Breaker == {"closed", "open", "noclient"}

(***************************************************************************)
(* How a command ends.  "rejected": it was not sent (no client, or the     *)
(* breaker said no); "ok": done and answered; "failed": an error, and      *)
(* Redis did nothing; "lost": an error, but Redis had executed the command *)
(* (a read timeout or a cancelled context after the write went out).       *)
(***************************************************************************)
Outcome == {"ok", "rejected", "failed", "lost"}

Executed(o) == o \in {"ok", "lost"}
Errored(o)  == o \in {"failed", "lost"}

\* r.Client == nil or !r.accept(): the SRE breaker only ever rejects after
\* failures, and then with a probability below one.
accept(o) ==
    /\ breaker = "noclient" => o = "rejected"
    /\ o = "rejected" => breaker # "closed"

\* Failures may trip the breaker, and a cancelled context is not counted as
\* one; a success, or redis.Nil, may bring it back below its threshold.
markRedisResult(o) ==
    breaker' \in CASE o = "ok"       -> {breaker, "closed"}
                   [] o = "rejected" -> {breaker}
                   [] OTHER          -> {breaker, "open"}

Attempt(o) == accept(o) /\ markRedisResult(o)

\* A first attempt that fails is one of the MaxFaults faults.
Command(o) ==
    /\ Attempt(o)
    /\ Errored(o) => faults < MaxFaults
    /\ faults' = IF Errored(o) THEN faults + 1 ELSE faults

\* What cacheGet returns to its caller: every failure looks like a miss.
cacheGet(k, o) == IF o = "ok" THEN store[k] ELSE None

cacheSet(k, v, o) ==
    /\ Command(o)
    /\ store' = IF Executed(o) THEN [store EXCEPT ![k] = v] ELSE store

\* SET NX: an existing value is left alone.
cacheSetNotFound(k, o) ==
    /\ Command(o)
    /\ store' = IF Executed(o) /\ store[k] = None
                THEN [store EXCEPT ![k] = Placeholder]
                ELSE store

Erase(ks, o) ==
    store' = IF Executed(o)
             THEN [k \in DOMAIN store |-> IF k \in ks THEN None ELSE store[k]]
             ELSE store

cacheDel(ks, o) == Command(o) /\ Erase(ks, o)

\* A deletion tried again: whoever retries bounds the attempts himself.
cacheDelAgain(ks, o) == Attempt(o) /\ Erase(ks, o) /\ UNCHANGED faults

\* Mutation: only the placeholder gets a time to live.
ExpireKeyPlaceholder(k) ==
    /\ store[k] = Placeholder
    /\ store' = [store EXCEPT ![k] = None]
    /\ UNCHANGED <<breaker, faults>>

\* Every value is written with a time to live (two hours, or about a minute
\* for the placeholder), so Redis may drop it at any time.
ExpireKey(k) ==
    /\ store[k] # None
    /\ store' = [store EXCEPT ![k] = None]
    /\ UNCHANGED <<breaker, faults>>

\* The failures age out of the breaker's three second window.
WindowPasses ==
    /\ breaker = "open"
    /\ breaker' = "closed"
    /\ UNCHANGED <<store, faults>>
=============================================================================
