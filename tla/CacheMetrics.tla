---------------------------- MODULE CacheMetrics ----------------------------
(***************************************************************************)
(* The cache counters (internal/pkg/cache: metrics.go, per_key_metrics.go, *)
(* composite_metrics.go, prometheus_metrics.go), what the lookups of Take  *)
(* and cacheTakeWithIndex count, and the log line of statLoop.             *)
(*                                                                         *)
(* NewRedis wires a CompositeMetrics of LocalMetrics and PrometheusMetrics *)
(* (cache.go:49).  PerKeyMetrics wraps a collector that it is given and    *)
(* the program gives it none; here it wraps the PrometheusMetrics, as its  *)
(* constructor is made for, and its counters say nothing of the rest.      *)
(* Every counter is atomic, every call of the collector is several atomic  *)
(* steps, and goroutines interleave between any two of them.               *)
(***************************************************************************)
EXTENDS Naturals, Sequences, FiniteSets

CONSTANTS
    Proc,      \* goroutines that look something up
    Keys,      \* cache keys
    None,      \* no entry
    MaxLookups \* bound on the number of lookups

ASSUME MetricsAssumption ==
    /\ IsFiniteSet(Proc)
    /\ None \notin Proc \X Keys /\ None \notin Keys
    /\ MaxLookups \in Nat

Event == {"hit", "miss", "dbop", "dbfail", "sf"}

\* A perKeyEntry is named after the goroutine that allocated it, which does
\* so for a key once at most: the key has an entry ever after.
Entry == Proc \X Keys

VARIABLES
    total,   \* PerKeyMetrics: its own counters
    keys,    \* PerKeyMetrics: sync.Map, key -> entry
    entries, \* the counters of the entries
    local,   \* LocalMetrics
    prom,    \* PrometheusMetrics: key -> counters
    at,      \* where each goroutine is in the call of a collector
    key,     \* the key it looks up
    todo,    \* what it has still to count, the current event first
    entry,   \* the entry it holds
    lookups, \* lookups so far
    line,    \* statLoop: what has been loaded for this line
    loads    \* statLoop: what has still to be loaded

vars == <<total, keys, entries, local, prom, at, key, todo, entry, lookups, line, loads>>

Zero == [e \in Event |-> 0]
Step == {"idle", "local", "total", "load", "store", "add", "prom"}

Count(c, e) == [c EXCEPT ![e] = @ + 1]

(***************************************************************************)
(* What one lookup counts.  Every lookup begins with Miss; a value found   *)
(* is a Hit; the leader of a flight counts a DBOp, a SingleFlight and, if  *)
(* the query fails, a DbFail; a follower counts nothing more.  A value     *)
(* that does not decode is a Hit before its request goes to the flight.    *)
(***************************************************************************)
Takes ==
    {found \o query :
        found \in {<<"miss">>, <<"miss", "hit">>},
        query \in {<<>>, <<"dbop", "sf">>, <<"dbop", "sf", "dbfail">>}}

Take(p, k, t) ==
    /\ at[p] = "idle" /\ lookups < MaxLookups
    /\ lookups' = lookups + 1
    /\ at' = [at EXCEPT ![p] = "local"]
    /\ key' = [key EXCEPT ![p] = k]
    /\ todo' = [todo EXCEPT ![p] = t]
    /\ UNCHANGED <<total, keys, entries, local, prom, entry, line, loads>>

\* p is at l of the collectors' call for its current event, and goes to m.
Goes(p, l, m) == at[p] = l /\ at' = [at EXCEPT ![p] = m]

\* CompositeMetrics calls its collectors in turn, LocalMetrics first.
AddLocal(p) ==
    /\ Goes(p, "local", "total")
    /\ local' = Count(local, Head(todo[p]))
    /\ UNCHANGED <<total, keys, entries, prom, key, todo, entry, lookups, line, loads>>

\* PerKeyMetrics.Hit, Miss, DBOp, DbFail and SingleFlight, one text for five.
AddTotal(p) ==
    /\ Goes(p, "total", "load")
    /\ total' = Count(total, Head(todo[p]))
    /\ UNCHANGED <<keys, entries, local, prom, key, todo, entry, lookups, line, loads>>

\* Mutation: getOrCreate forgets to allocate.
LoadOnly(p) ==
    /\ at[p] = "load"
    /\ Goes(p, "load", IF keys[key[p]] = None THEN "store" ELSE "add")
    /\ entry' = [entry EXCEPT ![p] = keys[key[p]]]
    /\ UNCHANGED <<total, keys, entries, local, prom, key, todo, lookups, line, loads>>

\* getOrCreate: Load, and a new entry if there is none.
Load(p) ==
    /\ at[p] = "load"
    /\ \/ /\ keys[key[p]] # None
          /\ Goes(p, "load", "add")
          /\ entry' = [entry EXCEPT ![p] = keys[key[p]]]
       \/ /\ keys[key[p]] = None
          /\ Goes(p, "load", "store")
          /\ entry' = [entry EXCEPT ![p] = <<p, key[p]>>]
    /\ UNCHANGED <<total, keys, entries, local, prom, key, todo, lookups, line, loads>>

\* Mutation: Store, whoever was there first.
StoreOver(p) ==
    /\ keys' = [keys EXCEPT ![key[p]] = entry[p]]
    /\ UNCHANGED entry

\* LoadOrStore: the first one to store wins, and the others use its entry.
LoadOrStore(p) ==
    \/ /\ keys[key[p]] = None
       /\ keys' = [keys EXCEPT ![key[p]] = entry[p]]
       /\ UNCHANGED entry
    \/ /\ keys[key[p]] # None
       /\ entry' = [entry EXCEPT ![p] = keys[key[p]]]
       /\ UNCHANGED keys

Store(p) ==
    /\ Goes(p, "store", "add")
    /\ LoadOrStore(p)
    /\ UNCHANGED <<total, entries, local, prom, key, todo, lookups, line, loads>>

AddEntry(p) ==
    /\ Goes(p, "add", "prom")
    /\ entries' = [entries EXCEPT ![entry[p]] = Count(@, Head(todo[p]))]
    /\ entry' = [entry EXCEPT ![p] = None]
    /\ UNCHANGED <<total, keys, local, prom, key, todo, lookups, line, loads>>

\* The inner collector of PerKeyMetrics, called last.
AddProm(p) ==
    /\ Goes(p, "prom", IF Len(todo[p]) = 1 THEN "idle" ELSE "local")
    /\ prom' = [prom EXCEPT ![key[p]] = Count(@, Head(todo[p]))]
    /\ todo' = [todo EXCEPT ![p] = Tail(@)]
    /\ key' = [key EXCEPT ![p] = IF Len(todo[p]) = 1 THEN None ELSE @]
    /\ UNCHANGED <<total, keys, entries, local, entry, lookups, line, loads>>

\* Mutation: the misses are read before the hits, the flights before the failures.
LogLineReversed ==
    <<"miss", "hit", "rate misses", "rate total", "rate hits", "sf", "dbfail">>

\* The order in which statLoop reads the counters.  HitRate, in the middle,
\* loads the hits and the misses for its total, and the hits once more; the
\* DBOpCount after it is compared with nothing and left out.
LogLine ==
    <<"hit", "miss", "rate total", "rate misses", "rate hits", "dbfail", "sf">>

\* The parts of a line, and the counter that is loaded for each.
counter ==
    [l \in (Event \ {"dbop"}) \cup {"rate total", "rate misses", "rate hits"} |->
        IF l \in {"rate total", "rate hits"} THEN "hit"
        ELSE IF l = "rate misses" THEN "miss" ELSE l]

NoLine == [l \in DOMAIN counter |-> 0]

\* One load of statLoop; CompositeMetrics reads from its first reader.  When
\* the line is complete it stands until the next tick of the ticker.
StatLoad ==
    /\ loads # <<>>
    /\ line' = [line EXCEPT ![Head(loads)] = local[counter[Head(loads)]]]
    /\ loads' = Tail(loads)
    /\ UNCHANGED <<total, keys, entries, local, prom, at, key, todo, entry, lookups>>

StatTick ==
    /\ loads = <<>>
    /\ loads' = LogLine
    /\ line' = NoLine
    /\ UNCHANGED <<total, keys, entries, local, prom, at, key, todo, entry, lookups>>

\* HitRate, from what it loaded, is at most q / d.
RateAtMost(q, d) == line["rate hits"] * d <= (line["rate total"] + line["rate misses"]) * q

Init ==
    /\ total = Zero
    /\ keys = [k \in Keys |-> None]
    /\ entries = [x \in Entry |-> Zero]
    /\ local = Zero
    /\ prom = [k \in Keys |-> Zero]
    /\ at = [p \in Proc |-> "idle"]
    /\ key = [p \in Proc |-> None]
    /\ todo = [p \in Proc |-> <<>>]
    /\ entry = [p \in Proc |-> None]
    /\ lookups = 0
    /\ line = NoLine
    /\ loads = LogLine

Next ==
    \/ \E p \in Proc :
          \/ \E k \in Keys, t \in Takes : Take(p, k, t)
          \/ AddLocal(p) \/ AddTotal(p) \/ Load(p) \/ Store(p) \/ AddEntry(p) \/ AddProm(p)
    \/ StatLoad
    \/ StatTick

Spec == Init /\ [][Next]_vars

-----------------------------------------------------------------------------
\* Properties.

Counters == [Event -> Nat]

\* Every variable has its type, and a goroutine inside a call of a collector
\* has an event to count and, once past getOrCreate, an entry to count it in.
TypeOK ==
    /\ total \in Counters /\ local \in Counters
    /\ line \in [DOMAIN counter -> Nat]
    /\ keys \in [Keys -> Entry \cup {None}]
    /\ entries \in [Entry -> Counters]
    /\ prom \in [Keys -> Counters]
    /\ at \in [Proc -> Step]
    /\ key \in [Proc -> Keys \cup {None}]
    /\ todo \in [Proc -> Seq(Event)]
    /\ entry \in [Proc -> Entry \cup {None}]
    /\ lookups \in 0..MaxLookups
    /\ loads \in Seq(DOMAIN counter)
    /\ \A p \in Proc : /\ at[p] # "idle" => todo[p] # <<>> /\ key[p] # None
                       /\ at[p] \in {"store", "add"} => entry[p] # None

\* The goroutines that are at one of ls, counting e.
Counting(ls, e) == {p \in Proc : at[p] \in ls /\ Head(todo[p]) = e}

EntryCount(k, e) == IF keys[k] = None THEN 0 ELSE entries[keys[k]][e]

\* No count is lost or made twice, although several goroutines may create the
\* entry of a key at once (getOrCreate): the entry is ahead of the Prometheus
\* counter of its key, and LocalMetrics of PerKeyMetrics' totals, by just the
\* calls that are between the two.
CountsAgree ==
    \A e \in Event :
       /\ \A k \in Keys : EntryCount(k, e) = prom[k][e]
             + Cardinality({p \in Counting({"prom"}, e) : key[p] = k})
       /\ local[e] = total[e] + Cardinality(Counting({"total"}, e))

\* In every line of statLoop, though its counters are loaded one by one while
\* others count: no more hits than misses (each lookup calls Miss first), no
\* more failed queries than flights, and, as a hit counts as a miss too, a hit
\* rate of at most a half, unless a hit was counted while HitRate was loading.
LinesMakeSense ==
    loads = <<>> =>
        /\ line["hit"] <= line["miss"]
        /\ line["dbfail"] <= line["sf"]
        /\ line["rate hits"] = line["rate total"] => RateAtMost(1, 2)
=============================================================================
