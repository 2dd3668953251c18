------------------------- MODULE CacheMetricsProofs -------------------------
(***************************************************************************)
(* Proofs about CacheMetrics, for any finite number of goroutines and any  *)
(* number of keys and lookups.                                             *)
(***************************************************************************)
EXTENDS CacheMetrics, FiniteSetTheorems, SequenceTheorems, TLAPS

-----------------------------------------------------------------------------
\* What a lookup counts.

\* In t, every d but the first comes right behind an e.
Behind(t, d, e) == \A i \in 2..Len(t) : t[i] = d => t[i-1] = e

\* A list of events in which a hit comes right behind a miss and a failed query
\* right behind its flight, as far as one can see.
Tally(t) == t \in Seq(Event) /\ Behind(t, "hit", "miss") /\ Behind(t, "dbfail", "sf")

\* What is left of such a list is one again.
LEMMA TailTally ==
    ASSUME NEW t, Tally(t), t # <<>>
    PROVE  /\ Tally(Tail(t)) /\ Len(t) \in Nat \ {0} /\ Len(Tail(t)) = Len(t) - 1
           /\ Head(t) = t[1] /\ Head(t) \in Event
           /\ \A i \in 1..Len(Tail(t)) : Tail(t)[i] = t[i+1]
<1>1. /\ t \in Seq(Event) /\ Len(t) \in Nat \ {0} /\ Tail(t) \in Seq(Event)
      /\ Len(Tail(t)) = Len(t) - 1 /\ Head(t) = t[1] /\ Head(t) \in Event
      /\ \A i \in 1..Len(Tail(t)) : Tail(t)[i] = t[i+1]
  BY DEF Tally
<1>2. ASSUME NEW d, NEW e, Behind(t, d, e) PROVE Behind(Tail(t), d, e)
  <2> SUFFICES ASSUME NEW i \in 2..Len(Tail(t)), Tail(t)[i] = d PROVE Tail(t)[i-1] = e
    BY DEF Behind
  <2>1. i + 1 \in 2..Len(t) /\ i \in 1..Len(Tail(t)) /\ i - 1 \in 1..Len(Tail(t)) /\ (i - 1) + 1 = (i + 1) - 1
    BY <1>1
  <2>2. t[(i + 1) - 1] = e
    BY <1>1, <1>2, <2>1 DEF Behind
  <2> QED BY <1>1, <2>1, <2>2
<1> QED BY <1>1, <1>2 DEF Tally

\* Every lookup counts such a list, and begins with Miss.
LEMMA TakesTally == ASSUME NEW t \in Takes PROVE Tally(t) /\ t # <<>> /\ Head(t) = "miss"
<1>1. PICK f \in {<<"miss">>, <<"miss", "hit">>},
           q \in {<<>>, <<"dbop", "sf">>, <<"dbop", "sf", "dbfail">>} : t = f \o q
  BY DEF Takes
<1>2. /\ f \in Seq(Event) /\ Len(f) \in {1, 2} /\ f[1] = "miss"
      /\ Len(f) = 2 => f[2] = "hit"
  <2>1. CASE f = <<"miss">>
    BY <2>1 DEF Event
  <2>2. CASE f = <<"miss", "hit">>
    BY <2>2 DEF Event
  <2> QED BY <2>1, <2>2
<1>3. /\ q \in Seq(Event) /\ Len(q) \in {0, 2, 3}
      /\ Len(q) # 0 => q[1] = "dbop" /\ q[2] = "sf"
      /\ Len(q) = 3 => q[3] = "dbfail"
  <2>1. CASE q = <<>>
    BY <2>1
  <2>2. CASE q = <<"dbop", "sf">>
    BY <2>2 DEF Event
  <2>3. CASE q = <<"dbop", "sf", "dbfail">>
    BY <2>3 DEF Event
  <2> QED BY <2>1, <2>2, <2>3
<1>4. /\ t \in Seq(Event) /\ Len(t) = Len(f) + Len(q)
      /\ \A i \in 1..Len(f) + Len(q) : t[i] = IF i <= Len(f) THEN f[i] ELSE q[i - Len(f)]
  BY <1>1, <1>2, <1>3, ConcatProperties
<1>5. /\ t[1] = "miss" /\ (Len(f) = 2 => t[2] = "hit")
      /\ Len(t) \in Nat /\ Len(t) > 0 /\ Len(t) <= Len(f) + 3
  <2>1. Len(f) \in 1..2 /\ Len(q) \in 0..3 /\ Len(t) = Len(f) + Len(q)
    BY <1>2, <1>3, <1>4
  <2>2. ASSUME NEW i \in 1..Len(f) PROVE t[i] = f[i]
    <3>1. i \in 1..Len(f) + Len(q) /\ i <= Len(f)
      BY <2>1
    <3> QED BY <1>4, <3>1
  <2>3. t[1] = f[1] /\ (Len(f) = 2 => t[2] = f[2])
    BY <2>1, <2>2
  <2>4. Len(t) \in Nat /\ Len(t) > 0 /\ Len(t) <= Len(f) + 3
    <3> DEFINE n == Len(f)
               m == Len(q)
               k == Len(t)
    <3>1. n \in 1..2 /\ m \in 0..3 /\ k = n + m
      BY <2>1
    <3> HIDE DEF n, m, k
    <3>2. k \in Nat /\ k > 0 /\ k <= n + 3
      BY <3>1
    <3> QED BY <3>2 DEF n, k
  <2> QED BY <1>2, <2>3, <2>4
<1>6. ASSUME NEW i \in 1..Len(q) PROVE t[Len(f) + i] = q[i]
  <2>1. Len(f) + i \in 1..Len(f) + Len(q) /\ ~(Len(f) + i <= Len(f)) /\ (Len(f) + i) - Len(f) = i
    BY <1>2, <1>3
  <2> QED BY <1>4, <2>1
<1>7. /\ Len(q) # 0 => t[Len(f) + 1] = "dbop" /\ t[Len(f) + 2] = "sf"
      /\ Len(q) = 3 => t[Len(f) + 3] = "dbfail"
  BY <1>3, <1>6
<1>8. t # <<>> /\ Head(t) = "miss"
  <2>1. t # <<>>
    BY <1>5
  <2> QED BY <1>4, <1>5, <2>1
<1>9. ASSUME NEW i \in 2..Len(t)
      PROVE  (t[i] = "hit" => t[i-1] = "miss") /\ (t[i] = "dbfail" => t[i-1] = "sf")
  <2>1. CASE Len(f) = 1
    <3>1. i = 2 \/ i = 3 \/ i = 4
      BY <1>5, <2>1
    <3> QED BY <1>3, <1>4, <1>5, <1>7, <2>1, <3>1
  <2>2. CASE Len(f) = 2
    <3>1. i = 2 \/ i = 3 \/ i = 4 \/ i = 5
      BY <1>5, <2>2
    <3>2. i # 2 => Len(q) # 0
      BY <1>3, <1>4, <2>2
    <3>3. i = 5 => Len(q) = 3
      BY <1>3, <1>4, <2>2
    <3>4. Len(q) # 0 => t[3] = "dbop" /\ t[4] = "sf"
      BY <1>7, <2>2
    <3>5. Len(q) = 3 => t[5] = "dbfail"
      BY <1>7, <2>2
    <3> QED BY <1>5, <2>2, <3>1, <3>2, <3>3, <3>4, <3>5
  <2> QED BY <1>2, <2>1, <2>2
<1> QED BY <1>4, <1>8, <1>9 DEF Tally, Behind

-----------------------------------------------------------------------------
\* The inductive invariant.

\* What goroutines have still to count is such a list.
Tallies == \A p \in Proc : Tally(todo[p])

\* The entries: that of a key was allocated for it; a goroutine past getOrCreate
\* has the entry of its key; an entry that is not in the map counts nothing.
Owned ==
    /\ \A k \in Keys : keys[k] # None => keys[k][2] = k
    /\ \A p \in Proc : /\ at[p] = "store" => entry[p] = <<p, key[p]>>
                       /\ at[p] = "add" => entry[p] = keys[key[p]]
    /\ \A x \in Entry : keys[x[2]] # x => entries[x] = Zero

\* The goroutines between the two counters of CountsAgree.
InProm(k, e) == {p \in Proc : at[p] = "prom" /\ Head(todo[p]) = e /\ key[p] = k}
InTotal(e)   == {p \in Proc : at[p] = "total" /\ Head(todo[p]) = e}

EntriesAgree ==
    \A e \in Event, k \in Keys : EntryCount(k, e) = prom[k][e] + Cardinality(InProm(k, e))
TotalsAgree ==
    \A e \in Event : local[e] = total[e] + Cardinality(InTotal(e))

\* The goroutines that have counted an e in LocalMetrics, and will count a d for it.
Owes(d, e) ==
    {p \in Proc : \/ at[p] = "local" /\ Head(todo[p]) = d
                 \/ /\ at[p] \notin {"idle", "local"}
                    /\ Head(todo[p]) = e /\ Len(todo[p]) > 1 /\ todo[p][2] = d}

Paid ==
    /\ local["hit"] + Cardinality(Owes("hit", "miss")) <= local["miss"]
    /\ local["dbfail"] + Cardinality(Owes("dbfail", "sf")) <= local["sf"]

\* What is still to be loaded is the end of LogLine; what has been loaded has
\* been overtaken since, but what was loaded later was so for longer.
Upto(n) ==
    /\ n <= 7 /\ \A i \in 1..n : loads[i] = LogLine[7 - n + i]
    /\ line["hit"] <= local["hit"] /\ line["rate total"] <= local["hit"]
    /\ line["dbfail"] <= local["dbfail"]
    /\ n <= 5 => line["hit"] <= line["miss"]
    /\ n <= 3 => line["rate total"] <= line["rate misses"]
    /\ n <= 0 => line["dbfail"] <= line["sf"]

Lines == Upto(Len(loads))

Inv == TypeOK /\ Tallies /\ Owned /\ EntriesAgree /\ TotalsAgree /\ Paid /\ Lines

-----------------------------------------------------------------------------
\* Counting goroutines.

\* Any set of goroutines is finite; one that comes or goes is one more or less.
LEMMA ProcsFinite == ASSUME NEW S, S \subseteq Proc PROVE IsFiniteSet(S) /\ Cardinality(S) \in Nat
<1>1. IsFiniteSet(S)
  BY MetricsAssumption, FS_Subset
<1> QED BY <1>1, FS_CardinalityType

\* One more goroutine counts as one more.
LEMMA Joins ==
    ASSUME NEW S, S \subseteq Proc, NEW p \in Proc, p \notin S, NEW T, T = S \cup {p}
    PROVE  Cardinality(T) = Cardinality(S) + 1
BY ProcsFinite, FS_AddElement

\* One goroutine less counts as one less.
LEMMA Leaves ==
    ASSUME NEW S, S \subseteq Proc, NEW p \in S, NEW T, T = S \ {p}
    PROVE  Cardinality(T) = Cardinality(S) - 1
BY ProcsFinite, FS_RemoveElement

\* Count adds one to one counter.
LEMMA CountOK ==
    ASSUME NEW c \in [Event -> Nat], NEW h \in Event
    PROVE  /\ Count(c, h) \in [Event -> Nat] /\ Count(c, h)[h] = c[h] + 1
           /\ \A e \in Event : e # h => Count(c, h)[e] = c[e]
BY DEF Count

\* What was overtaken stays so.
LEMMA AtMostAtMost ==
    ASSUME NEW a \in Nat, NEW b \in Nat, NEW c \in Nat, a <= b, b <= c
    PROVE  a <= c
OBVIOUS

\* Only p takes a step.
Only(p) == \A q \in Proc \ {p} : at'[q] = at[q] /\ key'[q] = key[q] /\ todo'[q] = todo[q]

\* Steps elsewhere do not change who is between two counters.
LEMMA PromSame ==
    ASSUME NEW p \in Proc, Only(p), at[p] # "prom", at'[p] # "prom", NEW k, NEW e
    PROVE  InProm(k, e)' = InProm(k, e)
BY DEF Only, InProm

\* The same between LocalMetrics and the totals.
LEMMA TotalSame ==
    ASSUME NEW p \in Proc, Only(p), at[p] # "total", at'[p] # "total", NEW e
    PROVE  InTotal(e)' = InTotal(e)
BY DEF Only, InTotal

\* A step past LocalMetrics, of a goroutine that stays past it, pays nothing.
LEMMA OwesSame ==
    ASSUME NEW p \in Proc, Only(p), todo' = todo,
           at[p] \notin {"idle", "local"}, at'[p] \notin {"idle", "local"}, NEW d, NEW e
    PROVE  Owes(d, e)' = Owes(d, e)
BY DEF Only, Owes

\* What the invariant says of the counters does not change with them.
LEMMA EntriesSame ==
    ASSUME EntriesAgree, UNCHANGED <<keys, entries, prom>>,
           \A k \in Keys, e \in Event : InProm(k, e)' = InProm(k, e)
    PROVE  EntriesAgree'
BY DEF EntriesAgree, EntryCount

\* The same of LocalMetrics and the totals.
LEMMA TotalsSame ==
    ASSUME TotalsAgree, UNCHANGED <<local, total>>, \A e \in Event : InTotal(e)' = InTotal(e)
    PROVE  TotalsAgree'
BY DEF TotalsAgree

\* The same of what is owed.
LEMMA PaidSame ==
    ASSUME Paid, UNCHANGED local, Owes("hit", "miss")' = Owes("hit", "miss"),
           Owes("dbfail", "sf")' = Owes("dbfail", "sf")
    PROVE  Paid'
BY DEF Paid

\* The same of the line.
LEMMA LinesSame == ASSUME Lines, UNCHANGED <<local, line, loads>> PROVE Lines'
BY DEF Lines, Upto

-----------------------------------------------------------------------------
\* The goroutines' steps.

\* A lookup begins with Miss, and owes nothing.
LEMMA TakeOK ==
    ASSUME Inv, NEW p \in Proc, NEW k \in Keys, NEW t \in Takes, Take(p, k, t)
    PROVE  Inv'
<1>1. Tally(t) /\ t # <<>> /\ Head(t) = "miss" /\ t \in Seq(Event)
  BY TakesTally DEF Tally
<1>2. /\ at[p] = "idle" /\ at' = [at EXCEPT ![p] = "local"]
      /\ key' = [key EXCEPT ![p] = k] /\ todo' = [todo EXCEPT ![p] = t]
      /\ UNCHANGED <<total, keys, entries, local, prom, entry, line, loads>>
  BY DEF Take
<1>3. at \in [Proc -> Step] /\ key \in [Proc -> Keys \cup {None}] /\ todo \in [Proc -> Seq(Event)]
  BY DEF Inv, TypeOK
<1>4. Only(p) /\ at'[p] = "local" /\ todo'[p] = t /\ key'[p] = k
  BY <1>2, <1>3 DEF Only
<1>5. TypeOK'
  <2>1. k # None
    BY MetricsAssumption
  <2> QED BY <1>1, <1>2, <1>3, <1>4, <2>1, MetricsAssumption DEF Take, Inv, TypeOK, Step
<1>6. Tallies'
  BY <1>1, <1>2, <1>3 DEF Inv, Tallies
<1>7. Owned'
  BY <1>2, <1>3 DEF Inv, Owned
<1>8. EntriesAgree' /\ TotalsAgree' /\ Lines'
  BY <1>2, <1>4, PromSame, EntriesSame, TotalSame, TotalsSame, LinesSame DEF Inv
<1>9. Paid'
  <2>1. ASSUME NEW d, NEW e, d # "miss" PROVE Owes(d, e)' = Owes(d, e)
    BY <1>1, <1>2, <1>4, <2>1 DEF Owes, Only
  <2> QED BY <1>2, <2>1, PaidSame DEF Inv
<1> QED BY <1>5, <1>6, <1>7, <1>8, <1>9 DEF Inv

\* A step past LocalMetrics that changes neither who owes nor what is counted.
LEMMA CountLater ==
    ASSUME Inv, NEW p \in Proc, Only(p), todo' = todo, UNCHANGED <<local, line, loads>>,
           at[p] \notin {"idle", "local"}, at'[p] \notin {"idle", "local"}
    PROVE  Tallies' /\ Paid' /\ Lines'
BY OwesSame, PaidSame, LinesSame DEF Inv, Tallies

\* LocalMetrics counts: an e makes its goroutine owe a d at most, and a d is
\* one that was owed.
LEMMA AddLocalOK == ASSUME Inv, NEW p \in Proc, AddLocal(p) PROVE Inv'
<1> DEFINE h == Head(todo[p])
<1>1. /\ at[p] = "local" /\ at' = [at EXCEPT ![p] = "total"]
      /\ local' = [local EXCEPT ![h] = @ + 1]
      /\ UNCHANGED <<total, keys, entries, prom, key, todo, entry, lookups, line, loads>>
  BY DEF AddLocal, Goes, Count
<1>2. at \in [Proc -> Step] /\ local \in [Event -> Nat] /\ todo[p] # <<>> /\ Tally(todo[p])
  BY <1>1 DEF Inv, TypeOK, Counters, Tallies
<1>3. h \in Event
  BY <1>2, TailTally
<1>4. Only(p) /\ at'[p] = "total"
  BY <1>1, <1>2 DEF Only
<1> HIDE DEF h
<1>5. /\ local' \in [Event -> Nat] /\ local'[h] = local[h] + 1
      /\ \A e \in Event : e # h => local'[e] = local[e]
      /\ \A e \in Event : local[e] <= local'[e]
  BY <1>1, <1>2, <1>3
<1>6. TypeOK'
  BY <1>1, <1>2, <1>5 DEF Inv, TypeOK, Counters, Step
<1>7. Owned'
  BY <1>1, <1>2 DEF Inv, Owned
<1>8. EntriesAgree'
  BY <1>1, <1>4, PromSame, EntriesSame DEF Inv
<1>9. TotalsAgree'
  <2>1. ASSUME NEW e \in Event PROVE local'[e] = total'[e] + Cardinality(InTotal(e)')
    <3>0. InTotal(e) \subseteq Proc /\ local[e] = total[e] + Cardinality(InTotal(e))
          /\ Cardinality(InTotal(e)) \in Nat /\ total[e] \in Nat /\ total' = total
      BY <1>1, ProcsFinite DEF InTotal, Inv, TotalsAgree, TypeOK, Counters
    <3>1. CASE e = h
      <4>1. InTotal(e)' = InTotal(e) \cup {p} /\ p \notin InTotal(e)
        BY <1>1, <1>4, <3>1 DEF InTotal, Only, h
      <4>2. Cardinality(InTotal(e)') = Cardinality(InTotal(e)) + 1
        BY <3>0, <4>1, Joins
      <4> QED BY <1>5, <3>0, <3>1, <4>2
    <3>2. CASE e # h
      <4>1. InTotal(e)' = InTotal(e)
        BY <1>1, <1>4, <3>2 DEF InTotal, Only, h
      <4> QED BY <1>5, <3>0, <3>2, <4>1
    <3> QED BY <3>1, <3>2
  <2> QED BY <2>1 DEF TotalsAgree
<1>10. Tallies'
  BY <1>1 DEF Inv, Tallies
<1>11. ASSUME NEW d \in Event, NEW e \in Event, d # e,
              local[d] + Cardinality(Owes(d, e)) <= local[e]
       PROVE  local'[d] + Cardinality(Owes(d, e)') <= local'[e]
  <2>0. /\ Owes(d, e) \subseteq Proc /\ Cardinality(Owes(d, e)) \in Nat
        /\ local[d] \in Nat /\ local[e] \in Nat
    BY <1>2, ProcsFinite DEF Owes
  <2>1. CASE h = e
    <3>1. p \notin Owes(d, e) /\ (Owes(d, e)' = Owes(d, e) \/ Owes(d, e)' = Owes(d, e) \cup {p})
      BY <1>1, <1>4, <1>11, <2>1 DEF Owes, Only, h
    <3>2. Cardinality(Owes(d, e) \cup {p}) = Cardinality(Owes(d, e)) + 1
      BY <2>0, <3>1, Joins
    <3>3. Cardinality(Owes(d, e)') = Cardinality(Owes(d, e))
          \/ Cardinality(Owes(d, e)') = Cardinality(Owes(d, e)) + 1
      BY <3>1, <3>2
    <3>4. local'[e] = local[e] + 1 /\ local'[d] = local[d]
      BY <1>5, <1>11, <2>1
    <3> QED BY <1>11, <2>0, <3>3, <3>4
  <2>2. CASE h = d
    <3>1. p \in Owes(d, e) /\ Owes(d, e)' = Owes(d, e) \ {p}
      BY <1>1, <1>4, <1>11, <2>2 DEF Owes, Only, h
    <3>2. Cardinality(Owes(d, e)') = Cardinality(Owes(d, e)) - 1
      BY <2>0, <3>1, Leaves
    <3>3. local'[d] = local[d] + 1 /\ local'[e] = local[e]
      BY <1>5, <1>11, <2>2
    <3> QED BY <1>11, <2>0, <3>2, <3>3
  <2>3. CASE h # d /\ h # e
    <3>1. Owes(d, e)' = Owes(d, e)
      BY <1>1, <1>4, <1>11, <2>3 DEF Owes, Only, h
    <3> QED BY <1>5, <1>11, <2>3, <3>1
  <2> QED BY <2>1, <2>2, <2>3
<1>12. Paid'
  BY <1>11 DEF Inv, Paid, Event
<1>13. Lines'
  <2>1. line["hit"] \in Nat /\ line["rate total"] \in Nat /\ line["dbfail"] \in Nat
    BY DEF Inv, TypeOK, counter, Event
  <2>2. /\ local["hit"] \in Nat /\ local'["hit"] \in Nat /\ local["hit"] <= local'["hit"]
        /\ local["dbfail"] \in Nat /\ local'["dbfail"] \in Nat /\ local["dbfail"] <= local'["dbfail"]
    BY <1>2, <1>5 DEF Event
  <2>3. /\ line["hit"] <= local["hit"] /\ line["rate total"] <= local["hit"]
        /\ line["dbfail"] <= local["dbfail"]
    BY DEF Inv, Lines, Upto
  <2>4. /\ line["hit"] <= local'["hit"] /\ line["rate total"] <= local'["hit"]
        /\ line["dbfail"] <= local'["dbfail"]
    BY <2>1, <2>2, <2>3, AtMostAtMost
  <2> QED BY <1>1, <2>4 DEF Inv, Lines, Upto
<1> QED BY <1>6, <1>7, <1>8, <1>9, <1>10, <1>12, <1>13 DEF Inv

\* PerKeyMetrics counts in its total what LocalMetrics has counted.
LEMMA AddTotalOK == ASSUME Inv, NEW p \in Proc, AddTotal(p) PROVE Inv'
<1> DEFINE h == Head(todo[p])
<1>1. /\ at[p] = "total" /\ at' = [at EXCEPT ![p] = "load"]
      /\ total' = [total EXCEPT ![h] = @ + 1]
      /\ UNCHANGED <<keys, entries, local, prom, key, todo, entry, lookups, line, loads>>
  BY DEF AddTotal, Goes, Count
<1>2. at \in [Proc -> Step] /\ total \in [Event -> Nat] /\ todo[p] # <<>> /\ Tally(todo[p])
  BY <1>1 DEF Inv, TypeOK, Counters, Tallies
<1>3. h \in Event
  BY <1>2, TailTally
<1>4. Only(p) /\ at'[p] = "load"
  BY <1>1, <1>2 DEF Only
<1> HIDE DEF h
<1>5. /\ total' \in [Event -> Nat] /\ total'[h] = total[h] + 1
      /\ \A e \in Event : e # h => total'[e] = total[e]
  BY <1>1, <1>2, <1>3
<1>6. TypeOK'
  BY <1>1, <1>2, <1>5 DEF Inv, TypeOK, Counters, Step
<1>7. Owned'
  BY <1>1, <1>2 DEF Inv, Owned
<1>8. EntriesAgree'
  BY <1>1, <1>4, PromSame, EntriesSame DEF Inv
<1>9. TotalsAgree'
  <2>1. ASSUME NEW e \in Event PROVE local'[e] = total'[e] + Cardinality(InTotal(e)')
    <3>0. InTotal(e) \subseteq Proc /\ local[e] = total[e] + Cardinality(InTotal(e))
          /\ Cardinality(InTotal(e)) \in Nat /\ total[e] \in Nat /\ local' = local
      BY <1>1, ProcsFinite DEF InTotal, Inv, TotalsAgree, TypeOK, Counters
    <3>1. CASE e = h
      <4>1. InTotal(e)' = InTotal(e) \ {p} /\ p \in InTotal(e)
        BY <1>1, <1>4, <3>1 DEF InTotal, Only, h
      <4>2. Cardinality(InTotal(e)') = Cardinality(InTotal(e)) - 1
        BY <3>0, <4>1, Leaves
      <4> QED BY <1>5, <3>0, <3>1, <4>2
    <3>2. CASE e # h
      <4>1. InTotal(e)' = InTotal(e)
        BY <1>1, <1>4, <3>2 DEF InTotal, Only, h
      <4> QED BY <1>5, <3>0, <3>2, <4>1
    <3> QED BY <3>1, <3>2
  <2> QED BY <2>1 DEF TotalsAgree
<1>10. Tallies' /\ Paid' /\ Lines'
  BY <1>1, <1>4, CountLater
<1> QED BY <1>6, <1>7, <1>8, <1>9, <1>10 DEF Inv

\* getOrCreate, its Load: the entry of the key, or one of its own.
LEMMA LoadOK == ASSUME Inv, NEW p \in Proc, Load(p) PROVE Inv'
<1>1. /\ at[p] = "load"
      /\ \/ /\ keys[key[p]] # None /\ at' = [at EXCEPT ![p] = "add"]
            /\ entry' = [entry EXCEPT ![p] = keys[key[p]]]
         \/ /\ at' = [at EXCEPT ![p] = "store"]
            /\ entry' = [entry EXCEPT ![p] = <<p, key[p]>>]
      /\ UNCHANGED <<total, keys, entries, local, prom, key, todo, lookups, line, loads>>
  BY DEF Load, Goes
<1>2. /\ at \in [Proc -> Step] /\ entry \in [Proc -> Entry \cup {None}]
      /\ keys \in [Keys -> Entry \cup {None}] /\ key[p] \in Keys
  BY <1>1 DEF Inv, TypeOK
<1>3. Only(p) /\ at'[p] \in {"add", "store"}
  BY <1>1, <1>2 DEF Only
<1>4. <<p, key[p]>> \in Entry /\ <<p, key[p]>> # None
  BY <1>2, MetricsAssumption DEF Entry
<1>5. TypeOK'
  <2>1. at' \in [Proc -> Step] /\ entry' \in [Proc -> Entry \cup {None}]
    BY <1>1, <1>2, <1>4 DEF Step
  <2>2. \A q \in Proc : /\ at'[q] # "idle" => todo'[q] # <<>> /\ key'[q] # None
                        /\ at'[q] \in {"store", "add"} => entry'[q] # None
    BY <1>1, <1>2, <1>4 DEF Inv, TypeOK
  <2> QED BY <1>1, <2>1, <2>2 DEF Inv, TypeOK
<1>6. Owned'
  BY <1>1, <1>2 DEF Inv, Owned
<1>7. EntriesAgree' /\ TotalsAgree'
  BY <1>1, <1>3, PromSame, EntriesSame, TotalSame, TotalsSame DEF Inv
<1>8. Tallies' /\ Paid' /\ Lines'
  BY <1>1, <1>3, CountLater
<1> QED BY <1>5, <1>6, <1>7, <1>8 DEF Inv

\* LoadOrStore: a new entry counts nothing yet, and the first one stays.
LEMMA StoreOK == ASSUME Inv, NEW p \in Proc, Store(p) PROVE Inv'
<1> DEFINE k == key[p]
<1>1. /\ at[p] = "store" /\ at' = [at EXCEPT ![p] = "add"]
      /\ \/ keys[k] = None /\ keys' = [keys EXCEPT ![k] = entry[p]] /\ entry' = entry
         \/ keys[k] # None /\ keys' = keys /\ entry' = [entry EXCEPT ![p] = keys[k]]
      /\ UNCHANGED <<total, entries, local, prom, key, todo, lookups, line, loads>>
  BY DEF Store, Goes, LoadOrStore
<1>2. /\ at \in [Proc -> Step] /\ entry \in [Proc -> Entry \cup {None}]
      /\ keys \in [Keys -> Entry \cup {None}] /\ k \in Keys
      /\ entry[p] = <<p, k>> /\ entry[p] \in Entry /\ entry[p] # None
  BY <1>1 DEF Inv, TypeOK, Owned
<1>3. Only(p) /\ at'[p] = "add"
  BY <1>1, <1>2 DEF Only
<1> HIDE DEF k
<1>4. TypeOK'
  <2>1. at' \in [Proc -> Step] /\ entry' \in [Proc -> Entry \cup {None}]
        /\ keys' \in [Keys -> Entry \cup {None}]
    BY <1>1, <1>2 DEF Step
  <2>2. \A q \in Proc : /\ at'[q] # "idle" => todo'[q] # <<>> /\ key'[q] # None
                        /\ at'[q] \in {"store", "add"} => entry'[q] # None
    BY <1>1, <1>2 DEF Inv, TypeOK
  <2> QED BY <1>1, <2>1, <2>2 DEF Inv, TypeOK
<1>5. CASE keys[k] = None
  <2>1. keys' = [keys EXCEPT ![k] = <<p, k>>] /\ entry' = entry
    BY <1>1, <1>2, <1>5
  <2>2. keys'[k] = <<p, k>> /\ <<p, k>>[2] = k /\ \A l \in Keys : l # k => keys'[l] = keys[l]
    BY <1>2, <2>1
  <2>3. entries[<<p, k>>] = Zero
    BY <1>2, <1>5 DEF Inv, Owned
  <2>4. Owned'
    <3>1. \A l \in Keys : keys'[l] # None => keys'[l][2] = l
      BY <2>2 DEF Inv, Owned
    <3>2. ASSUME NEW q \in Proc
          PROVE  /\ at'[q] = "store" => entry'[q] = <<q, key'[q]>>
                 /\ at'[q] = "add" => entry'[q] = keys'[key'[q]]
      <4>1. CASE q = p
        BY <1>1, <1>2, <1>3, <2>1, <2>2, <4>1 DEF k
      <4>2. CASE q # p
        <5>1. at[q] = "add" => entry[q] = keys[key[q]] /\ key[q] \in Keys /\ entry[q] # None
          BY DEF Inv, Owned, TypeOK
        <5>2. at[q] = "add" => key[q] # k
          BY <1>5, <5>1
        <5> QED BY <1>1, <1>2, <2>1, <2>2, <4>2, <5>1, <5>2 DEF Inv, Owned
      <4> QED BY <4>1, <4>2
    <3>3. ASSUME NEW x \in Entry, keys'[x[2]] # x PROVE entries'[x] = Zero
      <4>1. x[2] \in Keys
        BY DEF Entry
      <4>2. CASE x[2] = k
        <5>1. x # None
          BY MetricsAssumption DEF Entry
        <5> QED BY <1>1, <1>5, <4>2, <5>1 DEF Inv, Owned
      <4>3. CASE x[2] # k
        BY <1>1, <2>2, <3>3, <4>1, <4>3 DEF Inv, Owned
      <4> QED BY <4>2, <4>3
    <3> QED BY <3>1, <3>2, <3>3 DEF Owned
  <2>5. ASSUME NEW l \in Keys, NEW e \in Event PROVE EntryCount(l, e)' = EntryCount(l, e)
    <3>1. CASE l = k
      BY <1>1, <1>2, <1>5, <2>2, <2>3, <3>1 DEF EntryCount, Zero
    <3>2. CASE l # k
      BY <1>1, <2>2, <3>2 DEF EntryCount
    <3> QED BY <3>1, <3>2
  <2>6. EntriesAgree'
    BY <1>1, <1>3, <2>5, PromSame DEF Inv, EntriesAgree
  <2> QED BY <2>4, <2>6, <1>1, <1>3, <1>4, TotalSame, TotalsSame, CountLater DEF Inv
<1>6. CASE keys[k] # None
  <2>1. Owned'
    BY <1>1, <1>2, <1>6 DEF Inv, Owned, k
  <2>2. EntriesAgree'
    BY <1>1, <1>3, <1>6, PromSame, EntriesSame DEF Inv
  <2> QED BY <2>1, <2>2, <1>1, <1>3, <1>4, TotalSame, TotalsSame, CountLater DEF Inv
<1> QED BY <1>5, <1>6

\* The entry that is counted in is the one in the map.
LEMMA AddEntryOK == ASSUME Inv, NEW p \in Proc, AddEntry(p) PROVE Inv'
<1> DEFINE h == Head(todo[p])
           k == key[p]
<1>1. /\ at[p] = "add" /\ at' = [at EXCEPT ![p] = "prom"]
      /\ entries' = [entries EXCEPT ![entry[p]] = Count(entries[entry[p]], h)]
      /\ entry' = [entry EXCEPT ![p] = None]
      /\ UNCHANGED <<total, keys, local, prom, key, todo, lookups, line, loads>>
  BY DEF AddEntry, Goes
<1>2. /\ at \in [Proc -> Step] /\ entry \in [Proc -> Entry \cup {None}]
      /\ keys \in [Keys -> Entry \cup {None}] /\ k \in Keys
      /\ entries \in [Entry -> [Event -> Nat]] /\ prom \in [Keys -> [Event -> Nat]]
      /\ todo[p] # <<>> /\ Tally(todo[p])
      /\ entry[p] = keys[k] /\ keys[k] \in Entry /\ keys[k] # None
  BY <1>1 DEF Inv, TypeOK, Counters, Tallies, Owned
<1>3. h \in Event
  BY <1>2, TailTally
<1>4. Only(p) /\ at'[p] = "prom"
  BY <1>1, <1>2 DEF Only
<1>5. \A l \in Keys : keys[l] # None => keys[l][2] = l
  BY DEF Inv, Owned
<1> HIDE DEF h, k
<1>6. /\ entries' \in [Entry -> [Event -> Nat]]
      /\ entries'[keys[k]][h] = entries[keys[k]][h] + 1
      /\ \A e \in Event : e # h => entries'[keys[k]][e] = entries[keys[k]][e]
      /\ \A x \in Entry : x # keys[k] => entries'[x] = entries[x]
  <2> DEFINE c == Count(entries[keys[k]], h)
  <2>1. c \in [Event -> Nat] /\ c[h] = entries[keys[k]][h] + 1
        /\ \A e \in Event : e # h => c[e] = entries[keys[k]][e]
    BY <1>2, <1>3, CountOK
  <2> HIDE DEF c
  <2>2. entries' = [entries EXCEPT ![keys[k]] = c]
    BY <1>1, <1>2 DEF c
  <2> QED BY <1>2, <2>1, <2>2
<1>7. TypeOK'
  <2>1. at' \in [Proc -> Step] /\ entry' \in [Proc -> Entry \cup {None}]
    BY <1>1, <1>2 DEF Step
  <2>2. \A q \in Proc : /\ at'[q] # "idle" => todo'[q] # <<>> /\ key'[q] # None
                        /\ at'[q] \in {"store", "add"} => entry'[q] # None
    BY <1>1, <1>2 DEF Inv, TypeOK
  <2> QED BY <1>1, <1>6, <2>1, <2>2 DEF Inv, TypeOK, Counters
<1>8. Owned'
  <2>1. \A q \in Proc : /\ at'[q] = "store" => entry'[q] = <<q, key'[q]>>
                        /\ at'[q] = "add" => entry'[q] = keys'[key'[q]]
    BY <1>1, <1>2 DEF Inv, Owned
  <2>2. ASSUME NEW x \in Entry, keys[x[2]] # x PROVE entries'[x] = Zero
    <3>1. x # keys[k]
      BY <1>2, <1>5, <2>2
    <3> QED BY <1>6, <2>2, <3>1 DEF Inv, Owned
  <2> QED BY <1>1, <1>5, <2>1, <2>2 DEF Owned
<1>9. EntriesAgree'
  <2>1. ASSUME NEW l \in Keys, NEW e \in Event
        PROVE  EntryCount(l, e)' = prom'[l][e] + Cardinality(InProm(l, e)')
    <3>0. /\ InProm(l, e) \subseteq Proc /\ Cardinality(InProm(l, e)) \in Nat
          /\ EntryCount(l, e) = prom[l][e] + Cardinality(InProm(l, e))
          /\ prom' = prom /\ prom[l][e] \in Nat
      BY <1>1, <1>2, ProcsFinite DEF InProm, Inv, EntriesAgree
    <3>1. CASE l = k /\ e = h
      <4>1. InProm(l, e)' = InProm(l, e) \cup {p} /\ p \notin InProm(l, e)
        BY <1>1, <1>4, <3>1 DEF InProm, Only, h, k
      <4>2. Cardinality(InProm(l, e)') = Cardinality(InProm(l, e)) + 1
        BY <3>0, <4>1, Joins
      <4>3. EntryCount(l, e)' = EntryCount(l, e) + 1
        BY <1>1, <1>2, <1>6, <3>1 DEF EntryCount
      <4> QED BY <3>0, <4>2, <4>3
    <3>2. CASE ~(l = k /\ e = h)
      <4>1. InProm(l, e)' = InProm(l, e)
        BY <1>1, <1>4, <3>2 DEF InProm, Only, h, k
      <4>2. l # k => keys[l] # keys[k]
        BY <1>2, <1>5
      <4>3. keys[l] # None => keys[l] \in Entry
        BY <1>2
      <4>4. EntryCount(l, e)' = EntryCount(l, e)
        <5>1. CASE l = k
          BY <1>1, <1>6, <3>2, <5>1 DEF EntryCount
        <5>2. CASE l # k
          BY <1>1, <1>6, <4>2, <4>3, <5>2 DEF EntryCount
        <5> QED BY <5>1, <5>2
      <4> QED BY <3>0, <4>1, <4>4
    <3> QED BY <3>1, <3>2
  <2> QED BY <2>1 DEF EntriesAgree
<1>10. TotalsAgree'
  BY <1>1, <1>4, TotalSame, TotalsSame DEF Inv
<1>11. Tallies' /\ Paid' /\ Lines'
  BY <1>1, <1>4, CountLater
<1> QED BY <1>7, <1>8, <1>9, <1>10, <1>11 DEF Inv

\* Prometheus counts last; whoever has counted a miss goes on to the hit that
\* it owes.
LEMMA AddPromOK == ASSUME Inv, NEW p \in Proc, AddProm(p) PROVE Inv'
<1> DEFINE h == Head(todo[p])
           k == key[p]
           rest == Tail(todo[p])
<1>1. /\ at[p] = "prom"
      /\ at' = [at EXCEPT ![p] = IF Len(todo[p]) = 1 THEN "idle" ELSE "local"]
      /\ prom' = [prom EXCEPT ![k] = Count(prom[k], h)]
      /\ todo' = [todo EXCEPT ![p] = rest]
      /\ key' = [key EXCEPT ![p] = IF Len(todo[p]) = 1 THEN None ELSE @]
      /\ UNCHANGED <<total, keys, entries, local, entry, lookups, line, loads>>
  BY DEF AddProm, Goes
<1>2. /\ at \in [Proc -> Step] /\ key \in [Proc -> Keys \cup {None}] /\ k \in Keys
      /\ todo \in [Proc -> Seq(Event)] /\ prom \in [Keys -> [Event -> Nat]]
      /\ todo[p] # <<>> /\ Tally(todo[p]) /\ k # None
  BY <1>1, MetricsAssumption DEF Inv, TypeOK, Counters, Tallies
<1>3. /\ h \in Event /\ h = todo[p][1] /\ Tally(rest) /\ rest \in Seq(Event)
      /\ Len(todo[p]) \in Nat \ {0} /\ Len(rest) = Len(todo[p]) - 1
      /\ Len(todo[p]) # 1 => rest # <<>> /\ Head(rest) = todo[p][2]
  <2>1. /\ h \in Event /\ h = todo[p][1] /\ Tally(rest)
        /\ Len(todo[p]) \in Nat \ {0} /\ Len(rest) = Len(todo[p]) - 1
        /\ \A i \in 1..Len(rest) : rest[i] = todo[p][i+1]
    BY <1>2, TailTally
  <2> HIDE DEF h, rest
  <2>2. rest \in Seq(Event)
    BY <2>1 DEF Tally
  <2>3. ASSUME Len(todo[p]) # 1 PROVE rest # <<>> /\ Head(rest) = todo[p][2]
    <3>1. Len(rest) # 0 /\ 1 \in 1..Len(rest)
      <4> DEFINE n == Len(todo[p])
                 m == Len(rest)
      <4>1. n \in Nat \ {0} /\ m = n - 1 /\ n # 1
        BY <2>1, <2>3
      <4> HIDE DEF n, m
      <4>2. m # 0 /\ 1 \in 1..m
        BY <4>1
      <4> QED BY <4>2 DEF m
    <3>2. rest # <<>>
      BY <2>2, <3>1
    <3>3. Head(rest) = rest[1]
      BY <2>2, <3>2
    <3> QED BY <2>1, <3>1, <3>2, <3>3
  <2> QED BY <2>1, <2>2, <2>3
<1>4. /\ Only(p) /\ at'[p] = (IF Len(todo[p]) = 1 THEN "idle" ELSE "local")
      /\ todo'[p] = rest /\ key'[p] = (IF Len(todo[p]) = 1 THEN None ELSE k)
  BY <1>1, <1>2 DEF Only
<1> HIDE DEF h, k, rest
<1>5. /\ prom' \in [Keys -> [Event -> Nat]]
      /\ prom'[k][h] = prom[k][h] + 1
      /\ \A e \in Event : e # h => prom'[k][e] = prom[k][e]
      /\ \A l \in Keys : l # k => prom'[l] = prom[l]
  <2> DEFINE c == Count(prom[k], h)
  <2>1. c \in [Event -> Nat] /\ c[h] = prom[k][h] + 1
        /\ \A e \in Event : e # h => c[e] = prom[k][e]
    BY <1>2, <1>3, CountOK
  <2> HIDE DEF c
  <2>2. prom' = [prom EXCEPT ![k] = c]
    BY <1>1 DEF c
  <2> QED BY <1>2, <2>1, <2>2
<1>6. TypeOK'
  <2>1. /\ at' \in [Proc -> Step] /\ key' \in [Proc -> Keys \cup {None}]
        /\ todo' \in [Proc -> Seq(Event)]
    BY <1>1, <1>2, <1>3 DEF Step
  <2>2. ASSUME NEW q \in Proc
        PROVE  /\ at'[q] # "idle" => todo'[q] # <<>> /\ key'[q] # None
               /\ at'[q] \in {"store", "add"} => entry'[q] # None
    <3>1. CASE q = p
      BY <1>2, <1>3, <1>4, <3>1
    <3>2. CASE q # p
      BY <1>1, <1>4, <3>2 DEF Only, Inv, TypeOK
    <3> QED BY <3>1, <3>2
  <2> QED BY <1>1, <1>5, <2>1, <2>2 DEF Inv, TypeOK, Counters
<1>7. Tallies'
  BY <1>1, <1>2, <1>3 DEF Inv, Tallies
<1>8. Owned'
  <2>1. ASSUME NEW q \in Proc
        PROVE  /\ at'[q] = "store" => entry'[q] = <<q, key'[q]>>
               /\ at'[q] = "add" => entry'[q] = keys'[key'[q]]
    <3>1. CASE q = p
      BY <1>4, <3>1
    <3>2. CASE q # p
      BY <1>1, <1>4, <3>2 DEF Only, Inv, Owned
    <3> QED BY <3>1, <3>2
  <2> QED BY <1>1, <2>1 DEF Inv, Owned
<1>9. EntriesAgree'
  <2>1. ASSUME NEW l \in Keys, NEW e \in Event
        PROVE  EntryCount(l, e)' = prom'[l][e] + Cardinality(InProm(l, e)')
    <3>0. /\ InProm(l, e) \subseteq Proc /\ Cardinality(InProm(l, e)) \in Nat
          /\ EntryCount(l, e) = prom[l][e] + Cardinality(InProm(l, e))
          /\ EntryCount(l, e)' = EntryCount(l, e) /\ prom[l][e] \in Nat
      BY <1>1, <1>2, ProcsFinite DEF InProm, Inv, EntriesAgree, EntryCount
    <3>1. CASE l = k /\ e = h
      <4>1. InProm(l, e)' = InProm(l, e) \ {p} /\ p \in InProm(l, e)
        BY <1>1, <1>4, <3>1 DEF InProm, Only, h, k
      <4>2. Cardinality(InProm(l, e)') = Cardinality(InProm(l, e)) - 1
        BY <3>0, <4>1, Leaves
      <4>3. prom'[l][e] = prom[l][e] + 1
        BY <1>5, <3>1
      <4> QED BY <3>0, <4>2, <4>3
    <3>2. CASE ~(l = k /\ e = h)
      <4>1. InProm(l, e)' = InProm(l, e)
        BY <1>1, <1>4, <3>2 DEF InProm, Only, h, k
      <4>2. prom'[l][e] = prom[l][e]
        BY <1>5, <3>2
      <4> QED BY <3>0, <4>1, <4>2
    <3> QED BY <3>1, <3>2
  <2> QED BY <2>1 DEF EntriesAgree
<1>10. TotalsAgree' /\ Lines'
  BY <1>1, <1>4, TotalSame, TotalsSame, LinesSame DEF Inv
<1>11. Paid'
  <2>1. ASSUME NEW d, NEW e, Behind(todo[p], d, e) PROVE Owes(d, e)' = Owes(d, e)
    <3>1. Len(todo[p]) # 1 => Len(todo[p]) > 1 /\ (todo[p][2] = d => h = e)
      BY <1>3, <2>1 DEF Behind
    <3>2. p \in Owes(d, e)' <=> p \in Owes(d, e)
      BY <1>1, <1>3, <1>4, <3>1 DEF Owes, h
    <3>3. ASSUME NEW q \in Proc, q # p PROVE q \in Owes(d, e)' <=> q \in Owes(d, e)
      BY <1>4, <3>3 DEF Owes, Only
    <3>4. Owes(d, e) \subseteq Proc /\ Owes(d, e)' \subseteq Proc
      BY DEF Owes
    <3> QED BY <3>2, <3>3, <3>4
  <2> QED BY <1>1, <1>2, <2>1, PaidSame DEF Inv, Tally
<1> QED BY <1>6, <1>7, <1>8, <1>9, <1>10, <1>11 DEF Inv
-----------------------------------------------------------------------------
\* The steps of statLoop.

\* A load of the line in any order of the others' steps: what is loaded for the
\* second of two counters that go together is loaded after the first.
LEMMA StatLoadOK == ASSUME Inv, StatLoad PROVE Inv'
<1> DEFINE n == Len(loads)
           h == Head(loads)
<1>1. /\ loads # <<>> /\ line' = [line EXCEPT ![h] = local[counter[h]]] /\ loads' = Tail(loads)
      /\ UNCHANGED <<total, keys, entries, local, prom, at, key, todo, entry, lookups>>
  BY DEF StatLoad
<1>2. /\ loads \in Seq(DOMAIN counter) /\ line \in [DOMAIN counter -> Nat]
      /\ local \in [Event -> Nat]
  BY DEF Inv, TypeOK, Counters
<1>3. /\ n \in 1..7 /\ h = loads[1] /\ h \in DOMAIN counter /\ Tail(loads) \in Seq(DOMAIN counter)
      /\ Len(Tail(loads)) = n - 1
      /\ \A i \in 1..(n - 1) : Tail(loads)[i] = loads[i + 1]
  <2>1. /\ n \in Nat /\ n # 0 /\ h = loads[1] /\ h \in DOMAIN counter
        /\ Tail(loads) \in Seq(DOMAIN counter) /\ Len(Tail(loads)) = n - 1
        /\ \A i \in 1..Len(Tail(loads)) : Tail(loads)[i] = loads[i + 1]
    BY <1>1, <1>2
  <2>2. n <= 7
    BY DEF Inv, Lines, Upto
  <2> HIDE DEF n, h
  <2>3. n \in 1..7
    BY <2>1, <2>2
  <2> QED BY <2>1, <2>3
<1>4. h = LogLine[8 - n] /\ \A i \in 1..n : loads[i] = LogLine[7 - n + i]
  <2>1. \A i \in 1..n : loads[i] = LogLine[7 - n + i]
    BY DEF Inv, Lines, Upto
  <2> HIDE DEF n, h
  <2>2. 1 \in 1..n /\ 7 - n + 1 = 8 - n
    BY <1>3
  <2> QED BY <1>3, <2>1, <2>2
<1>5. \A i \in 1..(n - 1) : Tail(loads)[i] = LogLine[7 - (n - 1) + i]
  BY <1>3, <1>4
<1>6. /\ counter["hit"] = "hit" /\ counter["miss"] = "miss" /\ counter["rate total"] = "hit"
      /\ counter["rate misses"] = "miss" /\ counter["rate hits"] = "hit"
      /\ counter["dbfail"] = "dbfail" /\ counter["sf"] = "sf"
      /\ DOMAIN counter = {"hit", "miss", "dbfail", "sf", "rate total", "rate misses", "rate hits"}
  BY DEF counter, Event
<1>7. /\ LogLine[1] = "hit" /\ LogLine[2] = "miss" /\ LogLine[3] = "rate total"
      /\ LogLine[4] = "rate misses" /\ LogLine[5] = "rate hits" /\ LogLine[6] = "dbfail"
      /\ LogLine[7] = "sf"
  BY DEF LogLine
<1>8. /\ local["hit"] \in Nat /\ local["miss"] \in Nat /\ local["dbfail"] \in Nat /\ local["sf"] \in Nat
      /\ local["hit"] <= local["miss"] /\ local["dbfail"] <= local["sf"]
  <2>1. Cardinality(Owes("hit", "miss")) \in Nat /\ Cardinality(Owes("dbfail", "sf")) \in Nat
    BY ProcsFinite DEF Owes
  <2>2. /\ local["hit"] \in Nat /\ local["miss"] \in Nat /\ local["dbfail"] \in Nat /\ local["sf"] \in Nat
    BY <1>2 DEF Event
  <2> QED BY <2>1, <2>2 DEF Inv, Paid
<1>9. /\ line["hit"] <= local["hit"] /\ line["rate total"] <= local["hit"]
      /\ line["dbfail"] <= local["dbfail"]
      /\ n <= 5 => line["hit"] <= line["miss"]
      /\ n <= 3 => line["rate total"] <= line["rate misses"]
      /\ n <= 0 => line["dbfail"] <= line["sf"]
  BY DEF Inv, Lines, Upto
<1> HIDE DEF n, h
<1>10. /\ line' \in [DOMAIN counter -> Nat] /\ line'[h] = local[counter[h]]
       /\ \A l \in {"hit", "miss", "dbfail", "sf", "rate total", "rate misses", "rate hits"} :
             line[l] \in Nat /\ (l # h => line'[l] = line[l])
  <2>1. local[counter[h]] \in Nat
    BY <1>3, <1>6, <1>8
  <2> QED BY <1>1, <1>2, <1>3, <1>6, <2>1
<1>11. /\ line'["hit"] <= local["hit"] /\ line'["rate total"] <= local["hit"]
       /\ line'["dbfail"] <= local["dbfail"]
       /\ n - 1 <= 5 => line'["hit"] <= line'["miss"]
       /\ n - 1 <= 3 => line'["rate total"] <= line'["rate misses"]
       /\ n - 1 <= 0 => line'["dbfail"] <= line'["sf"]
  <2> DEFINE H == local["hit"]
             M == local["miss"]
             F == local["dbfail"]
             S == local["sf"]
             a == line["hit"]
             a1 == line'["hit"]
             b == line["miss"]
             b1 == line'["miss"]
             c == line["rate total"]
             c1 == line'["rate total"]
             d == line["rate misses"]
             d1 == line'["rate misses"]
             e == line["dbfail"]
             e1 == line'["dbfail"]
             f == line["sf"]
             f1 == line'["sf"]
  <2>1. /\ H \in Nat /\ M \in Nat /\ F \in Nat /\ S \in Nat /\ H <= M /\ F <= S
    BY <1>8
  <2>2. /\ a \in Nat /\ b \in Nat /\ c \in Nat /\ d \in Nat /\ e \in Nat /\ f \in Nat
    BY <1>10
  <2>3. /\ a <= H /\ c <= H /\ e <= F
        /\ (n <= 5 => a <= b) /\ (n <= 3 => c <= d) /\ (n <= 0 => e <= f)
    BY <1>9
  <2>5. ASSUME n = 7 PROVE a1 = H /\ b1 = b /\ c1 = c /\ d1 = d /\ e1 = e /\ f1 = f
    <3>1. h = "hit"
      <4>1. 8 - n = 1
        BY <2>5
      <4> QED BY <1>4, <1>7, <4>1
    <3> QED BY <1>6, <1>10, <3>1
  <2>6. ASSUME n = 6 PROVE a1 = a /\ b1 = M /\ c1 = c /\ d1 = d /\ e1 = e /\ f1 = f
    <3>1. h = "miss"
      <4>1. 8 - n = 2
        BY <2>6
      <4> QED BY <1>4, <1>7, <4>1
    <3> QED BY <1>6, <1>10, <3>1
  <2>7. ASSUME n = 5 PROVE a1 = a /\ b1 = b /\ c1 = H /\ d1 = d /\ e1 = e /\ f1 = f
    <3>1. h = "rate total"
      <4>1. 8 - n = 3
        BY <2>7
      <4> QED BY <1>4, <1>7, <4>1
    <3> QED BY <1>6, <1>10, <3>1
  <2>8. ASSUME n = 4 PROVE a1 = a /\ b1 = b /\ c1 = c /\ d1 = M /\ e1 = e /\ f1 = f
    <3>1. h = "rate misses"
      <4>1. 8 - n = 4
        BY <2>8
      <4> QED BY <1>4, <1>7, <4>1
    <3> QED BY <1>6, <1>10, <3>1
  <2>9. ASSUME n = 3 PROVE a1 = a /\ b1 = b /\ c1 = c /\ d1 = d /\ e1 = e /\ f1 = f
    <3>1. h = "rate hits"
      <4>1. 8 - n = 5
        BY <2>9
      <4> QED BY <1>4, <1>7, <4>1
    <3> QED BY <1>6, <1>10, <3>1
  <2>10. ASSUME n = 2 PROVE a1 = a /\ b1 = b /\ c1 = c /\ d1 = d /\ e1 = F /\ f1 = f
    <3>1. h = "dbfail"
      <4>1. 8 - n = 6
        BY <2>10
      <4> QED BY <1>4, <1>7, <4>1
    <3> QED BY <1>6, <1>10, <3>1
  <2>11. ASSUME n = 1 PROVE a1 = a /\ b1 = b /\ c1 = c /\ d1 = d /\ e1 = e /\ f1 = S
    <3>1. h = "sf"
      <4>1. 8 - n = 7
        BY <2>11
      <4> QED BY <1>4, <1>7, <4>1
    <3> QED BY <1>6, <1>10, <3>1
  <2> HIDE DEF H, M, F, S, a, b, c, d, e, f, a1, b1, c1, d1, e1, f1
  <2>12. n = 1 \/ n = 2 \/ n = 3 \/ n = 4 \/ n = 5 \/ n = 6 \/ n = 7
    BY <1>3
  <2>13. /\ a1 <= H /\ c1 <= H /\ e1 <= F
         /\ (n - 1 <= 5 => a1 <= b1) /\ (n - 1 <= 3 => c1 <= d1) /\ (n - 1 <= 0 => e1 <= f1)
    <3>1. CASE n = 7
      BY <2>1, <2>2, <2>3, <2>5, <3>1
    <3>2. CASE n = 6
      BY <2>1, <2>2, <2>3, <2>6, <3>2
    <3>3. CASE n = 5
      BY <2>1, <2>2, <2>3, <2>7, <3>3
    <3>4. CASE n = 4
      BY <2>1, <2>2, <2>3, <2>8, <3>4
    <3>5. CASE n = 3
      BY <2>1, <2>2, <2>3, <2>9, <3>5
    <3>6. CASE n = 2
      BY <2>1, <2>2, <2>3, <2>10, <3>6
    <3>7. CASE n = 1
      BY <2>1, <2>2, <2>3, <2>11, <3>7
    <3> QED BY <2>12, <3>1, <3>2, <3>3, <3>4, <3>5, <3>6, <3>7
  <2> QED BY <2>13 DEF H, M, F, S, a, b, c, d, e, f, a1, b1, c1, d1, e1, f1
<1>12. Lines'
  <2>1. Len(loads') = n - 1 /\ n - 1 <= 7
    BY <1>1, <1>3
  <2> QED BY <1>1, <1>5, <1>11, <2>1 DEF Lines, Upto
<1>13. TypeOK'
  BY <1>1, <1>3, <1>10 DEF Inv, TypeOK
<1>14. Tallies' /\ Owned' /\ EntriesAgree' /\ TotalsAgree' /\ Paid'
  BY <1>1 DEF Inv, Tallies, Owned, EntriesAgree, EntryCount, InProm, TotalsAgree, InTotal, Paid, Owes
<1> QED BY <1>12, <1>13, <1>14 DEF Inv

\* LogLine is a list of the parts of a line, and the line begins with none.
LEMMA NewLine ==
    /\ LogLine \in Seq(DOMAIN counter) /\ Len(LogLine) = 7
    /\ NoLine \in [DOMAIN counter -> Nat] /\ \A l \in DOMAIN counter : NoLine[l] = 0
    /\ {"hit", "miss", "dbfail", "sf", "rate total", "rate misses", "rate hits"} \subseteq DOMAIN counter
<1>1. DOMAIN counter = {"hit", "miss", "dbfail", "sf", "rate total", "rate misses", "rate hits"}
  BY DEF counter, Event
<1>2. LogLine \in Seq(DOMAIN counter) /\ Len(LogLine) = 7
  <2> DEFINE D == DOMAIN counter
  <2>1. /\ "hit" \in D /\ "miss" \in D /\ "rate total" \in D /\ "rate misses" \in D
        /\ "rate hits" \in D /\ "dbfail" \in D /\ "sf" \in D
    BY <1>1
  <2> HIDE DEF D
  <2>2. LogLine \in Seq(D)
    <3>1. ASSUME NEW i \in 1..7 PROVE LogLine[i] \in D
      <4>1. i = 1 \/ i = 2 \/ i = 3 \/ i = 4 \/ i = 5 \/ i = 6 \/ i = 7
        OBVIOUS
      <4>2. /\ LogLine[1] \in D /\ LogLine[2] \in D /\ LogLine[3] \in D /\ LogLine[4] \in D
            /\ LogLine[5] \in D /\ LogLine[6] \in D /\ LogLine[7] \in D
        BY <2>1 DEF LogLine
      <4> QED BY <4>1, <4>2
    <3>2. LogLine = [i \in 1..7 |-> LogLine[i]]
      BY DEF LogLine
    <3> QED BY <3>1, <3>2, 7 \in Nat, IsASeq
  <2>3. Len(LogLine) = 7
    BY DEF LogLine
  <2> QED BY <2>2, <2>3 DEF D
<1> QED BY <1>1, <1>2 DEF NoLine

\* A new line claims nothing yet.
LEMMA StatTickOK == ASSUME Inv, StatTick PROVE Inv'
<1>1. /\ loads' = LogLine /\ line' = NoLine
      /\ UNCHANGED <<total, keys, entries, local, prom, at, key, todo, entry, lookups>>
  BY DEF StatTick
<1>2. local \in [Event -> Nat]
  BY DEF Inv, TypeOK, Counters
<1>3. Lines'
  <2>1. /\ line'["hit"] = 0 /\ line'["miss"] = 0 /\ line'["rate total"] = 0
        /\ line'["rate misses"] = 0 /\ line'["dbfail"] = 0 /\ line'["sf"] = 0
    BY <1>1, NewLine
  <2>2. local'["hit"] \in Nat /\ local'["dbfail"] \in Nat
    BY <1>1, <1>2 DEF Event
  <2> DEFINE n == Len(loads')
  <2>3. n = 7
    BY <1>1, NewLine
  <2> HIDE DEF n
  <2>4. ASSUME NEW i \in 1..n PROVE loads'[i] = LogLine[7 - n + i]
    <3>1. 7 - n + i = i
      BY <2>3
    <3> QED BY <1>1, <3>1
  <2>5. n <= 7 /\ ~(n <= 5) /\ ~(n <= 3) /\ ~(n <= 0)
    BY <2>3
  <2>6. /\ line'["hit"] <= local'["hit"] /\ line'["rate total"] <= local'["hit"]
        /\ line'["dbfail"] <= local'["dbfail"]
    <3>1. \A x \in Nat : 0 <= x
      OBVIOUS
    <3> QED BY <2>1, <2>2, <3>1, Zenon
  <2> QED BY <2>4, <2>5, <2>6 DEF Lines, Upto, n
<1>4. TypeOK'
  BY <1>1, NewLine DEF Inv, TypeOK
<1>5. Tallies' /\ Owned' /\ EntriesAgree' /\ TotalsAgree' /\ Paid'
  BY <1>1 DEF Inv, Tallies, Owned, EntriesAgree, EntryCount, InProm, TotalsAgree, InTotal, Paid, Owes
<1> QED BY <1>3, <1>4, <1>5 DEF Inv

\* At the start nobody counts, and nothing is counted.
LEMMA InitOK == Init => Inv
<1> SUFFICES ASSUME Init PROVE Inv
  OBVIOUS
<1>1. /\ total = Zero /\ local = Zero /\ lookups = 0 /\ line = NoLine /\ loads = LogLine
      /\ keys = [k \in Keys |-> None] /\ entries = [x \in Entry |-> Zero]
      /\ prom = [k \in Keys |-> Zero] /\ at = [p \in Proc |-> "idle"]
      /\ key = [p \in Proc |-> None] /\ todo = [p \in Proc |-> <<>>]
      /\ entry = [p \in Proc |-> None]
  BY DEF Init
<1>2. Zero \in [Event -> Nat] /\ \A e \in Event : Zero[e] = 0
  BY DEF Zero
<1>3. TypeOK
  <2>1. /\ total \in Counters /\ local \in Counters /\ entries \in [Entry -> Counters]
        /\ prom \in [Keys -> Counters] /\ keys \in [Keys -> Entry \cup {None}]
    BY <1>1, <1>2 DEF Counters
  <2>2. /\ at \in [Proc -> Step] /\ key \in [Proc -> Keys \cup {None}]
        /\ todo \in [Proc -> Seq(Event)] /\ entry \in [Proc -> Entry \cup {None}]
        /\ \A p \in Proc : at[p] = "idle"
    BY <1>1 DEF Step
  <2>3. /\ line \in [DOMAIN counter -> Nat] /\ loads \in Seq(DOMAIN counter)
    BY <1>1, NewLine
  <2>4. lookups \in 0..MaxLookups
    BY <1>1, MetricsAssumption
  <2> QED BY <2>1, <2>2, <2>3, <2>4 DEF TypeOK
<1>4. Tallies
  BY <1>1 DEF Tallies, Tally, Behind
<1>5. Owned
  <2>1. \A x \in Entry : entries[x] = Zero
    BY <1>1
  <2> QED BY <1>1, <2>1 DEF Owned
<1>6. ASSUME NEW S \in SUBSET Proc, \A p \in S : at[p] # "idle" PROVE Cardinality(S) = 0
  <2>1. S = {}
    BY <1>1, <1>6
  <2> QED BY <2>1, FS_EmptySet
<1>7. EntriesAgree
  <2>1. \A k, e : Cardinality(InProm(k, e)) = 0
    BY <1>6 DEF InProm
  <2> QED BY <1>1, <1>2, <2>1 DEF EntriesAgree, EntryCount
<1>8. TotalsAgree
  <2>1. \A e : Cardinality(InTotal(e)) = 0
    BY <1>6 DEF InTotal
  <2> QED BY <1>1, <1>2, <2>1 DEF TotalsAgree
<1>9. Paid
  <2>1. \A d, e : Cardinality(Owes(d, e)) = 0
    BY <1>6 DEF Owes
  <2> QED BY <1>1, <1>2, <2>1 DEF Paid, Event
<1>10. Lines
  <2>1. /\ line["hit"] = 0 /\ line["miss"] = 0 /\ line["rate total"] = 0
        /\ line["rate misses"] = 0 /\ line["dbfail"] = 0 /\ line["sf"] = 0
    BY <1>1, NewLine
  <2>2. local["hit"] \in Nat /\ local["dbfail"] \in Nat
    BY <1>1, <1>2 DEF Event
  <2> DEFINE n == Len(loads)
  <2>3. n = 7
    BY <1>1, NewLine
  <2> HIDE DEF n
  <2>4. ASSUME NEW i \in 1..n PROVE loads[i] = LogLine[7 - n + i]
    <3>1. 7 - n + i = i
      BY <2>3
    <3> QED BY <1>1, <3>1
  <2>5. n <= 7 /\ ~(n <= 5) /\ ~(n <= 3) /\ ~(n <= 0)
    BY <2>3
  <2>6. /\ line["hit"] <= local["hit"] /\ line["rate total"] <= local["hit"]
        /\ line["dbfail"] <= local["dbfail"]
    <3>1. \A x \in Nat : 0 <= x
      OBVIOUS
    <3> QED BY <2>1, <2>2, <3>1, Zenon
  <2> QED BY <2>4, <2>5, <2>6 DEF Lines, Upto, n
<1> QED BY <1>3, <1>4, <1>5, <1>7, <1>8, <1>9, <1>10 DEF Inv

\* Every step keeps the invariant.
LEMMA NextOK == Inv /\ [Next]_vars => Inv'
<1> SUFFICES ASSUME Inv, [Next]_vars PROVE Inv'
  OBVIOUS
<1>1. ASSUME NEW p \in Proc, NEW k \in Keys, NEW t \in Takes, Take(p, k, t) PROVE Inv'
  BY <1>1, TakeOK
<1>2. ASSUME NEW p \in Proc,
             AddLocal(p) \/ AddTotal(p) \/ Load(p) \/ Store(p) \/ AddEntry(p) \/ AddProm(p)
      PROVE  Inv'
  BY <1>2, AddLocalOK, AddTotalOK, LoadOK, StoreOK, AddEntryOK, AddPromOK
<1>3. CASE StatLoad \/ StatTick
  BY <1>3, StatLoadOK, StatTickOK
<1>4. CASE UNCHANGED vars
  <2>1. TypeOK'
    BY <1>4 DEF vars, Inv, TypeOK
  <2>2. Tallies' /\ Owned' /\ EntriesAgree' /\ TotalsAgree'
    BY <1>4 DEF vars, Inv, Tallies, Owned, EntriesAgree, EntryCount, InProm, TotalsAgree, InTotal
  <2>3. Paid' /\ Lines'
    BY <1>4 DEF vars, Inv, Paid, Owes, Lines, Upto
  <2> QED BY <2>1, <2>2, <2>3 DEF Inv
<1> QED BY <1>1, <1>2, <1>3, <1>4 DEF Next

\* The inductive invariant holds of every behaviour of the counters.
LEMMA Invariant == Spec => []Inv
BY InitOK, NextOK, PTL DEF Spec

-----------------------------------------------------------------------------
\* The theorems.

\* Every variable keeps its type, and a goroutine past getOrCreate has an entry.
THEOREM TypeCorrect == Spec => []TypeOK
<1>1. Inv => TypeOK
  BY DEF Inv
<1> QED BY <1>1, Invariant, PTL

\* However many goroutines create the entry of a key at once (getOrCreate), no
\* count is lost or made twice.
THEOREM CountsAgreeAlways == Spec => []CountsAgree
<1>1. ASSUME Inv PROVE CountsAgree
  <2>1. ASSUME NEW e \in Event, NEW k \in Keys
        PROVE  {p \in Counting({"prom"}, e) : key[p] = k} = InProm(k, e)
    BY DEF Counting, InProm
  <2>2. ASSUME NEW e \in Event PROVE Counting({"total"}, e) = InTotal(e)
    BY DEF Counting, InTotal
  <2> QED BY <1>1, <2>1, <2>2 DEF CountsAgree, Inv, EntriesAgree, TotalsAgree
<1> QED BY <1>1, Invariant, PTL

\* Every line that statLoop logs makes sense, whatever was counted while its
\* counters were loaded.
THEOREM LinesMakeSenseAlways == Spec => []LinesMakeSense
<1>1. ASSUME Inv PROVE LinesMakeSense
  <2> SUFFICES ASSUME loads = <<>>
               PROVE  /\ line["hit"] <= line["miss"] /\ line["dbfail"] <= line["sf"]
                      /\ line["rate hits"] = line["rate total"] => RateAtMost(1, 2)
    BY DEF LinesMakeSense
  <2> DEFINE n == Len(loads)
             a == line["rate total"]
             b == line["rate misses"]
             c == line["rate hits"]
  <2>1. n = 0 /\ n <= 5 /\ n <= 3 /\ n <= 0
    OBVIOUS
  <2>2. Upto(n)
    BY <1>1 DEF Inv, Lines
  <2> HIDE DEF n
  <2>3. line["hit"] <= line["miss"] /\ line["dbfail"] <= line["sf"] /\ a <= b
    BY <2>1, <2>2 DEF Upto
  <2>4. a \in Nat /\ b \in Nat
    BY <1>1, NewLine DEF Inv, TypeOK
  <2> HIDE DEF a, b, c
  <2>5. ASSUME c = a PROVE c * 2 <= (a + b) * 1
    BY <2>3, <2>4, <2>5
  <2> QED BY <2>3, <2>5 DEF RateAtMost, a, b, c
<1> QED BY <1>1, Invariant, PTL
=============================================================================
