--------------------------- MODULE UserRepoProofs ---------------------------
(***************************************************************************)
(* Proofs about UserRepo, for any number of requests, users, writes and    *)
(* faults.                                                                 *)
(***************************************************************************)
EXTENDS UserRepo, TLAPS

-----------------------------------------------------------------------------
\* Keys and values.

\* The two families of keys are apart, and make up Keys.
LEMMA KeyFacts ==
    /\ \A i \in Ids : userCacheIdKey(i) \in IdKeys
    /\ \A n \in Names : userCacheUsernameKey(n) \in NameKeys
    /\ \A k \in IdKeys : k \in Keys /\ k \notin NameKeys
    /\ \A k \in NameKeys : k \in Keys /\ k \notin IdKeys
    /\ \A k \in Keys : k \in IdKeys \/ k \in NameKeys
BY DEF IdKeys, NameKeys, Keys, userCacheIdKey, userCacheUsernameKey

\* Different ids and different names have different keys.
LEMMA KeysInjective ==
    /\ \A i, j \in Ids : userCacheIdKey(i) = userCacheIdKey(j) => i = j
    /\ \A m, n \in Table!AllNames : userCacheUsernameKey(m) = userCacheUsernameKey(n) => m = n
BY DEF userCacheIdKey, userCacheUsernameKey

\* The keys of a row are keys.
LEMMA ModelKeys ==
    ASSUME NEW n \in Table!AllNames
    PROVE  /\ modelUniqueCacheKeys(n) \subseteq Keys
           /\ \A i \in Ids : modelCacheKeys(i, n) \subseteq Keys
<1>1. \A m \in {n} \ {NoName} : m \in Names
  BY DEF Table!AllNames
<1>2. modelUniqueCacheKeys(n) \subseteq Keys
  BY <1>1, KeyFacts DEF modelUniqueCacheKeys
<1> QED
  BY <1>2, KeyFacts DEF modelCacheKeys

\* So are those of its lookups, among which are the row's own.
LEMMA LookupKeys ==
    ASSUME NEW i \in Ids, NEW ns, ns \subseteq Table!AllNames
    PROVE  /\ \A n \in ns : lookupKeys(i, n) \subseteq Keys
           /\ ConcernedKeys(i, ns) \subseteq Keys
           /\ RowKeys(i, ns) \subseteq ConcernedKeys(i, ns)
<1>1. \A n \in ns : lookupKeys(i, n) \subseteq Keys
  BY KeyFacts DEF lookupKeys
<1>2. ASSUME NEW n \in ns PROVE modelCacheKeys(i, n) \subseteq lookupKeys(i, n)
  <2>1. \A m \in {n} \ {NoName} : m \in Names /\ Table!SameName(m, n)
    BY DEF Table!AllNames, Table!SameName
  <2> QED
    BY <2>1 DEF modelCacheKeys, modelUniqueCacheKeys, lookupKeys
<1> QED
  BY <1>1, <1>2 DEF ConcernedKeys, RowKeys

\* A row found by a WHERE clause is a live row under its own primary key.
LEMMA FirstFacts ==
    ASSUME Table!TypeOK, NEW k, NEW i \in First(k)
    PROVE  /\ i \in Ids
           /\ rows[i] \in Table!Row
           /\ rows[i].id = i
           /\ rows[i].live
BY DEF First, Table!TypeOK, Table!Live, Table!Exists

\* A row has an id and a name.
LEMMA RowFacts ==
    ASSUME NEW r \in Table!Row
    PROVE  /\ r.id \in Ids
           /\ r.name \in Table!AllNames
           /\ r.version \in Nat
           /\ r.live \in BOOLEAN
BY DEF Table!Row

-----------------------------------------------------------------------------
\* The building blocks of the actions keep the types.

\* A request that goes on keeps what it carries well-typed.
LEMMA GotoOK ==
    ASSUME RequestsOK, NEW p \in Proc, NEW l \in PC, NEW r \in Request, Fits(l, r), Goto(p, l, r)
    PROVE  RequestsOK'
BY DEF RequestsOK, Goto

\* So does one that begins.
LEMMA CallOK ==
    ASSUME RequestsOK, NEW p \in Proc, NEW l \in PC, NEW r \in Request, Fits(l, r), Call(p, l, r)
    PROVE  RequestsOK'
BY DEF RequestsOK, Call, Replied, Reply

\* An idle request carries nothing that it could misuse.
LEMMA IdleOK == Idle \in Request /\ Fits("idle", Idle)
BY DEF Idle, Request, Op, Fits, Reading

\* Requests that return leave well-typed replies and become idle.
LEMMA ReturnOK ==
    ASSUME RequestsOK, NEW P, NEW reply, \A q \in Proc : reply[q] \in Reply, Return(P, reply)
    PROVE  RequestsOK'
BY IdleOK DEF RequestsOK, Return, PC

\* The replies that are shared by a flight are replies.
LEMMA SameOK ==
    ASSUME NEW s \in {"ok", "notfound", "conflict", "failed"}, NEW i \in Ids \cup {None}
    PROVE  \A q \in Proc : Same(Replied(s, i))[q] \in Reply
BY DEF Same, Replied, Reply

\* A value has the kind its key asks for.
ValueFits(k, v) == (k \in IdKeys => v \in RowValue) /\ (k \in NameKeys => v \in IndexValue)

\* A Redis command leaves the breaker in a state of its own,
LEMMA AttemptOK ==
    ASSUME CacheOK, NEW o \in Outcome, Attempt(o)
    PROVE  breaker' \in Breaker
BY DEF CacheOK, Attempt, markRedisResult, Outcome, Breaker

\* and a first attempt counts its fault.
LEMMA CommandOK ==
    ASSUME CacheOK, NEW o \in Outcome, Command(o)
    PROVE  breaker' \in Breaker /\ faults' \in 0..MaxFaults
BY AttemptOK, MaxFaultsAssumption DEF CacheOK, Command, Errored

\* A database fault touches nothing of Redis.
LEMMA DBFaultOK ==
    ASSUME CacheOK, DBFault
    PROVE  CacheOK'
BY MaxFaultsAssumption DEF CacheOK, DBFault

\* Nor does a statement that succeeds.
LEMMA DBOkOK ==
    ASSUME CacheOK, DBOk
    PROVE  CacheOK'
BY DEF CacheOK, DBOk, redisVars

\* What a GET yields is nothing, or what the key may hold.
LEMMA GetOK ==
    ASSUME CacheOK, NEW o \in Outcome, Command(o), UNCHANGED store
    PROVE  CacheOK'
BY CommandOK DEF CacheOK

\* SET keeps the two families of keys apart if its value belongs to its key.
LEMMA SetOK ==
    ASSUME CacheOK, NEW k \in Keys, NEW v, ValueFits(k, v), NEW o \in Outcome, cacheSet(k, v, o)
    PROVE  CacheOK'
BY CommandOK, KeyFacts DEF CacheOK, cacheSet, ValueFits

\* The placeholder may stand under every key.
LEMMA SetNotFoundOK ==
    ASSUME CacheOK, NEW k \in Keys, NEW o \in Outcome, cacheSetNotFound(k, o)
    PROVE  CacheOK'
BY CommandOK, KeyFacts DEF CacheOK, cacheSetNotFound, RowValue, IndexValue

\* So may nothing at all.
LEMMA DelOK ==
    ASSUME CacheOK, NEW ks, NEW o \in Outcome, cacheDel(ks, o) \/ cacheDelAgain(ks, o)
    PROVE  CacheOK'
<1>1. DOMAIN store = Keys
  BY DEF CacheOK
<1>2. breaker' \in Breaker /\ faults' \in 0..MaxFaults
  BY CommandOK, AttemptOK DEF CacheOK, cacheDel, cacheDelAgain
<1>3. Erase(ks, o)
  BY DEF cacheDel, cacheDelAgain
<1> QED
  BY <1>1, <1>2, <1>3, KeyFacts DEF CacheOK, Erase, RowValue, IndexValue

-----------------------------------------------------------------------------
\* Every action keeps TypeOK.

\* Every way to begin a request keeps the types.
LEMMA StartOK ==
    ASSUME TypeOK, NEW p \in Proc, Start(p)
    PROVE  TypeOK'
<1> DEFINE Kept == UNCHANGED <<redisVars, rows, jobs, late, excuse>> /\ writes' \in 0..MaxWrites
<1>1. ASSUME RequestsOK', Kept PROVE TypeOK'
  BY <1>1 DEF TypeOK, CacheOK, redisVars, Table!TypeOK
<1>2. ASSUME NEW i \in Ids, GetUserByID(p, i) PROVE TypeOK'
  <2> DEFINE r == [Idle EXCEPT !.query = userCacheIdKey(i), !.key = userCacheIdKey(i)]
  <2>1. r \in Request /\ Fits("get", r) /\ "get" \in PC
    BY KeyFacts DEF Idle, Request, Op, Fits, Reading, PC
  <2>2. Call(p, "get", r) /\ Kept
    BY <1>2 DEF GetUserByID, Call, TypeOK
  <2> QED
    BY <1>1, <2>1, <2>2, CallOK DEF TypeOK
<1>3. ASSUME NEW n \in Names, GetUserByUsername(p, n) PROVE TypeOK'
  <2> DEFINE r == [Idle EXCEPT !.query = userCacheUsernameKey(n), !.key = userCacheUsernameKey(n)]
  <2>1. r \in Request /\ Fits("get", r) /\ "get" \in PC
    BY KeyFacts DEF Idle, Request, Op, Fits, Reading, PC
  <2>2. Call(p, "get", r) /\ Kept
    BY <1>3 DEF GetUserByUsername, Call, TypeOK
  <2> QED
    BY <1>1, <2>1, <2>2, CallOK DEF TypeOK
<1>4. ASSUME NEW i \in Ids, NEW n \in UpdateNames, UpdateUser(p, i, n) PROVE TypeOK'
  <2> DEFINE r == [Idle EXCEPT !.op = "update", !.query = userCacheIdKey(i), !.name = n]
  <2>1. r \in Request /\ Fits("readold", r) /\ "readold" \in PC
    BY KeyFacts, UpdateNamesAssumption DEF Idle, Request, Op, Fits, Reading, PC
  <2>2. Call(p, "readold", r) /\ Kept
    BY <1>4, MaxWritesAssumption DEF UpdateUser, StartWrite, Call, TypeOK
  <2> QED
    BY <1>1, <2>1, <2>2, CallOK DEF TypeOK
<1>5. ASSUME NEW i \in Ids, DeleteUser(p, i) PROVE TypeOK'
  <2> DEFINE r == [Idle EXCEPT !.op = "delete", !.query = userCacheIdKey(i)]
  <2>1. r \in Request /\ Fits("readold", r) /\ "readold" \in PC
    BY KeyFacts DEF Idle, Request, Op, Fits, Reading, PC
  <2>2. Call(p, "readold", r) /\ Kept
    BY <1>5, MaxWritesAssumption DEF DeleteUser, StartWrite, Call, TypeOK
  <2> QED
    BY <1>1, <2>1, <2>2, CallOK DEF TypeOK
<1>6. ASSUME NEW n \in Names, CreateUser(p, n) PROVE TypeOK'
  <2> DEFINE r == [Idle EXCEPT !.op = "create", !.name = n, !.keys = modelUniqueCacheKeys(n)]
  <2>1. n \in Table!AllNames /\ modelUniqueCacheKeys(n) \in SUBSET Keys
    BY ModelKeys DEF Table!AllNames
  <2>2. r \in Request /\ Fits("insert", r) /\ "insert" \in PC
    BY <2>1 DEF Idle, Request, Op, Fits, Reading, PC
  <2>3. Call(p, "insert", r) /\ Kept
    BY <1>6, MaxWritesAssumption DEF CreateUser, StartWrite, Call, TypeOK
  <2> QED
    BY <1>1, <2>2, <2>3, CallOK DEF TypeOK
<1> QED
  BY <1>2, <1>3, <1>4, <1>5, <1>6 DEF Start

\* CacheGet keeps the types: an index key leads to an id key.
LEMMA CacheGetOK ==
    ASSUME TypeOK, NEW p \in Proc, NEW o \in Outcome, CacheGet(p, o)
    PROVE  TypeOK'
<1> DEFINE k == req[p].key
           v == cacheGet(k, o)
<1>1. /\ k \in Keys /\ req[p] \in Request
      /\ Fits("get", req[p]) /\ pc[p] = "get"
  BY DEF CacheGet, TypeOK, RequestsOK, Fits, Reading
<1>2. CacheOK'
  BY GetOK DEF CacheGet, TypeOK
<1>3. late' \subseteq Proc
  BY DEF CacheGet, TypeOK
<1>4. RequestsOK'
  <2>1. CASE Goto(p, "enter", req[p]) \/ Goto(p, "purge", req[p])
    <3>1. /\ Fits("enter", req[p]) /\ Fits("purge", req[p])
          /\ "enter" \in PC /\ "purge" \in PC
      BY <1>1 DEF Fits, Reading, PC
    <3> QED
      BY <1>1, <2>1, <3>1, GotoOK DEF TypeOK
  <2>2. CASE Return({p}, Same(Replied("notfound", None)))
    BY <2>2, SameOK, ReturnOK DEF TypeOK
  <2>3. CASE v \in Table!Row /\ Return({p}, Same(Replied("ok", v.id)))
    BY <2>3, RowFacts, SameOK, ReturnOK DEF TypeOK
  <2>4. CASE v \in IdKeys /\ Goto(p, "get", [req[p] EXCEPT !.key = v])
    <3>1. /\ [req[p] EXCEPT !.key = v] \in Request
          /\ Fits("get", [req[p] EXCEPT !.key = v])
          /\ "get" \in PC
      BY <1>1, <2>4, KeyFacts DEF Request, Fits, Reading, PC
    <3> QED
      BY <2>4, <3>1, GotoOK DEF TypeOK
  <2> QED
    BY <2>1, <2>2, <2>3, <2>4 DEF CacheGet
<1> QED
  BY <1>2, <1>3, <1>4 DEF TypeOK, CacheGet, Table!TypeOK

\* Purge keeps the types.
LEMMA PurgeOK ==
    ASSUME TypeOK, NEW p \in Proc, NEW o \in Outcome, Purge(p, o)
    PROVE  TypeOK'
<1>1. CacheOK'
  BY DelOK DEF Purge, TypeOK
<1>2. req[p] \in Request /\ Fits("enter", req[p]) /\ "enter" \in PC
  BY DEF Purge, TypeOK, RequestsOK, Fits, Reading, PC
<1>3. RequestsOK'
  BY <1>2, GotoOK DEF Purge, TypeOK
<1> QED
  BY <1>1, <1>3 DEF Purge, TypeOK, Table!TypeOK

\* Enter keeps the types.
LEMMA EnterOK ==
    ASSUME TypeOK, NEW p \in Proc, Enter(p)
    PROVE  TypeOK'
<1>1. CacheOK'
  BY DEF Enter, TypeOK, CacheOK, redisVars
<1>2. /\ req[p] \in Request /\ Fits("query", req[p]) /\ Fits("wait", req[p])
      /\ "query" \in PC /\ "wait" \in PC
  BY DEF Enter, TypeOK, RequestsOK, Fits, Reading, PC
<1>3. RequestsOK'
  BY <1>2, GotoOK DEF Enter, TypeOK
<1> QED
  BY <1>1, <1>3 DEF Enter, TypeOK, Table!TypeOK

\* Query keeps the types: it carries a row of the table away.
LEMMA QueryOK ==
    ASSUME TypeOK, NEW p \in Proc, Query(p)
    PROVE  TypeOK'
<1>1. /\ req[p] \in Request /\ Fits("query", req[p])
  BY DEF Query, TypeOK, RequestsOK
<1>2. CacheOK'
  BY DBOkOK, DBFaultOK DEF Query, TypeOK
<1>3. RequestsOK'
  <2>1. ASSUME NEW i \in First(req[p].query), Goto(p, "fill", [req[p] EXCEPT !.row = rows[i]])
        PROVE  RequestsOK'
    <3>1. /\ [req[p] EXCEPT !.row = rows[i]] \in Request
          /\ Fits("fill", [req[p] EXCEPT !.row = rows[i]])
          /\ "fill" \in PC
      BY <1>1, FirstFacts DEF TypeOK, Request, Fits, Reading, PC
    <3> QED
      BY <2>1, <3>1, GotoOK DEF TypeOK
  <2>2. CASE Goto(p, "fillnf", req[p])
    <3>1. Fits("fillnf", req[p]) /\ "fillnf" \in PC
      BY <1>1 DEF Fits, Reading, PC
    <3> QED
      BY <1>1, <2>2, <3>1, GotoOK DEF TypeOK
  <2>3. CASE Return(Flight(p), Same(Replied("failed", None)))
    BY <2>3, SameOK, ReturnOK DEF TypeOK
  <2> QED
    BY <2>1, <2>2, <2>3 DEF Query
<1>4. late' \subseteq Proc
  BY DEF Query, TypeOK
<1> QED
  BY <1>2, <1>3, <1>4 DEF Query, TypeOK, Table!TypeOK

\* A fill of a key with a value that fits it.
LEMMA CacheFillOK ==
    ASSUME TypeOK, NEW p \in Proc, NEW k \in Keys, NEW v, ValueFits(k, v),
           NEW o \in Outcome, CacheFill(p, k, v, o)
    PROVE  CacheOK' /\ excuse' \subseteq Keys
<1>1. CacheOK'
  BY SetOK DEF CacheFill, TypeOK
<1>2. excuse' \subseteq Keys
  BY DEF CacheFill, TypeOK
<1> QED
  BY <1>1, <1>2

\* TakeFill keeps the types.
LEMMA TakeFillOK ==
    ASSUME TypeOK, NEW p \in Proc, NEW o \in Outcome, TakeFill(p, o)
    PROVE  TypeOK'
<1>1. req[p].row \in Table!Row /\ req[p].key \in IdKeys
  BY DEF TakeFill, TypeOK, RequestsOK, Fits
<1>2. req[p].key \in Keys /\ ValueFits(req[p].key, req[p].row)
  BY <1>1, KeyFacts DEF ValueFits, RowValue
<1>3. CacheOK' /\ excuse' \subseteq Keys
  BY <1>2, CacheFillOK DEF TakeFill
<1>4. RequestsOK'
  BY <1>1, RowFacts, SameOK, ReturnOK DEF TakeFill, TypeOK
<1> QED
  BY <1>3, <1>4 DEF TakeFill, TypeOK, Table!TypeOK

\* IndexFill keeps the types.
LEMMA IndexFillOK ==
    ASSUME TypeOK, NEW p \in Proc, NEW o \in Outcome, IndexFill(p, o)
    PROVE  TypeOK'
<1> DEFINE k == req[p].key
           v == userCacheIdKey(req[p].row.id)
<1>1. /\ req[p].row \in Table!Row /\ k \in NameKeys
      /\ req[p] \in Request /\ Fits("fillrow", req[p]) /\ "fillrow" \in PC
  BY DEF IndexFill, TypeOK, RequestsOK, Fits, Reading, PC
<1>2. k \in Keys /\ ValueFits(k, v)
  BY <1>1, RowFacts, KeyFacts DEF ValueFits, IndexValue
<1> HIDE DEF v
<1>3. CacheOK' /\ excuse' \subseteq Keys
  BY <1>2, CacheFillOK DEF IndexFill, v
<1>4. RequestsOK'
  BY <1>1, GotoOK DEF IndexFill, TypeOK
<1> QED
  BY <1>3, <1>4 DEF IndexFill, TypeOK, Table!TypeOK

\* IndexFillRow keeps the types.
LEMMA IndexFillRowOK ==
    ASSUME TypeOK, NEW p \in Proc, NEW o \in Outcome, IndexFillRow(p, o)
    PROVE  TypeOK'
<1> DEFINE k == userCacheIdKey(req[p].row.id)
           reply == [q \in Proc |-> Replied("ok", IF q = p THEN req[p].row.id ELSE None)]
<1>1. req[p].row \in Table!Row /\ req[p].row.id \in Ids
  BY RowFacts DEF IndexFillRow, TypeOK, RequestsOK, Fits
<1>2. k \in Keys /\ ValueFits(k, req[p].row)
  BY <1>1, KeyFacts DEF ValueFits, RowValue
<1>3. \A q \in Proc : reply[q] \in Reply
  BY <1>1 DEF Replied, Reply
<1> HIDE DEF k, reply
<1>4. CacheOK' /\ excuse' \subseteq Keys
  BY <1>2, CacheFillOK DEF IndexFillRow, k
<1>5. RequestsOK'
  BY <1>3, ReturnOK DEF IndexFillRow, TypeOK, reply
<1> QED
  BY <1>4, <1>5 DEF IndexFillRow, TypeOK, Table!TypeOK

\* FillNotFound keeps the types.
LEMMA FillNotFoundOK ==
    ASSUME TypeOK, NEW p \in Proc, NEW o \in Outcome, FillNotFound(p, o)
    PROVE  TypeOK'
<1>1. req[p].key \in Keys
  BY DEF FillNotFound, TypeOK, RequestsOK, Fits, Reading
<1>2. CacheOK'
  BY <1>1, SetNotFoundOK DEF FillNotFound, TypeOK
<1>3. RequestsOK'
  BY SameOK, ReturnOK DEF FillNotFound, TypeOK
<1> QED
  BY <1>1, <1>2, <1>3 DEF FillNotFound, TypeOK, Table!TypeOK

\* The keys a write will delete are keys.
LEMMA StaleKeysOK ==
    ASSUME NEW r \in Request, NEW old \in Table!Row,
           r.op = "update" => r.name \in Table!AllNames
    PROVE  staleKeys(r, old) \in SUBSET Keys
BY RowFacts, ModelKeys DEF staleKeys

\* ReadOld keeps the types.
LEMMA ReadOldOK ==
    ASSUME TypeOK, NEW p \in Proc, ReadOld(p)
    PROVE  TypeOK'
<1>1. req[p] \in Request /\ Fits("readold", req[p])
  BY DEF ReadOld, TypeOK, RequestsOK
<1>2. CacheOK'
  BY DBOkOK, DBFaultOK DEF ReadOld, TypeOK
<1>3. RequestsOK'
  <2>1. ASSUME NEW i \in First(req[p].query),
               Goto(p, "exec", [req[p] EXCEPT !.row = rows[i],
                                              !.keys = staleKeys(req[p], rows[i])])
        PROVE  RequestsOK'
    <3> DEFINE r == [req[p] EXCEPT !.row = rows[i], !.keys = staleKeys(req[p], rows[i])]
    <3>1. rows[i] \in Table!Row
      BY FirstFacts DEF TypeOK
    <3>2. staleKeys(req[p], rows[i]) \in SUBSET Keys
      BY <1>1, <3>1, StaleKeysOK DEF Fits
    <3>3. r \in Request /\ Fits("exec", r) /\ "exec" \in PC
      BY <1>1, <3>1, <3>2 DEF Request, Fits, Reading, PC
    <3> QED
      BY <2>1, <3>3, GotoOK DEF TypeOK
  <2>2. CASE Return({p}, Same(Replied("notfound", None)))
    BY <2>2, SameOK, ReturnOK DEF TypeOK
  <2>3. CASE Return({p}, Same(Replied("failed", None)))
    BY <2>3, SameOK, ReturnOK DEF TypeOK
  <2> QED
    BY <2>1, <2>2, <2>3 DEF ReadOld
<1> QED
  BY <1>2, <1>3 DEF ReadOld, TypeOK, Table!TypeOK

\* A write that fails keeps the types.
LEMMA ExecFailedOK ==
    ASSUME TypeOK, NEW p \in Proc, NEW s \in {"conflict", "failed"}, ExecFailed(p, s),
           DBOk \/ DBFault
    PROVE  TypeOK'
<1>1. CacheOK'
  BY DBOkOK, DBFaultOK DEF TypeOK
<1>2. RequestsOK'
  BY SameOK, ReturnOK DEF ExecFailed, TypeOK
<1> QED
  BY <1>1, <1>2 DEF ExecFailed, TypeOK, Table!TypeOK

\* A write that is applied keeps the types.
LEMMA AppliedOK ==
    ASSUME TypeOK, NEW p \in Proc, NEW next \in PC, NEW i \in Ids, NEW ns,
           ns \subseteq Table!AllNames, NEW row \in Table!Row, row.id = i,
           NEW r \in Request, Fits(next, r), Applied(p, next, i, ns, row, r)
    PROVE  TypeOK'
<1>1. Table!TypeOK'
  BY DEF Applied, Commit, TypeOK, Table!TypeOK
<1>2. CacheOK'
  BY DBOkOK, DBFaultOK DEF Applied, TypeOK
<1>3. RequestsOK'
  BY GotoOK, SameOK, ReturnOK DEF Applied, TypeOK
<1>4. late' \subseteq Proc
  BY DEF Applied, Commit, Overtaken, TypeOK
<1>5. ConcernedKeys(i, ns) \subseteq Keys
  BY LookupKeys
<1>6. excuse' \subseteq Keys
  BY <1>5 DEF Applied, Cached, TypeOK
<1> QED
  BY <1>1, <1>2, <1>3, <1>4, <1>6 DEF Applied, TypeOK

(***************************************************************************)
(* TypeOK is not inductive on its own: UPDATE keeps the columns it does    *)
(* not set, so its result is a row only if there is a row.  The invariant  *)
(* that closes the argument is also what optimistic locking rests on.  The *)
(* row a writer read is still in the table, perhaps with a later version,  *)
(* and if its version is the same then so is all of it.                    *)
(***************************************************************************)
OldInv ==
    \A p \in Proc : pc[p] = "exec" =>
        /\ Table!Exists(req[p].row.id)
        /\ req[p].row.live
        /\ req[p].row.version <= rows[req[p].row.id].version
        /\ RowsAffected(req[p]) => rows[req[p].row.id] = req[p].row

\* A row with some columns set is a row.
LEMMA SetColumns ==
    ASSUME NEW r \in Request, rows[r.row.id] \in Table!Row, r.row.version \in Nat
    PROVE  /\ DeletedRow(r) \in Table!Row
           /\ DeletedRow(r).id = rows[r.row.id].id
           /\ DeletedRow(r).version = r.row.version + 1
           /\ r.name \in Table!AllNames =>
                 /\ UpdatedRow(r) \in Table!Row
                 /\ UpdatedRow(r).id = rows[r.row.id].id
                 /\ UpdatedRow(r).version = r.row.version + 1
<1> DEFINE row == rows[r.row.id]
           v   == r.row.version + 1
<1>1. row \in Table!Row /\ v \in Nat
  OBVIOUS
<1>2. DeletedRow(r) = [row EXCEPT !.live = FALSE, !.version = v]
  BY DEF DeletedRow
<1>3. UpdatedRow(r) = [row EXCEPT !.name = r.name, !.version = v]
  BY DEF UpdatedRow
<1> HIDE DEF row, v
<1>4. /\ DeletedRow(r) \in Table!Row
      /\ DeletedRow(r).id = row.id
      /\ DeletedRow(r).version = v
  BY <1>1, <1>2 DEF Table!Row
<1>5. r.name \in Table!AllNames =>
         /\ UpdatedRow(r) \in Table!Row
         /\ UpdatedRow(r).id = row.id
         /\ UpdatedRow(r).version = v
  BY <1>1, <1>3 DEF Table!Row
<1> QED
  BY <1>4, <1>5 DEF row, v

\* What UpdateUser and DeleteUser write is a row, of the same user, with the
\* next version.
LEMMA WrittenRows ==
    ASSUME TypeOK, OldInv, NEW p \in Proc, pc[p] = "exec", RowsAffected(req[p])
    PROVE  LET i == req[p].row.id
           IN  /\ i \in Ids
               /\ rows[i] = req[p].row /\ Table!Live(i) /\ rows[i] \in Table!Row
               /\ DeletedRow(req[p]) \in Table!Row
               /\ DeletedRow(req[p]).id = i
               /\ DeletedRow(req[p]).version = rows[i].version + 1
               /\ req[p].op = "update" =>
                     /\ UpdatedRow(req[p]) \in Table!Row
                     /\ UpdatedRow(req[p]).id = i
                     /\ UpdatedRow(req[p]).version = rows[i].version + 1
<1> DEFINE i == req[p].row.id
<1>1. req[p].row \in Table!Row /\ i \in Ids
  BY RowFacts DEF TypeOK, RequestsOK, Fits
<1>2. rows[i] = req[p].row /\ req[p].row.live /\ Table!Live(i)
  BY DEF OldInv, Table!Live
<1>3. req[p].op = "update" => req[p].name \in Table!AllNames
  BY DEF TypeOK, RequestsOK, Fits
<1>4. /\ rows[i] \in Table!Row /\ rows[i].id = i
      /\ req[p].row.version \in Nat
      /\ req[p].row.version = rows[i].version
      /\ req[p] \in Request
  BY <1>1, <1>2, RowFacts DEF TypeOK, RequestsOK
<1> QED
  BY <1>1, <1>2, <1>3, <1>4, SetColumns

\* UpdateUserExec keeps the types.
LEMMA UpdateUserExecOK ==
    ASSUME TypeOK, OldInv, NEW p \in Proc, UpdateUserExec(p)
    PROVE  TypeOK'
<1> DEFINE r == req[p]
           i == r.row.id
<1>1. r \in Request /\ Fits("exec", r) /\ Fits("del", r) /\ "del" \in PC
  BY DEF UpdateUserExec, TypeOK, RequestsOK, Fits, Reading, PC
<1>2. CASE RowsAffected(r) /\ Applied(p, "del", i, {rows[i].name, r.name}, UpdatedRow(r), r)
  <2>1. /\ i \in Ids /\ rows[i] \in Table!Row
        /\ UpdatedRow(r) \in Table!Row /\ UpdatedRow(r).id = i
    BY <1>2, WrittenRows DEF UpdateUserExec
  <2>2. {rows[i].name, r.name} \subseteq Table!AllNames
    BY <1>1, <2>1, RowFacts DEF UpdateUserExec, Fits
  <2> QED
    BY <1>1, <1>2, <2>1, <2>2, AppliedOK
<1>3. CASE ExecFailed(p, "failed") /\ (DBOk \/ DBFault)
  BY <1>3, ExecFailedOK
<1>4. CASE ExecFailed(p, "conflict") /\ DBOk
  BY <1>4, ExecFailedOK
<1> QED
  BY <1>2, <1>3, <1>4 DEF UpdateUserExec

\* DeleteUserExec keeps the types.
LEMMA DeleteUserExecOK ==
    ASSUME TypeOK, OldInv, NEW p \in Proc, DeleteUserExec(p)
    PROVE  TypeOK'
<1> DEFINE r == req[p]
           i == r.row.id
<1>1. r \in Request /\ Fits("del", r) /\ "del" \in PC
  BY DEF DeleteUserExec, TypeOK, RequestsOK, Fits, Reading, PC
<1>2. CASE RowsAffected(r) /\ Applied(p, "del", i, {rows[i].name}, DeletedRow(r), r)
  <2>1. /\ i \in Ids /\ rows[i] \in Table!Row
        /\ DeletedRow(r) \in Table!Row /\ DeletedRow(r).id = i
    BY <1>2, WrittenRows DEF DeleteUserExec
  <2>2. {rows[i].name} \subseteq Table!AllNames
    BY <2>1, RowFacts
  <2> QED
    BY <1>1, <1>2, <2>1, <2>2, AppliedOK
<1>3. CASE ExecFailed(p, "failed") /\ DBFault
  BY <1>3, ExecFailedOK
<1>4. CASE ExecFailed(p, "conflict") /\ DBOk
  BY <1>4, ExecFailedOK
<1> QED
  BY <1>2, <1>3, <1>4 DEF DeleteUserExec

\* A new row is a row.
LEMMA NewRowOK ==
    ASSUME NEW i \in Ids, NEW n \in Table!AllNames
    PROVE  Table!NewRow(i, n) \in Table!Row /\ Table!NewRow(i, n).id = i
BY DEF Table!NewRow, Table!Row

\* CreateUserExec keeps the types.
LEMMA CreateUserExecOK ==
    ASSUME TypeOK, NEW p \in Proc, CreateUserExec(p)
    PROVE  TypeOK'
<1>1. req[p] \in Request /\ Fits("insert", req[p])
  BY DEF CreateUserExec, TypeOK, RequestsOK
<1>2. req[p].name \in Table!AllNames
  BY <1>1 DEF Fits
<1>3. ASSUME NEW i \in Ids,
             Applied(p, "delnew", i, {req[p].name}, Table!NewRow(i, req[p].name),
                     [req[p] EXCEPT !.row = Table!NewRow(i, req[p].name)])
      PROVE  TypeOK'
  <2> DEFINE row == Table!NewRow(i, req[p].name)
             r   == [req[p] EXCEPT !.row = row]
  <2>1. row \in Table!Row /\ row.id = i
    BY <1>2, NewRowOK
  <2>2. r \in Request /\ Fits("delnew", r) /\ "delnew" \in PC
    BY <1>1, <2>1 DEF Request, Fits, Reading, PC
  <2> QED
    BY <1>2, <1>3, <2>1, <2>2, AppliedOK
<1>4. CASE ExecFailed(p, "failed") /\ (DBOk \/ DBFault)
  BY <1>4, ExecFailedOK
<1> QED
  BY <1>3, <1>4 DEF CreateUserExec

\* The excuses stay keys after a deletion.
LEMMA DeletedOK ==
    ASSUME TypeOK, NEW ks, ks \subseteq Keys, NEW o
    PROVE  Deleted(ks, o) \subseteq Keys /\ Cached(ks) \subseteq Keys
BY DEF Deleted, Cached, TypeOK

\* The tail of Exec keeps the types.
LEMMA ExecDelOK ==
    ASSUME TypeOK, NEW p \in Proc, NEW o \in Outcome, ExecDel(p, o), RequestsOK'
    PROVE  TypeOK'
<1>1. req[p].keys \subseteq Keys
  BY DEF TypeOK, RequestsOK, Request
<1>2. CacheOK'
  BY DelOK DEF ExecDel, TypeOK
<1>3. excuse' \subseteq Keys
  BY <1>1, DeletedOK DEF ExecDel
<1>4. [no |-> faults, keys |-> req[p].keys, left |-> maxRetries] \in Job
  BY <1>1 DEF Job, maxRetries, TypeOK, CacheOK
<1>5. jobs' \subseteq Job
  BY <1>4 DEF ExecDel, TypeOK
<1> QED
  BY <1>2, <1>3, <1>5 DEF ExecDel, TypeOK, Table!TypeOK

\* WriteDel keeps the types.
LEMMA WriteDelOK ==
    ASSUME TypeOK, NEW p \in Proc, NEW o \in Outcome, WriteDel(p, o)
    PROVE  TypeOK'
<1>1. req[p].row.id \in Ids
  BY RowFacts DEF WriteDel, TypeOK, RequestsOK, Fits
<1>2. RequestsOK'
  BY <1>1, SameOK, ReturnOK DEF WriteDel, TypeOK
<1> QED
  BY <1>2, ExecDelOK DEF WriteDel

\* CreateDel keeps the types.
LEMMA CreateDelOK ==
    ASSUME TypeOK, NEW p \in Proc, NEW o \in Outcome, CreateDel(p, o)
    PROVE  TypeOK'
<1> DEFINE r == [req[p] EXCEPT !.keys = {userCacheIdKey(req[p].row.id)}]
<1>1. req[p] \in Request /\ Fits("delnew", req[p]) /\ req[p].row.id \in Ids
  BY RowFacts DEF CreateDel, TypeOK, RequestsOK, Fits
<1>2. {userCacheIdKey(req[p].row.id)} \in SUBSET Keys
  BY <1>1, KeyFacts
<1>3. r \in Request /\ Fits("delid", r) /\ "delid" \in PC
  BY <1>1, <1>2 DEF Request, Fits, Reading, PC
<1>4. RequestsOK'
  BY <1>3, GotoOK DEF CreateDel, TypeOK
<1> QED
  BY <1>4, ExecDelOK DEF CreateDel

\* CreateDelId keeps the types.
LEMMA CreateDelIdOK ==
    ASSUME TypeOK, NEW p \in Proc, NEW o \in Outcome, CreateDelId(p, o)
    PROVE  TypeOK'
<1>1. req[p].keys \subseteq Keys /\ req[p].row.id \in Ids
  BY RowFacts DEF CreateDelId, TypeOK, RequestsOK, Request, Fits
<1>2. CacheOK'
  BY DelOK DEF CreateDelId, TypeOK
<1>3. excuse' \subseteq Keys
  BY <1>1, DeletedOK DEF CreateDelId, TypeOK
<1>4. RequestsOK'
  <2>1. CASE Errored(o)
    BY <2>1, SameOK, ReturnOK DEF CreateDelId, TypeOK
  <2>2. CASE ~Errored(o)
    BY <1>1, <2>2, SameOK, ReturnOK DEF CreateDelId, TypeOK
  <2> QED
    BY <2>1, <2>2
<1> QED
  BY <1>2, <1>3, <1>4 DEF CreateDelId, TypeOK, Table!TypeOK

\* An attempt of AsyncDel keeps the types.
LEMMA AsyncDelOK ==
    ASSUME TypeOK, NEW j \in jobs, NEW o \in Outcome, AsyncDel(j, o)
    PROVE  TypeOK'
<1>1. j \in Job /\ j.keys \subseteq Keys /\ j.left \in 1..maxRetries
  BY DEF TypeOK, Job
<1>2. CacheOK'
  BY DelOK DEF AsyncDel, TypeOK
<1>3. excuse' \subseteq Keys
  BY <1>1, DeletedOK DEF AsyncDel, TypeOK
<1>4. j.left > 1 => [j EXCEPT !.left = j.left - 1] \in Job
  BY <1>1 DEF Job, maxRetries
<1>5. jobs' \subseteq Job
  BY <1>4 DEF AsyncDel, TypeOK
<1> QED
  BY <1>2, <1>3, <1>5 DEF AsyncDel, TypeOK, Table!TypeOK, RequestsOK

\* Expiry, the breaker's window and a crash keep the types.
LEMMA EnvironmentOK ==
    ASSUME TypeOK, (\E k \in Keys : Expire(k)) \/ BreakerWindow \/ Crash
    PROVE  TypeOK'
<1>1. ASSUME NEW k \in Keys, Expire(k) PROVE TypeOK'
  <2>1. CacheOK'
    BY <1>1, KeyFacts DEF Expire, ExpireKey, TypeOK, CacheOK, RowValue, IndexValue
  <2> QED
    BY <1>1, <2>1 DEF Expire, TypeOK, Table!TypeOK, RequestsOK
<1>2. CASE BreakerWindow
  <2>1. CacheOK'
    BY <1>2 DEF BreakerWindow, WindowPasses, TypeOK, CacheOK, Breaker
  <2> QED
    BY <1>2, <2>1 DEF BreakerWindow, TypeOK, Table!TypeOK, RequestsOK
<1>3. CASE Crash
  <2>1. CacheOK'
    BY <1>3, MaxFaultsAssumption DEF Crash, TypeOK, CacheOK, Breaker
  <2>2. RequestsOK'
    BY <1>3, IdleOK DEF Crash, RequestsOK, PC, Replied, Reply
  <2>3. excuse' \subseteq Keys
    <3>1. Pending \subseteq Keys
      BY DEF Pending
    <3> QED
      BY <1>3, <3>1 DEF Crash, Cached, TypeOK
  <2> QED
    BY <1>3, <2>1, <2>2, <2>3 DEF Crash, TypeOK, Table!TypeOK
<1> QED
  BY <1>1, <1>2, <1>3

-----------------------------------------------------------------------------
\* Every action keeps OldInv.

\* No request is about to write that was not before.
NoNewWriter == \A q \in Proc : pc'[q] = "exec" => pc[q] = "exec" /\ req'[q] = req[q]

\* While the table stands still and nobody new is about to write, OldInv stays.
LEMMA OldKept ==
    ASSUME OldInv, UNCHANGED rows, NoNewWriter
    PROVE  OldInv'
BY DEF OldInv, NoNewWriter, RowsAffected, Table!Exists

\* Going anywhere but to the UPDATE makes no new writer.
LEMMA GotoNoWriter ==
    ASSUME RequestsOK, NEW p \in Proc, NEW l, l # "exec", NEW r, Goto(p, l, r)
    PROVE  NoNewWriter
BY DEF RequestsOK, Goto, NoNewWriter

\* Nor does a call.
LEMMA CallNoWriter ==
    ASSUME RequestsOK, NEW p \in Proc, NEW l, l # "exec", NEW r, Call(p, l, r)
    PROVE  NoNewWriter
BY DEF RequestsOK, Call, NoNewWriter

\* Nor does a return.
LEMMA ReturnNoWriter ==
    ASSUME NEW P, NEW reply, Return(P, reply)
    PROVE  NoNewWriter
BY DEF Return, NoNewWriter

\* A write to a row moves its version on, so that a writer which read the row
\* before will not find it; a write to no row concerns no writer.
LEMMA OldCommitted ==
    ASSUME TypeOK, OldInv, NEW i \in Ids, NEW row \in Table!Row,
           Table!Exists(i) => row.version = rows[i].version + 1,
           rows' = [rows EXCEPT ![i] = row], NoNewWriter
    PROVE  OldInv'
<1> SUFFICES ASSUME NEW q \in Proc, pc'[q] = "exec"
             PROVE  /\ rows'[req'[q].row.id] # None
                    /\ req'[q].row.live
                    /\ req'[q].row.version <= rows'[req'[q].row.id].version
                    /\ rows'[req'[q].row.id].version = req'[q].row.version
                          => rows'[req'[q].row.id] = req'[q].row
  BY DEF OldInv, RowsAffected, Table!Exists
<1> DEFINE old == req[q].row
<1>1. pc[q] = "exec" /\ req'[q] = req[q]
  BY DEF NoNewWriter
<1>2. old \in Table!Row /\ old.id \in Ids /\ old.version \in Nat
  BY <1>1, RowFacts DEF TypeOK, RequestsOK, Fits
<1>3. /\ rows[old.id] # None
      /\ old.live
      /\ old.version <= rows[old.id].version
      /\ rows[old.id].version = old.version => rows[old.id] = old
  BY <1>1 DEF OldInv, RowsAffected, Table!Exists
<1>4. rows \in [Ids -> Table!Row \cup {None}]
  BY DEF TypeOK, Table!TypeOK
<1>5. CASE old.id = i
  <2>1. rows[i] \in Table!Row /\ rows[i].version \in Nat
    BY <1>3, <1>4, <1>5, RowFacts
  <2>2. row.version = rows[i].version + 1 /\ rows'[i] = row /\ row # None
    BY <1>3, <1>4, <1>5, ValuesAssumption DEF Table!Exists
  <2> QED
    BY <1>1, <1>2, <1>3, <1>5, <2>1, <2>2
<1>6. CASE old.id # i
  <2>1. rows'[old.id] = rows[old.id]
    BY <1>2, <1>4, <1>6
  <2> QED
    BY <1>1, <1>3, <2>1
<1> QED
  BY <1>5, <1>6

\* The same for a write whose action Exec runs.
LEMMA OldApplied ==
    ASSUME TypeOK, OldInv, NEW p \in Proc, NEW l, l # "exec", NEW i \in Ids, NEW ns,
           NEW row \in Table!Row, Table!Exists(i) => row.version = rows[i].version + 1,
           NEW r, Applied(p, l, i, ns, row, r)
    PROVE  OldInv'
<1>1. NoNewWriter
  BY GotoNoWriter, ReturnNoWriter DEF Applied, TypeOK
<1>2. rows' = [rows EXCEPT ![i] = row]
  BY DEF Applied, Commit
<1> QED
  BY <1>1, <1>2, OldCommitted

\* The beginning of a request keeps OldInv.
LEMMA OldStart ==
    ASSUME TypeOK, OldInv, NEW p \in Proc, Start(p)
    PROVE  OldInv'
<1>1. UNCHANGED rows
  BY DEF Start, GetUserByID, GetUserByUsername, UpdateUser, DeleteUser, CreateUser, Call
<1>2. \E l \in {"get", "readold", "insert"}, r \in {req'[p]} : Call(p, l, r)
  BY DEF Start, GetUserByID, GetUserByUsername, UpdateUser, DeleteUser, CreateUser, Call,
         TypeOK, RequestsOK
<1> QED
  BY <1>1, <1>2, CallNoWriter, OldKept DEF TypeOK

\* A writer that has just read its row finds it as it is.
LEMMA OldReadOld ==
    ASSUME TypeOK, OldInv, NEW p \in Proc, ReadOld(p)
    PROVE  OldInv'
<1>1. UNCHANGED rows
  BY DEF ReadOld
<1>2. ASSUME NEW i \in First(req[p].query),
             Goto(p, "exec", [req[p] EXCEPT !.row = rows[i],
                                            !.keys = staleKeys(req[p], rows[i])])
      PROVE  OldInv'
  <2>1. rows[i] \in Table!Row /\ rows[i].id = i /\ rows[i].live /\ rows[i].version \in Nat
    BY FirstFacts, RowFacts DEF TypeOK
  <2>2. rows[i] # None
    BY <2>1, ValuesAssumption
  <2>3. pc' = [pc EXCEPT ![p] = "exec"] /\ req'[p].row = rows[i]
    BY <1>2 DEF Goto, TypeOK, RequestsOK, Request
  <2>4. \A q \in Proc \ {p} : pc'[q] = pc[q] /\ req'[q] = req[q]
    BY <1>2 DEF Goto, TypeOK, RequestsOK
  <2> SUFFICES ASSUME NEW q \in Proc, pc'[q] = "exec"
               PROVE  /\ rows[req'[q].row.id] # None
                      /\ req'[q].row.live
                      /\ req'[q].row.version <= rows[req'[q].row.id].version
                      /\ rows[req'[q].row.id].version = req'[q].row.version
                            => rows[req'[q].row.id] = req'[q].row
    BY <1>1 DEF OldInv, RowsAffected, Table!Exists
  <2>5. CASE q = p
    BY <2>1, <2>2, <2>3, <2>5
  <2>6. CASE q # p
    BY <2>4, <2>6 DEF OldInv, RowsAffected, Table!Exists
  <2> QED
    BY <2>5, <2>6
<1>3. CASE Return({p}, Same(Replied("notfound", None))) \/ Return({p}, Same(Replied("failed", None)))
  BY <1>1, <1>3, ReturnNoWriter, OldKept
<1> QED
  BY <1>2, <1>3 DEF ReadOld

\* Every step of a request keeps OldInv.
LEMMA OldStep ==
    ASSUME TypeOK, OldInv, NEW p \in Proc, Step(p)
    PROVE  OldInv'
<1> USE DEF TypeOK
<1>1. ASSUME NEW o \in Outcome,
             \/ CacheGet(p, o)
             \/ Purge(p, o)
             \/ TakeFill(p, o)
             \/ IndexFill(p, o)
             \/ IndexFillRow(p, o)
             \/ FillNotFound(p, o)
             \/ WriteDel(p, o)
             \/ CreateDel(p, o)
             \/ CreateDelId(p, o)
      PROVE  OldInv'
  <2>1. UNCHANGED rows
    BY <1>1 DEF CacheGet, Purge, TakeFill, IndexFill, IndexFillRow, FillNotFound, WriteDel,
                CreateDel, CreateDelId, ExecDel
  <2>2. NoNewWriter
    BY <1>1, GotoNoWriter, ReturnNoWriter
    DEF CacheGet, Purge, TakeFill, IndexFill, IndexFillRow, FillNotFound, WriteDel,
        CreateDel, CreateDelId
  <2> QED
    BY <2>1, <2>2, OldKept
<1>2. CASE Enter(p) \/ Query(p)
  <2>1. UNCHANGED rows /\ NoNewWriter
    BY <1>2, GotoNoWriter, ReturnNoWriter DEF Enter, Query
  <2> QED
    BY <2>1, OldKept
<1>3. CASE ReadOld(p)
  BY <1>3, OldReadOld
<1>4. CASE UpdateUserExec(p)
  <2>1. CASE \E s \in {"failed", "conflict"} : ExecFailed(p, s)
    BY <2>1, ReturnNoWriter, OldKept DEF ExecFailed
  <2>2. CASE /\ RowsAffected(req[p])
             /\ Applied(p, "del", req[p].row.id, {rows[req[p].row.id].name, req[p].name},
                        UpdatedRow(req[p]), req[p])
    BY <1>4, <2>2, WrittenRows, OldApplied DEF UpdateUserExec
  <2> QED
    BY <1>4, <2>1, <2>2 DEF UpdateUserExec
<1>5. CASE DeleteUserExec(p)
  <2>1. CASE \E s \in {"failed", "conflict"} : ExecFailed(p, s)
    BY <2>1, ReturnNoWriter, OldKept DEF ExecFailed
  <2>2. CASE /\ RowsAffected(req[p])
             /\ Applied(p, "del", req[p].row.id, {rows[req[p].row.id].name},
                        DeletedRow(req[p]), req[p])
    BY <1>5, <2>2, WrittenRows, OldApplied DEF DeleteUserExec
  <2> QED
    BY <1>5, <2>1, <2>2 DEF DeleteUserExec
<1>6. CASE CreateUserExec(p)
  <2>1. CASE ExecFailed(p, "failed")
    BY <2>1, ReturnNoWriter, OldKept DEF ExecFailed
  <2>2. ASSUME NEW i \in Ids, ~Table!Exists(i),
               Applied(p, "delnew", i, {req[p].name}, Table!NewRow(i, req[p].name),
                       [req[p] EXCEPT !.row = Table!NewRow(i, req[p].name)])
        PROVE  OldInv'
    <3>1. Table!NewRow(i, req[p].name) \in Table!Row
      BY <1>6, NewRowOK DEF CreateUserExec, RequestsOK, Fits
    <3> QED
      BY <2>2, <3>1, OldApplied
  <2> QED
    BY <1>6, <2>1, <2>2 DEF CreateUserExec
<1> QED
  BY <1>1, <1>2, <1>3, <1>4, <1>5, <1>6 DEF Step

-----------------------------------------------------------------------------
\* The two invariants, together inductive.

Inv == TypeOK /\ OldInv

\* Every step of a request keeps the types.
LEMMA StepOK ==
    ASSUME TypeOK, OldInv, NEW p \in Proc, Step(p)
    PROVE  TypeOK'
BY CacheGetOK, PurgeOK, EnterOK, QueryOK, TakeFillOK, IndexFillOK, IndexFillRowOK,
   FillNotFoundOK, ReadOldOK, UpdateUserExecOK, DeleteUserExecOK, CreateUserExecOK,
   WriteDelOK, CreateDelOK, CreateDelIdOK
DEF Step

\* The inductive invariant holds to begin with.
LEMMA InvInit == Init => Inv
<1> SUFFICES ASSUME Init PROVE Inv
  OBVIOUS
<1>1. Table!TypeOK
  <2>1. \A i \in Ids, n \in Table!AllNames : Table!NewRow(i, n) \in Table!Row
    BY NewRowOK
  <2> QED
    BY <2>1 DEF Init, Table!Init, Table!TypeOK, Table!Exists
<1>2. CacheOK
  <2>1. PICK old \in SUBSET JunkIds :
          store = [k \in Keys |-> IF \E i \in old : k = userCacheIdKey(i) THEN Junk ELSE None]
    BY DEF Init
  <2>2. \A k \in IdKeys : store[k] \in RowValue
    BY <2>1, KeyFacts DEF RowValue
  <2>3. \A k \in NameKeys : store[k] = None
    BY <2>1, KeyFacts, JunkIdsAssumption
  <2>4. store = [k \in Keys |-> store[k]]
    BY <2>1
  <2>5. breaker \in Breaker /\ faults \in 0..MaxFaults
    BY MaxFaultsAssumption DEF Init, Breaker
  <2>6. \A k \in NameKeys : store[k] \in IndexValue
    BY <2>3 DEF IndexValue
  <2> QED
    BY <2>2, <2>4, <2>5, <2>6 DEF CacheOK
<1>3. RequestsOK
  BY IdleOK DEF Init, RequestsOK, PC, Replied, Reply
<1> QED
  BY <1>1, <1>2, <1>3, MaxWritesAssumption DEF Init, Inv, TypeOK, OldInv

\* Every step keeps the inductive invariant.
LEMMA InvStep == Inv /\ [Next]_vars => Inv'
<1> SUFFICES ASSUME TypeOK, OldInv, [Next]_vars PROVE TypeOK' /\ OldInv'
  BY DEF Inv
<1>1. ASSUME NEW p \in Proc, Start(p) PROVE TypeOK' /\ OldInv'
  BY <1>1, StartOK, OldStart
<1>2. ASSUME NEW p \in Proc, Step(p) PROVE TypeOK' /\ OldInv'
  BY <1>2, StepOK, OldStep
<1>3. ASSUME NEW j \in jobs, NEW o \in Outcome, AsyncDel(j, o) PROVE TypeOK' /\ OldInv'
  <2>1. UNCHANGED rows /\ NoNewWriter
    BY <1>3 DEF AsyncDel, NoNewWriter
  <2> QED
    BY <1>3, <2>1, AsyncDelOK, OldKept
<1>4. CASE (\E k \in Keys : Expire(k)) \/ BreakerWindow \/ Crash
  <2>1. UNCHANGED rows /\ NoNewWriter
    BY <1>4 DEF Expire, BreakerWindow, Crash, NoNewWriter
  <2> QED
    BY <1>4, <2>1, EnvironmentOK, OldKept
<1>5. CASE UNCHANGED vars
  <2>1. UNCHANGED rows /\ NoNewWriter
    BY <1>5 DEF vars, NoNewWriter
  <2>2. TypeOK'
    BY <1>5 DEF vars, redisVars, TypeOK, Table!TypeOK, CacheOK, RequestsOK
  <2> QED
    BY <2>1, <2>2, OldKept
<1> QED
  BY <1>1, <1>2, <1>3, <1>4, <1>5 DEF Next, RunJob

\* The inductive invariant holds in every state.
LEMMA InvAlways == Spec => []Inv
BY InvInit, InvStep, PTL DEF Spec

\* Types, and what each request carries at each point, hold in every state.
THEOREM TypeCorrect == Spec => []TypeOK
<1>1. Inv => TypeOK
  BY DEF Inv
<1> QED
  BY <1>1, InvAlways, PTL

\* Optimistic locking works: a version that has not moved since the SELECT
\* means a row that has not changed at all, whoever else has been writing.
THEOREM OldIsCurrentAlways == Spec => []OldIsCurrent
<1>1. Inv => OldIsCurrent
  BY DEF Inv, OldInv, OldIsCurrent
<1> QED
  BY <1>1, InvAlways, PTL

-----------------------------------------------------------------------------
\* Seen through the users table, every step is a step of UserTable or none.

\* Every step of the repository is a step of the table, or leaves it alone.
LEMMA RefinesStep == Inv /\ [Next]_vars => [Table!Next]_rows
<1> SUFFICES ASSUME TypeOK, OldInv, [Next]_vars PROVE Table!Next \/ UNCHANGED rows
  BY DEF Inv
<1>1. ASSUME NEW p \in Proc, UpdateUserExec(p) PROVE Table!Next \/ UNCHANGED rows
  <2> DEFINE i == req[p].row.id
  <2>1. CASE UNCHANGED rows
    BY <2>1
  <2>2. CASE RowsAffected(req[p]) /\ Table!NameFree(req[p].name, i) /\ rows' = [rows EXCEPT ![i] = UpdatedRow(req[p])]
    <3>1. i \in Ids /\ rows[i] = req[p].row /\ Table!Live(i) /\ req[p].name \in Table!AllNames
      BY <1>1, <2>2, WrittenRows DEF UpdateUserExec, TypeOK, RequestsOK, Fits
    <3>2. Table!Update(i, req[p].name)
      BY <2>2, <3>1 DEF Table!Update, UpdatedRow
    <3> QED
      BY <3>1, <3>2 DEF Table!Next
  <2> QED
    BY <1>1, <2>1, <2>2 DEF UpdateUserExec, ExecFailed, Applied, Commit
<1>2. ASSUME NEW p \in Proc, DeleteUserExec(p) PROVE Table!Next \/ UNCHANGED rows
  <2> DEFINE i == req[p].row.id
  <2>1. CASE UNCHANGED rows
    BY <2>1
  <2>2. CASE RowsAffected(req[p]) /\ rows' = [rows EXCEPT ![i] = DeletedRow(req[p])]
    <3>1. i \in Ids /\ rows[i] = req[p].row /\ Table!Live(i)
      BY <1>2, <2>2, WrittenRows DEF DeleteUserExec
    <3>2. Table!Delete(i)
      BY <2>2, <3>1 DEF Table!Delete, DeletedRow
    <3> QED
      BY <3>1, <3>2 DEF Table!Next
  <2> QED
    BY <1>2, <2>1, <2>2 DEF DeleteUserExec, ExecFailed, Applied, Commit
<1>3. ASSUME NEW p \in Proc, CreateUserExec(p) PROVE Table!Next \/ UNCHANGED rows
  <2>1. CASE UNCHANGED rows
    BY <2>1
  <2>2. ASSUME NEW i \in Ids, ~Table!Exists(i), Table!NameFree(req[p].name, i),
               rows' = [rows EXCEPT ![i] = Table!NewRow(i, req[p].name)]
        PROVE  Table!Next
    <3>1. req[p].name \in Table!AllNames
      BY <1>3 DEF CreateUserExec, TypeOK, RequestsOK, Fits
    <3> QED
      BY <2>2, <3>1 DEF Table!Create, Table!Next
  <2> QED
    BY <1>3, <2>1, <2>2 DEF CreateUserExec, ExecFailed, Applied, Commit
<1>4. ASSUME NEW p \in Proc, Start(p) PROVE UNCHANGED rows
  BY <1>4 DEF Start, GetUserByID, GetUserByUsername, UpdateUser, DeleteUser, CreateUser, Call
<1>5. ASSUME NEW p \in Proc, NEW o \in Outcome,
             \/ CacheGet(p, o)
             \/ Purge(p, o)
             \/ TakeFill(p, o)
             \/ IndexFill(p, o)
             \/ IndexFillRow(p, o)
             \/ FillNotFound(p, o)
             \/ WriteDel(p, o)
             \/ CreateDel(p, o)
             \/ CreateDelId(p, o)
      PROVE  UNCHANGED rows
  BY <1>5 DEF CacheGet, Purge, TakeFill, IndexFill, IndexFillRow, FillNotFound, WriteDel,
              CreateDel, CreateDelId, ExecDel
<1>6. ASSUME NEW p \in Proc, Enter(p) \/ Query(p) \/ ReadOld(p) PROVE UNCHANGED rows
  BY <1>6 DEF Enter, Query, ReadOld
<1>7. CASE RunJob \/ (\E k \in Keys : Expire(k)) \/ BreakerWindow \/ Crash \/ UNCHANGED vars
  BY <1>7 DEF RunJob, AsyncDel, Expire, BreakerWindow, Crash, vars
<1> QED
  BY <1>1, <1>2, <1>3, <1>4, <1>5, <1>6, <1>7 DEF Next, Step

\* The repository implements the abstract table: reading a row and writing it
\* back with WHERE version = ? is, for any number of racing requests, faults
\* and crashes, one atomic change of a live row.
THEOREM Refinement == Spec => RefinesTable
<1>1. Init => Table!Init
  BY DEF Init
<1> QED
  BY <1>1, RefinesStep, InvAlways, PTL DEF Spec, RefinesTable, Table!Spec

\* No two rows ever share a username, deleted ones and the empty name included.
THEOREM UsernamesUnique == Spec => []Table!UniqueUsernames
<1>1. Init => Table!UniqueUsernames
  BY DEF Init, Table!Init
<1>2. Inv /\ Table!UniqueUsernames /\ [Table!Next]_rows => Table!UniqueUsernames'
  <2> SUFFICES ASSUME TypeOK, Table!UniqueUsernames, Table!Next \/ UNCHANGED rows
               PROVE  Table!UniqueUsernames'
    BY DEF Inv
  <2> USE DEF Table!UniqueUsernames, Table!Exists
  <2>1. \A i \in Ids : rows[i] # None => rows[i] \in Table!Row
    BY DEF TypeOK, Table!TypeOK
  <2>2. ASSUME NEW i \in Ids, NEW n \in Table!AllNames, NEW row, row.name = n,
               Table!NameFree(n, i), rows' = [rows EXCEPT ![i] = row]
        PROVE  Table!UniqueUsernames'
    <3>1. DOMAIN rows = Ids
      BY DEF TypeOK, Table!TypeOK
    <3> QED
      BY <2>2, <3>1 DEF Table!NameFree, Table!SameName
  <2>3. ASSUME NEW i \in Ids, NEW n \in Table!AllNames, Table!Create(i, n)
        PROVE  Table!UniqueUsernames'
    BY <2>2, <2>3 DEF Table!Create, Table!NewRow
  <2>4. ASSUME NEW i \in Ids, NEW n \in Table!AllNames, Table!Update(i, n)
        PROVE  Table!UniqueUsernames'
    <3>1. [rows[i] EXCEPT !.name = n, !.version = rows[i].version + 1].name = n
      BY <2>1, <2>4 DEF Table!Update, Table!Live, Table!Row
    <3> QED
      BY <2>2, <2>4, <3>1 DEF Table!Update
  <2>5. ASSUME NEW i \in Ids, Table!Delete(i)
        PROVE  Table!UniqueUsernames'
    <3>1. rows[i] # None /\ rows'[i].name = rows[i].name
      BY <2>1, <2>5 DEF Table!Delete, Table!Live, Table!Row, TypeOK, Table!TypeOK
    <3>2. \A j \in Ids \ {i} : rows'[j] = rows[j]
      BY <2>5 DEF Table!Delete, TypeOK, Table!TypeOK
    <3> QED
      BY <3>1, <3>2
  <2>6. CASE UNCHANGED rows
    BY <2>6
  <2> QED
    BY <2>3, <2>4, <2>5, <2>6 DEF Table!Next
<1> QED
  BY <1>1, <1>2, RefinesStep, InvAlways, PTL DEF Spec

\* A row that exists stays, a deleted one for ever as it is; and whenever a
\* row changes at all its version moves by one, so that a version, once seen,
\* never comes back with other columns.
VersionsTell ==
    \A i \in Ids : Table!Exists(i) =>
        /\ Table!Exists(i)'
        /\ rows'[i] # rows[i] => Table!Live(i) /\ rows'[i].version = rows[i].version + 1

\* A step of the table is one that VersionsTell allows.
LEMMA TableMovesOn == TypeOK /\ TypeOK' /\ [Table!Next]_rows => [VersionsTell]_rows
<1> SUFFICES ASSUME TypeOK, TypeOK', Table!Next, NEW i \in Ids, Table!Exists(i)
             PROVE  /\ rows'[i] # None
                    /\ rows'[i] # rows[i] => Table!Live(i) /\ rows'[i].version = rows[i].version + 1
  BY DEF VersionsTell, Table!Exists
<1>1. rows \in [Ids -> Table!Row \cup {None}] /\ rows[i] \in Table!Row /\ rows[i].version \in Nat
  BY RowFacts DEF TypeOK, Table!TypeOK, Table!Exists
<1>2. ASSUME NEW j \in Ids, NEW row, rows' = [rows EXCEPT ![j] = row],
             j = i => Table!Live(i) /\ row \in Table!Row /\ row.version = rows[i].version + 1
      PROVE  /\ rows'[i] # None
             /\ rows'[i] # rows[i] => Table!Live(i) /\ rows'[i].version = rows[i].version + 1
  <2>1. rows'[i] = IF i = j THEN row ELSE rows[i]
    BY <1>1, <1>2
  <2> QED
    BY <1>1, <1>2, <2>1, ValuesAssumption DEF Table!Exists
<1>3. ASSUME NEW j \in Ids, NEW n \in Table!AllNames, Table!Create(j, n)
      PROVE  /\ rows'[i] # None
             /\ rows'[i] # rows[i] => Table!Live(i) /\ rows'[i].version = rows[i].version + 1
  BY <1>2, <1>3 DEF Table!Create
<1>4. ASSUME NEW j \in Ids, NEW n \in Table!AllNames, Table!Update(j, n)
      PROVE  /\ rows'[i] # None
             /\ rows'[i] # rows[i] => Table!Live(i) /\ rows'[i].version = rows[i].version + 1
  <2>1. PICK row : row = [rows[j] EXCEPT !.name = n, !.version = rows[j].version + 1]
    OBVIOUS
  <2>2. PICK v \in Nat : j = i => v = rows[i].version + 1
    BY <1>1
  <2>3. j = i => row = [rows[i] EXCEPT !.name = n, !.version = v]
    BY <2>1, <2>2
  <2>4. j = i => row \in Table!Row /\ row.version = v
    BY <1>1, <2>3 DEF Table!Row
  <2> QED
    BY <1>2, <1>4, <2>1, <2>2, <2>4 DEF Table!Update
<1>5. ASSUME NEW j \in Ids, Table!Delete(j)
      PROVE  /\ rows'[i] # None
             /\ rows'[i] # rows[i] => Table!Live(i) /\ rows'[i].version = rows[i].version + 1
  <2>1. PICK row : row = [rows[j] EXCEPT !.live = FALSE, !.version = rows[j].version + 1]
    OBVIOUS
  <2>2. PICK v \in Nat : j = i => v = rows[i].version + 1
    BY <1>1
  <2>3. j = i => row = [rows[i] EXCEPT !.live = FALSE, !.version = v]
    BY <2>1, <2>2
  <2>4. j = i => row \in Table!Row /\ row.version = v
    BY <1>1, <2>3 DEF Table!Row
  <2> QED
    BY <1>2, <1>5, <2>1, <2>2, <2>4 DEF Table!Delete
<1> QED
  BY <1>3, <1>4, <1>5 DEF Table!Next

\* Deletion is final and versions count the changes of a row, whatever the
\* repository's requests do to one another (user_repo.go: del_state = 0 in
\* every lookup, version = version + 1 in every UPDATE).
THEOREM VersionsTellAlways == Spec => [][VersionsTell]_rows
BY RefinesStep, InvAlways, TypeCorrect, TableMovesOn, PTL DEF Spec
=============================================================================
