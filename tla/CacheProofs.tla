----------------------------- MODULE CacheProofs -----------------------------
(***************************************************************************)
(* What UserRepo promises of its cache, for any number of requests, users, *)
(* writes and faults: a cached value that disagrees with the table is      *)
(* about to be deleted, or has one of the excuses the code leaves open.    *)
(***************************************************************************)
EXTENDS UserRepoProofs

-----------------------------------------------------------------------------
\* Requests that move.

\* p goes to l, carrying r.
Moves(p, l, r) ==
    /\ pc' = [pc EXCEPT ![p] = l]
    /\ req' = [req EXCEPT ![p] = r]

\* What a move does to p and to the others.
LEMMA MovesFacts ==
    ASSUME RequestsOK, NEW p \in Proc, NEW l, NEW r, Moves(p, l, r)
    PROVE  /\ pc'[p] = l /\ req'[p] = r
           /\ \A q \in Proc \ {p} : pc'[q] = pc[q] /\ req'[q] = req[q]
BY DEF RequestsOK, Moves

\* Goto and Call are moves.
LEMMA GotoMoves ==
    ASSUME NEW p, NEW l, NEW r, Goto(p, l, r) \/ Call(p, l, r)
    PROVE  Moves(p, l, r)
BY DEF Goto, Call, Moves

-----------------------------------------------------------------------------
\* Stale values.

Filling == {"fill", "fillrow", "fillnf"}

\* What a reader carries that no write has overtaken is what the table says:
\* the id key it was led to, the row it read, or that there is none.
Current(q) ==
    /\ req[q].key # req[q].query
          => \E i \in First(req[q].query) : req[q].key = userCacheIdKey(i)
    /\ pc[q] \in {"fill", "fillrow"}
          => req[q].row.id \in First(req[q].query) /\ rows[req[q].row.id] = req[q].row
    /\ pc[q] = "fillnf" => First(req[q].query) = {}

\* A reader works on the key it asks for, or on the id key its index led to.
Carried(q) ==
    pc[q] \in Reading =>
        /\ \/ req[q].key = req[q].query
           \/ req[q].key \in IdKeys /\ req[q].query \in NameKeys
        /\ q \notin late => Current(q)

\* A writer has named every key that its statement will make wrong.
WriterKeys(q) ==
    /\ pc[q] = "exec" => req[q].keys = staleKeys(req[q], req[q].row)
    /\ pc[q] = "insert" => req[q].keys = modelUniqueCacheKeys(req[q].name)

Sound(q) == Carried(q) /\ WriterKeys(q)

CacheInv == (\A q \in Proc : Sound(q)) /\ StaleOnlyIfExcused

\* What a lookup finds, and whether a value is stale, depends on the table and
\* on that value alone.
LEMMA TableStands ==
    ASSUME UNCHANGED rows
    PROVE  /\ \A k : First(k)' = First(k)
           /\ \A k \in Keys : store'[k] = store[k] => (Stale(k)' <=> Stale(k))
<1>1. \A k : First(k)' = First(k)
  BY DEF First, Table!Live, Table!Exists
<1> QED
  BY <1>1 DEF Stale

\* A request that stands still, while the table does, stays sound.
LEMMA SoundKept ==
    ASSUME NEW q \in Proc, Sound(q), UNCHANGED rows, pc'[q] = pc[q], req'[q] = req[q],
           q \in late => q \in late'
    PROVE  Sound(q)'
BY TableStands DEF Sound, Carried, Current, WriterKeys, staleKeys

\* One that neither reads nor is about to write has nothing to be wrong about.
LEMMA SoundElsewhere ==
    ASSUME NEW q \in Proc, pc'[q] \notin Reading \cup {"exec", "insert"}
    PROVE  Sound(q)'
BY DEF Sound, Carried, WriterKeys

\* Requests that return leave the others sound.
LEMMA ReturnSound ==
    ASSUME \A q \in Proc : Sound(q), UNCHANGED rows, NEW P, NEW reply, Return(P, reply),
           late \ P \subseteq late'
    PROVE  \A q \in Proc : Sound(q)'
<1> SUFFICES ASSUME NEW q \in Proc PROVE Sound(q)'
  OBVIOUS
<1>1. CASE q \in P
  <2>1. pc'[q] = "idle"
    BY <1>1 DEF Return
  <2> QED
    BY <2>1, SoundElsewhere DEF Reading
<1>2. CASE q \notin P
  <2>1. pc'[q] = pc[q] /\ req'[q] = req[q]
    BY <1>2 DEF Return
  <2> QED
    BY <1>2, <2>1, SoundKept
<1> QED
  BY <1>1, <1>2

\* So does one that moves.
LEMMA MovesSound ==
    ASSUME RequestsOK, \A q \in Proc : Sound(q), UNCHANGED rows, NEW p \in Proc, NEW l, NEW r,
           Moves(p, l, r), late \ {p} \subseteq late', Sound(p)'
    PROVE  \A q \in Proc : Sound(q)'
<1> SUFFICES ASSUME NEW q \in Proc, q # p PROVE Sound(q)'
  OBVIOUS
<1>1. pc'[q] = pc[q] /\ req'[q] = req[q]
  BY MovesFacts
<1> QED
  BY <1>1, SoundKept

\* A reader that has read nothing yet, or goes on to write what it has read,
\* carries the same as before.
LEMMA ReaderGoesOn ==
    ASSUME NEW p \in Proc, Sound(p), UNCHANGED rows, pc[p] \in Reading,
           \/ pc'[p] \in Reading \ Filling
           \/ pc[p] = "fill" /\ pc'[p] = "fillrow",
           req'[p] = req[p], p \in late => p \in late'
    PROVE  Sound(p)'
<1>1. pc'[p] \in Reading /\ pc'[p] # "exec" /\ pc'[p] # "insert"
  BY DEF Reading
<1>2. Carried(p)'
  BY <1>1, TableStands DEF Sound, Carried, Current, Filling
<1> QED
  BY <1>1, <1>2 DEF Sound, WriterKeys

\* The beginning of a request: a reader carries nothing yet, and CreateUser
\* knows the keys it will delete.
LEMMA StartSound ==
    ASSUME TypeOK, \A q \in Proc : Sound(q), NEW p \in Proc, Start(p)
    PROVE  \A q \in Proc : Sound(q)'
<1>1. UNCHANGED <<rows, late>> /\ RequestsOK
  BY DEF Start, GetUserByID, GetUserByUsername, UpdateUser, DeleteUser, CreateUser, Call, TypeOK
<1>2. ASSUME NEW l, NEW r, Call(p, l, r),
             \/ l = "get" /\ r.key = r.query
             \/ l = "readold"
             \/ l = "insert" /\ r.keys = modelUniqueCacheKeys(r.name)
      PROVE  \A q \in Proc : Sound(q)'
  <2>1. pc'[p] = l /\ req'[p] = r /\ Moves(p, l, r)
    BY <1>1, <1>2, GotoMoves, MovesFacts
  <2>2. Sound(p)'
    BY <1>2, <2>1 DEF Sound, Carried, Current, WriterKeys, Reading
  <2> QED
    BY <1>1, <2>1, <2>2, MovesSound
<1>3. ASSUME NEW i \in Ids, GetUserByID(p, i) PROVE \A q \in Proc : Sound(q)'
  <2> DEFINE r == [Idle EXCEPT !.query = userCacheIdKey(i), !.key = userCacheIdKey(i)]
  <2>1. r.key = r.query
    BY DEF Idle
  <2>2. Call(p, "get", r)
    BY <1>3 DEF GetUserByID
  <2> HIDE DEF r
  <2> QED
    BY <1>2, <2>1, <2>2
<1>4. ASSUME NEW n \in Names, GetUserByUsername(p, n) PROVE \A q \in Proc : Sound(q)'
  <2> DEFINE r == [Idle EXCEPT !.query = userCacheUsernameKey(n), !.key = userCacheUsernameKey(n)]
  <2>1. r.key = r.query
    BY DEF Idle
  <2>2. Call(p, "get", r)
    BY <1>4 DEF GetUserByUsername
  <2> HIDE DEF r
  <2> QED
    BY <1>2, <2>1, <2>2
<1>5. ASSUME NEW i \in Ids, DeleteUser(p, i) \/ (\E n \in UpdateNames : UpdateUser(p, i, n))
      PROVE  \A q \in Proc : Sound(q)'
  <2>1. \E r : Call(p, "readold", r)
    BY <1>5 DEF DeleteUser, UpdateUser
  <2> QED
    BY <1>2, <2>1
<1>6. ASSUME NEW n \in Names, CreateUser(p, n) PROVE \A q \in Proc : Sound(q)'
  <2> DEFINE r == [Idle EXCEPT !.op = "create", !.name = n, !.keys = modelUniqueCacheKeys(n)]
  <2>1. r.keys = modelUniqueCacheKeys(n) /\ r.name = n
    BY DEF Idle
  <2>2. Call(p, "insert", r)
    BY <1>6 DEF CreateUser
  <2> HIDE DEF r
  <2> QED
    BY <1>2, <2>1, <2>2
<1> QED
  BY <1>3, <1>4, <1>5, <1>6 DEF Start

\* The GET: an index value that is not stale names a row the query would find.
LEMMA CacheGetSound ==
    ASSUME TypeOK, \A q \in Proc : Sound(q), NEW p \in Proc, NEW o \in Outcome, CacheGet(p, o)
    PROVE  \A q \in Proc : Sound(q)'
<1> DEFINE k == req[p].key
           v == cacheGet(k, o)
<1>1. /\ UNCHANGED rows /\ RequestsOK /\ pc[p] = "get" /\ late \ {p} \subseteq late'
      /\ req[p] \in Request /\ k \in Keys
  BY DEF CacheGet, TypeOK, RequestsOK, Fits, Reading
<1>2. CASE (Goto(p, "enter", req[p]) \/ Goto(p, "purge", req[p])) /\ UNCHANGED late
  <2>1. \E l \in {"enter", "purge"} : Moves(p, l, req[p]) /\ pc'[p] = l /\ req'[p] = req[p]
    BY <1>1, <1>2, GotoMoves, MovesFacts
  <2>2. Sound(p)'
    BY <1>1, <1>2, <2>1, ReaderGoesOn DEF Reading, Filling
  <2> QED
    BY <1>1, <2>1, <2>2, MovesSound
<1>3. ASSUME NEW reply, Return({p}, reply) PROVE \A q \in Proc : Sound(q)'
  BY <1>1, <1>3, ReturnSound
<1>4. CASE /\ k \in NameKeys /\ v \in IdKeys
           /\ Goto(p, "get", [req[p] EXCEPT !.key = v])
           /\ late' = IF Stale(k) THEN late \cup {p} ELSE late \ {p}
  <2> DEFINE r == [req[p] EXCEPT !.key = v]
  <2>1. r.key = v /\ r.query = req[p].query
    BY <1>1 DEF Request
  <2>2. Moves(p, "get", r) /\ pc'[p] = "get" /\ req'[p] = r
    BY <1>1, <1>4, GotoMoves, MovesFacts
  <2>3. k = req[p].query
    BY <1>1, <1>4, KeyFacts DEF Sound, Carried, Reading
  <2>4. store[k] = v
    BY <1>4, ValuesAssumption, KeyFacts DEF cacheGet
  <2>5. PICK i \in Ids : v = userCacheIdKey(i)
    BY <1>4 DEF IdKeys
  <2>6. ~Stale(k) => i \in First(k)
    BY <1>4, <2>4, <2>5 DEF Stale
  <2>7. p \notin late' => ~Stale(k)
    BY <1>4
  <2> HIDE DEF r, v, k
  <2>8. Sound(p)'
    BY <1>1, <1>4, <2>1, <2>2, <2>3, <2>5, <2>6, <2>7, TableStands
    DEF Sound, Carried, Current, WriterKeys, Reading
  <2> QED
    BY <1>1, <2>2, <2>8, MovesSound
<1> QED
  BY <1>2, <1>3, <1>4 DEF CacheGet

\* The query: what has just been read is what the table says.
LEMMA QuerySound ==
    ASSUME TypeOK, \A q \in Proc : Sound(q), NEW p \in Proc, Query(p)
    PROVE  \A q \in Proc : Sound(q)'
<1>1. UNCHANGED rows /\ RequestsOK /\ pc[p] = "query" /\ req[p] \in Request
  BY DEF Query, TypeOK, RequestsOK
<1>2. ASSUME NEW i \in First(req[p].query), Goto(p, "fill", [req[p] EXCEPT !.row = rows[i]]),
             late' = IF req[p].key = req[p].query THEN late \ {p} ELSE late
      PROVE  \A q \in Proc : Sound(q)'
  <2> DEFINE r == [req[p] EXCEPT !.row = rows[i]]
  <2>1. r.key = req[p].key /\ r.query = req[p].query /\ r.row = rows[i]
    BY <1>1 DEF Request
  <2>2. Moves(p, "fill", r) /\ pc'[p] = "fill" /\ req'[p] = r
    BY <1>1, <1>2, GotoMoves, MovesFacts
  <2>3. rows[i].id = i
    BY FirstFacts DEF TypeOK
  <2> HIDE DEF r
  <2>4. Sound(p)'
    BY <1>1, <1>2, <2>1, <2>2, <2>3, TableStands DEF Sound, Carried, Current, WriterKeys, Reading
  <2>5. late \ {p} \subseteq late'
    BY <1>2
  <2> QED
    BY <1>1, <2>2, <2>4, <2>5, MovesSound
<1>3. CASE /\ First(req[p].query) = {} /\ Goto(p, "fillnf", req[p])
           /\ late' = IF req[p].key = req[p].query THEN late \ {p} ELSE late
  <2>1. Moves(p, "fillnf", req[p]) /\ pc'[p] = "fillnf" /\ req'[p] = req[p]
    BY <1>1, <1>3, GotoMoves, MovesFacts
  <2>2. Sound(p)'
    BY <1>1, <1>3, <2>1, TableStands DEF Sound, Carried, Current, WriterKeys, Reading
  <2>3. late \ {p} \subseteq late'
    BY <1>3
  <2> QED
    BY <1>1, <2>1, <2>2, <2>3, MovesSound
<1>4. CASE Return(Flight(p), Same(Replied("failed", None))) /\ late' = late \ Flight(p)
  <2>1. late \ Flight(p) \subseteq late'
    BY <1>4
  <2> QED
    BY <1>1, <1>4, <2>1, ReturnSound
<1> QED
  BY <1>2, <1>3, <1>4 DEF Query

\* The other steps of a read.
LEMMA ReadSound ==
    ASSUME TypeOK, \A q \in Proc : Sound(q), NEW p \in Proc,
           \/ \E o \in Outcome : \/ Purge(p, o) \/ TakeFill(p, o) \/ IndexFill(p, o)
                                 \/ IndexFillRow(p, o) \/ FillNotFound(p, o)
           \/ Enter(p)
    PROVE  \A q \in Proc : Sound(q)'
<1>1. RequestsOK
  BY DEF TypeOK
<1>2. ASSUME NEW o \in Outcome, TakeFill(p, o) \/ IndexFillRow(p, o) \/ FillNotFound(p, o)
      PROVE  \A q \in Proc : Sound(q)'
  <2>1. UNCHANGED rows /\ late \ Flight(p) \subseteq late' /\ \E reply : Return(Flight(p), reply)
    BY <1>2 DEF TakeFill, IndexFillRow, FillNotFound
  <2> QED
    BY <2>1, ReturnSound
<1>3. ASSUME NEW l, Goto(p, l, req[p]), UNCHANGED <<rows, late>>, pc[p] \in Reading,
             l \in Reading \ Filling \/ (pc[p] = "fill" /\ l = "fillrow")
      PROVE  \A q \in Proc : Sound(q)'
  <2>1. Moves(p, l, req[p]) /\ pc'[p] = l /\ req'[p] = req[p]
    BY <1>1, <1>3, GotoMoves, MovesFacts
  <2>2. Sound(p)'
    BY <1>3, <2>1, ReaderGoesOn
  <2> QED
    BY <1>1, <1>3, <2>1, <2>2, MovesSound
<1>4. ASSUME NEW o \in Outcome, Purge(p, o) PROVE \A q \in Proc : Sound(q)'
  BY <1>3, <1>4 DEF Purge, Reading, Filling
<1>5. ASSUME NEW o \in Outcome, IndexFill(p, o) PROVE \A q \in Proc : Sound(q)'
  BY <1>3, <1>5 DEF IndexFill, Reading
<1>6. CASE Enter(p)
  BY <1>3, <1>6 DEF Enter, Reading, Filling
<1> QED
  BY <1>2, <1>4, <1>5, <1>6

\* A writer that has read its row, or deletes its keys.
LEMMA WriteSound ==
    ASSUME TypeOK, \A q \in Proc : Sound(q), NEW p \in Proc,
           \/ ReadOld(p)
           \/ \E o \in Outcome : WriteDel(p, o) \/ CreateDel(p, o) \/ CreateDelId(p, o)
    PROVE  \A q \in Proc : Sound(q)'
<1>1. UNCHANGED <<rows, late>> /\ RequestsOK /\ req[p] \in Request
  BY DEF ReadOld, WriteDel, CreateDel, CreateDelId, ExecDel, TypeOK, RequestsOK
<1>2. ASSUME NEW reply, Return({p}, reply) PROVE \A q \in Proc : Sound(q)'
  BY <1>1, <1>2, ReturnSound
<1>3. ASSUME NEW i \in First(req[p].query),
             Goto(p, "exec", [req[p] EXCEPT !.row = rows[i],
                                            !.keys = staleKeys(req[p], rows[i])])
      PROVE  \A q \in Proc : Sound(q)'
  <2> DEFINE r == [req[p] EXCEPT !.row = rows[i], !.keys = staleKeys(req[p], rows[i])]
  <2>1. /\ r.op = req[p].op /\ r.name = req[p].name /\ r.row = rows[i]
        /\ r.keys = staleKeys(req[p], rows[i])
    BY <1>1 DEF Request
  <2>2. Moves(p, "exec", r) /\ pc'[p] = "exec" /\ req'[p] = r
    BY <1>1, <1>3, GotoMoves, MovesFacts
  <2> HIDE DEF r
  <2>3. r.keys = staleKeys(r, r.row)
    BY <2>1 DEF staleKeys
  <2>4. Sound(p)'
    BY <2>2, <2>3 DEF Sound, Carried, WriterKeys, Reading, staleKeys
  <2> QED
    BY <1>1, <2>2, <2>4, MovesSound
<1>4. ASSUME NEW r, Goto(p, "delid", r) PROVE \A q \in Proc : Sound(q)'
  <2>1. Moves(p, "delid", r) /\ pc'[p] = "delid"
    BY <1>1, <1>4, GotoMoves, MovesFacts
  <2>2. Sound(p)'
    BY <2>1, SoundElsewhere DEF Reading
  <2> QED
    BY <1>1, <2>1, <2>2, MovesSound
<1> QED
  BY <1>2, <1>3, <1>4 DEF ReadOld, WriteDel, CreateDel, CreateDelId

-----------------------------------------------------------------------------
\* A write.

\* A write of row i concerns no key but the row's own: under every other key
\* the table says the same as before.
LEMMA CommitElsewhere ==
    ASSUME TypeOK, NEW i \in Ids, NEW ns, NEW row \in Table!Row,
           Table!Live(i) => rows[i].name \in ns, row.name \in ns,
           rows' = [rows EXCEPT ![i] = row], NEW k, k \notin ConcernedKeys(i, ns)
    PROVE  First(k)' = First(k) /\ \A j \in First(k) : rows'[j] = rows[j]
<1>1. rows'[i] = row /\ \A j \in Ids \ {i} : rows'[j] = rows[j]
  BY DEF TypeOK, Table!TypeOK
<1>2. \A n \in ns : k \notin lookupKeys(i, n)
  BY DEF ConcernedKeys
<1>3. i \notin First(k) /\ i \notin First(k)'
  BY <1>1, <1>2 DEF First
<1>4. \A j \in Ids \ {i} : j \in First(k)' <=> j \in First(k)
  BY <1>1 DEF First, Table!Live, Table!Exists
<1>5. First(k) \subseteq Ids /\ First(k)' \subseteq Ids
  BY DEF First
<1> QED
  BY <1>1, <1>3, <1>4, <1>5

\* A reader that the write has not overtaken still carries what the table says.
LEMMA CommitSound ==
    ASSUME TypeOK, NEW i \in Ids, NEW ns, NEW row \in Table!Row,
           Table!Live(i) => rows[i].name \in ns, row.name \in ns, Commit(i, ns, row),
           NEW q \in Proc, Sound(q), pc'[q] = pc[q], req'[q] = req[q]
    PROVE  Sound(q)'
<1> DEFINE ks == ConcernedKeys(i, ns)
<1>1. rows' = [rows EXCEPT ![i] = row] /\ late' = late \cup Overtaken(ks)
  BY DEF Commit
<1>2. WriterKeys(q)'
  BY DEF Sound, WriterKeys, staleKeys
<1>3. ASSUME pc[q] \in Reading, q \notin late' PROVE Current(q)'
  <2>1. q \notin late /\ q \notin Overtaken(ks) /\ Current(q) /\ req[q].op = "read"
    BY <1>1, <1>3 DEF Sound, Carried, TypeOK, RequestsOK, Fits
  <2>2. pc[q] \in Filling \/ req[q].key # req[q].query => req[q].query \notin ks
    BY <2>1 DEF Overtaken, Filling
  <2>3. pc[q] \in Filling \/ req[q].key # req[q].query
          => /\ First(req[q].query)' = First(req[q].query)
             /\ \A j \in First(req[q].query) : rows'[j] = rows[j]
    BY <1>1, <2>2, CommitElsewhere
  <2> QED
    BY <2>1, <2>3 DEF Current, Filling
<1>4. Carried(q)'
  BY <1>3 DEF Sound, Carried
<1> QED
  BY <1>2, <1>4 DEF Sound

\* A value that becomes stale is under a key of some lookup of the row.
LEMMA CommitStale ==
    ASSUME TypeOK, NEW i \in Ids, NEW ns, NEW row \in Table!Row,
           Table!Live(i) => rows[i].name \in ns, row.name \in ns,
           rows' = [rows EXCEPT ![i] = row],
           NEW k \in Keys, k \notin ConcernedKeys(i, ns), store'[k] = store[k], Stale(k)'
    PROVE  Stale(k)
<1>1. First(k)' = First(k) /\ \A j \in First(k) : rows'[j] = rows[j]
  BY CommitElsewhere
<1> QED
  BY <1>1 DEF Stale

\* What is not cached is not stale.
LEMMA StaleIsCached ==
    ASSUME NEW k \in Keys, Stale(k)
    PROVE  store[k] # None
<1>1. \A i \in Ids : userCacheIdKey(i) \in Keys
  BY KeyFacts
<1> QED
  BY <1>1, ValuesAssumption DEF Stale

\* The same after a step.
LEMMA StaleIsCachedNext ==
    ASSUME NEW k \in Keys, Stale(k)'
    PROVE  store'[k] # None
<1>1. \A i \in Ids : userCacheIdKey(i) \in Keys
  BY KeyFacts
<1> QED
  BY <1>1, ValuesAssumption DEF Stale

Deleting == {"del", "delnew", "delid"}

\* What is owed stays owed while nobody who deletes does anything.
LEMMA PendingKept ==
    ASSUME \A q \in Proc : pc[q] \in Deleting => pc'[q] = pc[q] /\ req'[q] = req[q],
           jobs \subseteq jobs'
    PROVE  Pending \subseteq Pending'
<1>1. \A q \in Proc : ToDelete(q) \subseteq ToDelete(q)'
  BY DEF ToDelete, Deleting
<1> QED
  BY <1>1 DEF Pending

\* The statement of Exec, applied: every key it makes wrong is going to be
\* deleted by p, or is excused: p was told that the statement failed, or the
\* key is under a spelling that p does not know.
LEMMA AppliedCache ==
    ASSUME TypeOK, CacheInv, NEW p \in Proc, pc[p] \in {"exec", "insert"},
           NEW l \in Deleting, NEW i \in Ids, NEW ns, NEW row \in Table!Row,
           Table!Live(i) => rows[i].name \in ns, row.name \in ns, ns \subseteq Table!AllNames,
           NEW r, Applied(p, l, i, ns, row, r),
           pc'[p] = l => RowKeys(i, ns) \subseteq ToDelete(p)'
    PROVE  CacheInv'
<1> DEFINE ks == ConcernedKeys(i, ns)
           named == RowKeys(i, ns)
<1>1. /\ RequestsOK /\ store' = store /\ Commit(i, ns, row) /\ excuse \subseteq excuse'
      /\ rows' = [rows EXCEPT ![i] = row] /\ jobs' = jobs
  BY DEF Applied, Commit, DBOk, DBFault, redisVars, TypeOK
<1>2. \/ pc'[p] = l /\ excuse' = excuse \cup Cached(ks \ named)
      \/ pc'[p] = "idle" /\ excuse' = excuse \cup Cached(ks)
  BY <1>1, GotoMoves, MovesFacts DEF Applied, Return
<1>3. \A q \in Proc \ {p} : pc'[q] = pc[q] /\ req'[q] = req[q]
  BY <1>1, GotoMoves, MovesFacts DEF Applied, Return
<1>4. ASSUME NEW q \in Proc PROVE Sound(q)'
  <2>1. CASE q = p
    BY <1>2, <2>1, SoundElsewhere DEF Deleting, Reading
  <2>2. CASE q # p
    BY <1>1, <1>3, <2>2, CommitSound DEF CacheInv
  <2> QED
    BY <2>1, <2>2
<1>5. ks \subseteq Keys
  BY LookupKeys
<1>6. Pending \subseteq Pending'
  BY <1>1, <1>3, PendingKept DEF Deleting
<1>7. ASSUME NEW k \in Keys, Stale(k)' PROVE k \in Pending' \cup excuse'
  <2>1. CASE k \in ks
    <3>1. store[k] # None
      BY <1>1, <1>7, StaleIsCachedNext
    <3>2. CASE pc'[p] = l /\ k \in named
      BY <3>2 DEF Pending
    <3>3. CASE pc'[p] = l /\ k \notin named
      BY <1>2, <2>1, <3>1, <3>3 DEF Cached, Deleting
    <3>4. CASE pc'[p] = "idle"
      BY <1>2, <2>1, <3>1, <3>4 DEF Cached, Deleting
    <3> QED
      BY <1>2, <3>2, <3>3, <3>4
  <2>2. CASE k \notin ks
    <3>1. Stale(k)
      BY <1>1, <1>7, <2>2, CommitStale
    <3> QED
      BY <1>1, <1>6, <3>1 DEF CacheInv, StaleOnlyIfExcused
  <2> QED
    BY <2>1, <2>2
<1> QED
  BY <1>4, <1>7 DEF CacheInv, StaleOnlyIfExcused

\* A statement that fails changes nothing.
LEMMA FailedCache ==
    ASSUME CacheInv, NEW p \in Proc, pc[p] \notin Deleting, NEW s, ExecFailed(p, s),
           store' = store
    PROVE  CacheInv'
<1>1. UNCHANGED <<rows, late, jobs, excuse>> /\ \E reply : Return({p}, reply)
  BY DEF ExecFailed
<1>2. \A q \in Proc : Sound(q)'
  BY <1>1, ReturnSound DEF CacheInv
<1>3. Pending \subseteq Pending'
  BY <1>1, PendingKept DEF Return
<1> QED
  BY <1>1, <1>2, <1>3, TableStands DEF CacheInv, StaleOnlyIfExcused

\* UPDATE and INSERT.  WHERE version = ? makes the row that was read, and
\* whose keys are named, the row that is overwritten.
LEMMA ExecCache ==
    ASSUME TypeOK, OldInv, CacheInv, NEW p \in Proc,
           UpdateUserExec(p) \/ DeleteUserExec(p) \/ CreateUserExec(p)
    PROVE  CacheInv'
<1> DEFINE r == req[p]
           i == r.row.id
<1>1. RequestsOK /\ r \in Request /\ WriterKeys(p)
  BY DEF TypeOK, RequestsOK, CacheInv, Sound
<1>2. ASSUME NEW s, ExecFailed(p, s), DBOk \/ DBFault PROVE CacheInv'
  <2>1. store' = store /\ pc[p] \notin Deleting
    BY <1>2 DEF DBOk, DBFault, redisVars, Deleting, UpdateUserExec, DeleteUserExec, CreateUserExec
  <2> QED
    BY <1>2, <2>1, FailedCache
<1>3. CASE /\ pc[p] = "exec" /\ r.op = "update" /\ RowsAffected(r)
           /\ Applied(p, "del", i, {rows[i].name, r.name}, UpdatedRow(r), r)
  <2>1. /\ i \in Ids /\ rows[i] = r.row /\ UpdatedRow(r) \in Table!Row
        /\ r.name \in Table!AllNames /\ r.row \in Table!Row /\ r.row.name \in Table!AllNames
    BY <1>1, <1>3, WrittenRows, RowFacts DEF RequestsOK, Fits
  <2>2. UpdatedRow(r).name = r.name
    BY <2>1 DEF UpdatedRow, Table!Row
  <2>3. r.keys = RowKeys(i, {rows[i].name, r.name})
    BY <1>1, <1>3, <2>1 DEF WriterKeys, staleKeys, RowKeys
  <2>4. pc'[p] = "del" => ToDelete(p)' = r.keys
    BY <1>1, <1>3, GotoMoves, MovesFacts DEF Applied, Return, ToDelete
  <2> QED
    BY <1>3, <2>1, <2>2, <2>3, <2>4, AppliedCache DEF Deleting
<1>4. CASE /\ pc[p] = "exec" /\ r.op = "delete" /\ RowsAffected(r)
           /\ Applied(p, "del", i, {rows[i].name}, DeletedRow(r), r)
  <2>1. /\ i \in Ids /\ rows[i] = r.row /\ DeletedRow(r) \in Table!Row
        /\ r.row \in Table!Row /\ r.row.name \in Table!AllNames
    BY <1>1, <1>4, WrittenRows, RowFacts DEF RequestsOK, Fits
  <2>2. DeletedRow(r).name = rows[i].name
    BY <2>1 DEF DeletedRow, Table!Row
  <2>3. r.keys = RowKeys(i, {rows[i].name})
    BY <1>1, <1>4, <2>1 DEF WriterKeys, staleKeys, RowKeys
  <2>4. pc'[p] = "del" => ToDelete(p)' = r.keys
    BY <1>1, <1>4, GotoMoves, MovesFacts DEF Applied, Return, ToDelete
  <2> QED
    BY <1>4, <2>1, <2>2, <2>3, <2>4, AppliedCache DEF Deleting
<1>5. ASSUME pc[p] = "insert", NEW j \in Ids, ~Table!Exists(j),
             Applied(p, "delnew", j, {r.name}, Table!NewRow(j, r.name),
                     [r EXCEPT !.row = Table!NewRow(j, r.name)])
      PROVE  CacheInv'
  <2> DEFINE row == Table!NewRow(j, r.name)
             rr  == [r EXCEPT !.row = row]
  <2>1. r.name \in Table!AllNames
    BY <1>1, <1>5 DEF RequestsOK, Fits
  <2>2. row \in Table!Row /\ row.id = j /\ row.name = r.name
    BY <2>1, NewRowOK DEF Table!NewRow
  <2>3. rr.row = row /\ rr.keys = modelUniqueCacheKeys(r.name)
    BY <1>1, <1>5 DEF WriterKeys, Request
  <2> HIDE DEF rr, row
  <2>4. RowKeys(j, {r.name}) = rr.keys \cup {userCacheIdKey(rr.row.id)}
    BY <2>2, <2>3 DEF RowKeys, modelCacheKeys
  <2>5. Applied(p, "delnew", j, {r.name}, row, rr)
    BY <1>5 DEF row, rr
  <2>6. pc'[p] = "delnew" => ToDelete(p)' = rr.keys \cup {userCacheIdKey(rr.row.id)}
    BY <1>1, <2>5, GotoMoves, MovesFacts DEF Applied, Return, ToDelete
  <2> QED
    BY <1>5, <2>1, <2>2, <2>4, <2>5, <2>6, AppliedCache DEF Deleting, Table!Live
<1> QED
  BY <1>2, <1>3, <1>4, <1>5 DEF UpdateUserExec, DeleteUserExec, CreateUserExec

-----------------------------------------------------------------------------
\* Filling and deleting.

\* A WHERE clause finds one row at most: the primary key and the username are
\* unique.
LEMMA FirstUnique ==
    ASSUME TypeOK, Table!UniqueUsernames, NEW k \in Keys, NEW i \in First(k), NEW j \in First(k)
    PROVE  i = j
<1>1. i \in Ids /\ j \in Ids /\ Table!Exists(i) /\ Table!Exists(j)
  BY DEF First, Table!Live
<1>2. rows[i].name \in Table!AllNames /\ rows[j].name \in Table!AllNames
  BY FirstFacts, RowFacts DEF TypeOK
<1>3. CASE k \in IdKeys
  <2>1. \A a \in Ids : \A n \in Table!AllNames : k \in lookupKeys(a, n) => k = userCacheIdKey(a)
    BY <1>3 DEF lookupKeys, IdKeys, userCacheIdKey, userCacheUsernameKey
  <2> QED
    BY <1>1, <1>2, <2>1, KeysInjective DEF First
<1>4. CASE k \in NameKeys
  <2>1. \A a \in Ids : \A n \in Table!AllNames : k \in lookupKeys(a, n)
           => \E m \in Names : k = userCacheUsernameKey(m) /\ Table!SameName(m, n)
    BY <1>4 DEF lookupKeys, NameKeys, userCacheIdKey, userCacheUsernameKey
  <2>2. PICK m \in Names : k = userCacheUsernameKey(m) /\ Table!SameName(m, rows[i].name)
    BY <1>1, <1>2, <2>1 DEF First
  <2>3. PICK n \in Names : k = userCacheUsernameKey(n) /\ Table!SameName(n, rows[j].name)
    BY <1>1, <1>2, <2>1 DEF First
  <2>4. m = n
    BY <2>2, <2>3, KeysInjective DEF Table!AllNames
  <2>5. Table!SameName(rows[i].name, rows[j].name)
    BY <2>2, <2>3, <2>4 DEF Table!SameName
  <2> QED
    BY <1>1, <2>5 DEF Table!UniqueUsernames
<1> QED
  BY <1>3, <1>4, KeyFacts

\* The id key of a live row finds that row.
LEMMA FirstOfIdKey ==
    ASSUME NEW k, NEW i \in First(k)
    PROVE  i \in First(userCacheIdKey(i))
BY DEF First, lookupKeys

\* The row that a reader holds which no write has overtaken is the row of the
\* id key it fills.
LEMMA RowIsCurrent ==
    ASSUME TypeOK, Table!UniqueUsernames, NEW p \in Proc, Sound(p), p \notin late,
           pc[p] \in {"fill", "fillrow"}
    PROVE  LET i == req[p].row.id
           IN  /\ i \in Ids /\ rows[i] = req[p].row
               /\ i \in First(req[p].query) /\ i \in First(userCacheIdKey(i))
               /\ req[p].key \in IdKeys => req[p].key = userCacheIdKey(i)
               /\ req[p].key \in NameKeys => req[p].key = req[p].query
<1> DEFINE i == req[p].row.id
<1>1. /\ Current(p) /\ req[p].query \in Keys
      /\ \/ req[p].key = req[p].query
         \/ req[p].key \in IdKeys /\ req[p].query \in NameKeys
  BY DEF Sound, Carried, Reading, TypeOK, RequestsOK, Fits
<1>2. i \in First(req[p].query) /\ rows[i] = req[p].row
  BY <1>1 DEF Current
<1>3. i \in Ids /\ i \in First(userCacheIdKey(i))
  BY <1>2, FirstOfIdKey DEF First
<1>4. ASSUME req[p].key \in IdKeys, req[p].key = req[p].query PROVE req[p].key = userCacheIdKey(i)
  BY <1>2, <1>4 DEF First, lookupKeys, IdKeys, userCacheIdKey, userCacheUsernameKey
<1>5. ASSUME req[p].key # req[p].query PROVE req[p].key = userCacheIdKey(i)
  BY <1>1, <1>2, <1>5, FirstUnique DEF Current
<1> QED
  BY <1>1, <1>2, <1>3, <1>4, <1>5, KeyFacts

\* A row under the id key of that row, as the table has it, is not stale.
LEMMA RowNotStale ==
    ASSUME TypeOK, Table!UniqueUsernames, UNCHANGED rows, NEW i \in Ids,
           i \in First(userCacheIdKey(i)), store'[userCacheIdKey(i)] = rows[i]
    PROVE  ~Stale(userCacheIdKey(i))'
<1> DEFINE k == userCacheIdKey(i)
<1>1. rows[i] \in Table!Row /\ k \in IdKeys /\ k \notin NameKeys
  BY FirstFacts, KeyFacts DEF TypeOK
<1>2. rows[i] # Placeholder
  BY <1>1, ValuesAssumption
<1>3. First(k)' = First(k)
  BY TableStands
<1> HIDE DEF k
<1> QED
  BY <1>1, <1>2, <1>3 DEF Stale, k

\* Nor is the id key of a row under its username.
LEMMA IndexNotStale ==
    ASSUME UNCHANGED rows, NEW k \in NameKeys, NEW i \in First(k), store'[k] = userCacheIdKey(i)
    PROVE  ~Stale(k)'
<1>1. i \in Ids /\ userCacheIdKey(i) \in Keys /\ k \notin IdKeys
  BY KeyFacts DEF First
<1>2. userCacheIdKey(i) # Placeholder
  BY <1>1, ValuesAssumption
<1>3. First(k)' = First(k)
  BY TableStands
<1> QED
  BY <1>1, <1>2, <1>3, KeysInjective DEF Stale

\* A fill leaves no stale value without an excuse, if what a reader fills in
\* that no write has overtaken is not stale.
LEMMA FillStale ==
    ASSUME TypeOK, StaleOnlyIfExcused, UNCHANGED rows, Pending \subseteq Pending',
           NEW p \in Proc, NEW k \in Keys, NEW v, NEW o, CacheFill(p, k, v, o),
           p \notin late /\ store'[k] = v => ~Stale(k)'
    PROVE  StaleOnlyIfExcused'
<1>1. DOMAIN store = Keys
  BY DEF TypeOK, CacheOK
<1>2. CASE ~Executed(o)
  <2>1. store' = store /\ excuse' = excuse
    BY <1>2 DEF CacheFill, cacheSet
  <2> QED
    BY <2>1, TableStands DEF StaleOnlyIfExcused
<1>3. CASE Executed(o)
  <2>1. /\ store' = [store EXCEPT ![k] = v]
        /\ excuse' = IF p \in late THEN excuse \cup {k} ELSE excuse \ {k}
    BY <1>3 DEF CacheFill, cacheSet
  <2>2. store'[k] = v /\ \A a \in Keys \ {k} : store'[a] = store[a]
    BY <1>1, <2>1
  <2>3. ASSUME NEW a \in Keys, Stale(a)' PROVE a \in Pending' \cup excuse'
    BY <2>1, <2>2, <2>3, TableStands DEF StaleOnlyIfExcused
  <2> QED
    BY <2>3 DEF StaleOnlyIfExcused
<1> QED
  BY <1>2, <1>3

\* The steps of a read keep every stale value excused.
LEMMA ReadStale ==
    ASSUME TypeOK, Table!UniqueUsernames, CacheInv, NEW p \in Proc, NEW o \in Outcome,
           TakeFill(p, o) \/ IndexFill(p, o) \/ IndexFillRow(p, o) \/ FillNotFound(p, o)
    PROVE  StaleOnlyIfExcused'
<1>1. /\ UNCHANGED <<rows, jobs>> /\ RequestsOK /\ Sound(p) /\ StaleOnlyIfExcused
      /\ pc[p] \in Filling
  BY DEF TakeFill, IndexFill, IndexFillRow, FillNotFound, TypeOK, CacheInv, Filling
<1>2. Pending \subseteq Pending'
  <2>1. CASE TakeFill(p, o) \/ IndexFillRow(p, o) \/ FillNotFound(p, o)
    <3>1. \E reply : Return(Flight(p), reply)
      BY <2>1 DEF TakeFill, IndexFillRow, FillNotFound
    <3>2. \A q \in Flight(p) : pc[q] \notin Deleting
      BY <1>1 DEF Flight, Followers, Deleting, Filling
    <3> QED
      BY <1>1, <3>1, <3>2, PendingKept DEF Return
  <2>2. CASE IndexFill(p, o)
    BY <1>1, <2>2, GotoMoves, MovesFacts, PendingKept DEF IndexFill, Deleting, Filling
  <2> QED
    BY <2>1, <2>2
<1>3. CASE TakeFill(p, o)
  <2>1. PICK k \in Keys : k = req[p].key
    BY <1>3, KeyFacts DEF TakeFill
  <2>2. pc[p] = "fill" /\ k \in IdKeys /\ CacheFill(p, k, req[p].row, o)
    BY <1>3, <2>1 DEF TakeFill
  <2>3. ASSUME p \notin late, store'[k] = req[p].row PROVE ~Stale(k)'
    <3>1. PICK i \in Ids : i = req[p].row.id
      BY <1>1, <2>2, <2>3, RowIsCurrent
    <3>2. k = userCacheIdKey(i) /\ rows[i] = req[p].row /\ i \in First(userCacheIdKey(i))
      BY <1>1, <2>1, <2>2, <2>3, <3>1, RowIsCurrent
    <3> QED
      BY <1>1, <2>3, <3>2, RowNotStale
  <2> QED
    BY <1>1, <1>2, <2>2, <2>3, FillStale
<1>4. CASE IndexFill(p, o)
  <2>1. PICK k \in Keys : k = req[p].key
    BY <1>4, KeyFacts DEF IndexFill
  <2>2. PICK i \in Ids : i = req[p].row.id
    BY <1>1, <1>4, RowFacts DEF IndexFill, RequestsOK, Fits
  <2>3. pc[p] = "fill" /\ k \in NameKeys /\ CacheFill(p, k, userCacheIdKey(i), o)
    BY <1>4, <2>1, <2>2 DEF IndexFill
  <2>4. ASSUME p \notin late, store'[k] = userCacheIdKey(i) PROVE ~Stale(k)'
    <3>1. i \in First(k)
      BY <1>1, <2>1, <2>2, <2>3, <2>4, RowIsCurrent
    <3> QED
      BY <1>1, <2>3, <2>4, <3>1, IndexNotStale
  <2> QED
    BY <1>1, <1>2, <2>3, <2>4, FillStale
<1>5. CASE IndexFillRow(p, o)
  <2>1. PICK i \in Ids : i = req[p].row.id
    BY <1>1, <1>5, RowFacts DEF IndexFillRow, RequestsOK, Fits
  <2>2. PICK k \in Keys : k = userCacheIdKey(i)
    BY KeyFacts
  <2>3. pc[p] = "fillrow" /\ CacheFill(p, k, req[p].row, o)
    BY <1>5, <2>1, <2>2 DEF IndexFillRow
  <2>4. ASSUME p \notin late, store'[k] = req[p].row PROVE ~Stale(k)'
    <3>1. rows[i] = req[p].row /\ i \in First(userCacheIdKey(i))
      BY <1>1, <2>1, <2>3, <2>4, RowIsCurrent
    <3> QED
      BY <1>1, <2>2, <2>4, <3>1, RowNotStale
  <2> QED
    BY <1>1, <1>2, <2>3, <2>4, FillStale
<1>6. CASE FillNotFound(p, o)
  <2>1. PICK k \in Keys : k = req[p].key
    BY <1>6 DEF FillNotFound, TypeOK, RequestsOK, Fits, Reading
  <2>2. pc[p] = "fillnf" /\ DOMAIN store = Keys
    BY <1>6 DEF FillNotFound, TypeOK, CacheOK
  <2>3. p \notin late => First(k) = {}
    BY <1>1, <2>1, <2>2 DEF Sound, Carried, Current, Reading
  <2>4. CASE Executed(o) /\ store[k] = None
    <3>1. /\ store' = [store EXCEPT ![k] = Placeholder]
          /\ excuse' = IF p \in late THEN excuse \cup {k} ELSE excuse
      BY <1>6, <2>1, <2>4 DEF FillNotFound, cacheSetNotFound
    <3>2. store'[k] = Placeholder /\ \A a \in Keys \ {k} : store'[a] = store[a]
      BY <2>2, <3>1
    <3>3. ASSUME p \notin late PROVE ~Stale(k)'
      <4>1. Placeholder \notin Table!Row /\ \A a \in Ids : Placeholder # userCacheIdKey(a)
        BY KeyFacts, ValuesAssumption
      <4>2. First(k)' = {}
        BY <1>1, <2>3, <3>3, TableStands
      <4> QED
        BY <3>2, <4>1, <4>2 DEF Stale
    <3>4. ASSUME NEW a \in Keys, Stale(a)' PROVE a \in Pending' \cup excuse'
      <4>1. CASE a = k
        BY <3>1, <3>3, <3>4, <4>1
      <4>2. CASE a # k
        BY <1>1, <1>2, <3>1, <3>2, <3>4, <4>2, TableStands DEF StaleOnlyIfExcused
      <4> QED
        BY <4>1, <4>2
    <3> QED
      BY <3>4 DEF StaleOnlyIfExcused
  <2>5. CASE ~(Executed(o) /\ store[k] = None)
    <3>1. store' = store /\ excuse' = excuse
      BY <1>6, <2>1, <2>5 DEF FillNotFound, cacheSetNotFound
    <3> QED
      BY <1>1, <1>2, <3>1, TableStands DEF StaleOnlyIfExcused
  <2> QED
    BY <2>4, <2>5
<1> QED
  BY <1>3, <1>4, <1>5, <1>6

\* A deletion of ks that takes over what was owed on some of them: done, it
\* leaves nothing there; not done, what is cached there is owed or excused.
LEMMA DelStale ==
    ASSUME TypeOK, StaleOnlyIfExcused, UNCHANGED rows, NEW ks, NEW owed, owed \subseteq ks,
           NEW o, Erase(ks, o),
           Pending \subseteq Pending' \cup owed,
           excuse \ ks \subseteq excuse', Executed(o) \/ excuse \subseteq excuse',
           Executed(o) \/ Cached(owed) \subseteq Pending' \cup excuse'
    PROVE  StaleOnlyIfExcused'
<1> SUFFICES ASSUME NEW k \in Keys, Stale(k)' PROVE k \in Pending' \cup excuse'
  BY DEF StaleOnlyIfExcused
<1>1. DOMAIN store = Keys
  BY DEF TypeOK, CacheOK
<1>2. CASE Executed(o)
  <2>1. store'[k] = IF k \in ks THEN None ELSE store[k]
    BY <1>1, <1>2 DEF Erase
  <2>2. k \notin ks /\ store'[k] = store[k]
    BY <2>1, StaleIsCachedNext
  <2> QED
    BY <2>2, TableStands DEF StaleOnlyIfExcused
<1>3. CASE ~Executed(o)
  <2>1. store' = store
    BY <1>3 DEF Erase
  <2>2. Stale(k) /\ store[k] # None
    BY <2>1, TableStands, StaleIsCached
  <2> QED
    BY <1>3, <2>2 DEF StaleOnlyIfExcused, Cached
<1> QED
  BY <1>2, <1>3

\* A deletion by Del: executed it needs no excuse, rejected it has one.
LEMMA DeletedFacts ==
    ASSUME NEW ks, NEW o, excuse' = Deleted(ks, o)
    PROVE  /\ excuse \ ks \subseteq excuse'
           /\ Executed(o) \/ excuse \subseteq excuse'
           /\ o = "rejected" => Cached(ks) \subseteq excuse'
BY DEF Deleted, Executed

\* How a command ends.
LEMMA OutcomeFacts ==
    ASSUME NEW o \in Outcome
    PROVE  Executed(o) \/ o = "rejected" \/ o = "failed"
BY DEF Outcome, Executed

\* What p owes after it has deleted, or tried to: all that others owed, and
\* all that it owed besides ks.
LEMMA OthersOwe ==
    ASSUME RequestsOK, NEW p \in Proc, NEW ks,
           \A q \in Proc \ {p} : pc'[q] = pc[q] /\ req'[q] = req[q],
           ToDelete(p) \subseteq ToDelete(p)' \cup ks, jobs \subseteq jobs'
    PROVE  Pending \subseteq Pending' \cup ks
<1>1. \A q \in Proc \ {p} : ToDelete(q)' = ToDelete(q)
  BY DEF ToDelete
<1> QED
  BY <1>1 DEF Pending

\* The tail of Exec: a deletion that failed has become a job of AsyncDel.
LEMMA ExecDelStale ==
    ASSUME TypeOK, CacheInv, NEW p \in Proc, NEW o \in Outcome, ExecDel(p, o),
           \A q \in Proc \ {p} : pc'[q] = pc[q] /\ req'[q] = req[q],
           ToDelete(p) \subseteq ToDelete(p)' \cup req[p].keys
    PROVE  StaleOnlyIfExcused'
<1>1. PICK ks \in SUBSET Keys : ks = req[p].keys
  BY DEF TypeOK, RequestsOK, Request
<1>2. cacheDel(ks, o) /\ excuse' = Deleted(ks, o) /\ UNCHANGED rows /\ jobs \subseteq jobs'
  BY <1>1 DEF ExecDel
<1>3. Pending \subseteq Pending' \cup ks
  BY <1>1, <1>2, OthersOwe DEF TypeOK
<1>4. o = "failed" => ks \subseteq Pending'
  <2> SUFFICES ASSUME o = "failed" PROVE ks \subseteq Pending'
    OBVIOUS
  <2> DEFINE j == [no |-> faults, keys |-> req[p].keys, left |-> maxRetries]
  <2>1. j \in jobs'
    BY DEF ExecDel, Errored
  <2>2. j.keys = ks
    BY <1>1
  <2> HIDE DEF j
  <2> QED
    BY <2>1, <2>2 DEF Pending
<1>5. Executed(o) \/ Cached(ks) \subseteq Pending' \cup excuse'
  BY <1>2, <1>4, OutcomeFacts, DeletedFacts DEF Cached
<1> QED
  BY <1>2, <1>3, <1>5, DeletedFacts, DelStale DEF CacheInv, cacheDel

\* The deletions of a write keep every stale value owed or excused.
LEMMA WriteStale ==
    ASSUME TypeOK, CacheInv, NEW p \in Proc, NEW o \in Outcome,
           WriteDel(p, o) \/ CreateDel(p, o) \/ CreateDelId(p, o)
    PROVE  StaleOnlyIfExcused'
<1>1. RequestsOK /\ req[p] \in Request
  BY DEF TypeOK, RequestsOK
<1>2. \A q \in Proc \ {p} : pc'[q] = pc[q] /\ req'[q] = req[q]
  BY <1>1, GotoMoves, MovesFacts DEF WriteDel, CreateDel, CreateDelId, Return
<1>3. CASE WriteDel(p, o)
  <2>1. ExecDel(p, o) /\ ToDelete(p) = req[p].keys
    BY <1>3 DEF WriteDel, ToDelete
  <2> QED
    BY <1>2, <2>1, ExecDelStale
<1>4. CASE CreateDel(p, o)
  <2> DEFINE r == [req[p] EXCEPT !.keys = {userCacheIdKey(req[p].row.id)}]
  <2>1. ExecDel(p, o) /\ ToDelete(p) = req[p].keys \cup {userCacheIdKey(req[p].row.id)}
    BY <1>4 DEF CreateDel, ToDelete
  <2>2. r.keys = {userCacheIdKey(req[p].row.id)}
    BY <1>1 DEF Request
  <2>3. pc'[p] = "delid" /\ req'[p] = r
    BY <1>1, <1>4, GotoMoves, MovesFacts DEF CreateDel
  <2> HIDE DEF r
  <2>4. ToDelete(p)' = {userCacheIdKey(req[p].row.id)}
    BY <2>2, <2>3 DEF ToDelete
  <2> QED
    BY <1>2, <2>1, <2>4, ExecDelStale
<1>5. CASE CreateDelId(p, o)
  <2>1. PICK ks : ks = req[p].keys
    OBVIOUS
  <2>2. /\ cacheDel(ks, o) /\ UNCHANGED rows /\ jobs \subseteq jobs'
        /\ excuse' = IF o = "failed" THEN excuse \cup Cached(ks) ELSE Deleted(ks, o)
    BY <1>5, <2>1 DEF CreateDelId
  <2>3. ToDelete(p) = ks
    BY <1>5, <2>1 DEF CreateDelId, ToDelete
  <2>4. Pending \subseteq Pending' \cup ks
    BY <1>1, <1>2, <2>2, <2>3, OthersOwe
  <2>5. /\ excuse \ ks \subseteq excuse'
        /\ Executed(o) \/ excuse \subseteq excuse'
        /\ Executed(o) \/ Cached(ks) \subseteq excuse'
    BY <2>2, OutcomeFacts, DeletedFacts
  <2> QED
    BY <2>2, <2>4, <2>5, DelStale DEF CacheInv, cacheDel
<1> QED
  BY <1>3, <1>4, <1>5

\* AsyncDel: a failed attempt leaves a job with the same keys, and the last
\* one an excuse.
LEMMA AsyncDelCache ==
    ASSUME TypeOK, CacheInv, NEW j \in jobs, NEW o \in Outcome, AsyncDel(j, o)
    PROVE  CacheInv'
<1>1. /\ j \in Job /\ j.keys \subseteq Keys /\ j.left \in 1..maxRetries
      /\ UNCHANGED <<rows, pc, req, late>> /\ Erase(j.keys, o)
  BY DEF AsyncDel, cacheDelAgain, TypeOK, Job
<1>2. \A q \in Proc : Sound(q)'
  BY <1>1, SoundKept DEF CacheInv
<1>3. Pending \subseteq Pending' \cup j.keys
  <2>1. jobs \ {j} \subseteq jobs'
    BY DEF AsyncDel
  <2> QED
    BY <1>1, <2>1 DEF Pending, ToDelete
<1>4. ASSUME o = "failed", j.left # 1 PROVE j.keys \subseteq Pending'
  <2>1. [j EXCEPT !.left = j.left - 1] \in jobs' /\ [j EXCEPT !.left = j.left - 1].keys = j.keys
    BY <1>1, <1>4 DEF AsyncDel, Errored, Job, maxRetries
  <2> QED
    BY <1>1, <2>1 DEF Pending
<1>5. /\ excuse \ j.keys \subseteq excuse'
      /\ Executed(o) \/ excuse \subseteq excuse'
      /\ o = "rejected" \/ (o = "failed" /\ j.left = 1) => Cached(j.keys) \subseteq excuse'
  BY DeletedFacts DEF AsyncDel
<1>6. Executed(o) \/ Cached(j.keys) \subseteq Pending' \cup excuse'
  BY <1>4, <1>5, OutcomeFacts DEF Cached
<1>7. StaleOnlyIfExcused'
  BY <1>1, <1>3, <1>5, <1>6, DelStale DEF CacheInv
<1> QED
  BY <1>2, <1>7 DEF CacheInv

\* A step that touches neither the table nor a cached value nor what is owed
\* or excused leaves nothing newly stale.
LEMMA QuietStale ==
    ASSUME StaleOnlyIfExcused, UNCHANGED <<store, rows, jobs, excuse>>,
           \A q \in Proc : pc[q] \in Deleting => pc'[q] = pc[q] /\ req'[q] = req[q]
    PROVE  StaleOnlyIfExcused'
BY PendingKept, TableStands DEF StaleOnlyIfExcused

\* The steps that neither fill, nor write, nor delete; and Purge, which
\* deletes what nobody owes.
LEMMA QuietSteps ==
    ASSUME TypeOK, CacheInv, NEW p \in Proc,
           \/ Start(p) \/ Enter(p) \/ Query(p) \/ ReadOld(p)
           \/ \E o \in Outcome : CacheGet(p, o) \/ Purge(p, o)
    PROVE  StaleOnlyIfExcused'
<1>1. RequestsOK
  BY DEF TypeOK
<1>2. ASSUME pc[p] \notin Deleting,
             \/ \E l, r : Goto(p, l, r) \/ Call(p, l, r)
             \/ \E reply : Return({p}, reply)
             \/ \E reply : Return(Flight(p), reply)
      PROVE  \A q \in Proc : pc[q] \in Deleting => pc'[q] = pc[q] /\ req'[q] = req[q]
  <2>1. ASSUME NEW l, NEW r, Goto(p, l, r) \/ Call(p, l, r)
        PROVE  \A q \in Proc : pc[q] \in Deleting => pc'[q] = pc[q] /\ req'[q] = req[q]
    BY <1>1, <1>2, <2>1, GotoMoves, MovesFacts
  <2>2. \A q \in Flight(p) : pc[q] \notin Deleting
    BY <1>2 DEF Flight, Followers, Deleting
  <2> QED
    BY <1>2, <2>1, <2>2 DEF Return
<1>3. CASE Start(p)
  <2>1. UNCHANGED <<store, rows, jobs, excuse>> /\ pc[p] = "idle" /\ \E l, r : Call(p, l, r)
    BY <1>3 DEF Start, GetUserByID, GetUserByUsername, UpdateUser, DeleteUser, CreateUser, Call,
                redisVars
  <2> QED
    BY <1>2, <2>1, QuietStale DEF CacheInv, Deleting
<1>4. CASE Enter(p) \/ Query(p) \/ ReadOld(p)
  <2>1. UNCHANGED <<store, rows, jobs, excuse>> /\ pc[p] \in {"enter", "query", "readold"}
    BY <1>4 DEF Enter, Query, ReadOld, DBOk, DBFault, redisVars
  <2>2. \/ \E l, r : Goto(p, l, r)
        \/ \E reply : Return({p}, reply)
        \/ \E reply : Return(Flight(p), reply)
    BY <1>4 DEF Enter, Query, ReadOld
  <2> QED
    BY <1>2, <2>1, <2>2, QuietStale DEF CacheInv, Deleting
<1>5. ASSUME NEW o \in Outcome, CacheGet(p, o) PROVE StaleOnlyIfExcused'
  <2>1. UNCHANGED <<store, rows, jobs, excuse>> /\ pc[p] = "get"
    BY <1>5 DEF CacheGet
  <2>2. (\E l, r : Goto(p, l, r)) \/ (\E reply : Return({p}, reply))
    BY <1>5 DEF CacheGet
  <2> QED
    BY <1>2, <2>1, <2>2, QuietStale DEF CacheInv, Deleting
<1>6. ASSUME NEW o \in Outcome, Purge(p, o) PROVE StaleOnlyIfExcused'
  <2>1. PICK ks : ks = {req[p].key}
    OBVIOUS
  <2>2. /\ cacheDel(ks, o) /\ UNCHANGED <<rows, jobs>> /\ pc[p] = "purge"
        /\ excuse' = (IF Executed(o) THEN excuse \ ks ELSE excuse)
        /\ \E l, r : Goto(p, l, r)
    BY <1>6, <2>1 DEF Purge
  <2>3. Pending \subseteq Pending'
    BY <1>2, <2>2, PendingKept DEF Deleting
  <2>4. Cached({}) = {}
    BY DEF Cached
  <2> QED
    BY <2>2, <2>3, <2>4, DelStale DEF CacheInv, cacheDel
<1> QED
  BY <1>3, <1>4, <1>5, <1>6

\* Expiry, the breaker's window and a crash.
LEMMA EnvironmentCache ==
    ASSUME TypeOK, CacheInv, (\E k \in Keys : Expire(k)) \/ BreakerWindow \/ Crash
    PROVE  CacheInv'
<1>1. ASSUME NEW k \in Keys, Expire(k) PROVE CacheInv'
  <2>1. /\ UNCHANGED <<rows, pc, req, late, jobs>> /\ excuse' = excuse \ {k}
        /\ store' = [store EXCEPT ![k] = None] /\ DOMAIN store = Keys
    BY <1>1 DEF Expire, ExpireKey, TypeOK, CacheOK
  <2>2. \A q \in Proc : Sound(q)'
    BY <2>1, SoundKept DEF CacheInv
  <2>3. ASSUME NEW a \in Keys, Stale(a)' PROVE a \in Pending' \cup excuse'
    <3>1. a # k /\ store'[a] = store[a]
      BY <2>1, <2>3, StaleIsCachedNext
    <3>2. Pending \subseteq Pending'
      BY <2>1, PendingKept
    <3> QED
      BY <2>1, <2>3, <3>1, <3>2, TableStands DEF CacheInv, StaleOnlyIfExcused
  <2> QED
    BY <2>2, <2>3 DEF CacheInv, StaleOnlyIfExcused
<1>2. CASE BreakerWindow
  <2>1. UNCHANGED <<store, rows, pc, req, late, jobs, excuse>>
    BY <1>2 DEF BreakerWindow, WindowPasses
  <2>2. \A q \in Proc : Sound(q)'
    BY <2>1, SoundKept DEF CacheInv
  <2> QED
    BY <2>1, <2>2, QuietStale DEF CacheInv
<1>3. CASE Crash
  <2>1. UNCHANGED <<store, rows>> /\ excuse' = excuse \cup Cached(Pending)
    BY <1>3 DEF Crash
  <2>2. \A q \in Proc : Sound(q)'
    BY <1>3, SoundElsewhere DEF Crash, Reading
  <2>3. ASSUME NEW k \in Keys, Stale(k)' PROVE k \in excuse'
    <3>1. Stale(k)
      BY <2>1, <2>3, TableStands
    <3> QED
      BY <2>1, <3>1, StaleIsCached DEF CacheInv, StaleOnlyIfExcused, Cached
  <2> QED
    BY <2>2, <2>3 DEF CacheInv, StaleOnlyIfExcused
<1> QED
  BY <1>1, <1>2, <1>3

\* Every step keeps the readers and writers sound and stale values excused.
LEMMA CacheStep == Inv /\ Table!UniqueUsernames /\ CacheInv /\ [Next]_vars => CacheInv'
<1> SUFFICES ASSUME TypeOK, OldInv, Table!UniqueUsernames, CacheInv, [Next]_vars PROVE CacheInv'
  BY DEF Inv
<1>1. ASSUME NEW p \in Proc, Start(p) PROVE CacheInv'
  <2>1. \A q \in Proc : Sound(q)'
    BY <1>1, StartSound DEF CacheInv
  <2> QED
    BY <1>1, <2>1, QuietSteps DEF CacheInv
<1>2. ASSUME NEW p \in Proc, Step(p) PROVE CacheInv'
  <2>1. CASE UpdateUserExec(p) \/ DeleteUserExec(p) \/ CreateUserExec(p)
    BY <2>1, ExecCache
  <2>2. CASE Query(p) \/ (\E o \in Outcome : CacheGet(p, o))
    <3>1. \A q \in Proc : Sound(q)'
      BY <2>2, CacheGetSound, QuerySound DEF CacheInv
    <3> QED
      BY <2>2, <3>1, QuietSteps DEF CacheInv
  <2>3. CASE Enter(p) \/ (\E o \in Outcome : Purge(p, o))
    <3>1. \A q \in Proc : Sound(q)'
      BY <2>3, ReadSound DEF CacheInv
    <3> QED
      BY <2>3, <3>1, QuietSteps DEF CacheInv
  <2>4. CASE \E o \in Outcome : \/ TakeFill(p, o) \/ IndexFill(p, o)
                                \/ IndexFillRow(p, o) \/ FillNotFound(p, o)
    <3>1. \A q \in Proc : Sound(q)'
      BY <2>4, ReadSound DEF CacheInv
    <3> QED
      BY <2>4, <3>1, ReadStale DEF CacheInv
  <2>5. CASE ReadOld(p)
    <3>1. \A q \in Proc : Sound(q)'
      BY <2>5, WriteSound DEF CacheInv
    <3> QED
      BY <2>5, <3>1, QuietSteps DEF CacheInv
  <2>6. CASE \E o \in Outcome : WriteDel(p, o) \/ CreateDel(p, o) \/ CreateDelId(p, o)
    <3>1. \A q \in Proc : Sound(q)'
      BY <2>6, WriteSound DEF CacheInv
    <3> QED
      BY <2>6, <3>1, WriteStale DEF CacheInv
  <2> QED
    BY <1>2, <2>1, <2>2, <2>3, <2>4, <2>5, <2>6 DEF Step
<1>3. CASE RunJob
  BY <1>3, AsyncDelCache DEF RunJob
<1>4. CASE (\E k \in Keys : Expire(k)) \/ BreakerWindow \/ Crash
  BY <1>4, EnvironmentCache
<1>5. CASE UNCHANGED vars
  <2>1. UNCHANGED <<store, rows, pc, req, late, jobs, excuse>>
    BY <1>5 DEF vars, redisVars
  <2>2. \A q \in Proc : Sound(q)'
    BY <2>1, SoundKept DEF CacheInv
  <2> QED
    BY <2>1, <2>2, QuietStale DEF CacheInv
<1> QED
  BY <1>1, <1>2, <1>3, <1>4, <1>5 DEF Next

\* An empty cache, or one with undecodable bytes in it, is not stale.
LEMMA CacheInit == Init => CacheInv
<1> SUFFICES ASSUME Init PROVE CacheInv
  OBVIOUS
<1>1. \A q \in Proc : Sound(q)
  BY DEF Init, Sound, Carried, WriterKeys, Reading
<1>2. ASSUME NEW k \in Keys PROVE ~Stale(k)
  <2>1. store[k] \in {Junk, None}
    BY DEF Init
  <2>2. \A i \in Ids : userCacheIdKey(i) \in Keys
    BY KeyFacts
  <2> QED
    BY <2>1, <2>2, ValuesAssumption DEF Stale
<1> QED
  BY <1>1, <1>2 DEF CacheInv, StaleOnlyIfExcused

\* However many readers and writers race, and whatever fails: a cached value
\* that disagrees with the table is about to be deleted, or was left behind in
\* one of the ways the code knows of.  In particular the writers name every
\* key that their statement makes wrong, and a reader that no write has
\* overtaken never caches anything wrong.
THEOREM StaleOnlyIfExcusedAlways == Spec => []StaleOnlyIfExcused
<1>1. CacheInv => StaleOnlyIfExcused
  BY DEF CacheInv
<1> QED
  BY <1>1, CacheInit, CacheStep, InvAlways, UsernamesUnique, PTL DEF Spec
=============================================================================
