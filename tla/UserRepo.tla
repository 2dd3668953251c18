------------------------------ MODULE UserRepo ------------------------------
(***************************************************************************)
(* internal/model/user/data: the user repository, with the cache-aside     *)
(* layer it is built on (internal/pkg/cache: Take, QueryRowIndex, Exec and *)
(* AsyncDel).  A request runs in a goroutine of its own; an action is what *)
(* one request does up to its next call of MySQL or Redis, or to its next  *)
(* wait for another request's flight.                                      *)
(*                                                                         *)
(* Of the two unique indexes only username is modelled: email runs through *)
(* the same code, and biz.UserRepo has no way to look a user up by it.     *)
(***************************************************************************)
EXTENDS RedisCache

CONSTANTS
    Proc,        \* request goroutines
    Ids,         \* primary keys
    Names,       \* usernames, each spelling of a name by itself
    NoName,      \* the empty username
    Weight,      \* username -> what utf8mb4_unicode_ci makes of it
    UpdateNames, \* the usernames callers of UpdateUser pass
    Junk,        \* cached bytes that are not JSON: json.Unmarshal refuses them
    JunkIds,     \* ids that such bytes may be cached for at the start
    MaxWrites    \* bound on the number of writes ever started

VARIABLES
    rows,   \* the users table
    pc,     \* where each request is
    req,    \* what each request carries
    ret,    \* what each request returned last
    jobs,   \* the goroutines of AsyncDel
    writes, \* writes started so far
    late,   \* history: requests whose reading was overtaken by a write
    excuse  \* history: keys that hold a value nobody will come to delete

vars == <<redisVars, rows, pc, req, ret, jobs, writes, late, excuse>>

Table == INSTANCE UserTable

ASSUME NoNameAssumption == NoName \notin Names
ASSUME UpdateNamesAssumption == UpdateNames \subseteq Table!AllNames
ASSUME JunkIdsAssumption == JunkIds \subseteq Ids
ASSUME MaxWritesAssumption == MaxWrites \in Nat

-----------------------------------------------------------------------------
\* Cache keys and cached values.

userCacheIdKey(i) == <<"id", i>>
userCacheUsernameKey(n) == <<"username", n>>

IdKeys   == {userCacheIdKey(i) : i \in Ids}
NameKeys == {userCacheUsernameKey(n) : n \in Names}
Keys     == IdKeys \cup NameKeys

\* Mutation: the test for the empty value is forgotten.
modelUniqueCacheKeysEmptyToo(n) == {userCacheUsernameKey(n)}

\* modelUniqueCacheKeys: an empty username has no key.
modelUniqueCacheKeys(n) == {userCacheUsernameKey(m) : m \in {n} \ {NoName}}

modelCacheKeys(i, n) == {userCacheIdKey(i)} \cup modelUniqueCacheKeys(n)

\* The keys of every lookup that finds user i under the name n: a WHERE clause
\* finds it in any spelling, and each spelling has an index key of its own.
lookupKeys(i, n) ==
    {userCacheIdKey(i)} \cup {userCacheUsernameKey(m) : m \in {m \in Names : Table!SameName(m, n)}}

\* The keys of user i under each of the names ns: what a write that touches
\* them makes wrong, and what its writer can name.
ConcernedKeys(i, ns) == UNION {lookupKeys(i, n) : n \in ns}
RowKeys(i, ns)       == UNION {modelCacheKeys(i, n) : n \in ns}

\* An id key caches a row, an index key the id key of the row.
RowValue == Table!Row \cup {None, Placeholder, Junk}
IndexValue == IdKeys \cup {None, Placeholder}

\* Absence, "*" and undecodable bytes are told apart from each other and
\* from every row and key.
ASSUME ValuesAssumption ==
    /\ None # Placeholder /\ None # Junk /\ Placeholder # Junk
    /\ \A v \in {None, Placeholder, Junk} : v \notin Table!Row /\ v \notin Keys
    /\ None \notin Table!AllNames /\ None \notin Ids

\* maxRetries of the only caller of AsyncDel.
maxRetries == 3

Job == [no : Nat, keys : SUBSET Keys, left : 1..maxRetries]

-----------------------------------------------------------------------------
\* Requests.

PC == {"idle", "get", "purge", "enter", "wait", "query", "fill", "fillrow",
       "fillnf", "readold", "exec", "insert", "del", "delnew", "delid"}

\* A read, from its GET of a key to its answer.
Reading == {"get", "purge", "enter", "wait", "query", "fill", "fillrow", "fillnf"}

\* The leader of a flight of singleflight.Group is inside sf.Do's function.
Leading == {"query", "fill", "fillrow", "fillnf"}

Op == {"read", "create", "update", "delete"}

(***************************************************************************)
(* What a request carries: the operation; the WHERE clause it queries by,  *)
(* as the cache key of the same condition; the cache key it is working on, *)
(* which differs from the former once an index key led to an id key; dest  *)
(* or old, the row it read; the new username; the keys Exec will delete.   *)
(***************************************************************************)
Request == [op : Op, query : Keys \cup {None}, key : Keys \cup {None},
            row : Table!Row \cup {None}, name : Table!AllNames \cup {None},
            keys : SUBSET Keys]

Idle == [op |-> "read", query |-> None, key |-> None, row |-> None,
         name |-> None, keys |-> {}]

\* A nil error comes with a user; id None is the zero User.
Reply == [status : {"none", "ok", "notfound", "conflict", "failed"},
          id : Ids \cup {None}]

Replied(s, i) == [status |-> s, id |-> i]

Same(r) == [q \in Proc |-> r]

Leader(k)    == {q \in Proc : pc[q] \in Leading /\ req[q].key = k}
Followers(k) == {q \in Proc : pc[q] = "wait" /\ req[q].key = k}

\* p stays inside its request.
Goto(p, l, r) ==
    /\ pc' = [pc EXCEPT ![p] = l]
    /\ req' = [req EXCEPT ![p] = r]
    /\ UNCHANGED ret

\* The requests of P return to their callers, each with its reply.
Return(P, reply) ==
    /\ pc' = [q \in Proc |-> IF q \in P THEN "idle" ELSE pc[q]]
    /\ req' = [q \in Proc |-> IF q \in P THEN Idle ELSE req[q]]
    /\ ret' = [q \in Proc |-> IF q \in P THEN reply[q] ELSE ret[q]]

Call(p, l, r) ==
    /\ pc[p] = "idle"
    /\ pc' = [pc EXCEPT ![p] = l]
    /\ req' = [req EXCEPT ![p] = r]
    /\ ret' = [ret EXCEPT ![p] = Replied("none", None)]
    /\ UNCHANGED <<redisVars, rows, jobs, late, excuse>>

\* Mutation: only the leader of a flight hears of its end.
FlightLeaderOnly(p) == {p}

\* The requests that the end of p's flight answers.
Flight(p) == {p} \cup Followers(req[p].key)

-----------------------------------------------------------------------------
\* MySQL, as far as the repository can see it.

\* SELECT ... WHERE <query> AND del_state = 0.
First(k) ==
    {i \in Ids : /\ Table!Live(i)
                 /\ k \in lookupKeys(i, rows[i].name)}

\* A statement that fails, and one whose reply is lost after it was applied.
DBFault == faults < MaxFaults /\ faults' = faults + 1 /\ UNCHANGED <<store, breaker>>
DBOk    == UNCHANGED redisVars

\* What is cached under k does not say what the table says.
Stale(k) ==
    \/ store[k] = Placeholder /\ First(k) # {}
    \/ k \in NameKeys /\ \E i \in Ids \ First(k) : store[k] = userCacheIdKey(i)
    \/ k \in IdKeys /\ store[k] \in Table!Row /\ \A i \in First(k) : store[k] # rows[i]

Cached(ks) == {k \in ks : store[k] # None}

\* The requests that hold something read before a write that concerns ks.
Overtaken(ks) ==
    {q \in Proc : /\ req[q].op = "read"
                  /\ pc[q] \in {"fill", "fillrow", "fillnf"} \/ req[q].key # req[q].query
                  /\ {req[q].key, req[q].query} \cap ks # {}}

\* A write has changed row i, whose username was or becomes one of ns.
Commit(i, ns, row) ==
    /\ rows' = [rows EXCEPT ![i] = row]
    /\ late' = late \cup Overtaken(ConcernedKeys(i, ns))

-----------------------------------------------------------------------------
\* Reading.  GetUserByID is Take on the id key; GetUserByUsername is
\* QueryRowIndex, whose second half is Take on the id key the index gave.

GetUserByID(p, i) ==
    /\ Call(p, "get", [Idle EXCEPT !.query = userCacheIdKey(i), !.key = userCacheIdKey(i)])
    /\ UNCHANGED writes

GetUserByUsername(p, n) ==
    /\ Call(p, "get", [Idle EXCEPT !.query = userCacheUsernameKey(n),
                                   !.key = userCacheUsernameKey(n)])
    /\ UNCHANGED writes

\* The GET of Take and of cacheTakeWithIndex.
CacheGet(p, o) ==
    LET k == req[p].key
        v == cacheGet(k, o)
    IN  /\ pc[p] = "get"
        /\ Command(o)
        /\ \/ /\ v = None
              /\ Goto(p, "enter", req[p])
              /\ UNCHANGED late
           \/ /\ v = Placeholder
              /\ Return({p}, Same(Replied("notfound", None)))
              /\ late' = late \ {p}
           \/ /\ k \in IdKeys /\ v = Junk
              /\ Goto(p, "purge", req[p])
              /\ UNCHANGED late
           \/ /\ k \in IdKeys /\ v \in Table!Row
              /\ Return({p}, Same(Replied("ok", v.id)))
              /\ late' = late \ {p}
           \/ /\ k \in NameKeys /\ v \in IdKeys
              /\ Goto(p, "get", [req[p] EXCEPT !.key = v])
              /\ late' = IF Stale(k) THEN late \cup {p} ELSE late \ {p}
        /\ UNCHANGED <<store, rows, jobs, writes, excuse>>

\* Take deletes a value it cannot decode, and goes on whatever comes of it.
Purge(p, o) ==
    /\ pc[p] = "purge"
    /\ cacheDel({req[p].key}, o)
    /\ excuse' = IF Executed(o) THEN excuse \ {req[p].key} ELSE excuse
    /\ Goto(p, "enter", req[p])
    /\ UNCHANGED <<rows, jobs, writes, late>>

\* sf.Do: lead the key's flight, or join it and wait.
Enter(p) ==
    /\ pc[p] = "enter"
    /\ Goto(p, IF Leader(req[p].key) = {} THEN "query" ELSE "wait", req[p])
    /\ UNCHANGED <<redisVars, rows, jobs, writes, late, excuse>>

\* queryFn or indexQuery; its error goes to the whole flight.
Query(p) ==
    /\ pc[p] = "query"
    /\ \/ \E i \in First(req[p].query) :
             /\ Goto(p, "fill", [req[p] EXCEPT !.row = rows[i]])
             /\ DBOk
             /\ late' = IF req[p].key = req[p].query THEN late \ {p} ELSE late
       \/ /\ First(req[p].query) = {}
          /\ Goto(p, "fillnf", req[p])
          /\ DBOk
          /\ late' = IF req[p].key = req[p].query THEN late \ {p} ELSE late
       \/ /\ DBFault
          /\ Return(Flight(p), Same(Replied("failed", None)))
          /\ late' = late \ Flight(p)
    /\ UNCHANGED <<rows, jobs, writes, excuse>>

\* cacheSet(k, v) by p: k is excused if what p carries has been overtaken.
CacheFill(p, k, v, o) ==
    /\ cacheSet(k, v, o)
    /\ excuse' = CASE ~Executed(o)               -> excuse
                   [] Executed(o) /\ p \in late -> excuse \cup {k}
                   [] OTHER                      -> excuse \ {k}

\* Take: the row is cached, and every request of the flight decodes it.
TakeFill(p, o) ==
    /\ pc[p] = "fill" /\ req[p].key \in IdKeys
    /\ CacheFill(p, req[p].key, req[p].row, o)
    /\ Return(Flight(p), Same(Replied("ok", req[p].row.id)))
    /\ late' = late \ Flight(p)
    /\ UNCHANGED <<rows, jobs, writes>>

\* cacheTakeWithIndex caches the id key first ...
IndexFill(p, o) ==
    /\ pc[p] = "fill" /\ req[p].key \in NameKeys
    /\ CacheFill(p, req[p].key, userCacheIdKey(req[p].row.id), o)
    /\ Goto(p, "fillrow", req[p])
    /\ UNCHANGED <<rows, jobs, writes, late>>

\* ... and then the row.  Only the leader's query has filled its dest; the
\* others see fresh = true and return theirs as it is.
IndexFillRow(p, o) ==
    /\ pc[p] = "fillrow"
    /\ CacheFill(p, userCacheIdKey(req[p].row.id), req[p].row, o)
    /\ Return(Flight(p), [q \in Proc |-> Replied("ok", IF q = p THEN req[p].row.id ELSE None)])
    /\ late' = late \ Flight(p)
    /\ UNCHANGED <<rows, jobs, writes>>

FillNotFound(p, o) ==
    LET k == req[p].key
    IN  /\ pc[p] = "fillnf"
        /\ cacheSetNotFound(k, o)
        /\ excuse' = IF Executed(o) /\ store[k] = None /\ p \in late
                     THEN excuse \cup {k} ELSE excuse
        /\ Return(Flight(p), Same(Replied("notfound", None)))
        /\ late' = late \ Flight(p)
        /\ UNCHANGED <<rows, jobs, writes>>

-----------------------------------------------------------------------------
\* Writing.

StartWrite == writes < MaxWrites /\ writes' = writes + 1

UpdateUser(p, i, n) ==
    /\ StartWrite
    /\ Call(p, "readold", [Idle EXCEPT !.op = "update", !.query = userCacheIdKey(i), !.name = n])

DeleteUser(p, i) ==
    /\ StartWrite
    /\ Call(p, "readold", [Idle EXCEPT !.op = "delete", !.query = userCacheIdKey(i)])

CreateUser(p, n) ==
    /\ StartWrite
    /\ Call(p, "insert", [Idle EXCEPT !.op = "create", !.name = n,
                                      !.keys = modelUniqueCacheKeys(n)])

\* Mutation: the keys of the new row are forgotten.
staleKeysOldOnly(r, old) == modelCacheKeys(old.id, old.name)

\* The keys of the old row and, for an update, of the new one.
staleKeys(r, old) ==
    modelCacheKeys(old.id, old.name)
        \cup (IF r.op = "update" THEN modelCacheKeys(old.id, r.name) ELSE {})

\* SELECT of the old row; any error ends the request.
ReadOld(p) ==
    /\ pc[p] = "readold"
    /\ \/ \E i \in First(req[p].query) :
             /\ Goto(p, "exec", [req[p] EXCEPT !.row = rows[i],
                                               !.keys = staleKeys(req[p], rows[i])])
             /\ DBOk
       \/ /\ First(req[p].query) = {}
          /\ Return({p}, Same(Replied("notfound", None)))
          /\ DBOk
       \/ /\ DBFault
          /\ Return({p}, Same(Replied("failed", None)))
    /\ UNCHANGED <<rows, jobs, writes, late, excuse>>

\* Mutation: DeleteUser leaves the version alone.
DeletedRowSameVersion(r) == [rows[r.row.id] EXCEPT !.live = FALSE]

\* The row that UPDATE ... SET leaves behind.
UpdatedRow(r) == [rows[r.row.id] EXCEPT !.name = r.name, !.version = r.row.version + 1]
DeletedRow(r) == [rows[r.row.id] EXCEPT !.live = FALSE, !.version = r.row.version + 1]

\* Mutation: UPDATE ... WHERE id = ?.
RowsAffectedByIdOnly(r) == TRUE

\* UPDATE ... WHERE id = ? AND version = ?.
RowsAffected(r) == rows[r.row.id].version = r.row.version

\* execFn has failed: Exec returns its error and deletes nothing.
ExecFailed(p, status) ==
    /\ Return({p}, Same(Replied(status, None)))
    /\ UNCHANGED <<rows, jobs, writes, late, excuse>>

\* The statement was applied, to row i; next is where Exec goes from here.  It
\* will delete the keys of the spellings it knows; a key under another spelling
\* of the same name stays.
Applied(p, next, i, ns, row, r) ==
    /\ Commit(i, ns, row)
    /\ \/ /\ DBOk
          /\ Goto(p, next, r)
          /\ excuse' = excuse \cup Cached(ConcernedKeys(i, ns) \ RowKeys(i, ns))
       \/ /\ DBFault
          /\ Return({p}, Same(Replied("failed", None)))
          /\ excuse' = excuse \cup Cached(ConcernedKeys(i, ns))
    /\ UNCHANGED <<jobs, writes>>

UpdateUserExec(p) ==
    LET r == req[p]
        i == r.row.id
    IN  /\ pc[p] = "exec" /\ r.op = "update"
        /\ \/ /\ RowsAffected(r) /\ Table!NameFree(r.name, i)
              /\ Applied(p, "del", i, {rows[i].name, r.name}, UpdatedRow(r), r)
           \/ /\ RowsAffected(r) /\ ~Table!NameFree(r.name, i)
              /\ ExecFailed(p, "failed") /\ DBOk
           \/ /\ ~RowsAffected(r)
              /\ ExecFailed(p, "conflict") /\ DBOk
           \/ ExecFailed(p, "failed") /\ DBFault

DeleteUserExec(p) ==
    LET r == req[p]
        i == r.row.id
    IN  /\ pc[p] = "exec" /\ r.op = "delete"
        /\ \/ /\ RowsAffected(r)
              /\ Applied(p, "del", i, {rows[i].name}, DeletedRow(r), r)
           \/ /\ ~RowsAffected(r)
              /\ ExecFailed(p, "conflict") /\ DBOk
           \/ ExecFailed(p, "failed") /\ DBFault

\* INSERT.  The id comes from AUTO_INCREMENT; when there is none left the
\* statement fails.
CreateUserExec(p) ==
    LET r == req[p]
    IN  /\ pc[p] = "insert"
        /\ \/ \E i \in Ids :
                 /\ ~Table!Exists(i) /\ Table!NameFree(r.name, i)
                 /\ Applied(p, "delnew", i, {r.name}, Table!NewRow(i, r.name),
                            [r EXCEPT !.row = Table!NewRow(i, r.name)])
           \/ /\ \A i \in Ids : Table!Exists(i) \/ ~Table!NameFree(r.name, i)
              /\ ExecFailed(p, "failed") /\ DBOk
           \/ ExecFailed(p, "failed") /\ DBFault

-----------------------------------------------------------------------------
\* Deleting cache keys.

\* No client or a rejecting breaker: nothing is deleted, and nil is returned.
Deleted(ks, o) ==
    CASE Executed(o)    -> excuse \ ks
      [] o = "rejected" -> excuse \cup Cached(ks)
      [] OTHER          -> excuse

\* Mutation: a failed deletion is not handed to AsyncDel.
ExecDelOnce(p, o) ==
    /\ cacheDel(req[p].keys, o)
    /\ excuse' = Deleted(req[p].keys, o)
    /\ UNCHANGED <<rows, jobs, writes, late>>

\* The tail of Exec.  Whatever happens to the keys, Exec returns nil.
ExecDel(p, o) ==
    /\ cacheDel(req[p].keys, o)
    /\ excuse' = Deleted(req[p].keys, o)
    /\ jobs' = IF Errored(o)
               THEN jobs \cup {[no |-> faults, keys |-> req[p].keys, left |-> maxRetries]}
               ELSE jobs
    /\ UNCHANGED <<rows, writes, late>>

WriteDel(p, o) ==
    /\ pc[p] = "del"
    /\ ExecDel(p, o)
    /\ Return({p}, Same(Replied("ok", req[p].row.id)))

CreateDel(p, o) ==
    /\ pc[p] = "delnew"
    /\ ExecDel(p, o)
    /\ Goto(p, "delid", [req[p] EXCEPT !.keys = {userCacheIdKey(req[p].row.id)}])

\* CreateUser's DelCache of the new id: its error is the request's error.
CreateDelId(p, o) ==
    /\ pc[p] = "delid"
    /\ cacheDel(req[p].keys, o)
    /\ excuse' = IF o = "failed" THEN excuse \cup Cached(req[p].keys)
                                 ELSE Deleted(req[p].keys, o)
    /\ Return({p}, Same(IF Errored(o) THEN Replied("failed", None)
                                      ELSE Replied("ok", req[p].row.id)))
    /\ UNCHANGED <<rows, jobs, writes, late>>

\* One attempt of an AsyncDel goroutine; it gives up after the last one.
AsyncDel(j, o) ==
    /\ cacheDelAgain(j.keys, o)
    /\ jobs' = (jobs \ {j}) \cup
               (IF Errored(o) /\ j.left > 1 THEN {[j EXCEPT !.left = j.left - 1]} ELSE {})
    /\ excuse' = IF o = "failed" /\ j.left = 1 THEN excuse \cup Cached(j.keys)
                                               ELSE Deleted(j.keys, o)
    /\ UNCHANGED <<rows, pc, req, ret, writes, late>>

-----------------------------------------------------------------------------
\* Redis and the host.

Expire(k) ==
    /\ ExpireKey(k)
    /\ excuse' = excuse \ {k}
    /\ UNCHANGED <<rows, pc, req, ret, jobs, writes, late>>

BreakerWindow ==
    /\ WindowPasses
    /\ UNCHANGED <<rows, pc, req, ret, jobs, writes, late, excuse>>

\* The keys that a request, or an AsyncDel, has still to delete.
ToDelete(p) ==
    CASE pc[p] \in {"del", "delid"} -> req[p].keys
      [] pc[p] = "delnew" -> req[p].keys \cup {userCacheIdKey(req[p].row.id)}
      [] OTHER -> {}

Pending ==
    {k \in Keys : (\E p \in Proc : k \in ToDelete(p)) \/ (\E j \in jobs : k \in j.keys)}

\* The server dies and is started again: only MySQL and Redis remember.
Crash ==
    /\ faults < MaxFaults
    /\ faults' = faults + 1
    /\ breaker' = IF breaker = "noclient" THEN "noclient" ELSE "closed"
    /\ pc' = [p \in Proc |-> "idle"]
    /\ req' = [p \in Proc |-> Idle]
    /\ ret' = [p \in Proc |-> Replied("none", None)]
    /\ jobs' = {}
    /\ late' = {}
    /\ excuse' = excuse \cup Cached(Pending)
    /\ UNCHANGED <<store, rows, writes>>

-----------------------------------------------------------------------------
Init ==
    /\ Table!Init
    /\ breaker \in {"closed", "noclient"}
    /\ \E old \in SUBSET JunkIds :
          /\ breaker = "noclient" => old = {}
          /\ store = [k \in Keys |-> IF \E i \in old : k = userCacheIdKey(i) THEN Junk ELSE None]
    /\ faults = 0
    /\ pc = [p \in Proc |-> "idle"]
    /\ req = [p \in Proc |-> Idle]
    /\ ret = [p \in Proc |-> Replied("none", None)]
    /\ jobs = {}
    /\ writes = 0
    /\ late = {}
    /\ excuse = {}

Start(p) ==
    \/ \E i \in Ids : \/ GetUserByID(p, i)
                      \/ DeleteUser(p, i)
                      \/ \E n \in UpdateNames : UpdateUser(p, i, n)
    \/ \E n \in Names : GetUserByUsername(p, n) \/ CreateUser(p, n)

Step(p) ==
    \/ \E o \in Outcome :
          \/ CacheGet(p, o)
          \/ Purge(p, o)
          \/ TakeFill(p, o)
          \/ IndexFill(p, o)
          \/ IndexFillRow(p, o)
          \/ FillNotFound(p, o)
          \/ WriteDel(p, o)
          \/ CreateDel(p, o)
          \/ CreateDelId(p, o)
    \/ Enter(p)
    \/ Query(p)
    \/ ReadOld(p)
    \/ UpdateUserExec(p)
    \/ DeleteUserExec(p)
    \/ CreateUserExec(p)

RunJob == \E j \in jobs, o \in Outcome : AsyncDel(j, o)

Next ==
    \/ \E p \in Proc : Start(p) \/ Step(p)
    \/ RunJob
    \/ \E k \in Keys : Expire(k)
    \/ BreakerWindow
    \/ Crash

Spec == Init /\ [][Next]_vars

(***************************************************************************)
(* A request that is being served runs on, and every cached value has a    *)
(* time to live.  Nothing makes a request arrive, and nothing is asked of  *)
(* AsyncDel, whose goroutines may sleep for as long as they like.          *)
(***************************************************************************)
Fairness ==
    /\ \A p \in Proc : WF_vars(Step(p))
    /\ \A k \in Keys : WF_vars(Expire(k))

FairSpec == Spec /\ Fairness
-----------------------------------------------------------------------------
\* Properties.

\* The cache: rows under id keys, id keys under index keys.
CacheOK ==
    /\ store = [k \in Keys |-> store[k]]
    /\ \A k \in IdKeys : store[k] \in RowValue
    /\ \A k \in NameKeys : store[k] \in IndexValue
    /\ breaker \in Breaker
    /\ faults \in 0..MaxFaults

\* What a request carries when it is at l.
Fits(l, r) ==
    /\ l \in Reading => r.op = "read" /\ r.key \in Keys /\ r.query \in Keys
    /\ l = "fillrow" => r.key \in NameKeys
    /\ l \in {"readold", "exec", "del"} => r.op \in {"update", "delete"}
    /\ l \in {"insert", "delnew", "delid"} => r.op = "create"
    /\ l = "readold" => r.query \in IdKeys
    /\ l \in {"fill", "fillrow", "exec", "del", "delnew", "delid"} => r.row \in Table!Row
    /\ r.op \in {"create", "update"} => r.name \in Table!AllNames

\* The requests, each with what it needs where it stands.
RequestsOK ==
    /\ pc \in [Proc -> PC]
    /\ req \in [Proc -> Request]
    /\ ret \in [Proc -> Reply]
    /\ \A p \in Proc : Fits(pc[p], req[p])

\* Every variable has its type; an id key never caches an index value, nor an
\* index key a row, although one Redis and one Take serve both (cache.go); and
\* a request never uses a key or a row it has not got.
TypeOK ==
    /\ Table!TypeOK
    /\ CacheOK
    /\ RequestsOK
    /\ jobs \subseteq Job
    /\ writes \in 0..MaxWrites
    /\ late \subseteq Proc
    /\ excuse \subseteq Keys

\* A cached value that disagrees with the table is about to be deleted, or has
\* one of the excuses the code leaves open: a reader overtaken by a write
\* filled it in, a deletion was rejected by the breaker, given up or lost in a
\* crash, a write was applied whose caller was told that it failed, or it was
\* cached under another spelling of a name than the writer knew (the table
\* compares names by utf8mb4_unicode_ci, the cache byte by byte).  It rests on
\* UpdateUser, DeleteUser and CreateUser naming every other key that their
\* write makes wrong (user_repo.go, user_cache.go).
StaleOnlyIfExcused == \A k \in Keys : Stale(k) => k \in Pending \cup excuse

\* UpdateUser and DeleteUser write only over the very row they read: when
\* UPDATE ... WHERE id = ? AND version = ? finds its row, nothing in that row
\* has changed since the SELECT (user_repo.go).
OldIsCurrent ==
    \A p \in Proc : pc[p] = "exec" /\ RowsAffected(req[p])
                       => rows[req[p].row.id] = req[p].row

\* Seen through the table alone, racing writers with their two statements each
\* are a sequence of whole-row updates, final deletions and fresh inserts.
RefinesTable == Table!Spec

\* Every request is answered: no reader is left behind in a flight, whatever
\* fails and however the leader's query ends.
RequestsReturn == \A p \in Proc : []<>(pc[p] = "idle")

\* Once the writes are over the cache comes to agree with the table for good:
\* what AsyncDel and Del have missed, the time to live removes, and no stale
\* value breeds another one for ever.
CacheConverges == <>[](\A k \in Keys : ~Stale(k))

-----------------------------------------------------------------------------
\* What the code's comments and tests say of it, and the code does not do.

\* "GetUserByID gets a user by ID." (biz/user.go): a user it returns has the
\* id that was asked for.
AnswersTheId ==
    [][\A p \in Proc, i \in Ids :
          /\ pc[p] # "idle" /\ pc'[p] = "idle" /\ req[p].op = "read"
          /\ req[p].query = userCacheIdKey(i) /\ ret'[p].status = "ok"
          => ret'[p].id = i]_vars

\* "should not be called since data was set in index query"
\* (cached_db_test.go): when QueryRowIndex returns nil, dest has been set.
NilErrorMeansUser == \A p \in Proc : ret[p].status = "ok" => ret[p].id # None
=============================================================================
