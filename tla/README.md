# Verification of kratos-layout-monolith

TLA+ modules, TLC configurations and TLAPS proofs for the parts of this service
that carry its own logic: the cache-aside repository of users, the distributed
lock of registration, the paged lists, the token bucket, the cache counters, the
HTTP server with its middleware and generated handlers, and the life of the
process.

* [Inventory](#inventory) — the system's parts, their state, what is hard
* [Modules](#modules) — how each module corresponds to the code
* [Runs](#runs) — what TLC checks, bounds, fairness
* [Findings](#findings) — where the code does not do what it says
* [Proofs](#proofs) — what TLAPS proves and along which argument
* [Limits](#limits) — only model-checked; not modelled
* [Plan](#plan)

`tlc -config X.cfg M` runs a configuration and `tlapm M.tla` checks the proofs
of a module, both in this directory. `PROJECT.json` lists components, runs, the
source lines behind every definition, mutants, hazards, findings and theorems.

## Inventory

| Part | State | Operations | Talks to |
|---|---|---|---|
| `pkg/cache/cache.go` | Redis keys with a TTL, SRE breaker, singleflight group, collectors | `Take`, `cacheGet`, `cacheSet`, `cacheSetNotFound`, `cacheDel`, `statLoop` | Redis |
| `pkg/cache/cached_db.go` | none of its own | `QueryRow`, `QueryRowIndex`, `Exec`, `DelCache`, the `Find...` queries, `Trans` | cache, MySQL |
| `pkg/cache/delay.go` | one goroutine per failed deletion | `AsyncDel`, three attempts | cache |
| `model/user/data` | table `users`: id, unique username and email, `del_state`, `version` | create, update (optimistic lock), soft delete, get by id or unique index, three lists | CachedDB |
| `pkg/lock` | Redis key `lock:register:<name>`, random token, TTL | `Lock`, the `unlock` it returns | Redis |
| `model/user/biz` | none | `Register` (lock, look up, create, unlock), `Login`, pass-through of the rest | repository, lock |
| `middleware/ratelimit` | tokens, last refill, mutex | `Allow`, `AddTokens`, `Server` | every request |
| `pkg/cache/*metrics.go` | atomic counters, a `sync.Map` of counters per key | `Hit`, `Miss`, `DBOp`, `DbFail`, `SingleFlight`, readers | `Take`, `statLoop` |
| `api/user/v1` (generated) | none | binding of body, query and path; validation rules; the call of the chain and the reply | middleware, service |
| `server`, `model/user/service`, other middleware | issued tokens (with the clients) | the chain recovery, metrics, tracing, request id, CORS, rate limit, auth, validation; six operations; `/livez`, `/health`, `/readyz` | biz, MySQL, Redis |
| `observability/metrics.go` | request counters by code | `HTTPMetrics` | every request |
| `cmd/app`, `pkg/db`, `pkg/tracing`, `conf` | process: configuration, tracer, database, Redis client, deferred functions | `main`, `initApp`, cleanup, shutdown | everything |
| `logger`, `observability/pool_metrics.go` | none | output | – |
| `pkg/scheduler` | cron entries | wrapper of robfig/cron; no caller in the program | – |

What is hard here:

* **Readers against writers.** A read is a GET, a flight shared with other
  requests, a SELECT and one or two SETs; a write is a SELECT, an UPDATE and a
  DEL. Any two requests interleave between any two of these, on one or several
  hosts, and nothing orders the SET of one against the DEL of another.
* **Failure in the middle.** Redis or MySQL may fail, or do what it was asked
  and lose the reply; the breaker silently rejects; the process may die with
  deletions outstanding. MySQL then has the new row, Redis the old one.
* **Time.** The lock of registration expires on its own; a request may be slow
  for longer than the lock lives.
* **Spelling.** The table compares names by `utf8mb4_unicode_ci`, without case or
  accents; cache keys and lock keys are compared byte by byte. One name has many
  keys, and a request knows some of them.
* **Sharing.** Requests that join a flight get the leader's result, whatever
  became of their own variables.
* **Answers.** A middleware that returns nil, nil, an error after the row was
  written, a binding that fills another field than the service reads: what a
  client is told depends on all of the chain.
* **Beginning and end.** Any part of the configuration may be missing, any step
  of the start may fail, and at the end handlers, `AsyncDel` and `statLoop`
  still use what main is closing.
* **Lists.** Pages are separate statements, so is the total, and the page offset
  is computed in 32 bits.

Correctness, part by part: the table must change as if each write were one step
(`RefinesTable`, `OldIsCurrent`, unique usernames); the cache may disagree with
it only for reasons that can be named, and not for ever (`StaleOnlyIfExcused`,
`CacheConverges`); a flight leaves nobody behind (`RequestsReturn`); a username is
given away once, in whatever spelling (`RegisteredOnce`), and the lock makes the
check before it meaningful, as far as its time to live and its key go
(`ExclusiveForTTL`, `CheckedNameStaysFree`, `OwnLockOnly`, `LocksRunOut`); the
bucket never lets more through than its rate (`NeverAboveRate`); a walk through a
list sees what it should (`DescWalkSeesAll`, `PageWalkSlips`,
`QuietWalkIsExact`); counters agree with each other (`CountsAgree`,
`LinesMakeSense`) and with the answers (`MetricsTally`); a client can tell from
its answer what happened (`AnswersTell`), a token names a registered user
(`TokensNameRegistered`); nothing is used after it was closed (`NoUseAfterClose`), what
was opened is closed as far as `main` can (`ExitsCleanUp`), a ready server can
reach its backends (`ReadyMeansUp`) and a signal ends the process
(`SignalEnds`).

## Modules

### RedisCache, UserRepo, UserTable: the repository and its cache

`RedisCache` is the four guarded commands of `cache.go`. A command has one of four
outcomes: `ok`; `rejected` (no client, or the breaker said no: nothing is sent,
and `cacheDel` returns nil); `failed` (an error, Redis did nothing); `lost` (an
error, but Redis executed it). The breaker is abstracted to what its callers see:
closed it never rejects, failures may open it, open it may reject or let through,
a success or the passing of its window may close it. The arithmetic of
aegis' SRE breaker is external. `ExpireKey` is the time to live.

`UserRepo` extends it with the request goroutines. `pc[p]` is where a request
is, `req[p]` its local variables: the operation, the WHERE clause (written as the
cache key of the same condition), the cache key at hand, the row read, the new
username and the keys `Exec` is to delete.

| Code | Actions |
|---|---|
| `GetUserByID`, `GetUserByUsername` | `GetUserByID`, `GetUserByUsername`, then `CacheGet` |
| `Take` | `CacheGet`, `Purge` (bytes that do not decode), `Enter` (`sf.Do`), `Query`, `TakeFill`, `FillNotFound` |
| `QueryRowIndex` / `cacheTakeWithIndex` | `CacheGet` on the index key, then either on to the id key, or `Enter`, `Query`, `IndexFill`, `IndexFillRow`, `FillNotFound` |
| `UpdateUser`, `DeleteUser` | `ReadOld`, `UpdateUserExec` / `DeleteUserExec`, `WriteDel` |
| `CreateUser` | `CreateUserExec`, `CreateDel`, `CreateDelId` |
| `Exec` | `Applied` or `ExecFailed`, then `ExecDel` |
| `AsyncDel` | `AsyncDel`, one attempt per step |
| the host | `Expire`, `BreakerWindow`, `Crash` |

Each action is what a request does up to its next call of Redis or MySQL. A
flight (`golang.org/x/sync/singleflight`, external) is the set of requests that
wait for one key while a leader is inside `sf.Do`; its end answers all of them in
one step. `Junk` stands for cached bytes that are not JSON. The only unique
index modelled is username: email runs through the same code, and
`biz.UserRepo` has no lookup by it. `Weight` gives each name what the collation
makes of it, and `SameName` is SQL's `=`; for what `Weight` is the model makes no
assumption. `lookupKeys` are the keys under which lookups find a row, one for each
spelling; `modelCacheKeys` are those that its writer names, with the one spelling
that is stored. Columns other than id, username and
`del_state` are told apart by `version`, which every write moves.

Two history variables are there for the properties only: `late`, the requests
whose reading was overtaken by a write, and `excuse`, the keys that hold something
nobody is going to delete. `Stale(k)` says what the cache holds under `k` is not
what the table says. A value cached under a spelling that a writer does not know
is excused from that write on.

`UserTable` is the abstract specification: a row is created once, updates and
deletions replace a live row as a whole and move its version by one, a deletion
is final, usernames are unique among all rows, deleted ones too, in any spelling.
`UserRepo` instantiates it (`Table`) and implements it with `rows` mapped to `rows`.

### RegisterLock: registration

`biz.Register` with `redisLocker`: `Lock` (one `SET NX PX`, any error is a 429,
possibly with the key set and the reply lost), `Lookup` (any error is taken for a
free name, as in the code), `Create` (the UNIQUE index decides), `Unlock` (release
script: only one's own token). `Tick` is one second, or any unit, of the clock:
locks run out, and so do the contexts of requests, after which a request's calls
fail. A process may be slow between two calls for as long as it likes. `Rename`
is the service's `UpdateUser`, which frees a username by setting it to "". `Die`
is a host's crash. `taken` is what matters of the table: a name is taken when any
spelling of it is there (`Taken`), while each spelling has its own lock. Four
variables are history: `held`, for how long a request's lock has been set; `blind`,
the requests that went on without a true answer from the lookup; `lost`, those
whose name was taken by a request that the lock did not cover (`Uncovered`);
`acks`, the successes reported. redsync is external.

### LimiterParams, RateLimiter

`Allow` and `AddTokens` under the mutex, each one step; float64 tokens are
integers in units of which a token has several, so that fractions occur. The
caller of `AddTokens` reads the clock before it takes the mutex, so readings
arrive out of order. `Observe` marks a moment to count from. `LimiterParams` has
the constants, so that the server, which instantiates the limiter, shares them.

### UserAPI, UserHTTP: the server

`UserAPI` is the generated code: the request messages, what each handler binds
(`BindRegister`, ...; what is bound later wins) and the rules of `Validate`, in
order, up to the first one that fails (`FirstOf`). A text is abstracted to its
length and the patterns it matches. `Over` lays one binding over another, and
`IsWire` says what a request on the wire may be: per source, any of the fields
that the codecs know, with a value of the field's type unless the part does not
decode. `ValidateUser` has no rules, as in the code.

`UserHTTP` sends requests through it. `req[r]` has a request's control point, its
message, token, claims, response headers and answer.

| Code | Actions |
|---|---|
| handler up to the chain; request id, CORS | `Receive` |
| `ratelimit.Server` | `RateLimit`, on `Limiter!Request` |
| `auth.Server` (refuses nobody; panics without configuration) | `Auth` |
| `validator.Server` | `ValidateReq` |
| `UserService` and `UserUsecase` | `Register`, `Login`, `GetUser`, `ListUsers`, `UpdateUser`, `DeleteUser` |
| `HTTPMetrics` after `next` | `HTTPMetrics` |
| handler after the chain: error, reply, or the assertion that panics | `Finish` |
| time, a caller of `AddTokens` | `Tick`, `Refill`, `Observe` |

It composes two components: `Limiter == INSTANCE RateLimiter WITH asked <- Asked,
admitted <- Admitted`, where the counts are taken from the requests, and
`Table == INSTANCE UserTable WITH Names <- Vals, None <- Nil`. Its own steps
on the bucket and on the table are those of the two modules. A use case is one
step here and may end in any way that `RegisterLock` and `UserRepo` allow; in
particular a write may be done and reported as an error. Login finds a user by
any spelling of the name and compares the password with the empty one that
`toBizUser` leaves. Whether the table is
found by name through a stale cache makes no difference to the codes. `Spec` has
a caller of `AddTokens`, `ServedSpec` adds that handlers go on; `ShippedSpec` is the
program as it is, without such a caller.

### App: the process

`main` from the configuration to the end, one action per thing that may fail:
`LoadConfig`, `InitTracing`, `NewDatabase`, `NewRedis`, `NewApp` (the rest of
`initApp` and the routes), `Run`. `defers` is the stack of deferred functions;
`Deferred` runs them one by one after a return or a panic of main, `Fatalf` and a
panic elsewhere do not. `conf` is the set of parts that the configuration file
has, arbitrary but for nesting. Handlers are busy with the API (`Work`) or probe
the backends (`PingDB`, `PingRedis`), which come and go (`Flip`). A handler may
leave an `AsyncDel` behind. `kratos.App` is external: on a signal it waits for
the handlers, and may give up (`ForceStop`), with or without an error. Whoever ends
a span (`EndSpan`) leaves it to the batcher while the tracer is up; after its
shutdown the SDK drops the span. `seen` in a probe, `forced` and `lost` (whose spans
were lost: the exporter's, a late handler's, a late `AsyncDel`'s) are history.

### UserList: paged lists

One caller that asks for page after page until one is empty, while others register,
delete and change users. `ListUsers` and `ListUsersByStatus` go by page number:
`FindCount` (one statement), then `GetPage` (another). `ListUsersByIdDesc` goes by
the last id (`GetDesc`). Every list is ordered by id, so a page is a set of rows,
those at certain ranks. Page numbers that are not positive become 1 and sizes the
default, as biz and CachedDB both do; the offset is an int32 product
(`Offset`), and gorm drops an OFFSET that is not positive. The last id is passed on
as an int32, which an id need not fit (`int32(after)`). `FindCount` returns
`count, db.Count(&count).Error`: the language does not say which operand is
evaluated first; the gc compiler makes the call before it reads the variable,
and the model does as it does. Writes are single steps here (`UserRepo` has
their parts). `kept`, `added`, `removed` and `twice` are history.

### CacheMetrics

The counters, with a lookup reduced to what it counts (`Takes`): `Miss` first,
always; `Hit` if a value was found; `DBOp`, `SingleFlight` and perhaps `DbFail`
if it leads a flight. The collector is the program's `CompositeMetrics` of
`LocalMetrics` and `PrometheusMetrics`, with `PerKeyMetrics`, which the package
offers and the program does not wire, around the latter. Each atomic operation
is a step, `getOrCreate` two of them. `StatLoad` is one load of `statLoop`, of
which `HitRate` makes three; the load of the DBOps is compared with nothing and
left out.

## Runs

| Run | Module, cfg | Instance | Shows |
|---|---|---|---|
| `writers` | MCUserRepo, UserRepoWriters | 2 requests, 2 users, 1 username in 2 spellings and "", 2 writes, no faults | `OldIsCurrent`, `StaleOnlyIfExcused`, `RefinesTable` |
| `faults` | MCUserRepo, UserRepoFaults | 2 requests, 1 user, 1 username and "", 1 write, 1 fault and every retry of `AsyncDel`, undecodable bytes, fair | `TypeOK`, `StaleOnlyIfExcused`, `RequestsReturn`, `CacheConverges` |
| `register_lock` | MCRegisterLock, RegisterLock | 2 requests, 1 name in 2 spellings, lock of 2 ticks and request of 4, fair | `TypeOK`, `RegisteredOnce`, `ExclusiveForTTL`, `CheckedNameStaysFree`, `OwnLockOnly`, `LocksRunOut` |
| `user_list` | MCUserList, UserList | 3 ids, 2 statuses, 5-bit integers, five first pages, three sizes | `TypeOK`, `DescWalkSeesAll`, `PageWalkSlips`, `QuietWalkIsExact` |
| `cache_metrics` | MCCacheMetrics, CacheMetrics | 2 goroutines, 2 keys, 2 lookups | `TypeOK`, `CountsAgree`, `LinesMakeSense` |
| `http` | MCUserHTTP, UserHTTP | 2 requests of any operation (see `MCWires`), 2 users, bucket of 2 tokens, 1.5 tokens per tick, 2 ticks | `TypeOK`, `NeverAboveRate`, `AnswersTell`, `TokensNameRegistered`, `MetricsTally` |
| `app` | MCApp, App | any configuration, 2 handlers, 1 `AsyncDel` at a time, forced stops, fair | `TypeOK`, `NoUseAfterClose`, `ExitsCleanUp`, `ReadyMeansUp`, `SignalEnds` |
| `zero_user`, `wrong_user`, `lock_expires`, `login_token`, `shipped` | | the smallest instance that shows it | violations, see [Findings](#findings) |

**Bounds.** `MaxWrites` and `MaxFaults` cap writes and faults. Two writes are
what it takes for a writer to be overtaken by another, for a name to change
hands and for an index key to point to a former owner. A retry of `AsyncDel` that
fails costs no fault: one fault is a deletion that fails, and all three attempts
may then fail after it, be rejected by the breaker that the fault opened, or die
with the server; it is also a lost reply, a failed statement or a crash at any
other point. With no second fault in reach an excuse of one fault cannot hide
behind that of another. Two requests contain one flight with a
follower. Two ids and two spellings let a username move from one user to another,
be looked up as nobody stored it, and be cached so when the row changes. In
`register_lock` the two requests send the same spelling or two, and a request may
run for twice the lock's time as in the shipped configuration: the lock runs out
under a request that can still write, another takes it, and that one's runs out
too. In `http` the bucket starts empty, gets 3 units per tick and holds 4: the
second tick without a request would bring it to 6, so that the cap cuts; with
tokens of 2 units a refill leaves half a token, and a burst of two lets both
requests be admitted. `MCWires` has, for
each operation, a request that passes, and besides ones that fail a length, a
pattern or a range, that leave a field out or do not decode, texts and page sizes
on both sides of their limits, one name in two spellings, and an update with its id
in the path only and in path and query; two requests are
enough for one to be refused because of the other, to race for a row and to use
the token of the other. In `app` two handlers let a probe or a request run
beside another one while main goes on; the configuration is not bounded. In `user_list` three
rows make up to three pages, and with five bits the products of the later pages
wrap once to a negative and once to a positive offset. In `cache_metrics` two
lookups of one key make both goroutines create the entry, and the line is read
across both.

**Symmetry** is used in runs without liveness: requests, ids, usernames,
statuses, goroutines and keys are never ordered (ids are numbers in `UserList` and
not permuted there). `app` has none.

**Fairness.** `UserRepo!FairSpec`: weak fairness of each request's steps (a
goroutine that can run does; a call of Redis or MySQL ends, with some outcome,
because every one has a timeout) and of expiry of each key (every value is written
with a TTL). An `AsyncDel` goroutine need not go on (the host may go down before it
does): convergence rests on the TTL alone. Nothing makes a request
arrive, the breaker close or a fault happen. `CacheConverges` speaks of the time after the
last of `MaxWrites` writes; it does not assume that reads stop.
`RegisterLock!FairSpec`: requests run on and time passes.
`UserHTTP!ServedSpec`: a handler that has begun runs on; `ShippedSpec`: and time passes.
`App!Spec`: main goes on, and so does each handler (a request's context ends
after `server.http.timeout`, a probe's after two seconds, the exporter's at the end
after five). Nothing makes a signal come, a forced stop happen, a backend come
back or an `AsyncDel` end. `app` turns off the deadlock check because a process
that has exited does nothing more; `SignalEnds` says that it gets there.

**Refinement.** `RefinesTable`: `UserRepo` implements `UserTable` (proved as well).

`StaleOnlyIfExcused` deserves a word. The cache *can* be stale: a reader may SET
what it read before a write and after that write's DEL; the breaker may reject a
deletion; `AsyncDel` may give up; the server may die; the reply to an UPDATE may be
lost; a lookup of `bob` that found the row `Bob` has cached it under a key that no
writer of `Bob` deletes. The code leaves these open, bounded by the TTL. The property says that there
is no other way: in particular that the keys `UpdateUser`, `DeleteUser` and
`CreateUser` name are all the keys their write makes wrong but those of other
spellings, that a failed
deletion is handed on, and that placeholders do not survive the creation of what
they deny.

Each property has at least one mutant, defined just before the definition it
replaces and marked `Mutation:`, that TLC refutes it with.

## Findings

| Run | What happens |
|---|---|
| `zero_user` | A request that joins another's `QueryRowIndex` flight is told that its data is fresh although only the leader's query filled its own `dest`: `GetUserByUsername` returns the zero user and a nil error (`cached_db.go:133`). |
| `wrong_user` | `getUserByUniqueIndex` passes the query *by username* as the primary query. If the index key is stale (its user lost the name, another took it) and the id key is absent, the other user's row is cached under the former user's id key, and `GetUserByID` returns it (`user_repo.go:123`). |
| `lock_expires` | The lock of registration lives 5 seconds, a request up to 10 (`configs/config.yaml`): two requests can both be past the lock of one name. The UNIQUE index still keeps the table right (`RegisteredOnce`, proved for any times); the loser gets a database error instead of 409 (`biz/user.go:71`). |
| `login_token` | Nothing copies the password into the row or out of it (`user_convert.go`), and `Login` compares what the client sent with the empty string: who has registered and logs in with the same name and password gets 401, where `user.proto` and `openapi.yaml` say "Login and get token". |
| `shipped` | The global limiter starts empty and nothing calls `AddTokens`: every request is refused (`ratelimit.go:64`). The refusal is not seen as a 429 either: the middleware returns nil, nil, the handler's assertion panics outside of `recovery`, and the connection is closed with the response unsent. |

Seen while modelling and not the subject of a run of its own:

* When the breaker rejects a deletion `cacheDel` returns nil, so `Exec` neither
  deletes nor starts an `AsyncDel`, and the old row stays for up to two hours
  (`cache.go:252`; one of the excuses of `StaleOnlyIfExcused`).
* Cache keys and lock keys are exact, SQL's `=` is not (`000001_create_users_table.up.sql:19`):
  a lookup in another spelling is cached under an index key that no writer names,
  which goes on giving the user's id after a deletion or a new name, for up to two
  hours (an excuse of `StaleOnlyIfExcused`); and registrations of `bob` and `Bob`
  take two locks, so that the loser gets a database error instead of 409
  (`CheckedNameStaysFree`; `RegisteredOnce` holds).
* `PUT /users/{user.id}` ("Update user", `user.proto:43-48`, and `openapi.yaml`, where
  the query's id is optional) sets the id of the embedded user; the service reads
  the request's own id (`service/user.go`), so that a client which names the user in
  the path alone, as the route asks, gets 500 and nothing is updated. Only one that repeats the id in
  the query updates anything, and the username is then emptied. The model binds as
  the code does; no property says that it should be so.
* The last id of a list is passed on as an int32 (`cached_db.go:216`): from 2^31 on
  a walk by the last id starts over or skips.
* Errors of `Validate` are plain errors and answered with 500; refused requests
  count as code 200 in `app_http_requests_total`, panics count as nothing
  (`MetricsTally`).
* The username of a deleted user stays taken: a new registration gets 500.
* `auth.Server` lets requests without a valid token through, as claims are all
  it adds; without an `auth` section every request ends in a recovered panic.
* `Fatalf` skips the deferred functions: when `Run` returns an error the
  buffered spans are lost and the database is not closed; a configuration
  without `server.http` passes the check of `c.HTTP` and panics twenty lines on.
  Without a `redis` section the first registration kills the process
  (`ExitsCleanUp`).
* An `AsyncDel` that still waits is forgotten at exit, and its keys stay stale
  until they expire; the span of one that runs after the tracer's shutdown, or of a
  handler that a forced stop gave up, is dropped (`ExitsCleanUp`).
* Every hit is also counted as a miss (`cache.go:127`), so the hit rate is at most
  one half, except that `HitRate` loads the hits again after summing and can
  then exceed even 1 (`LinesMakeSense`).
* `cache_singleflight_total` has the help text "Total singleflight shared hits"
  and counts leaders; the page offset wraps for `(page - 1) * pageSize >= 2^31`,
  where some other page is returned.

## Proofs

All constants are arbitrary, under the named assumptions of the modules (the
special values are no rows, keys, names or processes; bounds are naturals).

**UserRepoProofs**, for any number of requests, users, writes and faults.

* `TypeCorrect`: `Spec => []TypeOK`. `TypeOK` includes which values a key may
  hold and what a request carries at each point (`Fits`). It is not inductive:
  that an UPDATE leaves a well-typed row under its own id needs the row that the
  request read to exist still.
* `OldIsCurrentAlways`: `Spec => []OldIsCurrent`. The inductive invariant is
  `Inv == TypeOK /\ OldInv`. `OldInv` adds, for a request about to write, that
  the row it read exists, was live, and has a version no greater than the table's,
  with equality only if the rows are equal. Versions only grow, by one per
  write, so once overtaken a writer stays overtaken (`OldCommitted`).
* `Refinement`: `Spec => RefinesTable`. A step that writes is a step of
  `UserTable` because, by `OldInv`, the row under the version check is the live
  row that was read; every other step leaves `rows` alone.
* `UsernamesUnique`: `Spec => []Table!UniqueUsernames`, through the refinement.
* `VersionsTellAlways`: `Spec => [][VersionsTell]_rows`, through the refinement too.
  A deletion is final, no row goes away, and a row that changes moves its version
  by exactly one.

One lemma per action (`CacheGetOK`, ...), on top of lemmas for what actions are
made of (`GotoOK`, `ReturnOK`, `SetOK`, `DelOK`, `AppliedOK`).

**CacheProofs**, likewise, for any collation.

`StaleOnlyIfExcusedAlways`: `Spec => []StaleOnlyIfExcused`. Alone it is not
inductive, because what a reader SETs depends on what it read some steps before,
and what a writer DELs on what it put together before its UPDATE. `CacheInv` adds
both. `Carried`: a reader that no write has overtaken carries what the table
says (the id key its index led to, the row, or that there is none); one that has
been overtaken is in `late`, and its SET is excused. `WriterKeys`: a writer
carries every key that its statement concerns. The argument for a write is
`CommitElsewhere`: under a key that is not one of the row's, with its old or its
new name in any spelling, a lookup finds what it found before; so a value that becomes stale is
under a key the writer has yet to delete, or one of another spelling that was
cached when the row changed and is excused (`AppliedCache`), and a reader that is
not overtaken still carries the truth (`CommitSound`). `RowsAffected` matters
here: the keys were named for the row that was *read*, and `OldInv` makes it the
row that is written. The argument for a SET is `RowIsCurrent`, which needs
usernames to be unique: else the row found by name need not be the one whose id
the index gave. The argument for a DEL is `DelStale`: executed, it leaves
nothing; not executed, what was owed is a job of `AsyncDel` or an excuse.

**RegisterLockProofs**, for any times, in particular the shipped ones, and any
collation. `TypeCorrect`; `RegisteredOnceAlways`, from the UNIQUE index alone;
`OwnLockOnlyAlways`, an action property. `ExclusiveForTTLAlways` and
`CheckedNameStaysFreeAlways` say what the lock is worth when a request may outlive it.
Both rest on one strengthening: a request past `Lock` whose lock has been held for less
than `TTL` ticks holds it still, and the key has the rest of `TTL` to live
(`HoldsLock`). Then two requests past the lock of one name cannot both be fresh; and
whoever takes a name that another request has checked finds that one among the
`Uncovered`, unless one lock covers both, which `HoldsLock` excludes.

**RateLimiterProofs.** `TypeCorrect` and `NeverAboveRateAlways`: the tokens in the
bucket plus the units admitted since the mark never exceed a full bucket plus
what flowed in since. With the tokens on the left the statement is inductive; it
implies the bound on admissions alone.

**UserHTTPProofs**, for any finite number of requests, any wires, users, rate,
burst and unit. `ServerNeverAboveRate` instantiates `RateLimiterProofs`: the steps of
the server on the bucket are the limiter's, and every other step leaves the bucket and
the verdicts alone, so the bound is not proved twice. The invariants of the module
come from one inductive invariant, `Inv`:

* `Sane(r)`, what a request has at each control point: `Typed` (its message is
  one of its operation), `Inward` (before the service: no answer, no write,
  admitted, validated), `Outward` (after it: refused by the limiter, answered, or
  not even decoded, with the headers and the verdict that go with it) and `Told`
  (what the answer says of the write). `TypeCorrect` and `AnswersTellAlways` are read
  off it. Below it are lemmas on the generated
  code: whatever decodes is bound to a message of its operation (`BindOK`), and
  a message that passes `Validate` has passed each of its rules.
* `Issued`: each token's row is there under the token's name or none, and the call of
  Register that wrote it was answered 200; `TokensNameRegisteredAlways` asks for less,
  since a Login that worked would issue tokens too. It is kept because rows are not
  removed, a service update can only empty a name, and answers are final.
* `Tally`: the counters are the numbers of requests that are past `HTTPMetrics`
  with a good or a bad end; `MetricsTallyAlways`.

The assumptions on the constants are that requests are finitely many
(they are counted), that a wire is one (`IsWire`) and that `Nil` is none of the
values it stands beside.

**UserListProofs**, for any number of ids, any pages, sizes and statuses:
`TypeCorrect`, `DescWalkSeesAllAlways`, `PageWalkSlipsAlways` and
`QuietWalkIsExactAlways`. The first part of the module is about ranks: a page is the
rows at certain ranks, and a row that comes or goes moves the ranks of those behind it by
one at most, all in the same direction. `DescWalk` says that the users given so far
are those from the last id on. `PageWalk` has, for the rows passed so far,
`Growing` (while nothing leaves the list, those who were there all the time and are
passed have been seen), `Shrinking` (while nothing comes, whoever was seen is
passed, so nobody is seen twice) and `Quiet` (while neither happens, the pages are
exactly the list from the first one on). All hold as long as the offset has not
wrapped (`InRange`, which is part of the properties). `DescWalkSeesAllAlways` and
`QuietWalkIsExactAlways` have the hypothesis `MaxId < Half`, that is, ids below 2^31:
the last id is passed on as an int32, the total is one, and both otherwise wrap.

**CacheMetricsProofs**, for any finite number of goroutines and any keys and
lookups: `TypeCorrect`, `CountsAgreeAlways` and `LinesMakeSenseAlways`. An
entry and its Prometheus counter differ by the goroutines between the two
(`EntriesAgree`, `TotalsAgree`), which holds since an entry that lost the race of
`LoadOrStore` never counts (`Owned`). A line makes sense because every hit comes
behind a miss of the same lookup and every failed query behind its flight
(`Tallies`), so that hits, and those still to come for a miss already counted
(`Owes`), never exceed misses (`Paid`); and because `statLoop` loads the smaller
counter before the larger one (`Lines`). Goroutines are counted, hence finite.

**AppProofs**, for any number of handlers and of `AsyncDel` goroutines, whether or
not a stop may be forced: `TypeCorrect`, `NoUseAfterCloseAlways`,
`ExitsCleanUpAlways` and `ReadyMeansUpAlways`, all from one inductive invariant.
None is inductive alone: what an exit closes depends on what was deferred when it
began, and what a probe may answer on whether a backend without a handle is one
that is not configured. The parts are `Stages` (what main has opened and deferred at
each place), `Configured`, `Unwound` (what the deferred functions have done so far),
`Company` (when there are goroutines beside main) and `Probes`.

## Limits

Only model-checked: `RequestsReturn`, `CacheConverges`, `LocksRunOut` and
`SignalEnds`, as liveness under fairness is outside what the provers here do. Every
other property of a passing run is proved. The five violations are TLC's
counterexamples.

Not modelled, and why:

* `Trans`, `SetCache`, `Delete`, `FindSum`, `FindAll`, `FindPageListByIdAsc`: no
  caller in the program. (Inside `Trans`, `Exec` would delete the keys before the
  commit, and a reader could cache the old row again.)
* The generated HTTP client, gRPC stubs, replies and their validators,
  `ValidateAll`, `validator.Validate`, the preflight branch of CORS: not reached in the
  program.
* What `utf8mb4_unicode_ci` does to a name: it is an arbitrary function (`Weight`).
  Email addresses are under the same collation and are not modelled at all, but as
  texts that pass a rule or do not.
* The flights of several instances: `UserRepo` has one singleflight group, one
  instance of the server. `RegisterLock` has any number of hosts.
* Inside a use case, the interleavings of `UserRepo` and `RegisterLock` are not
  repeated in `UserHTTP`.
* `TopKeys`, `LogMetrics`, logging, the pool metrics: compute or print only.
* The scheduler: a wrapper of robfig/cron without a caller.
* Memory, latency, and MySQL's isolation inside one statement: each statement is
  atomic.

## Plan

Done: RedisCache, UserTable, UserRepo, RegisterLock, RateLimiter, UserList,
CacheMetrics, UserAPI, UserHTTP, App with their runs; the proofs above.

Next, in this order:

1. Proofs about answers of the repository: when a nil error comes with the zero
   user (`zero_user`: only for a follower of an index flight), and when
   `GetUserByID` returns another user (`wrong_user`: only after a stale index
   value was followed), so that the findings are shown to be the only ways.
2. `UserRepo` with several instances, one singleflight group each.
3. A run of its own for the update that names its user in the path only.
