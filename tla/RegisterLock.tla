---------------------------- MODULE RegisterLock ----------------------------
(***************************************************************************)
(* biz.Register and the distributed lock it takes (internal/pkg/lock):     *)
(* SET NX with a time to live, one attempt; look the username up; create   *)
(* the user; release the lock if it is still one's own.  The processes may *)
(* be on different hosts: they meet in Redis and in MySQL only.            *)
(*                                                                         *)
(* Redis compares names byte by byte and MySQL by utf8mb4_unicode_ci: two  *)
(* spellings of one name have two locks and one entry in the UNIQUE index. *)
(*                                                                         *)
(* The lock lives for TTL ticks from the moment Redis sets it.  A request  *)
(* has Timeout ticks from its arrival: after that its context is done and  *)
(* each call it makes with it fails, but a request may be slow for as long *)
(* as it likes between two calls.                                          *)
(***************************************************************************)
EXTENDS Integers

CONSTANTS
    Proc,    \* requests being served, on any host
    Names,   \* usernames, each spelling of a name by itself
    Weight,  \* username -> what utf8mb4_unicode_ci makes of it
    None,    \* nobody
    TTL,     \* 5 seconds in the code
    Timeout  \* server.http.timeout: 10 seconds in configs/config.yaml

ASSUME NoneAssumption == None \notin Proc /\ None \notin Names
ASSUME TimesAssumption == TTL \in Nat \ {0} /\ Timeout \in Nat \ {0}

VARIABLES
    taken, \* MySQL: the usernames in the table, those of deleted users too
    lock,  \* Redis: whose token the key lock:register:<name> holds
    left,  \* Redis: ticks until that key expires
    pc, name, age, reply,
    held,  \* history: ticks since a request's lock was set, up to TTL
    blind, \* history: requests that were told of no user for want of a true answer
    lost,  \* history: requests whose name was taken in a way the lock leaves open
    acks   \* history: registrations of a name reported a success since it was free

history == <<held, blind, lost, acks>>
vars == <<taken, lock, left, pc, name, age, reply, history>>

PC == {"idle", "lock", "lookup", "create", "unlock"}
PastLock == {"lookup", "create", "unlock"}
Results == {"none", "ok", "toomany", "exists", "failed"}

\* ctx.Err() = nil: the request's calls can still reach Redis and MySQL.
InTime(p) == age[p] < Timeout

\* SQL's m = n.
SameName(m, n) == Weight[m] = Weight[n]

\* The table has a row, live or deleted, whose username SQL holds equal to n.
Taken(n) == \E m \in taken : SameName(m, n)

\* The lock that p took has not run out.
Fresh(p) == held[p] < TTL

Goto(p, l) == pc' = [pc EXCEPT ![p] = l]
Answer(p, r) == reply' = [reply EXCEPT ![p] = r]

\* p's request is over, answered or not.
Leave(p) ==
    /\ Goto(p, "idle")
    /\ name' = [name EXCEPT ![p] = None]
    /\ age' = [age EXCEPT ![p] = 0]
    /\ held' = [held EXCEPT ![p] = 0]
    /\ blind' = blind \ {p}
    /\ lost' = lost \ {p}

\* A request of the API arrives; the validator lets no empty name through.
Register(p, n) ==
    /\ pc[p] = "idle"
    /\ Goto(p, "lock")
    /\ name' = [name EXCEPT ![p] = n]
    /\ Answer(p, "none")
    /\ UNCHANGED <<taken, lock, left, age, history>>

\* Mutation: SET NX without an expiry.
SetNXForever(p) ==
    /\ lock[name[p]] = None
    /\ lock' = [lock EXCEPT ![name[p]] = p]
    /\ left' = left

\* Mutation: SET without NX.
SetOver(p) ==
    /\ lock' = [lock EXCEPT ![name[p]] = p]
    /\ left' = [left EXCEPT ![name[p]] = TTL]

\* SET lock:register:<name> <token> NX PX <ttl>: the key has the name as it
\* was sent.
SetNX(p) ==
    /\ lock[name[p]] = None
    /\ lock' = [lock EXCEPT ![name[p]] = p]
    /\ left' = [left EXCEPT ![name[p]] = TTL]

\* locker.Lock, with WithTries(1): one attempt, and any error is a 429.  The
\* attempt may also have set the key although its reply, and redsync's own
\* attempt to take it back, were lost.
Lock(p) ==
    /\ pc[p] = "lock"
    /\ \/ /\ InTime(p) /\ SetNX(p)
          /\ Goto(p, "lookup") /\ UNCHANGED <<name, age, reply, held, blind, lost>>
       \/ InTime(p) /\ SetNX(p) /\ Leave(p) /\ Answer(p, "toomany")
       \/ Leave(p) /\ Answer(p, "toomany") /\ UNCHANGED <<lock, left>>
    /\ UNCHANGED <<taken, acks>>

\* GetUserByUsername.  Any error is taken for "no such user"; so is a cached
\* placeholder, or a user who is deleted but whose name is still taken.  A
\* stale index can make it report a user when the name is free.
Lookup(p) ==
    /\ pc[p] = "lookup"
    /\ \/ InTime(p) /\ Goto(p, "unlock") /\ Answer(p, "exists") /\ UNCHANGED blind
       \/ /\ InTime(p) /\ ~Taken(name[p])
          /\ Goto(p, "create") /\ UNCHANGED <<reply, blind>>
       \/ Goto(p, "create") /\ blind' = blind \cup {p} /\ UNCHANGED reply
    /\ UNCHANGED <<taken, lock, left, name, age, held, lost, acks>>

\* Mutation: the column is compared byte by byte.
UniqueAsSpelled(p) == name[p] \notin taken

\* UNIQUE (username), which deleted rows count for as well.
Unique(p) == ~Taken(name[p])

\* The requests that have checked the name which p now takes, and that the lock
\* does not cover: theirs or p's has run out, or the spelling is another one.
Uncovered(p) ==
    {q \in Proc \ {p} : /\ pc[q] = "create" /\ SameName(name[q], name[p])
                        /\ Fresh(p) /\ Fresh(q) => name[q] # name[p]}

\* CreateUser.  The INSERT may be applied and its reply lost, and the error of
\* the trailing DelCache is reported for a user that exists.
Create(p) ==
    /\ pc[p] = "create"
    /\ Goto(p, "unlock")
    /\ \/ /\ InTime(p) /\ Unique(p)
          /\ taken' = taken \cup {name[p]}
          /\ lost' = lost \cup Uncovered(p)
          /\ \/ Answer(p, "ok") /\ acks' = [acks EXCEPT ![name[p]] = @ + 1]
             \/ Answer(p, "failed") /\ UNCHANGED acks
       \/ Answer(p, "failed") /\ UNCHANGED <<taken, lost, acks>>
    /\ UNCHANGED <<lock, left, name, age, held, blind>>

\* Mutation: DEL of the key, whoever holds it.
ReleaseAnyone(p) == lock' = [lock EXCEPT ![name[p]] = None]

\* The release script: DEL if the key still holds this request's token.
Release(p) == lock' = [lock EXCEPT ![name[p]] = IF @ = p THEN None ELSE @]

\* The deferred unlock, with a context of its own; its error is only logged.
Unlock(p) ==
    /\ pc[p] = "unlock"
    /\ Leave(p)
    /\ Release(p) \/ UNCHANGED lock
    /\ UNCHANGED <<taken, left, reply, acks>>

\* The service's UpdateUser sets the username to "", which frees the name.
Rename(n) ==
    /\ n \in taken
    /\ taken' = taken \ {n}
    /\ acks' = [acks EXCEPT ![n] = 0]
    /\ UNCHANGED <<lock, left, pc, name, age, reply, held, blind, lost>>

\* The requests of p's host are lost in a crash.
Die(p) ==
    /\ pc[p] # "idle"
    /\ Leave(p)
    /\ Answer(p, "none")
    /\ UNCHANGED <<taken, lock, left, acks>>

\* What a tick is for the requests.
TimePasses ==
    /\ age' = [p \in Proc |-> IF pc[p] # "idle" /\ InTime(p) THEN age[p] + 1 ELSE age[p]]
    /\ held' = [p \in Proc |-> IF pc[p] \in PastLock /\ Fresh(p) THEN held[p] + 1 ELSE held[p]]

\* Mutation: a key that has run out goes on counting down.
TickBelowZero ==
    /\ left' = [n \in Names |-> left[n] - 1]
    /\ lock' = [n \in Names |-> IF left[n] = 1 THEN None ELSE lock[n]]
    /\ TimePasses
    /\ UNCHANGED <<taken, pc, name, reply, blind, lost, acks>>

\* A tick of the clock: locks run out, and so do the requests' contexts.
Tick ==
    /\ left' = [n \in Names |-> IF left[n] = 0 THEN 0 ELSE left[n] - 1]
    /\ lock' = [n \in Names |-> IF left[n] = 1 THEN None ELSE lock[n]]
    /\ TimePasses
    /\ UNCHANGED <<taken, pc, name, reply, blind, lost, acks>>

Init ==
    /\ taken \in SUBSET Names
    /\ \A m, n \in taken : SameName(m, n) => m = n
    /\ lock = [n \in Names |-> None]
    /\ left = [n \in Names |-> 0]
    /\ pc = [p \in Proc |-> "idle"]
    /\ name = [p \in Proc |-> None]
    /\ age = [p \in Proc |-> 0]
    /\ reply = [p \in Proc |-> "none"]
    /\ held = [p \in Proc |-> 0]
    /\ blind = {}
    /\ lost = {}
    /\ acks = [n \in Names |-> 0]

Step(p) == Lock(p) \/ Lookup(p) \/ Create(p) \/ Unlock(p)

Next ==
    \/ \E p \in Proc : Step(p) \/ Die(p) \/ \E n \in Names : Register(p, n)
    \/ \E n \in Names : Rename(n)
    \/ Tick

Spec == Init /\ [][Next]_vars

\* A request that is being served runs on, and time passes.
FairSpec == Spec /\ (\A p \in Proc : WF_vars(Step(p))) /\ WF_vars(Tick)

-----------------------------------------------------------------------------
\* Properties.

\* Every variable has its type; a lock's remaining time never exceeds its TTL
\* nor falls below zero, and a request past its arrival has a name.
TypeOK ==
    /\ taken \subseteq Names
    /\ lock \in [Names -> Proc \cup {None}]
    /\ left \in [Names -> 0..TTL]
    /\ pc \in [Proc -> PC]
    /\ name \in [Proc -> Names \cup {None}]
    /\ \A p \in Proc : pc[p] # "idle" => name[p] \in Names
    /\ age \in [Proc -> 0..Timeout]
    /\ reply \in [Proc -> Results]
    /\ held \in [Proc -> 0..TTL]
    /\ blind \subseteq Proc
    /\ lost \subseteq Proc
    /\ acks \in [Names -> Nat]

\* Whatever happens to the lock, the lookup and the replies, one username is
\* never reported registered to two callers, not even in two spellings: UNIQUE
\* (username) decides, not the lock of biz.Register.
RegisteredOnce ==
    /\ \A n \in Names : acks[n] <= 1 /\ (acks[n] = 1 => n \in taken)
    /\ \A m, n \in Names : m # n /\ SameName(m, n) => acks[m] = 0 \/ acks[n] = 0

Inside(p) == pc[p] \in {"lookup", "create"} /\ InTime(p)

\* "Acquire distributed lock to prevent concurrent registration with the same
\* username" (biz/user.go): no two requests that can still reach MySQL are
\* past the lock of one name.
MutualExclusion ==
    \A p, q \in Proc : p # q /\ Inside(p) /\ Inside(q) => name[p] # name[q]

\* What the lock does keep of that, whatever the two times are: the first TTL
\* ticks after it was set belong to its holder, so that of two requests which
\* are past the lock of one name one took it that long ago (lock/redis.go).
ExclusiveForTTL ==
    \A p, q \in Proc : p # q /\ Inside(p) /\ Inside(q) /\ name[p] = name[q]
                           => ~Fresh(p) \/ ~Fresh(q)

\* What the lock is for: a request whose lookup truly found the username free
\* finds it taken at its insert, and its caller gets MySQL's duplicate-key error
\* and not ErrUsernameExists (biz/user.go), only if the request that took it or
\* this one had outlived its lock, or had sent another spelling of the name.
CheckedNameStaysFree ==
    \A p \in Proc : pc[p] = "create" /\ p \notin blind /\ Taken(name[p]) => p \in lost

\* A request never releases another's lock: a key is dropped when its time is
\* up, or by the one whose token it holds as that one unlocks (lock/redis.go).
OwnLockOnly ==
    [][\A n \in Names : lock[n] # None /\ lock'[n] # lock[n]
          => \/ left[n] = 1 /\ left'[n] = 0
             \/ pc[lock[n]] = "unlock" /\ pc'[lock[n]] = "idle"]_vars

\* A lock that nobody released, because its holder died or its reply was
\* lost, does not keep the username from being registered for ever.
LocksRunOut == \A n \in Names : []<>(lock[n] = None)
=============================================================================
