------------------------- MODULE RegisterLockProofs -------------------------
(***************************************************************************)
(* Proofs about RegisterLock, for any number of requests and usernames.    *)
(***************************************************************************)
EXTENDS RegisterLock, TLAPS

\* The variables keep their types through every step of Register.
THEOREM TypeCorrect == Spec => []TypeOK
<1> USE NoneAssumption, TimesAssumption DEF TypeOK
<1>1. Init => TypeOK
  BY DEF Init, PC, Results
<1>2. TypeOK /\ [Next]_vars => TypeOK'
  <2> SUFFICES ASSUME TypeOK, [Next]_vars PROVE TypeOK'
    OBVIOUS
  <2> USE DEF PC, Results, Goto, Answer, Leave, history
  <2>1. ASSUME NEW p \in Proc, NEW n \in Names, Register(p, n) PROVE TypeOK'
    BY <2>1 DEF Register
  <2>2. ASSUME NEW p \in Proc, Lock(p) PROVE TypeOK'
    BY <2>2 DEF Lock, SetNX
  <2>3. ASSUME NEW p \in Proc, Lookup(p) PROVE TypeOK'
    BY <2>3 DEF Lookup
  <2>4. ASSUME NEW p \in Proc, Create(p) PROVE TypeOK'
    BY <2>4 DEF Create, Uncovered
  <2>5. ASSUME NEW p \in Proc, Unlock(p) PROVE TypeOK'
    BY <2>5 DEF Unlock, Release
  <2>6. ASSUME NEW p \in Proc, Die(p) PROVE TypeOK'
    BY <2>6 DEF Die
  <2>7. ASSUME NEW n \in Names, Rename(n) PROVE TypeOK'
    BY <2>7 DEF Rename
  <2>8. CASE Tick
    BY <2>8 DEF Tick, TimePasses, InTime, Fresh
  <2>9. CASE UNCHANGED vars
    BY <2>9 DEF vars
  <2> QED
    BY <2>1, <2>2, <2>3, <2>4, <2>5, <2>6, <2>7, <2>8, <2>9 DEF Next, Step
<1> QED
  BY <1>1, <1>2, PTL DEF Spec

-----------------------------------------------------------------------------
\* UNIQUE (username) alone makes registration exclusive: RegisteredOnce is
\* inductive, and nothing in its proof mentions the lock.
THEOREM RegisteredOnceAlways == Spec => []RegisteredOnce
<1>1. Init => RegisteredOnce
  BY DEF Init, RegisteredOnce
<1>2. TypeOK /\ RegisteredOnce /\ [Next]_vars => RegisteredOnce'
  <2> SUFFICES ASSUME TypeOK, RegisteredOnce, [Next]_vars PROVE RegisteredOnce'
    OBVIOUS
  <2> USE DEF TypeOK, RegisteredOnce
  <2>1. ASSUME NEW p \in Proc, Create(p) PROVE RegisteredOnce'
    <3>1. CASE UNCHANGED <<taken, acks>>
      BY <3>1
    <3>2. CASE Unique(p) /\ taken' = taken \cup {name[p]} /\ UNCHANGED acks
      BY <3>2
    <3>3. CASE /\ Unique(p)
               /\ taken' = taken \cup {name[p]}
               /\ acks' = [acks EXCEPT ![name[p]] = acks[name[p]] + 1]
      <4>1. name[p] \in Names
        BY <2>1 DEF Create
      <4>2. \A n \in Names : SameName(n, name[p]) => acks[n] = 0
        BY <3>3 DEF Unique, Taken
      <4>3. acks[name[p]] = 0 /\ SameName(name[p], name[p])
        BY <4>1, <4>2 DEF SameName
      <4>4. \A n \in Names : SameName(name[p], n) => SameName(n, name[p])
        BY DEF SameName
      <4>5. acks'[name[p]] = 1 /\ \A n \in Names \ {name[p]} : acks'[n] = acks[n]
        BY <3>3, <4>1, <4>3
      <4> QED
        BY <3>3, <4>1, <4>2, <4>4, <4>5
    <3> QED
      BY <2>1, <3>1, <3>2, <3>3 DEF Create
  <2>2. ASSUME NEW n \in Names, Rename(n) PROVE RegisteredOnce'
    BY <2>2 DEF Rename
  <2>3. ASSUME UNCHANGED <<taken, acks>> PROVE RegisteredOnce'
    BY <2>3
  <2> QED
    BY <2>1, <2>2, <2>3 DEF Next, Step, vars, history, Register, Lock, Lookup, Unlock, Die, Tick
<1> QED
  BY <1>1, <1>2, TypeCorrect, PTL DEF Spec

-----------------------------------------------------------------------------
(***************************************************************************)
(* The lock does its work for as long as it lives, and no assumption ties  *)
(* that to the time a request may take.  The invariant: a request whose    *)
(* lock has not run out still holds it, and Redis will keep it for the     *)
(* rest of TTL.                                                            *)
(***************************************************************************)
HoldsLock ==
    \A p \in Proc :
        /\ pc[p] \notin PastLock => held[p] = 0
        /\ pc[p] \in PastLock /\ Fresh(p) => /\ lock[name[p]] = p
                                           /\ left[name[p]] = TTL - held[p]

LockInv == HoldsLock /\ CheckedNameStaysFree

\* A request that leaves owes the invariant nothing, and takes no lock along.
LEMMA LeaveHolds ==
    ASSUME TypeOK, HoldsLock, NEW p \in Proc, Leave(p),
           \A n \in Names : lock[n] \in Proc \ {p} => lock'[n] = lock[n] /\ left'[n] = left[n]
    PROVE  HoldsLock'
<1> USE DEF TypeOK, HoldsLock, PastLock, Fresh, Leave, Goto
<1>1. pc'[p] = "idle" /\ held'[p] = 0
  OBVIOUS
<1>2. \A q \in Proc \ {p} : pc'[q] = pc[q] /\ name'[q] = name[q] /\ held'[q] = held[q]
  OBVIOUS
<1>3. \A q \in Proc : pc[q] # "idle" => name[q] \in Names
  OBVIOUS
<1> QED
  BY <1>1, <1>2, <1>3

\* HoldsLock is kept by every step, whatever the two times are.
LEMMA HoldsLockStep ==
    ASSUME TypeOK, HoldsLock, [Next]_vars
    PROVE  HoldsLock'
<1> USE NoneAssumption, TimesAssumption DEF TypeOK, HoldsLock, PastLock, Fresh, Goto, history
<1>1. ASSUME NEW p \in Proc, NEW n \in Names, Register(p, n) PROVE HoldsLock'
  BY <1>1 DEF Register
<1>2. ASSUME NEW p \in Proc, Lock(p) PROVE HoldsLock'
  <2>1. ASSUME SetNX(p) PROVE \A n \in Names : lock[n] \in Proc =>
                                  lock'[n] = lock[n] /\ left'[n] = left[n]
    BY <2>1 DEF SetNX
  <2>2. CASE SetNX(p) /\ pc' = [pc EXCEPT ![p] = "lookup"] /\ UNCHANGED <<name, held>>
    <3>1. name[p] \in Names /\ held[p] = 0
      BY <1>2 DEF Lock
    <3>2. lock'[name[p]] = p /\ left'[name[p]] = TTL
      BY <2>2, <3>1 DEF SetNX
    <3>3. \A q \in Proc \ {p} : pc'[q] = pc[q] /\ name[q] = name'[q] /\ held'[q] = held[q]
      BY <2>2
    <3> QED
      BY <2>1, <2>2, <3>1, <3>2, <3>3
  <2>3. CASE SetNX(p) /\ Leave(p)
    BY <2>1, <2>3, LeaveHolds
  <2>4. CASE Leave(p) /\ UNCHANGED <<lock, left>>
    BY <2>4, LeaveHolds
  <2> QED
    BY <1>2, <2>2, <2>3, <2>4 DEF Lock
<1>3. ASSUME NEW p \in Proc, Lookup(p) PROVE HoldsLock'
  BY <1>3 DEF Lookup
<1>4. ASSUME NEW p \in Proc, Create(p) PROVE HoldsLock'
  BY <1>4 DEF Create
<1>5. ASSUME NEW p \in Proc, Unlock(p) PROVE HoldsLock'
  <2>1. \A n \in Names : lock[n] \in Proc \ {p} => lock'[n] = lock[n] /\ left'[n] = left[n]
    BY <1>5 DEF Unlock, Release
  <2> QED
    BY <1>5, <2>1, LeaveHolds DEF Unlock
<1>6. ASSUME NEW p \in Proc, Die(p) PROVE HoldsLock'
  BY <1>6, LeaveHolds DEF Die
<1>7. ASSUME NEW n \in Names, Rename(n) PROVE HoldsLock'
  BY <1>7 DEF Rename
<1>8. CASE Tick
  <2> SUFFICES ASSUME NEW p \in Proc
               PROVE  /\ pc[p] \notin PastLock => held'[p] = 0
                      /\ pc[p] \in PastLock /\ held'[p] < TTL
                            => lock'[name[p]] = p /\ left'[name[p]] = TTL - held'[p]
    BY <1>8 DEF Tick
  <2>1. CASE pc[p] \notin PastLock
    BY <1>8, <2>1 DEF Tick, TimePasses
  <2>2. CASE pc[p] \in PastLock /\ held'[p] < TTL
    <3>1. held'[p] = held[p] + 1 /\ held[p] + 1 < TTL
      BY <1>8, <2>2 DEF Tick, TimePasses
    <3>2. name[p] \in Names /\ lock[name[p]] = p /\ left[name[p]] = TTL - held[p]
      BY <2>2, <3>1
    <3>3. left[name[p]] > 1
      BY <3>1, <3>2
    <3>4. lock'[name[p]] = lock[name[p]] /\ left'[name[p]] = left[name[p]] - 1
      BY <1>8, <3>2, <3>3 DEF Tick
    <3> QED
      BY <2>2, <3>1, <3>2, <3>4
  <2> QED
    BY <2>1, <2>2
<1>9. CASE UNCHANGED vars
  BY <1>9 DEF vars
<1> QED
  BY <1>1, <1>2, <1>3, <1>4, <1>5, <1>6, <1>7, <1>8, <1>9 DEF Next, Step

\* One key of Redis has one holder.
LEMMA HoldsLockExcludes ==
    ASSUME HoldsLock, NEW p \in Proc, NEW q \in Proc, p # q,
           pc[p] \in PastLock, pc[q] \in PastLock, name[p] = name[q]
    PROVE  ~Fresh(p) \/ ~Fresh(q)
BY DEF HoldsLock

\* A request that leaves has no checked name any more.
LEMMA LeaveChecked ==
    ASSUME TypeOK, CheckedNameStaysFree, NEW p \in Proc, Leave(p), UNCHANGED taken
    PROVE  CheckedNameStaysFree'
<1>1. \A q \in Proc \ {p} : /\ pc'[q] = pc[q] /\ name'[q] = name[q]
                             /\ (q \in blind' <=> q \in blind) /\ (q \in lost' <=> q \in lost)
  BY DEF TypeOK, Leave, Goto
<1>2. pc'[p] = "idle"
  BY DEF TypeOK, Leave, Goto
<1> QED
  BY <1>1, <1>2 DEF CheckedNameStaysFree, Taken

\* Between a request's lookup and its insert a name is taken only in the ways
\* that Uncovered lists.
LEMMA CheckedStep ==
    ASSUME TypeOK, HoldsLock, CheckedNameStaysFree, [Next]_vars
    PROVE  CheckedNameStaysFree'
<1> USE DEF TypeOK, CheckedNameStaysFree, Taken, Goto, history
<1>1. ASSUME NEW p \in Proc, NEW n \in Names, Register(p, n) PROVE CheckedNameStaysFree'
  BY <1>1 DEF Register
<1>2. ASSUME NEW p \in Proc, Lock(p) PROVE CheckedNameStaysFree'
  <2>1. CASE Leave(p)
    BY <1>2, <2>1, LeaveChecked DEF Lock
  <2>2. CASE pc' = [pc EXCEPT ![p] = "lookup"] /\ UNCHANGED <<name, blind, lost>>
    BY <1>2, <2>2 DEF Lock
  <2> QED
    BY <1>2, <2>1, <2>2 DEF Lock
<1>3. ASSUME NEW p \in Proc, Lookup(p) PROVE CheckedNameStaysFree'
  BY <1>3 DEF Lookup
<1>4. ASSUME NEW p \in Proc, Create(p) PROVE CheckedNameStaysFree'
  <2> SUFFICES ASSUME NEW q \in Proc, pc'[q] = "create", q \notin blind',
                      NEW m \in taken', SameName(m, name'[q])
               PROVE  q \in lost'
    OBVIOUS
  <2>1. /\ q # p /\ pc[q] = "create" /\ q \notin blind /\ name'[q] = name[q]
        /\ lost \subseteq lost'
    BY <1>4 DEF Create
  <2>2. CASE m \in taken
    BY <2>1, <2>2
  <2>3. CASE m \notin taken
    <3>1. m = name[p] /\ lost' = lost \cup Uncovered(p)
      BY <1>4, <2>3 DEF Create
    <3>2. Fresh(p) /\ Fresh(q) => name[q] # name[p]
      BY <1>4, <2>1, HoldsLockExcludes DEF Create, PastLock
    <3>3. SameName(name[q], name[p])
      BY <2>1, <3>1 DEF SameName
    <3>4. q \in Uncovered(p)
      BY <2>1, <3>2, <3>3 DEF Uncovered
    <3> QED
      BY <3>1, <3>4
  <2> QED
    BY <2>2, <2>3
<1>5. ASSUME NEW p \in Proc, Unlock(p) PROVE CheckedNameStaysFree'
  BY <1>5, LeaveChecked DEF Unlock
<1>6. ASSUME NEW p \in Proc, Die(p) PROVE CheckedNameStaysFree'
  BY <1>6, LeaveChecked DEF Die
<1>7. ASSUME NEW n \in Names, Rename(n) PROVE CheckedNameStaysFree'
  BY <1>7 DEF Rename
<1>8. CASE Tick
  BY <1>8 DEF Tick
<1>9. CASE UNCHANGED vars
  BY <1>9 DEF vars
<1> QED
  BY <1>1, <1>2, <1>3, <1>4, <1>5, <1>6, <1>7, <1>8, <1>9 DEF Next, Step

\* HoldsLock and CheckedNameStaysFree together are an invariant.
LEMMA LockInvAlways == Spec => []LockInv
<1>1. Init => LockInv
  BY DEF Init, LockInv, HoldsLock, PastLock, CheckedNameStaysFree
<1>2. TypeOK /\ LockInv /\ [Next]_vars => LockInv'
  BY HoldsLockStep, CheckedStep DEF LockInv
<1> QED
  BY <1>1, <1>2, TypeCorrect, PTL DEF Spec

\* For TTL ticks after it was set the lock of Register keeps everybody else
\* out, however long requests may take.
THEOREM ExclusiveForTTLAlways == Spec => []ExclusiveForTTL
<1>1. LockInv => ExclusiveForTTL
  BY HoldsLockExcludes DEF LockInv, ExclusiveForTTL, Inside, PastLock
<1> QED
  BY <1>1, LockInvAlways, PTL

\* A username that was truly found free is taken before the user is inserted
\* only past somebody's lock or in another spelling.
THEOREM CheckedNameStaysFreeAlways == Spec => []CheckedNameStaysFree
<1>1. LockInv => CheckedNameStaysFree
  BY DEF LockInv
<1> QED
  BY <1>1, LockInvAlways, PTL

\* Unlock takes away nobody else's lock.
THEOREM OwnLockOnlyAlways == Spec => OwnLockOnly
<1> DEFINE A == \A n \in Names : lock[n] # None /\ lock'[n] # lock[n]
                                  => \/ left[n] = 1 /\ left'[n] = 0
                                     \/ pc[lock[n]] = "unlock" /\ pc'[lock[n]] = "idle"
<1>1. TypeOK /\ [Next]_vars => [A]_vars
  <2> SUFFICES ASSUME TypeOK, Next PROVE A
    OBVIOUS
  <2>1. ASSUME NEW p \in Proc, Lock(p) PROVE A
    BY <2>1 DEF Lock, SetNX, TypeOK
  <2>2. ASSUME NEW p \in Proc, Unlock(p) PROVE A
    BY <2>2 DEF Unlock, Leave, Release, Goto, TypeOK
  <2>3. CASE Tick
    BY <2>3 DEF Tick
  <2>4. ASSUME UNCHANGED lock PROVE A
    BY <2>4
  <2> QED
    BY <2>1, <2>2, <2>3, <2>4 DEF Next, Step, Register, Lookup, Create, Die, Rename
<1> QED
  BY <1>1, TypeCorrect, PTL DEF Spec, OwnLockOnly
=============================================================================
