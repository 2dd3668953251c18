-------------------------- MODULE RateLimiterProofs --------------------------
(***************************************************************************)
(* Proofs about RateLimiter, for every rate, burst and unit.               *)
(***************************************************************************)
EXTENDS RateLimiter, TLAPS

\* The arithmetic the provers need help with.
LEMMA Distribute ==
    \A a, b, c \in Int : (a + b) * c = a * c + b * c
OBVIOUS

\* Natural numbers are closed under the products that the proofs use.
LEMMA ProductNat ==
    \A a, b \in Nat : a * b \in Nat
OBVIOUS

\* The bucket never holds less than nothing or more than Burst tokens, and no
\* call of AddTokens sets the limiter's clock back or ahead of the time of day.
THEOREM TypeCorrect == Spec => []TypeOK
<1> USE LimiterAssumption
<1>1. Burst * Unit \in Nat
  BY ProductNat
<1>2. Init => TypeOK
  BY <1>1 DEF Init, NewLimiter, TypeOK
<1>3. TypeOK /\ [Next]_vars => TypeOK'
  <2> SUFFICES ASSUME TypeOK, [Next]_vars PROVE TypeOK'
    OBVIOUS
  <2> USE DEF TypeOK
  <2>1. CASE Request
    BY <1>1, <2>1 DEF Request, Allow
  <2>2. ASSUME NEW now \in 0..clock, AddTokens(now), UNCHANGED <<clock, asked, admitted, mark>>
        PROVE  TypeOK'
    <3>1. CASE now > last
      <4>1. (now - last) * Rate \in Nat
        BY <3>1, ProductNat
      <4>2. tokens' \in 0..(Burst * Unit)
        BY <1>1, <2>2, <3>1, <4>1 DEF AddTokens
      <4>3. last' = now
        BY <2>2, <3>1 DEF AddTokens
      <4> QED
        BY <2>2, <3>1, <4>2, <4>3
    <3>2. CASE now <= last
      BY <2>2, <3>2 DEF AddTokens
    <3> QED
      BY <3>1, <3>2
  <2>3. CASE Tick
    BY <2>3 DEF Tick
  <2>4. CASE Observe
    BY <2>4 DEF Observe
  <2>5. CASE UNCHANGED vars
    BY <2>5 DEF vars
  <2> QED
    BY <2>1, <2>2, <2>3, <2>4, <2>5 DEF Next, Refill
<1> QED
  BY <1>2, <1>3, PTL DEF Spec

\* Since any moment, the requests admitted and the tokens still there together
\* are at most a full bucket and what flowed in: a token is never spent twice,
\* nor the same stretch of time paid out twice.
THEOREM NeverAboveRateAlways == Spec => []NeverAboveRate
<1> USE LimiterAssumption
<1>1. Burst * Unit \in Nat
  BY ProductNat
<1>2. Init => NeverAboveRate
  BY <1>1 DEF Init, NewLimiter, NeverAboveRate
<1>3. TypeOK /\ NeverAboveRate /\ [Next]_vars => NeverAboveRate'
  <2> SUFFICES ASSUME TypeOK, NeverAboveRate, [Next]_vars PROVE NeverAboveRate'
    OBVIOUS
  <2> DEFINE spent  == (admitted - mark.admitted) * Unit
             inflow == (last - mark.last) * Rate
  <2>1. spent \in Nat /\ inflow \in Nat /\ tokens \in Nat
    BY ProductNat DEF TypeOK
  <2>2. CASE Request
    <3>1. CASE tokens < Unit
      <4>1. tokens' = 0 /\ UNCHANGED <<last, mark, admitted>>
        BY <2>2, <3>1 DEF Request, Allow, TypeOK
      <4> QED
        BY <1>1, <2>1, <4>1 DEF NeverAboveRate
    <3>2. CASE tokens >= Unit
      <4>1. tokens' = tokens - Unit /\ admitted' = admitted + 1 /\ UNCHANGED <<last, mark>>
        BY <2>2, <3>2 DEF Request, Allow, TypeOK
      <4>2. (admitted' - mark'.admitted) * Unit = spent + Unit
        <5>1. admitted' - mark'.admitted = (admitted - mark.admitted) + 1
          BY <4>1 DEF TypeOK
        <5>2. admitted - mark.admitted \in Int /\ Unit \in Int
          BY DEF TypeOK
        <5> QED
          BY <5>1, <5>2, Distribute
      <4> HIDE DEF spent
      <4> QED
        BY <1>1, <2>1, <4>1, <4>2 DEF NeverAboveRate, spent
    <3> QED
      BY <3>1, <3>2 DEF TypeOK
  <2>3. ASSUME NEW now \in 0..clock, AddTokens(now), UNCHANGED <<clock, asked, admitted, mark>>
        PROVE  NeverAboveRate'
    <3>1. CASE now > last
      <4>1. (now - last) * Rate \in Nat
        BY <3>1, ProductNat DEF TypeOK
      <4>2. last' = now /\ tokens' <= tokens + (now - last) * Rate /\ tokens' \in Int
        <5>1. last' = now /\ tokens' = IF tokens + (now - last) * Rate > Burst * Unit
                                       THEN Burst * Unit ELSE tokens + (now - last) * Rate
          BY <2>3, <3>1 DEF AddTokens, TypeOK
        <5> QED
          BY <1>1, <2>1, <4>1, <5>1
      <4>3. (last' - mark'.last) * Rate = inflow + (now - last) * Rate
        <5>1. last' - mark'.last = (last - mark.last) + (now - last)
          BY <2>3, <4>2 DEF TypeOK
        <5>2. last - mark.last \in Int /\ now - last \in Int /\ Rate \in Int
          BY DEF TypeOK
        <5> QED
          BY <5>1, <5>2, Distribute
      <4>4. (admitted' - mark'.admitted) * Unit = spent
        BY <2>3
      <4>5. spent + tokens <= Burst * Unit + inflow
        BY DEF NeverAboveRate
      <4> HIDE DEF spent, inflow
      <4>6. spent + tokens' <= Burst * Unit + (inflow + (now - last) * Rate)
        BY <1>1, <2>1, <4>1, <4>2, <4>5
      <4> QED
        BY <4>3, <4>4, <4>6 DEF NeverAboveRate
    <3>2. CASE now <= last
      BY <2>3, <3>2 DEF AddTokens, NeverAboveRate, TypeOK
    <3> QED
      BY <3>1, <3>2 DEF TypeOK
  <2>4. CASE Tick
    BY <2>4 DEF Tick, NeverAboveRate
  <2>5. CASE Observe
    <3>1. mark' = [last |-> last, admitted |-> admitted] /\ UNCHANGED <<tokens, last, admitted>>
      BY <2>5 DEF Observe
    <3>2. mark'.last = last /\ mark'.admitted = admitted /\ last \in Int /\ admitted \in Int
      BY <3>1 DEF TypeOK
    <3>3. (admitted - admitted) * Unit = 0 /\ (last - last) * Rate = 0
      <4>1. admitted - admitted = 0 /\ last - last = 0
        BY <3>2
      <4> QED
        BY <4>1
    <3>4. tokens <= Burst * Unit
      BY <1>1 DEF TypeOK
    <3> QED
      BY <1>1, <2>1, <3>1, <3>2, <3>3, <3>4 DEF NeverAboveRate
  <2>6. CASE UNCHANGED vars
    BY <2>6 DEF vars, NeverAboveRate
  <2> QED
    BY <2>2, <2>3, <2>4, <2>5, <2>6 DEF Next, Refill
<1> QED
  BY <1>2, <1>3, TypeCorrect, PTL DEF Spec
=============================================================================
