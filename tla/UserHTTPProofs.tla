--------------------------- MODULE UserHTTPProofs ---------------------------
(***************************************************************************)
(* Proofs about UserHTTP, for any number of requests, any clients, any     *)
(* rate, burst and unit, and any wires.  The bucket inherits the bound     *)
(* that is proved of RateLimiter; and what a request carries fits the      *)
(* point where it stands, from which follow what the answers tell, what    *)
(* the tokens name and what the metrics count.                             *)
(***************************************************************************)
EXTENDS UserHTTP, FiniteSetTheorems, WellFoundedInduction, TLAPS

\* RateLimiter and what is proved of it, seen through the server's requests.
Bucket == INSTANCE RateLimiterProofs WITH asked <- Asked, admitted <- Admitted

\* A request is always a record that has a verdict.
Shape ==
    /\ DOMAIN req = Req
    /\ \A r \in Req : {"pc", "op", "msg", "token", "verdict", "claims", "hdrs", "out", "wrote"}
                        \subseteq DOMAIN req[r]

\* No verdict changes.
KeepsVerdicts == Shape' /\ \A r \in Req : req'[r].verdict = req[r].verdict

\* As long as no verdict changes, neither do the counts.
LEMMA SameCounts == ASSUME KeepsVerdicts PROVE Asked' = Asked /\ Admitted' = Admitted
BY DEF KeepsVerdicts, Asked, Admitted

\* A request that arrives has not asked the limiter yet.
LEMMA ReceiveKeeps == ASSUME Shape, NEW r \in Req, Receive(r) PROVE KeepsVerdicts
<1>1. PICK w \in Wires :
        \/ req' = [req EXCEPT ![r].pc = "done", ![r].op = w.op, ![r].out = "400"]
        \/ \E t : req' = [req EXCEPT ![r].pc = "limit", ![r].op = w.op, ![r].token = t,
                                     ![r].msg = Bind(w.op, w),
                                     ![r].hdrs = requestid \cup cors(w)]
  BY DEF Receive
<1>2. CASE req' = [req EXCEPT ![r].pc = "done", ![r].op = w.op, ![r].out = "400"]
  BY <1>2 DEF Shape, KeepsVerdicts
<1>3. ASSUME NEW t, req' = [req EXCEPT ![r].pc = "limit", ![r].op = w.op, ![r].token = t,
                                       ![r].msg = Bind(w.op, w),
                                       ![r].hdrs = requestid \cup cors(w)]
      PROVE KeepsVerdicts
  BY <1>3 DEF Shape, KeepsVerdicts
<1> QED
  BY <1>1, <1>2, <1>3

\* Past the limiter nobody touches the verdict: auth and validation,
LEMMA ChainKeeps ==
    ASSUME Shape, NEW r \in Req, Auth(r) \/ ValidateReq(r) \/ HTTPMetrics(r) \/ Finish(r)
    PROVE  KeepsVerdicts
<1>1. CASE Auth(r)
  <2>1. CASE req' = [req EXCEPT ![r].pc = "finish", ![r].out = "500"]
    BY <2>1 DEF Shape, KeepsVerdicts
  <2>2. ASSUME NEW c, req' = [req EXCEPT ![r].pc = "validate", ![r].claims = c]
        PROVE  KeepsVerdicts
    BY <2>2 DEF Shape, KeepsVerdicts
  <2> QED
    BY <1>1, <2>1, <2>2 DEF Auth
<1>2. CASE ValidateReq(r)
  <2>1. CASE req' = [req EXCEPT ![r].pc = "service"]
    BY <2>1 DEF Shape, KeepsVerdicts
  <2>2. CASE req' = [req EXCEPT ![r].pc = "metrics", ![r].out = "500"]
    BY <2>2 DEF Shape, KeepsVerdicts
  <2> QED
    BY <1>2, <2>1, <2>2 DEF ValidateReq
<1>3. CASE HTTPMetrics(r)
  BY <1>3 DEF HTTPMetrics, Shape, KeepsVerdicts
<1>4. CASE Finish(r)
  BY <1>4 DEF Finish, Shape, KeepsVerdicts
<1> QED
  BY <1>1, <1>2, <1>3, <1>4

\* and the service, whatever it returns.
LEMMA ServiceKeeps == ASSUME Shape, NEW r \in Req, Service(r) PROVE KeepsVerdicts /\ UNCHANGED limiterVars
<1>1. \A code : Return(r, code) => KeepsVerdicts
  <2> SUFFICES ASSUME NEW code, NEW wrote,
                      req' = [req EXCEPT ![r].pc = "metrics", ![r].out = code, ![r].wrote = wrote]
               PROVE  KeepsVerdicts
    BY DEF Return
  <2> QED
    BY DEF Shape, KeepsVerdicts
<1>2. CASE Register(r)
  BY <1>1, <1>2 DEF Register
<1>3. CASE Login(r)
  BY <1>1, <1>3 DEF Login
<1>4. CASE GetUser(r) \/ ListUsers(r)
  BY <1>1, <1>4 DEF GetUser, ListUsers
<1>5. CASE UpdateUser(r) \/ DeleteUser(r)
  BY <1>1, <1>5 DEF UpdateUser, DeleteUser, WriteOutcome
<1> QED
  BY <1>2, <1>3, <1>4, <1>5 DEF Service

\* The limiter gives a verdict, and the request stays a request.
LEMMA RateLimitKeepsShape == ASSUME Shape, NEW r \in Req, RateLimit(r) PROVE Shape'
<1>1. CASE req' = [req EXCEPT ![r].pc = "auth", ![r].verdict = "allowed"]
  BY <1>1 DEF Shape
<1>2. CASE req' = [req EXCEPT ![r].pc = "metrics", ![r].verdict = "refused"]
  BY <1>2 DEF Shape
<1> QED
  BY <1>1, <1>2 DEF RateLimit

\* What a step of the server is to the limiter: a step of its own, or none.
LEMMA StepRefines ==
    ASSUME Shape, [Next]_vars
    PROVE  Shape' /\ [Limiter!Next]_Limiter!vars
<1>1. ASSUME KeepsVerdicts, UNCHANGED limiterVars
      PROVE  Shape' /\ UNCHANGED Limiter!vars
  BY <1>1, SameCounts DEF KeepsVerdicts, limiterVars, Limiter!vars
<1>2. ASSUME NEW r \in Req, Receive(r) PROVE UNCHANGED limiterVars
  BY <1>2 DEF Receive
<1>3. ASSUME NEW r \in Req, Auth(r) \/ ValidateReq(r) \/ HTTPMetrics(r) \/ Finish(r)
      PROVE  UNCHANGED limiterVars
  BY <1>3 DEF Auth, ValidateReq, HTTPMetrics, Finish
<1>4. ASSUME NEW r \in Req, RateLimit(r) PROVE Shape' /\ Limiter!Next
  BY <1>4, RateLimitKeepsShape DEF RateLimit, Limiter!Next
<1>5. CASE Tick \/ Observe \/ Refill
  BY <1>5 DEF Tick, Observe, Refill, Environment, Shape, Limiter!Next
<1>6. CASE UNCHANGED vars
  <2>1. KeepsVerdicts /\ UNCHANGED limiterVars
    BY <1>6 DEF vars, limiterVars, KeepsVerdicts, Shape
  <2> QED
    BY <1>1, <2>1
<1> QED
  BY <1>1, <1>2, <1>3, <1>4, <1>5, <1>6, ReceiveKeeps, ChainKeeps, ServiceKeeps DEF Next, Step

\* At the beginning nobody has asked.
LEMMA InitRefines == Init => Shape /\ Limiter!Init
<1> SUFFICES ASSUME Init PROVE Shape
  BY DEF Init
<1> QED
  BY DEF Init, Shape, NewRequest

\* The limiter's bound, for the server: since any moment, the requests that were
\* let through are paid for by a full bucket and by what flowed in.
THEOREM ServerNeverAboveRate == Spec => []NeverAboveRate
<1>1. Limiter!Init => Bucket!Init
  BY DEF Limiter!Init, Limiter!NewLimiter, Bucket!Init, Bucket!NewLimiter
<1>2. [Limiter!Next]_Limiter!vars => [Bucket!Next]_Bucket!vars
  BY DEF Limiter!Next, Limiter!vars, Limiter!Request, Limiter!Allow, Limiter!Refill,
         Limiter!AddTokens, Limiter!Tick, Limiter!Observe,
         Bucket!Next, Bucket!vars, Bucket!Request, Bucket!Allow, Bucket!Refill,
         Bucket!AddTokens, Bucket!Tick, Bucket!Observe
<1>3. Bucket!NeverAboveRate => NeverAboveRate
  BY DEF Bucket!NeverAboveRate, NeverAboveRate, Limiter!NeverAboveRate
<1>4. Bucket!Spec => []Bucket!NeverAboveRate
  BY Bucket!NeverAboveRateAlways, LimiterAssumption, PTL
<1> QED
  BY <1>1, <1>2, <1>3, <1>4, InitRefines, StepRefines, PTL DEF Spec, Bucket!Spec
-----------------------------------------------------------------------------
\* What a request has at each control point.

Points == {"idle", "limit", "auth", "validate", "service", "metrics", "finish", "done"}
Early  == {"idle", "limit", "auth", "validate", "service"}

\* Its types, and that it is bound before it enters the chain.
Typed(r) ==
    /\ req[r].pc \in Points
    /\ At(r, "idle") => req[r].op = Nil /\ req[r].msg = Nil /\ req[r].hdrs = {}
    /\ ~At(r, "idle") => req[r].op \in Operations
    /\ req[r].msg # Nil => IsMessage(req[r].op, req[r].msg)
    /\ req[r].pc \in Early \ {"idle"} => IsMessage(req[r].op, req[r].msg)
    /\ req[r].claims \in issued \cup {Nil}

\* On the way in: no answer yet, and no write.
Inward(r) ==
    /\ req[r].pc \in Early => req[r].out = Nil /\ req[r].wrote = FALSE
    /\ req[r].pc \in {"idle", "limit"} => req[r].verdict = "none"
    /\ req[r].pc \in {"auth", "validate", "service"} => req[r].verdict = "allowed"
    /\ req[r].pc \in Early \ {"idle"} => "X-Request-ID" \in req[r].hdrs
    /\ req[r].pc \in {"validate", "service"} => ac # Nil
    /\ At(r, "service") => Validate(req[r].op, req[r].msg) = Nil

\* The request was refused by the limiter, answered from inside of the chain,
\* or did not decode.
Refused(r) ==
    /\ req[r].verdict = "refused" /\ req[r].wrote = FALSE
    /\ "X-Request-ID" \in req[r].hdrs
    /\ req[r].out = IF At(r, "done") THEN "dropped" ELSE Nil

Answered(r) ==
    /\ req[r].verdict = "allowed" /\ req[r].out \in Codes \ {"400"}
    /\ "X-Request-ID" \in req[r].hdrs
    /\ ac = Nil => ~At(r, "metrics") /\ req[r].out # "200"

Undecoded(r) ==
    /\ At(r, "done") /\ req[r].verdict = "none" /\ req[r].out = "400"
    /\ req[r].hdrs = {} /\ req[r].msg = Nil /\ req[r].wrote = FALSE

Outward(r) ==
    req[r].pc \in {"metrics", "finish", "done"} => Refused(r) \/ Answered(r) \/ Undecoded(r)

\* What the answer says of the write.
Told(r) ==
    /\ req[r].wrote \in BOOLEAN
    /\ req[r].wrote => req[r].out \in {"200", "500"}
    /\ req[r].out = "200" /\ req[r].op \in {"Register", "UpdateUser", "DeleteUser"} => req[r].wrote

Sane(r) == Typed(r) /\ Inward(r) /\ Outward(r) /\ Told(r)

\* From one state to the next no row is lost, and no name is changed for another.
KeepsNames ==
    \A i \in Ids : rows[i] # Nil => rows'[i] # Nil /\ rows'[i].name \in {rows[i].name, NoName}

\* A row, deleted or not, has the token's name or none.
Named(t) == rows[t.id] # Nil /\ rows[t.id].name \in {t.name, NoName}

\* The tokens: a Register call was told of each of them.
Issued ==
    \A t \in issued :
        /\ t.id \in Ids /\ t.name \in Vals /\ t.exp \in Nat /\ Named(t)
        /\ \E r \in Req : /\ req[r].op = "Register" /\ req[r].out = "200"
                          /\ req[r].wrote /\ req[r].msg.username.val = t.name

\* The requests that the counters count.
Good == {r \in Req : Past(r) /\ (req[r].out = "200" \/ req[r].verdict = "refused")}
Bad  == {r \in Req : Past(r) /\ req[r].verdict = "allowed" /\ req[r].out # "200" /\ ac # Nil}

Tally ==
    /\ counted \in [{"200", "error"} -> Nat]
    /\ counted["200"] = Cardinality(Good)
    /\ counted["error"] = Cardinality(Bad)

Inv ==
    /\ Shape /\ Table!TypeOK /\ ac \in {Nil, Whitelist}
    /\ (\A r \in Req : Sane(r)) /\ Issued /\ Tally
-----------------------------------------------------------------------------
\* Binding and validation.

TextFields == {"username", "password", "email", "phone"}
IntFields  == {"id", "page", "page_size"}

\* What is bound later wins, and what is not bound later stays.
LEMMA OverField ==
    ASSUME NEW f, NEW g, NEW x, x \in DOMAIN f \/ x \in DOMAIN g
    PROVE  /\ x \in DOMAIN Over(f, g)
           /\ Over(f, g)[x] = IF x \in DOMAIN f THEN f[x] ELSE g[x]
BY DEF Over

\* The fields of what decodes have their types.
LEMMA DecodedField ==
    ASSUME NEW part, Decoded(part), NEW x \in DOMAIN part
    PROVE  (x \in TextFields => IsText(part[x])) /\ (x \in IntFields => part[x] \in Int)
BY DEF Decoded, TextFields, IntFields

\* The zero value of a string is a text.
LEMMA EmptyIsText == IsText(Empty)
<1>1. (CHOOSE v \in Vals : TRUE) \in Vals
  BY APIAssumption
<1> QED BY <1>1 DEF IsText, Empty

\* A text field bound from the request, or else its zero value, is a text.
LEMMA BoundText ==
    ASSUME NEW f, Decoded(f), NEW g, NEW x \in TextFields, x \in DOMAIN g, IsText(g[x])
    PROVE  x \in DOMAIN Over(f, g) /\ IsText(Over(f, g)[x])
BY OverField, DecodedField

\* An integer field likewise is an integer.
LEMMA BoundInt ==
    ASSUME NEW f, Decoded(f), NEW g, NEW x \in IntFields, x \in DOMAIN g, g[x] \in Int
    PROVE  x \in DOMAIN Over(f, g) /\ Over(f, g)[x] \in Int
BY OverField, DecodedField

\* Whatever decodes is bound into a message of its operation.
LEMMA BindOK == ASSUME NEW w, IsWire(w), Decodes(w) PROVE IsMessage(w.op, Bind(w.op, w))
<1>1. Decoded(w.body) /\ Decoded(w.query) /\ Decoded(w.path)
      /\ (w.op = "UpdateUser" => "id" \in DOMAIN w.path)
  BY DEF IsWire
<1>2. RegisterRequest(BindRegister(w))
  <2> DEFINE g == [username |-> Empty, password |-> Empty, email |-> Empty, phone |-> Empty]
  <2> SUFFICES ASSUME NEW x \in TextFields PROVE IsText(BindRegister(w)[x])
    BY DEF RegisterRequest, TextFields
  <2>1. x \in DOMAIN g /\ IsText(g[x])
    BY EmptyIsText DEF TextFields
  <2> HIDE DEF g
  <2>2. x \in DOMAIN Over(w.body, g) /\ IsText(Over(w.body, g)[x])
    BY <1>1, <2>1, BoundText
  <2>3. IsText(Over(w.query, Over(w.body, g))[x])
    BY <1>1, <2>2, BoundText
  <2> QED BY <2>3 DEF BindRegister, g
<1>3. LoginRequest(BindLogin(w))
  <2> DEFINE g == [username |-> Empty, password |-> Empty]
  <2> SUFFICES ASSUME NEW x \in {"username", "password"} PROVE IsText(BindLogin(w)[x])
    BY DEF LoginRequest
  <2>1. x \in TextFields /\ x \in DOMAIN g /\ IsText(g[x])
    BY EmptyIsText DEF TextFields
  <2> HIDE DEF g
  <2>2. x \in DOMAIN Over(w.body, g) /\ IsText(Over(w.body, g)[x])
    BY <1>1, <2>1, BoundText
  <2>3. IsText(Over(w.query, Over(w.body, g))[x])
    BY <1>1, <2>1, <2>2, BoundText
  <2> QED BY <2>3 DEF BindLogin, g
<1>4. LET g == [id |-> 0] IN
      /\ "id" \in DOMAIN Over(w.query, g) /\ Over(w.query, g)["id"] \in Int
      /\ Over(w.path, Over(w.query, g))["id"] \in Int
  <2> DEFINE g == [id |-> 0]
  <2>1. "id" \in IntFields /\ "id" \in DOMAIN g /\ g["id"] \in Int
    BY DEF IntFields
  <2> HIDE DEF g
  <2>2. "id" \in DOMAIN Over(w.query, g) /\ Over(w.query, g)["id"] \in Int
    BY <1>1, <2>1, BoundInt
  <2>3. Over(w.path, Over(w.query, g))["id"] \in Int
    BY <1>1, <2>1, <2>2, BoundInt
  <2> QED BY <2>2, <2>3 DEF g
<1>5. GetUserRequest(BindGetUser(w)) /\ DeleteUserRequest(BindDeleteUser(w))
  BY <1>4 DEF GetUserRequest, BindGetUser, DeleteUserRequest, BindDeleteUser
<1>6. ListUsersRequest(BindListUsers(w))
  <2> DEFINE g == [page |-> 0, page_size |-> 0]
  <2>1. /\ "page" \in IntFields /\ "page" \in DOMAIN g /\ g["page"] \in Int
        /\ "page_size" \in IntFields /\ "page_size" \in DOMAIN g /\ g["page_size"] \in Int
    BY DEF IntFields
  <2> HIDE DEF g
  <2>2. Over(w.query, g)["page"] \in Int /\ Over(w.query, g)["page_size"] \in Int
    BY <1>1, <2>1, BoundInt
  <2> QED BY <2>2 DEF ListUsersRequest, BindListUsers, g
<1>7. ASSUME w.op = "UpdateUser" PROVE UpdateUserRequest(BindUpdateUser(w))
  <2>1. Over(w.path, w.body)["id"] \in Int
    BY <1>1, <1>7, OverField, DecodedField DEF IntFields
  <2> QED BY <1>4, <2>1 DEF UpdateUserRequest, User, BindUpdateUser
<1> QED BY <1>2, <1>3, <1>5, <1>6, <1>7 DEF IsWire, Operations, IsMessage, Bind

\* Validate returns nil only if no rule fails.
LEMMA FirstOfNil ==
    ASSUME NEW checks, NEW n \in Nat, DOMAIN checks = 1..n, FirstOf(checks) = Nil,
           \A i \in 1..n : checks[i].field \in Fields /\ checks[i].rule \in Rules
    PROVE  \A i \in 1..n : checks[i].ok
<1> DEFINE failing == {i \in DOMAIN checks : ~checks[i].ok}
           first == CHOOSE i \in failing : \A j \in failing : i <= j
<1>2. SUFFICES failing = {}
  OBVIOUS
<1>3. SUFFICES ASSUME failing # {} PROVE FALSE
  OBVIOUS
<1>4. \E i \in failing : \A j \in failing : i <= j
  <2>1. failing \subseteq Nat
    OBVIOUS
  <2>2. PICK i \in failing : \A j \in failing : ~(<<j, i>> \in OpToRel(<, Nat))
    BY <1>3, <2>1, NatLessThanWellFounded, WFMin
  <2>3. ASSUME NEW j \in failing PROVE i <= j
    <3>1. ~(j < i)
      BY <2>1, <2>2 DEF OpToRel
    <3> QED BY <2>1, <3>1
  <2> QED BY <2>3
<1>5. first \in failing
  BY <1>4
<1>6. <<checks[first].field, checks[first].rule>> \in Fields \X Rules
  BY <1>5
<1>7. FirstOf(checks) = <<checks[first].field, checks[first].rule>>
  BY <1>3 DEF FirstOf
<1> QED BY <1>6, <1>7, APIAssumption

\* What Login may count on: a name and a password that are not empty.
LEMMA ValidLogin ==
    ASSUME NEW m, ValidateLogin(m) = Nil
    PROVE  m.username.len \in 1..64 /\ m.password.len \in 1..128
<1> DEFINE b1 == m.username.len \in 1..64
           b2 == m.password.len \in 1..128
           checks == <<Rule("Username", "length", b1),
                       Rule("Password", "length", b2)>>
<1>1. FirstOf(checks) = Nil
  BY DEF ValidateLogin
<1> HIDE DEF b1, b2
<1>2. DOMAIN checks = 1..2 /\ checks[1] = Rule("Username", "length", b1)
      /\ checks[2] = Rule("Password", "length", b2)
  OBVIOUS
<1> HIDE DEF checks
<1>3. ASSUME NEW i \in 1..2 PROVE checks[i].field \in Fields /\ checks[i].rule \in Rules
  <2>1. i = 1 \/ i = 2
    OBVIOUS
  <2> QED BY <1>2, <2>1 DEF Rule, Fields, Rules
<1>4. \A i \in 1..2 : checks[i].ok
  BY <1>1, <1>2, <1>3, 2 \in Nat, FirstOfNil
<1>5. checks[1].ok /\ checks[2].ok
  BY <1>4
<1>6. b1 /\ b2
  BY <1>2, <1>5 DEF Rule
<1> QED BY <1>6 DEF b1, b2
-----------------------------------------------------------------------------
\* What stays when one request takes a step.

Others(r) == \A q \in Req : q # r => req'[q] = req[q]

\* The other requests are as sane as they were.
LEMMA OthersSane ==
    ASSUME Inv, NEW r \in Req, Others(r), UNCHANGED ac, issued \subseteq issued'
    PROVE  \A q \in Req : q # r => Sane(q)'
BY DEF Inv, Others, Sane, Typed, Inward, Outward, Refused, Answered, Undecoded, Told, At

\* Tokens stay good: rows are never removed, and an answer is final.
LEMMA IssuedSame ==
    ASSUME Inv, NEW r \in Req, Others(r), UNCHANGED issued,
           req[r].out = "200" => /\ req'[r].op = req[r].op /\ req'[r].out = req[r].out
                                 /\ req'[r].msg = req[r].msg /\ req'[r].wrote = req[r].wrote,
           KeepsNames
    PROVE  Issued'
<1> SUFFICES ASSUME NEW t \in issued
             PROVE  /\ t.id \in Ids /\ t.name \in Vals /\ t.exp \in Nat /\ Named(t)'
                    /\ \E q \in Req : /\ req'[q].op = "Register" /\ req'[q].out = "200"
                                      /\ req'[q].wrote /\ req'[q].msg.username.val = t.name
  BY DEF Issued
<1>1. t.id \in Ids /\ t.name \in Vals /\ t.exp \in Nat /\ Named(t)
  BY DEF Inv, Issued
<1>4. Named(t)'
  BY <1>1 DEF Named, KeepsNames
<1>2. PICK q \in Req : /\ req[q].op = "Register" /\ req[q].out = "200"
                       /\ req[q].wrote /\ req[q].msg.username.val = t.name
  BY DEF Inv, Issued
<1>3. /\ req'[q].op = req[q].op /\ req'[q].out = req[q].out
      /\ req'[q].msg = req[q].msg /\ req'[q].wrote = req[q].wrote
  BY <1>2 DEF Others
<1> QED BY <1>1, <1>2, <1>3, <1>4

\* Where nothing is written, the names stay.
LEMMA SameNames == ASSUME UNCHANGED rows PROVE KeepsNames
BY DEF KeepsNames

\* The counters stay right while nobody joins those that they count.
LEMMA TallySame ==
    ASSUME Inv, NEW r \in Req, Others(r), UNCHANGED <<ac, counted>>,
           r \in Good' <=> r \in Good, r \in Bad' <=> r \in Bad
    PROVE  Tally'
<1>1. ASSUME NEW q \in Req, q # r PROVE (q \in Good' <=> q \in Good) /\ (q \in Bad' <=> q \in Bad)
  BY <1>1 DEF Others, Good, Bad, Past
<1>2. Good \subseteq Req /\ Good' \subseteq Req /\ Bad \subseteq Req /\ Bad' \subseteq Req
  BY DEF Good, Bad
<1>3. Good' = Good /\ Bad' = Bad
  BY <1>1, <1>2
<1> QED BY <1>3 DEF Inv, Tally

\* A set of requests is finite, and one more is one more.
LEMMA OneMore ==
    ASSUME NEW S, S \subseteq Req, NEW r \in Req, r \notin S
    PROVE  /\ Cardinality(S) \in Nat /\ Cardinality(S \cup {r}) = Cardinality(S) + 1
<1>1. IsFiniteSet(S)
  BY HTTPAssumption, FS_Subset
<1> QED BY <1>1, FS_CardinalityType, FS_AddElement

-----------------------------------------------------------------------------
\* The steps of the chain.

\* A request arrives.
LEMMA ReceiveOK == ASSUME Inv, NEW r \in Req, Receive(r) PROVE Inv'
<1>1. /\ Shape /\ Sane(r) /\ At(r, "idle") /\ Table!TypeOK /\ ac \in {Nil, Whitelist}
      /\ UNCHANGED <<limiterVars, rows, issued, counted, ac>>
  BY DEF Inv, Receive
<1>2. Shape'
  BY <1>1, ReceiveKeeps DEF KeepsVerdicts
<1>3. req[r].out = Nil /\ req[r].wrote = FALSE /\ req[r].verdict = "none" /\ req[r].msg = Nil
      /\ req[r].hdrs = {} /\ req[r].claims \in issued \cup {Nil}
  BY <1>1 DEF Sane, Typed, Inward, At, Early
<1>4. Nil # "200" /\ Nil # "400" /\ Nil # "500" /\ Nil # "dropped"
  BY HTTPAssumption DEF Codes
<1>5. PICK w \in Wires :
        \/ req' = [req EXCEPT ![r].pc = "done", ![r].op = w.op, ![r].out = "400"]
        \/ /\ Decodes(w)
           /\ \E t : req' = [req EXCEPT ![r].pc = "limit", ![r].op = w.op, ![r].token = t,
                                        ![r].msg = Bind(w.op, w),
                                        ![r].hdrs = requestid \cup cors(w)]
  BY DEF Receive
<1>6. IsWire(w) /\ w.op \in Operations
  BY HTTPAssumption DEF IsWire
<1>7. CASE req' = [req EXCEPT ![r].pc = "done", ![r].op = w.op, ![r].out = "400"]
  <2>1. /\ Others(r) /\ req'[r].pc = "done" /\ req'[r].op = w.op /\ req'[r].out = "400"
        /\ req'[r].msg = req[r].msg /\ req'[r].verdict = req[r].verdict
        /\ req'[r].claims = req[r].claims /\ req'[r].hdrs = req[r].hdrs
        /\ req'[r].wrote = req[r].wrote
    BY <1>1, <1>7 DEF Shape, Others
  <2>2. Sane(r)'
    <3>1. Typed(r)'
      BY <1>1, <1>3, <1>6, <2>1 DEF Typed, At, Points, Early
    <3>2. Inward(r)' /\ Outward(r)' /\ Told(r)'
      BY <1>3, <2>1 DEF Inward, Outward, Undecoded, Told, At, Early
    <3> QED BY <3>1, <3>2 DEF Sane
  <2>3. Issued'
    BY <1>1, <1>3, <1>4, <2>1, IssuedSame, SameNames
  <2>4. Tally'
    BY <1>1, <1>3, <2>1, TallySame DEF Good, Bad, Past, At
  <2> QED BY <1>1, <1>2, <2>1, <2>2, <2>3, <2>4, OthersSane DEF Inv, Table!TypeOK
<1>8. ASSUME NEW t, Decodes(w),
             req' = [req EXCEPT ![r].pc = "limit", ![r].op = w.op, ![r].token = t,
                                ![r].msg = Bind(w.op, w), ![r].hdrs = requestid \cup cors(w)]
      PROVE  Inv'
  <2> DEFINE m == Bind(w.op, w)
             h == requestid \cup cors(w)
  <2>1. IsMessage(w.op, m) /\ "X-Request-ID" \in h
    BY <1>6, <1>8, BindOK DEF requestid
  <2> HIDE DEF m, h
  <2>2. /\ Others(r) /\ req'[r].pc = "limit" /\ req'[r].op = w.op /\ req'[r].out = req[r].out
        /\ req'[r].msg = m /\ req'[r].verdict = req[r].verdict
        /\ req'[r].claims = req[r].claims /\ req'[r].hdrs = h
        /\ req'[r].wrote = req[r].wrote
    BY <1>1, <1>8 DEF Shape, Others, m, h
  <2>3. Sane(r)'
    <3>1. Typed(r)'
      BY <1>1, <1>3, <1>6, <2>1, <2>2 DEF Typed, At, Points, Early
    <3>2. Inward(r)' /\ Outward(r)' /\ Told(r)'
      BY <1>3, <1>4, <2>1, <2>2 DEF Inward, Outward, Told, At, Early
    <3> QED BY <3>1, <3>2 DEF Sane
  <2>4. Issued'
    BY <1>1, <1>3, <1>4, <2>2, IssuedSame, SameNames
  <2>5. Tally'
    BY <1>1, <1>3, <2>2, TallySame DEF Good, Bad, Past, At
  <2> QED BY <1>1, <1>2, <2>2, <2>3, <2>4, <2>5, OthersSane DEF Inv, Table!TypeOK
<1> QED BY <1>5, <1>7, <1>8

\* Nil is no answer.
LEMMA NilIsNoAnswer == Nil # "200" /\ Nil # "500" /\ Nil # "dropped" /\ Nil \notin Codes
BY HTTPAssumption DEF Codes

\* The limiter: the refused requests go past everything to the metrics.
LEMMA RateLimitOK == ASSUME Inv, NEW r \in Req, RateLimit(r) PROVE Inv'
<1>1. /\ Shape /\ Sane(r) /\ At(r, "limit") /\ Table!TypeOK /\ ac \in {Nil, Whitelist}
      /\ UNCHANGED <<rows, issued, counted, ac>>
  BY DEF Inv, RateLimit
<1>2. Shape'
  BY <1>1, RateLimitKeepsShape
<1>3. req[r].out = Nil /\ req[r].wrote = FALSE /\ "X-Request-ID" \in req[r].hdrs
      /\ req[r].claims \in issued \cup {Nil} /\ req[r].op \in Operations
      /\ IsMessage(req[r].op, req[r].msg)
  BY <1>1 DEF Sane, Typed, Inward, At, Early
<1>4. PICK p, v : /\ (p = "auth" /\ v = "allowed") \/ (p = "metrics" /\ v = "refused")
                  /\ req' = [req EXCEPT ![r].pc = p, ![r].verdict = v]
  BY DEF RateLimit
<1>5. /\ Others(r) /\ req'[r].pc = p /\ req'[r].op = req[r].op /\ req'[r].out = req[r].out
      /\ req'[r].msg = req[r].msg /\ req'[r].verdict = v
      /\ req'[r].claims = req[r].claims /\ req'[r].hdrs = req[r].hdrs
      /\ req'[r].wrote = req[r].wrote
  BY <1>1, <1>4 DEF Shape, Others
<1>6. Typed(r)'
  BY <1>1, <1>3, <1>4, <1>5 DEF Typed, At, Points, Early
<1>7. Inward(r)' /\ Outward(r)' /\ Told(r)'
  BY <1>3, <1>4, <1>5, NilIsNoAnswer DEF Inward, Outward, Refused, Told, At, Early
<1>8. Issued'
  BY <1>1, <1>3, <1>5, IssuedSame, SameNames, NilIsNoAnswer
<1>9. Tally'
  BY <1>1, <1>4, <1>5, TallySame DEF Good, Bad, Past, At
<1> QED BY <1>1, <1>2, <1>5, <1>6, <1>7, <1>8, <1>9, OthersSane DEF Inv, Table!TypeOK, Sane

\* auth: the claims are those of a token, and a panic goes past the metrics.
LEMMA AuthOK == ASSUME Inv, NEW r \in Req, Auth(r) PROVE Inv'
<1>1. /\ Shape /\ Sane(r) /\ At(r, "auth") /\ Table!TypeOK /\ ac \in {Nil, Whitelist}
      /\ UNCHANGED <<rows, issued, counted, ac>>
  BY DEF Inv, Auth
<1>2. Shape'
  BY <1>1, ChainKeeps DEF KeepsVerdicts
<1>3. req[r].out = Nil /\ req[r].wrote = FALSE /\ "X-Request-ID" \in req[r].hdrs
      /\ req[r].claims \in issued \cup {Nil} /\ req[r].op \in Operations
      /\ IsMessage(req[r].op, req[r].msg) /\ req[r].verdict = "allowed"
  BY <1>1 DEF Sane, Typed, Inward, At, Early
<1>4. CASE ac = Nil /\ req' = [req EXCEPT ![r].pc = "finish", ![r].out = "500"]
  <2>1. /\ Others(r) /\ req'[r].pc = "finish" /\ req'[r].op = req[r].op /\ req'[r].out = "500"
        /\ req'[r].msg = req[r].msg /\ req'[r].verdict = req[r].verdict
        /\ req'[r].claims = req[r].claims /\ req'[r].hdrs = req[r].hdrs
        /\ req'[r].wrote = req[r].wrote
    BY <1>1, <1>4 DEF Shape, Others
  <2>2. Typed(r)'
    BY <1>1, <1>3, <2>1 DEF Typed, At, Points, Early
  <2>3. Inward(r)' /\ Outward(r)' /\ Told(r)'
    BY <1>3, <1>4, <2>1 DEF Inward, Outward, Answered, Told, At, Early, Codes
  <2>4. Issued'
    BY <1>1, <1>3, <2>1, IssuedSame, SameNames, NilIsNoAnswer
  <2>5. Tally'
    BY <1>1, <1>3, <1>4, <2>1, TallySame DEF Good, Bad, Past, At
  <2> QED BY <1>1, <1>2, <2>1, <2>2, <2>3, <2>4, <2>5, OthersSane DEF Inv, Table!TypeOK, Sane
<1>5. ASSUME NEW c \in issued \cup {Nil}, ac # Nil,
             req' = [req EXCEPT ![r].pc = "validate", ![r].claims = c]
      PROVE  Inv'
  <2>1. /\ Others(r) /\ req'[r].pc = "validate" /\ req'[r].op = req[r].op /\ req'[r].out = req[r].out
        /\ req'[r].msg = req[r].msg /\ req'[r].verdict = req[r].verdict
        /\ req'[r].claims = c /\ req'[r].hdrs = req[r].hdrs
        /\ req'[r].wrote = req[r].wrote
    BY <1>1, <1>5 DEF Shape, Others
  <2>2. Typed(r)'
    BY <1>1, <1>3, <1>5, <2>1 DEF Typed, At, Points, Early
  <2>3. Inward(r)' /\ Outward(r)' /\ Told(r)'
    BY <1>1, <1>3, <1>5, <2>1, NilIsNoAnswer DEF Inward, Outward, Told, At, Early
  <2>4. Issued'
    BY <1>1, <1>3, <2>1, IssuedSame, SameNames, NilIsNoAnswer
  <2>5. Tally'
    BY <1>1, <2>1, TallySame DEF Good, Bad, Past, At
  <2> QED BY <1>1, <1>2, <2>1, <2>2, <2>3, <2>4, <2>5, OthersSane DEF Inv, Table!TypeOK, Sane
<1>6. \/ ac = Nil /\ req' = [req EXCEPT ![r].pc = "finish", ![r].out = "500"]
      \/ /\ ac # Nil
         /\ \E c \in issued \cup {Nil} : req' = [req EXCEPT ![r].pc = "validate", ![r].claims = c]
  <2>1. (IF req[r].op \notin ac /\ ParseToken(req[r].token) THEN req[r].token ELSE Nil)
          \in issued \cup {Nil}
    BY DEF ParseToken
  <2> QED BY <2>1 DEF Auth
<1> QED BY <1>4, <1>5, <1>6

\* validator: nothing but a valid message goes to the service.
LEMMA ValidateOK == ASSUME Inv, NEW r \in Req, ValidateReq(r) PROVE Inv'
<1>1. /\ Shape /\ Sane(r) /\ At(r, "validate") /\ Table!TypeOK /\ ac \in {Nil, Whitelist}
      /\ UNCHANGED <<rows, issued, counted, ac>>
  BY DEF Inv, ValidateReq
<1>2. Shape'
  BY <1>1, ChainKeeps DEF KeepsVerdicts
<1>3. req[r].out = Nil /\ req[r].wrote = FALSE /\ "X-Request-ID" \in req[r].hdrs
      /\ req[r].claims \in issued \cup {Nil} /\ req[r].op \in Operations /\ ac # Nil
      /\ IsMessage(req[r].op, req[r].msg) /\ req[r].verdict = "allowed"
  BY <1>1 DEF Sane, Typed, Inward, At, Early
<1>4. CASE req' = [req EXCEPT ![r].pc = "metrics", ![r].out = "500"]
  <2>1. /\ Others(r) /\ req'[r].pc = "metrics" /\ req'[r].op = req[r].op /\ req'[r].out = "500"
        /\ req'[r].msg = req[r].msg /\ req'[r].verdict = req[r].verdict
        /\ req'[r].claims = req[r].claims /\ req'[r].hdrs = req[r].hdrs
        /\ req'[r].wrote = req[r].wrote
    BY <1>1, <1>4 DEF Shape, Others
  <2>2. Typed(r)'
    BY <1>1, <1>3, <2>1 DEF Typed, At, Points, Early
  <2>3. Inward(r)' /\ Outward(r)' /\ Told(r)'
    BY <1>1, <1>3, <2>1 DEF Inward, Outward, Answered, Told, At, Early, Codes
  <2>4. Issued'
    BY <1>1, <1>3, <2>1, IssuedSame, SameNames, NilIsNoAnswer
  <2>5. Tally'
    BY <1>1, <2>1, TallySame DEF Good, Bad, Past, At
  <2> QED BY <1>1, <1>2, <2>1, <2>2, <2>3, <2>4, <2>5, OthersSane DEF Inv, Table!TypeOK, Sane
<1>5. CASE Validate(req[r].op, req[r].msg) = Nil /\ req' = [req EXCEPT ![r].pc = "service"]
  <2>1. /\ Others(r) /\ req'[r].pc = "service" /\ req'[r].op = req[r].op /\ req'[r].out = req[r].out
        /\ req'[r].msg = req[r].msg /\ req'[r].verdict = req[r].verdict
        /\ req'[r].claims = req[r].claims /\ req'[r].hdrs = req[r].hdrs
        /\ req'[r].wrote = req[r].wrote
    BY <1>1, <1>5 DEF Shape, Others
  <2>2. Typed(r)'
    BY <1>1, <1>3, <2>1 DEF Typed, At, Points, Early
  <2>3. Inward(r)' /\ Outward(r)' /\ Told(r)'
    BY <1>1, <1>3, <1>5, <2>1, NilIsNoAnswer DEF Inward, Outward, Told, At, Early
  <2>4. Issued'
    BY <1>1, <1>3, <2>1, IssuedSame, SameNames, NilIsNoAnswer
  <2>5. Tally'
    BY <1>1, <2>1, TallySame DEF Good, Bad, Past, At
  <2> QED BY <1>1, <1>2, <2>1, <2>2, <2>3, <2>4, <2>5, OthersSane DEF Inv, Table!TypeOK, Sane
<1> QED BY <1>4, <1>5 DEF ValidateReq

\* The metrics count a request, and it joins those that they have counted.
LEMMA MetricsOK == ASSUME Inv, NEW r \in Req, HTTPMetrics(r) PROVE Inv'
<1> DEFINE l == httpRequestLabels(r)
<1>1. /\ Shape /\ Sane(r) /\ At(r, "metrics") /\ Table!TypeOK /\ ac \in {Nil, Whitelist} /\ Tally
      /\ UNCHANGED <<rows, issued, ac>>
      /\ counted' = [counted EXCEPT ![l] = counted[l] + 1]
      /\ req' = [req EXCEPT ![r].pc = "finish"]
  BY DEF Inv, HTTPMetrics
<1>2. Shape'
  BY <1>1, ChainKeeps DEF KeepsVerdicts
<1>3. /\ Refused(r) \/ Answered(r)
      /\ req[r].claims \in issued \cup {Nil} /\ req[r].op \in Operations
      /\ req[r].msg # Nil => IsMessage(req[r].op, req[r].msg)
  BY <1>1 DEF Sane, Typed, Outward, Undecoded, At
<1>4. /\ Others(r) /\ req'[r].pc = "finish" /\ req'[r].op = req[r].op /\ req'[r].out = req[r].out
      /\ req'[r].msg = req[r].msg /\ req'[r].verdict = req[r].verdict
      /\ req'[r].claims = req[r].claims /\ req'[r].hdrs = req[r].hdrs
      /\ req'[r].wrote = req[r].wrote
  BY <1>1 DEF Shape, Others
<1>5. Typed(r)'
  BY <1>1, <1>3, <1>4 DEF Typed, At, Points, Early
<1>6. Inward(r)' /\ Outward(r)' /\ Told(r)'
  <2>1. Inward(r)'
    BY <1>4 DEF Inward, At, Early
  <2>2. Outward(r)'
    BY <1>1, <1>3, <1>4 DEF Outward, Refused, Answered, At
  <2>3. Told(r)'
    BY <1>1, <1>4 DEF Sane, Told
  <2> QED BY <2>1, <2>2, <2>3
<1>7. Issued'
  BY <1>1, <1>4, IssuedSame, SameNames
<1>8. Tally'
  <2>0. /\ Good \subseteq Req /\ Bad \subseteq Req /\ r \notin Good /\ r \notin Bad
        /\ counted \in [{"200", "error"} -> Nat]
        /\ counted["200"] = Cardinality(Good) /\ counted["error"] = Cardinality(Bad)
    BY <1>1 DEF Good, Bad, Past, At, Tally
  <2>1. ASSUME NEW q \in Req, q # r PROVE (q \in Good' <=> q \in Good) /\ (q \in Bad' <=> q \in Bad)
    BY <1>1, <1>4, <2>1 DEF Others, Good, Bad, Past
  <2>2. Good' \subseteq Req /\ Bad' \subseteq Req
    BY DEF Good, Bad
  <2>3. \/ l = "200" /\ r \in Good' /\ r \notin Bad'
        \/ l = "error" /\ r \notin Good' /\ r \in Bad'
    <3>1. CASE Refused(r)
      BY <1>1, <1>4, <3>1, NilIsNoAnswer DEF Refused, At, Good, Bad, Past, httpRequestLabels
    <3>2. CASE Answered(r)
      BY <1>1, <1>4, <3>2 DEF Answered, At, Good, Bad, Past, httpRequestLabels
    <3> QED BY <1>3, <3>1, <3>2
  <2> HIDE DEF l
  <2>4. CASE l = "200" /\ r \in Good' /\ r \notin Bad'
    <3>1. Good' = Good \cup {r} /\ Bad' = Bad
      BY <2>0, <2>1, <2>2, <2>4
    <3>2. Cardinality(Good') = Cardinality(Good) + 1 /\ Cardinality(Good) \in Nat
      BY <2>0, <3>1, OneMore
    <3>3. /\ counted' \in [{"200", "error"} -> Nat]
          /\ counted'["200"] = counted["200"] + 1 /\ counted'["error"] = counted["error"]
      BY <1>1, <2>0, <2>4
    <3> QED BY <2>0, <3>1, <3>2, <3>3 DEF Tally
  <2>5. CASE l = "error" /\ r \notin Good' /\ r \in Bad'
    <3>1. Good' = Good /\ Bad' = Bad \cup {r}
      BY <2>0, <2>1, <2>2, <2>5
    <3>2. Cardinality(Bad') = Cardinality(Bad) + 1 /\ Cardinality(Bad) \in Nat
      BY <2>0, <3>1, OneMore
    <3>3. /\ counted' \in [{"200", "error"} -> Nat]
          /\ counted'["error"] = counted["error"] + 1 /\ counted'["200"] = counted["200"]
      BY <1>1, <2>0, <2>5
    <3> QED BY <2>0, <3>1, <3>2, <3>3 DEF Tally
  <2> QED BY <2>3, <2>4, <2>5
<1> QED BY <1>1, <1>2, <1>4, <1>5, <1>6, <1>7, <1>8, OthersSane DEF Inv, Table!TypeOK, Sane

\* The answer is written, or the connection dropped.
LEMMA FinishOK == ASSUME Inv, NEW r \in Req, Finish(r) PROVE Inv'
<1> DEFINE o == IF req[r].out = Nil THEN "dropped" ELSE req[r].out
<1>1. /\ Shape /\ Sane(r) /\ At(r, "finish") /\ Table!TypeOK /\ ac \in {Nil, Whitelist}
      /\ UNCHANGED <<rows, issued, counted, ac>>
      /\ req' = [req EXCEPT ![r].pc = "done", ![r].out = IF @ = Nil THEN "dropped" ELSE @]
  BY DEF Inv, Finish
<1>2. Shape'
  BY <1>1, ChainKeeps DEF KeepsVerdicts
<1>3. /\ Refused(r) \/ Answered(r)
      /\ req[r].claims \in issued \cup {Nil} /\ req[r].op \in Operations
      /\ req[r].msg # Nil => IsMessage(req[r].op, req[r].msg)
  BY <1>1 DEF Sane, Typed, Outward, Undecoded, At
<1>4. /\ Others(r) /\ req'[r].pc = "done" /\ req'[r].op = req[r].op /\ req'[r].out = o
      /\ req'[r].msg = req[r].msg /\ req'[r].verdict = req[r].verdict
      /\ req'[r].claims = req[r].claims /\ req'[r].hdrs = req[r].hdrs
      /\ req'[r].wrote = req[r].wrote
  BY <1>1 DEF Shape, Others
<1>5. Typed(r)'
  BY <1>1, <1>3, <1>4 DEF Typed, At, Points, Early
<1>6. Inward(r)'
  BY <1>4 DEF Inward, At, Early
<1>7. CASE Refused(r)
  <2>1. req[r].out = Nil /\ o = "dropped" /\ req[r].wrote = FALSE /\ req[r].verdict = "refused"
    BY <1>1, <1>7 DEF Refused, At
  <2>2. Outward(r)' /\ Told(r)'
    BY <1>4, <1>7, <2>1 DEF Outward, Refused, Told, At
  <2>3. Issued'
    BY <1>1, <1>4, <2>1, IssuedSame, SameNames, NilIsNoAnswer
  <2>4. Tally'
    BY <1>1, <1>4, <2>1, TallySame DEF Good, Bad, Past, At
  <2> QED BY <1>1, <1>2, <1>4, <1>5, <1>6, <2>2, <2>3, <2>4, OthersSane DEF Inv, Table!TypeOK, Sane
<1>8. CASE Answered(r)
  <2>1. o = req[r].out
    BY <1>8, NilIsNoAnswer DEF Answered
  <2>2. Outward(r)'
    BY <1>1, <1>4, <1>8, <2>1 DEF Outward, Answered, At
  <2>3. Told(r)'
    BY <1>1, <1>4, <2>1 DEF Sane, Told
  <2>4. Issued'
    BY <1>1, <1>4, <2>1, IssuedSame, SameNames
  <2>5. Tally'
    BY <1>1, <1>4, <2>1, TallySame DEF Good, Bad, Past, At
  <2> QED BY <1>1, <1>2, <1>4, <1>5, <1>6, <2>2, <2>3, <2>4, <2>5, OthersSane DEF Inv, Table!TypeOK, Sane
<1> QED BY <1>3, <1>7, <1>8

-----------------------------------------------------------------------------
\* The service on the table.

\* A row that is written to has moved to another version.
LEMMA NewVersion ==
    ASSUME NEW o \in Table!Row, NEW n \in Vals \cup {NoName}, NEW x,
           \/ x = [o EXCEPT !.name = n, !.version = o.version + 1]
           \/ x = [o EXCEPT !.live = FALSE, !.version = o.version + 1]
    PROVE  /\ x \in Table!Row /\ x.id = o.id /\ x # o
           /\ x.name \in {n, o.name}
<1>1. Table!Row = [id : Ids, name : Vals \cup {NoName}, live : BOOLEAN, version : Nat]
  BY DEF Table!Row, Table!AllNames
<1>2. o.version \in Nat /\ o.version + 1 \in Nat
  BY <1>1
<1>3. x \in Table!Row /\ x.id = o.id /\ x.version = o.version + 1
  <2>1. CASE x = [o EXCEPT !.name = n, !.version = o.version + 1]
    BY <1>1, <1>2, <2>1
  <2>2. CASE x = [o EXCEPT !.live = FALSE, !.version = o.version + 1]
    BY <1>1, <1>2, <2>2
  <2> QED BY <2>1, <2>2
<1>4. x.name \in {n, o.name}
  BY <1>1
<1> QED BY <1>2, <1>3, <1>4

\* Every write changes the table and keeps its rows and their names, but for
\* those that it empties.
LEMMA TableWrite ==
    ASSUME Table!TypeOK, NEW i \in Ids, NEW n \in Vals \cup {NoName},
           \/ Table!Create(i, n)
           \/ Table!Update(i, n) /\ n = NoName
           \/ Table!Delete(i)
    PROVE  /\ Table!TypeOK' /\ rows' # rows /\ rows'[i] # Nil /\ KeepsNames
           /\ Table!Create(i, n) => rows'[i].name = n
<1>1. /\ Table!Row = [id : Ids, name : Vals \cup {NoName}, live : BOOLEAN, version : Nat]
      /\ Nil \notin Table!Row
  BY HTTPAssumption DEF Table!Row, Table!AllNames
<1>2. rows \in [Ids -> Table!Row \cup {Nil}] /\ \A j \in Ids : rows[j] # Nil => rows[j].id = j
  BY DEF Table!TypeOK
<1>3. PICK x \in Table!Row :
        /\ x.id = i /\ rows' = [rows EXCEPT ![i] = x] /\ x # rows[i]
        /\ rows[i] # Nil => x.name \in {rows[i].name, NoName}
        /\ rows[i] = Nil => x.name = n
  <2>1. CASE Table!Create(i, n)
    <3>1. Table!NewRow(i, n) \in Table!Row /\ Table!NewRow(i, n).id = i /\ Table!NewRow(i, n).name = n
      BY <1>1 DEF Table!NewRow
    <3>2. rows[i] = Nil /\ rows' = [rows EXCEPT ![i] = Table!NewRow(i, n)]
      BY <2>1 DEF Table!Create, Table!Exists
    <3> QED BY <1>1, <3>1, <3>2
  <2>2. CASE (Table!Update(i, n) /\ n = NoName) \/ Table!Delete(i)
    <3>1. rows[i] # Nil
      BY <2>2 DEF Table!Update, Table!Delete, Table!Live, Table!Exists
    <3>2. rows[i] \in Table!Row /\ rows[i].id = i
      BY <1>2, <3>1
    <3>3. CASE Table!Update(i, n) /\ n = NoName
      <4>1. PICK x : x = [rows[i] EXCEPT !.name = n, !.version = rows[i].version + 1]
        OBVIOUS
      <4>2. x \in Table!Row /\ x.id = i /\ x # rows[i] /\ x.name \in {n, rows[i].name}
        <5>1. PICK o : o = rows[i]
          OBVIOUS
        <5>2. o \in Table!Row /\ x = [o EXCEPT !.name = n, !.version = o.version + 1]
          BY <3>2, <4>1, <5>1
        <5>3. x \in Table!Row /\ x.id = o.id /\ x # o /\ x.name \in {n, o.name}
          BY <5>2, NewVersion
        <5> QED BY <3>2, <5>1, <5>3
      <4> QED BY <3>1, <3>3, <4>1, <4>2 DEF Table!Update
    <3>4. CASE Table!Delete(i)
      <4>1. PICK x : x = [rows[i] EXCEPT !.live = FALSE, !.version = rows[i].version + 1]
        OBVIOUS
      <4>2. x \in Table!Row /\ x.id = i /\ x # rows[i] /\ x.name \in {NoName, rows[i].name}
        BY <3>2, <4>1, NewVersion
      <4> QED BY <3>1, <3>4, <4>1, <4>2 DEF Table!Delete
    <3> QED BY <2>2, <3>3, <3>4
  <2> QED BY <2>1, <2>2
<1>4. Table!TypeOK'
  BY <1>2, <1>3 DEF Table!TypeOK
<1>5. rows' # rows /\ rows'[i] # Nil /\ (Table!Create(i, n) => rows'[i].name = n)
  BY <1>1, <1>2, <1>3 DEF Table!Create, Table!Exists
<1>6. KeepsNames
  <2> SUFFICES ASSUME NEW j \in Ids, rows[j] # Nil
               PROVE  rows'[j] # Nil /\ rows'[j].name \in {rows[j].name, NoName}
    BY DEF KeepsNames
  <2>1. CASE j = i
    BY <1>1, <1>2, <1>3, <2>1
  <2>2. CASE j # i
    BY <1>2, <1>3, <2>2
  <2> QED BY <2>1, <2>2
<1> QED BY <1>4, <1>5, <1>6

\* A use case returns: what it tells of the table is true.
LEMMA ReturnOK ==
    ASSUME Inv, NEW r \in Req, At(r, "service"), NEW code \in Codes \ {"400"}, Return(r, code),
           UNCHANGED <<counted, ac>>, issued \subseteq issued', Table!TypeOK',
           KeepsNames,
           rows' # rows => code \in {"200", "500"},
           code = "200" /\ req[r].op \in {"Register", "UpdateUser", "DeleteUser"} => rows' # rows,
           \A t \in issued' : t \notin issued =>
               /\ t.id \in Ids /\ t.name \in Vals /\ t.exp \in Nat /\ Named(t)'
               /\ req[r].op = "Register" /\ code = "200" /\ req[r].msg.username.val = t.name
    PROVE  Inv'
<1>1. /\ Shape /\ Sane(r) /\ ac \in {Nil, Whitelist}
      /\ req' = [req EXCEPT ![r].pc = "metrics", ![r].out = code, ![r].wrote = (rows' # rows)]
  BY DEF Inv, Return
<1>2. /\ req[r].out = Nil /\ "X-Request-ID" \in req[r].hdrs
      /\ req[r].claims \in issued \cup {Nil} /\ req[r].op \in Operations /\ ac # Nil
      /\ IsMessage(req[r].op, req[r].msg) /\ req[r].verdict = "allowed"
      /\ Validate(req[r].op, req[r].msg) = Nil
  BY <1>1 DEF Sane, Typed, Inward, At, Early
<1>3. PICK w : w = (rows' # rows)
  OBVIOUS
<1>4. req' = [req EXCEPT ![r].pc = "metrics", ![r].out = code, ![r].wrote = w]
  BY <1>1, <1>3
<1>5. /\ Shape' /\ Others(r) /\ req'[r].pc = "metrics" /\ req'[r].op = req[r].op /\ req'[r].out = code
      /\ req'[r].msg = req[r].msg /\ req'[r].verdict = req[r].verdict
      /\ req'[r].claims = req[r].claims /\ req'[r].hdrs = req[r].hdrs
      /\ req'[r].wrote = w
  BY <1>1, <1>4 DEF Shape, Others
<1>6. w \in BOOLEAN /\ (w <=> rows' # rows)
  BY <1>3
<1>7. Typed(r)'
  BY <1>1, <1>2, <1>5 DEF Typed, At, Points, Early
<1>8. Inward(r)' /\ Outward(r)'
  BY <1>2, <1>5 DEF Inward, Outward, Answered, At, Early
<1>9. Told(r)'
  BY <1>5, <1>6 DEF Told
<1>10. Issued'
  <2> SUFFICES ASSUME NEW t \in issued'
               PROVE  /\ t.id \in Ids /\ t.name \in Vals /\ t.exp \in Nat /\ Named(t)'
                      /\ \E q \in Req : /\ req'[q].op = "Register" /\ req'[q].out = "200"
                                        /\ req'[q].wrote /\ req'[q].msg.username.val = t.name
    BY DEF Issued
  <2>1. CASE t \in issued
    <3>1. t.id \in Ids /\ t.name \in Vals /\ t.exp \in Nat /\ Named(t)
      BY <2>1 DEF Inv, Issued
    <3>4. Named(t)'
      BY <3>1 DEF Named, KeepsNames
    <3>2. PICK q \in Req : /\ req[q].op = "Register" /\ req[q].out = "200"
                           /\ req[q].wrote /\ req[q].msg.username.val = t.name
      BY <2>1 DEF Inv, Issued
    <3>3. req'[q] = req[q]
      BY <1>2, <1>5, <3>2, NilIsNoAnswer DEF Others
    <3> QED BY <3>1, <3>2, <3>3, <3>4
  <2>2. CASE t \notin issued
    <3>1. /\ t.id \in Ids /\ t.name \in Vals /\ t.exp \in Nat /\ Named(t)'
          /\ req[r].op = "Register" /\ code = "200" /\ req[r].msg.username.val = t.name
      BY <2>2
    <3>2. w
      BY <1>6, <3>1
    <3> QED BY <1>5, <3>1, <3>2
  <2> QED BY <2>1, <2>2
<1>11. Tally'
  BY <1>1, <1>5, TallySame DEF Good, Bad, Past, At
<1> QED BY <1>1, <1>5, <1>7, <1>8, <1>9, <1>10, <1>11, OthersSane DEF Inv, Sane

\* A message at the service.
LEMMA AtService ==
    ASSUME Inv, NEW r \in Req, At(r, "service")
    PROVE  IsMessage(req[r].op, req[r].msg) /\ Validate(req[r].op, req[r].msg) = Nil
BY DEF Inv, Sane, Typed, Inward, At, Early

\* Register writes a row for whom it makes a token.
LEMMA RegisterOK ==
    ASSUME Inv, clock \in Nat, NEW r \in Req, Register(r) PROVE Inv'
<1> DEFINE n == req[r].msg.username.val
<1>1. /\ At(r, "service") /\ req[r].op = "Register" /\ UNCHANGED <<counted, ac>> /\ Table!TypeOK
  BY DEF Register, Serving, Inv
<1>2. n \in Vals
  <2>1. RegisterRequest(req[r].msg)
    BY <1>1, AtService DEF IsMessage
  <2> QED BY <2>1 DEF RegisterRequest, IsText
<1>3. CASE UNCHANGED <<rows, issued>> /\ \E code \in {"429", "409", "500"} : Return(r, code)
  <2>1. PICK code \in {"429", "409", "500"} : Return(r, code)
    BY <1>3
  <2>2. code \in Codes \ {"400"} /\ code # "200"
    BY DEF Codes
  <2>3. Table!TypeOK'
    BY <1>1, <1>3 DEF Table!TypeOK
  <2> QED BY <1>1, <1>3, <2>1, <2>2, <2>3, SameNames, ReturnOK
<1>4. ASSUME NEW i \in Ids, Insert(i, n),
             \/ Return(r, "500") /\ UNCHANGED issued
             \/ Return(r, "200") /\ issued' = issued \cup {GenerateToken(i, n)}
      PROVE  Inv'
  <2>1. Table!TypeOK' /\ rows' # rows /\ rows'[i] # Nil /\ KeepsNames /\ rows'[i].name = n
    <3>1. Table!Create(i, n)
      BY <1>4 DEF Insert
    <3> HIDE DEF n
    <3> QED BY <1>1, <1>2, <3>1, TableWrite
  <2>2. CASE Return(r, "500") /\ UNCHANGED issued
    <3>1. "500" \in Codes \ {"400"}
      BY DEF Codes
    <3> QED BY <1>1, <2>1, <2>2, <3>1, ReturnOK
  <2>3. CASE Return(r, "200") /\ issued' = issued \cup {GenerateToken(i, n)}
    <3>1. "200" \in Codes \ {"400"}
      BY DEF Codes
    <3>2. LET t == GenerateToken(i, n) IN t.id = i /\ t.name = n /\ t.exp \in Nat
      BY HTTPAssumption DEF GenerateToken
    <3>3. \A t \in issued' : t \notin issued =>
               /\ t.id \in Ids /\ t.name \in Vals /\ t.exp \in Nat /\ Named(t)'
               /\ t.name = n
      BY <1>2, <2>1, <2>3, <3>2 DEF Named
    <3> QED BY <1>1, <2>1, <2>3, <3>1, <3>3, ReturnOK
  <2> QED BY <1>4, <2>2, <2>3
<1> QED BY <1>3, <1>4 DEF Register

\* Login finds nobody: no stored user has a password, and no empty password is valid.
LEMMA LoginOK == ASSUME Inv, NEW r \in Req, Login(r) PROVE Inv'
<1> DEFINE m == req[r].msg
           named == {i \in Ids : Table!Live(i) /\ Table!SameName(rows[i].name, m.username.val)}
           found == {toBizUser(rows[i]) : i \in named}
           matching == {u \in found : u.password = m.password}
<1>1. /\ At(r, "service") /\ req[r].op = "Login" /\ UNCHANGED <<counted, ac, rows>> /\ Table!TypeOK
      /\ issued' = issued \cup {GenerateToken(u.id, u.username) : u \in matching}
      /\ Return(r, IF matching = {} THEN "401" ELSE "200")
  BY DEF Login, Serving, Inv
<1>2. m.password # Empty
  <2>1. ValidateLogin(m) = Nil
    BY <1>1, AtService DEF Validate
  <2>2. m.password.len \in 1..128
    BY <2>1, ValidLogin
  <2> QED BY <2>2 DEF Empty
<1>3. \A u \in found : u.password = Empty
  BY DEF toBizUser
<1>4. matching = {}
  BY <1>2, <1>3
<1> HIDE DEF matching
<1>5. issued' = issued /\ Return(r, "401")
  BY <1>1, <1>4
<1>6. "401" \in Codes \ {"400"} /\ Table!TypeOK'
  BY <1>1 DEF Codes, Table!TypeOK
<1> QED BY <1>1, <1>5, <1>6, SameNames, ReturnOK

\* Reads change nothing.
LEMMA ReadOK ==
    ASSUME Inv, NEW r \in Req, GetUser(r) \/ ListUsers(r) PROVE Inv'
<1>1. /\ At(r, "service") /\ req[r].op \in {"GetUser", "ListUsers"}
      /\ UNCHANGED <<rows, issued, counted, ac>> /\ Table!TypeOK
  BY DEF GetUser, ListUsers, Serving, Inv
<1>2. PICK code \in {"200", "404", "500"} : Return(r, code)
  BY DEF GetUser, ListUsers
<1>3. code \in Codes \ {"400"} /\ Table!TypeOK'
  BY <1>1 DEF Codes, Table!TypeOK
<1> QED BY <1>1, <1>2, <1>3, SameNames, ReturnOK

\* Updates and deletions write as the table allows, or not at all.
LEMMA WriteOK ==
    ASSUME Inv, NEW r \in Req, UpdateUser(r) \/ DeleteUser(r) PROVE Inv'
<1> DEFINE i == req[r].msg.id
<1>1. /\ At(r, "service") /\ req[r].op \in {"UpdateUser", "DeleteUser"}
      /\ UNCHANGED <<issued, counted, ac>> /\ Table!TypeOK
  BY DEF UpdateUser, DeleteUser, WriteOutcome, Serving, Inv
<1>2. \/ /\ i \in Ids /\ (Table!Update(i, NoName) \/ Table!Delete(i))
         /\ \E code \in {"200", "500"} : Return(r, code)
      \/ UNCHANGED rows /\ \E code \in {"500", "409"} : Return(r, code)
  BY DEF UpdateUser, DeleteUser, WriteOutcome
<1> HIDE DEF i
<1>3. CASE /\ i \in Ids /\ (Table!Update(i, NoName) \/ Table!Delete(i))
           /\ \E code \in {"200", "500"} : Return(r, code)
  <2>1. PICK code \in {"200", "500"} : Return(r, code)
    BY <1>3
  <2>2. Table!TypeOK' /\ rows' # rows /\ KeepsNames
    BY <1>1, <1>3, TableWrite
  <2>3. code \in Codes \ {"400"}
    BY DEF Codes
  <2> QED BY <1>1, <2>1, <2>2, <2>3, ReturnOK
<1>4. CASE UNCHANGED rows /\ \E code \in {"500", "409"} : Return(r, code)
  <2>1. PICK code \in {"500", "409"} : Return(r, code)
    BY <1>4
  <2>2. code \in Codes \ {"400"} /\ code # "200" /\ Table!TypeOK'
    BY <1>1, <1>4 DEF Codes, Table!TypeOK
  <2> QED BY <1>1, <1>4, <2>1, <2>2, SameNames, ReturnOK
<1> QED BY <1>2, <1>3, <1>4

-----------------------------------------------------------------------------
\* The invariant.

\* The requests and the table do not see the clock and the bucket.
LEMMA EnvironmentOK == ASSUME Inv, UNCHANGED <<rows, issued, counted, ac, req>> PROVE Inv'
<1>1. Shape' /\ Table!TypeOK' /\ ac' \in {Nil, Whitelist} /\ Issued' /\ Tally'
  BY DEF Inv, Shape, Table!TypeOK, Issued, Named, Tally, Good, Bad, Past
<1>2. \A r \in Req : Sane(r)'
  BY DEF Inv, Sane, Typed, Inward, Outward, Refused, Answered, Undecoded, Told, At
<1> QED BY <1>1, <1>2 DEF Inv

\* No request has come, nobody has a token and nothing is counted.
LEMMA InitOK == Init => Inv
<1> SUFFICES ASSUME Init PROVE Inv
  OBVIOUS
<1>1. /\ req = [r \in Req |-> NewRequest] /\ issued = {} /\ Table!Init
      /\ counted = [c \in {"200", "error"} |-> 0] /\ ac \in {Nil, Whitelist}
  BY DEF Init
<1>2. Shape
  BY InitRefines
<1>3. Table!TypeOK
  <2>1. ASSUME NEW i \in Ids, NEW n \in Vals \cup {NoName} PROVE Table!NewRow(i, n) \in Table!Row
    BY DEF Table!NewRow, Table!Row, Table!AllNames
  <2>2. rows \in [Ids -> {Nil} \cup {Table!NewRow(i, n) : i \in Ids, n \in Vals \cup {NoName}}]
        /\ \A i \in Ids : rows[i] # Nil => rows[i].id = i
    BY <1>1 DEF Table!Init, Table!Exists, Table!AllNames
  <2>3. rows \in [Ids -> Table!Row \cup {Nil}]
    BY <2>1, <2>2
  <2> QED BY <2>2, <2>3 DEF Table!TypeOK
<1>4. ASSUME NEW r \in Req PROVE Sane(r)
  <2>1. /\ req[r].pc = "idle" /\ req[r].op = Nil /\ req[r].msg = Nil /\ req[r].verdict = "none"
        /\ req[r].claims = Nil /\ req[r].hdrs = {} /\ req[r].out = Nil /\ req[r].wrote = FALSE
    BY <1>1 DEF NewRequest
  <2>2. Typed(r)
    BY <2>1 DEF Typed, At, Points, Early
  <2>3. Inward(r) /\ Outward(r) /\ Told(r)
    BY <2>1, NilIsNoAnswer DEF Inward, Outward, Told, At, Early
  <2> QED BY <2>2, <2>3 DEF Sane
<1>5. Issued
  BY <1>1 DEF Issued
<1>6. Tally
  <2>1. \A r \in Req : req[r].pc = "idle"
    BY <1>1 DEF NewRequest
  <2>2. Good = {} /\ Bad = {}
    BY <2>1 DEF Good, Bad, Past
  <2> QED BY <1>1, <2>2, FS_EmptySet DEF Tally
<1> QED BY <1>1, <1>2, <1>3, <1>4, <1>5, <1>6 DEF Inv

\* Every step keeps the invariant.
LEMMA NextOK ==
    ASSUME Inv, Limiter!TypeOK, [Next]_vars
    PROVE  Inv'
<1>0. clock \in Nat
  BY LimiterAssumption DEF Limiter!TypeOK
<1>1. ASSUME NEW r \in Req, Receive(r) PROVE Inv'
  BY <1>1, ReceiveOK
<1>2. ASSUME NEW r \in Req,
             RateLimit(r) \/ Auth(r) \/ ValidateReq(r) \/ HTTPMetrics(r) \/ Finish(r)
      PROVE  Inv'
  BY <1>2, RateLimitOK, AuthOK, ValidateOK, MetricsOK, FinishOK
<1>3. ASSUME NEW r \in Req, Service(r) PROVE Inv'
  BY <1>0, <1>3, RegisterOK, LoginOK, ReadOK, WriteOK DEF Service
<1>4. CASE Tick \/ Observe \/ Refill
  BY <1>4, EnvironmentOK DEF Tick, Observe, Refill, Environment
<1>5. CASE UNCHANGED vars
  BY <1>5, EnvironmentOK DEF vars
<1> QED BY <1>1, <1>2, <1>3, <1>4, <1>5 DEF Next, Step

\* The types of the limiter, from the limiter's own theorem.
LEMMA LimiterTyped == Spec => []Limiter!TypeOK
<1>1. Limiter!Init => Bucket!Init
  BY DEF Limiter!Init, Limiter!NewLimiter, Bucket!Init, Bucket!NewLimiter
<1>2. [Limiter!Next]_Limiter!vars => [Bucket!Next]_Bucket!vars
  BY DEF Limiter!Next, Limiter!vars, Limiter!Request, Limiter!Allow, Limiter!Refill,
         Limiter!AddTokens, Limiter!Tick, Limiter!Observe,
         Bucket!Next, Bucket!vars, Bucket!Request, Bucket!Allow, Bucket!Refill,
         Bucket!AddTokens, Bucket!Tick, Bucket!Observe
<1>3. Bucket!TypeOK => Limiter!TypeOK
  BY DEF Bucket!TypeOK, Limiter!TypeOK
<1>4. Bucket!Spec => []Bucket!TypeOK
  BY Bucket!TypeCorrect, LimiterAssumption, PTL
<1> QED
  BY <1>1, <1>2, <1>3, <1>4, InitRefines, StepRefines, PTL DEF Spec, Bucket!Spec

\* The inductive invariant holds of every behaviour of the server.
LEMMA Invariant == Spec => []Inv
BY InitOK, NextOK, LimiterTyped, PTL DEF Spec

-----------------------------------------------------------------------------
\* The theorems.

\* A request has what its control point says, its message is one of its
\* operation whatever the client sent (user_http.pb.go), and its claims are
\* those of a token that was issued.
THEOREM TypeCorrect == Spec => []TypeOK
<1>1. ASSUME Inv, Limiter!TypeOK PROVE TypeOK
  <2>1. counted \in [{"200", "error"} -> 0..Cardinality(Req)]
    <3>1. /\ Cardinality(Good) \in Nat /\ Cardinality(Good) <= Cardinality(Req)
          /\ Cardinality(Bad) \in Nat /\ Cardinality(Bad) <= Cardinality(Req)
          /\ Cardinality(Req) \in Nat
      <4>1. Good \subseteq Req /\ Bad \subseteq Req /\ IsFiniteSet(Req)
        BY HTTPAssumption DEF Good, Bad
      <4> QED BY <4>1, FS_Subset, FS_CardinalityType
    <3>2. counted["200"] \in 0..Cardinality(Req) /\ counted["error"] \in 0..Cardinality(Req)
      BY <1>1, <3>1 DEF Inv, Tally
    <3> QED BY <1>1, <3>2 DEF Inv, Tally
  <2>2. ASSUME NEW r \in Req
        PROVE  /\ req[r].pc \in Points
               /\ req[r].out \in Codes \cup {Nil, "dropped"}
               /\ req[r].claims \in issued \cup {Nil}
               /\ At(r, "idle") <=> req[r].op = Nil
               /\ req[r].msg # Nil => IsMessage(req[r].op, req[r].msg)
    <3>1. Typed(r) /\ Inward(r) /\ Outward(r)
      BY <1>1 DEF Inv, Sane
    <3>2. req[r].out \in Codes \cup {Nil, "dropped"}
      BY <3>1 DEF Typed, Inward, Outward, Refused, Answered, Undecoded, Points, Early, Codes
    <3>3. At(r, "idle") <=> req[r].op = Nil
      BY <3>1, HTTPAssumption DEF Typed
    <3> QED BY <3>1, <3>2, <3>3 DEF Typed
  <2>3. \A t \in issued : t.id \in Ids /\ t.name \in Vals /\ t.exp \in Nat
    BY <1>1 DEF Inv, Issued
  <2> QED BY <1>1, <2>1, <2>2, <2>3 DEF TypeOK, Inv, Points
<1> QED BY <1>1, Invariant, LimiterTyped, PTL

\* What a client can tell from the answer is true: when nothing happened, when
\* something was written, and when it may have been.
THEOREM AnswersTellAlways == Spec => []AnswersTell
<1>1. ASSUME Inv PROVE AnswersTell
  <2> SUFFICES ASSUME NEW r \in Req, At(r, "done")
               PROVE  /\ req[r].out = "dropped" <=> req[r].verdict = "refused"
                      /\ req[r].out = "400" <=> "X-Request-ID" \notin req[r].hdrs
                      /\ req[r].wrote => req[r].out \in {"200", "500"}
                      /\ req[r].out = "200" /\ req[r].op \in {"Register", "UpdateUser", "DeleteUser"}
                           => req[r].wrote
    BY DEF AnswersTell
  <2>1. Outward(r) /\ Told(r)
    BY <1>1 DEF Inv, Sane
  <2>2. (Refused(r) /\ req[r].out = "dropped") \/ Answered(r) \/ Undecoded(r)
    BY <2>1 DEF Outward, Refused, At
  <2>3. /\ req[r].out = "dropped" <=> req[r].verdict = "refused"
        /\ req[r].out = "400" <=> "X-Request-ID" \notin req[r].hdrs
        /\ req[r].out # Nil
    BY <2>2, HTTPAssumption DEF Refused, Answered, Undecoded, Codes
  <2> QED BY <2>1, <2>3 DEF Told
<1> QED BY <1>1, Invariant, PTL

\* What a token says stays true: its row is there and has its name or none, and
\* a call that gave that name was answered with 200.
THEOREM TokensNameRegisteredAlways == Spec => []TokensNameRegistered
<1>1. ASSUME Inv PROVE TokensNameRegistered
  <2> SUFFICES ASSUME NEW t \in issued
               PROVE  /\ Table!Exists(t.id) /\ rows[t.id].name \in {t.name, NoName}
                      /\ \E r \in Req : /\ req[r].op \in {"Register", "Login"} /\ req[r].out = "200"
                                        /\ Table!SameName(req[r].msg.username.val, t.name)
    BY DEF TokensNameRegistered
  <2>1. Table!Exists(t.id) /\ rows[t.id].name \in {t.name, NoName}
    BY <1>1 DEF Inv, Issued, Named, Table!Exists
  <2>2. PICK r \in Req : /\ req[r].op = "Register" /\ req[r].out = "200"
                         /\ req[r].msg.username.val = t.name
    BY <1>1 DEF Inv, Issued
  <2>3. Table!SameName(req[r].msg.username.val, t.name)
    BY <2>2 DEF Table!SameName
  <2> QED BY <2>1, <2>2, <2>3
<1> QED BY <1>1, Invariant, PTL

\* The request counters say of the answers what they say, whichever requests
\* were refused, failed, panicked or never entered the chain.
THEOREM MetricsTallyAlways == Spec => []MetricsTally
<1>1. ASSUME Inv PROVE MetricsTally
  <2>1. Bad = {r \in Req : /\ Past(r) /\ req[r].verdict = "allowed"
                           /\ req[r].out # "200" /\ ac # Nil}
    BY DEF Bad
  <2> QED BY <1>1, <2>1 DEF MetricsTally, Inv, Tally, Good
<1> QED BY <1>1, Invariant, PTL
=============================================================================
