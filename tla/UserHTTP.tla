------------------------------ MODULE UserHTTP ------------------------------
(***************************************************************************)
(* The HTTP server of the user service: the generated handlers of          *)
(* api/user/v1, the middleware chain of internal/server, and the user      *)
(* service and its use cases behind it, for requests that run at the same  *)
(* time.                                                                   *)
(*                                                                         *)
(*   handler: bind -> [ recovery -> HTTPMetrics -> tracing -> requestid    *)
(*     -> cors -> ratelimit -> auth -> validator -> service ] -> reply     *)
(*                                                                         *)
(* The token bucket is module RateLimiter and the users table is module    *)
(* UserTable, both instantiated.  What the use cases do in between (locks, *)
(* cache, optimistic locking) is the subject of RegisterLock and UserRepo; *)
(* here a use case is one step on the table with every outcome they allow. *)
(***************************************************************************)
EXTENDS UserAPI, LimiterParams, FiniteSets

CONSTANTS
    Req,       \* the requests
    Wires,     \* what clients send: operation, body, query, path, origin
    Whitelist, \* operations whose path is in auth.whitelist
    Expire,    \* jwt.expire, in ticks
    MaxUsers,  \* bound on the number of rows
    NoName,    \* the empty username
    Weight,    \* username -> what utf8mb4_unicode_ci makes of it
    BadToken   \* a token that does not parse or is not signed with the secret

Codes == {"200", "400", "401", "404", "409", "429", "500"}
Ids == 1..MaxUsers

ASSUME HTTPAssumption ==
    /\ IsFiniteSet(Req)
    /\ \A w \in Wires : IsWire(w)
    /\ Whitelist \subseteq Operations
    /\ Expire \in Nat
    /\ MaxUsers \in Nat \ {0}
    /\ Nil # Whitelist /\ Nil \notin Operations \cup Codes \cup {"dropped"}
    /\ Nil \notin [id : Ids, name : Vals \cup {NoName}, live : BOOLEAN, version : Nat]

VARIABLES
    tokens, last, clock, mark, \* the limiter and the time of day
    rows,    \* the users table
    issued,  \* tokens made by GenerateToken
    counted, \* app_http_requests_total, by code
    ac,      \* the auth part of the configuration, or Nil
    req      \* the requests: control point, input, context, outcome

limiterVars == <<tokens, last, clock, mark>>
vars == <<tokens, last, clock, mark, rows, issued, counted, ac, req>>

Table == INSTANCE UserTable WITH Names <- Vals, None <- Nil

\* The limiter sees a request when the middleware has asked it.
Asked    == Cardinality({r \in Req : req[r].verdict # "none"})
Admitted == Cardinality({r \in Req : req[r].verdict = "allowed"})
Limiter == INSTANCE RateLimiter WITH asked <- Asked, admitted <- Admitted

At(r, p) == req[r].pc = p

-----------------------------------------------------------------------------
\* The handler up to the limiter.

\* requestid: whatever the id is, the client's or a new one, the response
\* carries it.
requestid == {"X-Request-ID"}

\* cors: a request with an Origin gets the headers.  No OPTIONS request is
\* routed to a handler, so the preflight branch is not reached.
cors(w) == IF w.origin THEN {"Access-Control-Allow-Origin"} ELSE {}

\* A request arrives and is bound; one that does not decode is answered
\* before it enters the chain.  (On a whitelisted path nobody looks at the
\* token.)
Receive(r) ==
    /\ At(r, "idle")
    /\ \E w \in Wires :
        \/ /\ ~Decodes(w)
           /\ req' = [req EXCEPT ![r].pc = "done", ![r].op = w.op, ![r].out = "400"]
        \/ /\ Decodes(w)
           /\ \E t \in IF w.op \in Whitelist THEN {Nil} ELSE issued \cup {Nil, BadToken} :
                req' = [req EXCEPT ![r].pc = "limit", ![r].op = w.op, ![r].token = t,
                                   ![r].msg = Bind(w.op, w),
                                   ![r].hdrs = requestid \cup cors(w)]
    /\ UNCHANGED <<limiterVars, rows, issued, counted, ac>>

\* ratelimit: a refused request writes 429 and returns nil, nil.
RateLimit(r) ==
    /\ At(r, "limit")
    /\ \/ req' = [req EXCEPT ![r].pc = "auth", ![r].verdict = "allowed"]
       \/ req' = [req EXCEPT ![r].pc = "metrics", ![r].verdict = "refused"]
    /\ Limiter!Request
    /\ UNCHANGED <<rows, issued, counted, ac>>

\* ParseToken: signed with the secret and not yet run out.
ParseToken(t) == t \in issued /\ clock < t.exp

\* auth: the claims of a valid token go into the context; nothing is refused.
\* Without an auth configuration ac.Whitelist panics, and recovery makes an
\* error of it, past HTTPMetrics.
Auth(r) ==
    /\ At(r, "auth")
    /\ \/ /\ ac = Nil
          /\ req' = [req EXCEPT ![r].pc = "finish", ![r].out = "500"]
       \/ /\ ac # Nil
          /\ req' = [req EXCEPT ![r].pc = "validate",
                                ![r].claims = IF req[r].op \notin ac /\ ParseToken(req[r].token)
                                              THEN req[r].token ELSE Nil]
    /\ UNCHANGED <<limiterVars, rows, issued, counted, ac>>

\* validator: the error of Validate is returned as it is, which the error
\* encoder answers with 500.
ValidateReq(r) ==
    /\ At(r, "validate")
    /\ \/ /\ Validate(req[r].op, req[r].msg) = Nil
          /\ req' = [req EXCEPT ![r].pc = "service"]
       \/ /\ Validate(req[r].op, req[r].msg) # Nil
          /\ req' = [req EXCEPT ![r].pc = "metrics", ![r].out = "500"]
    /\ UNCHANGED <<limiterVars, rows, issued, counted, ac>>
-----------------------------------------------------------------------------
\* The service and its use cases.

Serving(r, op) == At(r, "service") /\ req[r].op = op

\* The use case returns; wrote remembers whether it changed the table.
Return(r, code) ==
    req' = [req EXCEPT ![r].pc = "metrics", ![r].out = code, ![r].wrote = (rows' # rows)]

\* AUTO_INCREMENT goes up, and skips the ids of failed inserts.
Insert(i, n) == (\A j \in Ids : Table!Exists(j) => j < i) /\ Table!Create(i, n)

GenerateToken(id, name) == [id |-> id, name |-> name, exp |-> clock + Expire]

\* Mutation: the error of the insert is not looked at, and the id that the row
\* would have had goes into the token.
RegisterErrorDropped(r) ==
    LET n == req[r].msg.username.val IN
    /\ Serving(r, "Register")
    /\ \E i \in Ids : /\ Insert(i, n) \/ UNCHANGED rows
                      /\ issued' = issued \cup {GenerateToken(i, n)}
    /\ Return(r, "200")
    /\ UNCHANGED <<limiterVars, counted, ac>>

\* Register: the lock is taken by another, or Redis fails (429); the lookup
\* finds somebody (409; it may be answered by a stale cache); or the insert
\* succeeds (200), fails, because of a soft-deleted user of that name too
\* (500), or succeeds without the caller hearing of it (500).
Register(r) ==
    LET n == req[r].msg.username.val IN
    /\ Serving(r, "Register")
    /\ \/ /\ UNCHANGED <<rows, issued>>
          /\ \E code \in {"429", "409", "500"} : Return(r, code)
       \/ \E i \in Ids :
          /\ Insert(i, n)
          /\ \/ Return(r, "500") /\ UNCHANGED issued
             \/ Return(r, "200") /\ issued' = issued \cup {GenerateToken(i, n)}
    /\ UNCHANGED <<limiterVars, counted, ac>>

\* toBizUser copies every column but the password, which fromBizUser has not
\* stored either.
toBizUser(row) == [id |-> row.id, username |-> row.name, password |-> Empty]

\* Login: the user of that name, in any spelling, and that password, or 401.
Login(r) ==
    LET m == req[r].msg
        named == {i \in Ids : Table!Live(i) /\ Table!SameName(rows[i].name, m.username.val)}
        found == {toBizUser(rows[i]) : i \in named}
        matching == {u \in found : u.password = m.password}
    IN
    /\ Serving(r, "Login")
    /\ issued' = issued \cup {GenerateToken(u.id, u.username) : u \in matching}
    /\ UNCHANGED <<limiterVars, rows, counted, ac>>
    /\ Return(r, IF matching = {} THEN "401" ELSE "200")

\* GetUserByID turns every error into ErrUserNotFound.
GetUser(r) ==
    /\ Serving(r, "GetUser")
    /\ UNCHANGED <<limiterVars, rows, issued, counted, ac>>
    /\ \/ req[r].msg.id \in Ids /\ Table!Exists(req[r].msg.id) /\ Return(r, "200")
       \/ Return(r, "404")

ListUsers(r) ==
    /\ Serving(r, "ListUsers")
    /\ UNCHANGED <<limiterVars, rows, issued, counted, ac>>
    /\ \E code \in {"200", "500"} : Return(r, code)

\* Mutation: a write whose reply was lost is tried again, and finds that the
\* version has moved.
WriteOutcomeTwice(r, Write) ==
    /\ \/ Write /\ \E code \in {"200", "409", "500"} : Return(r, code)
       \/ UNCHANGED rows /\ Return(r, "500")
    /\ UNCHANGED <<limiterVars, issued, counted, ac>>

\* What UpdateUser and DeleteUser have in common: the write is done and heard
\* of or not, the version has moved (409), or there is no such user and any
\* other error (500).
WriteOutcome(r, Write) ==
    /\ \/ Write /\ \E code \in {"200", "500"} : Return(r, code)
       \/ /\ UNCHANGED rows
          /\ \/ Return(r, "500")
             \/ req[r].msg.id \in Ids /\ Table!Exists(req[r].msg.id) /\ Return(r, "409")
    /\ UNCHANGED <<limiterVars, issued, counted, ac>>

\* The service passes on no username, so that the user loses the one it has;
\* it acts on in.Id, whatever the path says.
UpdateUser(r) ==
    /\ Serving(r, "UpdateUser")
    /\ WriteOutcome(r, req[r].msg.id \in Ids /\ Table!Update(req[r].msg.id, NoName))

DeleteUser(r) ==
    /\ Serving(r, "DeleteUser")
    /\ WriteOutcome(r, req[r].msg.id \in Ids /\ Table!Delete(req[r].msg.id))

Service(r) ==
    \/ Register(r) \/ Login(r) \/ GetUser(r) \/ ListUsers(r) \/ UpdateUser(r) \/ DeleteUser(r)

-----------------------------------------------------------------------------
\* The way back.

\* Mutation: refused requests are not counted.
httpRequestLabelsRefused(r) == IF req[r].out = "200" THEN "200" ELSE "error"

\* httpRequestLabels: the response writer does not tell its status, so every
\* request without an error counts as a 200.
httpRequestLabels(r) == IF req[r].out \in Codes \ {"200"} THEN "error" ELSE "200"

HTTPMetrics(r) ==
    /\ At(r, "metrics")
    /\ counted' = [counted EXCEPT ![httpRequestLabels(r)] = @ + 1]
    /\ req' = [req EXCEPT ![r].pc = "finish"]
    /\ UNCHANGED <<limiterVars, rows, issued, ac>>

\* The handler writes the error, or asserts the type of the reply and writes
\* it.  The assertion panics on nil, outside of recovery: net/http closes the
\* connection, and what was written but not flushed is lost.
Finish(r) ==
    /\ At(r, "finish")
    /\ req' = [req EXCEPT ![r].pc = "done", ![r].out = IF @ = Nil THEN "dropped" ELSE @]
    /\ UNCHANGED <<limiterVars, rows, issued, counted, ac>>

-----------------------------------------------------------------------------
\* The specification.

Step(r) ==
    \/ RateLimit(r) \/ Auth(r) \/ ValidateReq(r) \/ Service(r) \/ HTTPMetrics(r) \/ Finish(r)

Environment == UNCHANGED <<rows, issued, counted, ac, req>>

Tick    == Environment /\ Limiter!Tick
Observe == Environment /\ Limiter!Observe

\* Somebody calls AddTokens.  Nobody in the program does (see ShippedSpec).
Refill  == Environment /\ Limiter!Refill

NewRequest ==
    [pc |-> "idle", op |-> Nil, msg |-> Nil, token |-> Nil, verdict |-> "none",
     claims |-> Nil, hdrs |-> {}, out |-> Nil, wrote |-> FALSE]

Init ==
    /\ req = [r \in Req |-> NewRequest]
    /\ Limiter!Init
    /\ Table!Init /\ rows[MaxUsers] = Nil \* room for one more
    /\ issued = {}
    /\ counted = [c \in {"200", "error"} |-> 0]
    /\ ac \in {Nil, Whitelist}

Next == (\E r \in Req : Receive(r) \/ Step(r)) \/ Tick \/ Observe \/ Refill

Spec == Init /\ [][Next]_vars

\* Handlers run to their end.
ServedSpec == Spec /\ \A r \in Req : WF_vars(Step(r))

\* The program as it is: nobody calls AddTokens.  Handlers run to their end
\* and time passes.
ShippedSpec ==
    /\ Init
    /\ [][(\E r \in Req : Receive(r) \/ Step(r)) \/ Tick]_vars
    /\ \A r \in Req : WF_vars(Step(r))
    /\ WF_vars(Tick)

-----------------------------------------------------------------------------
\* Properties.

\* A request has what its control point says, and a message of its operation
\* once it is bound (user_http.pb.go).
TypeOK ==
    /\ Limiter!TypeOK /\ Table!TypeOK
    /\ ac \in {Nil, Whitelist}
    /\ counted \in [{"200", "error"} -> 0..Cardinality(Req)]
    /\ \A t \in issued : t.id \in Ids /\ t.name \in Vals /\ t.exp \in Nat
    /\ \A r \in Req :
        /\ req[r].pc \in {"idle", "limit", "auth", "validate", "service", "metrics", "finish", "done"}
        /\ req[r].out \in Codes \cup {Nil, "dropped"}
        /\ req[r].claims \in issued \cup {Nil}
        /\ At(r, "idle") <=> req[r].op = Nil
        /\ req[r].msg # Nil => IsMessage(req[r].op, req[r].msg)

\* Whatever the handlers do, the limiter lets no more of them through than
\* the bucket and the rate allow (ratelimit.go).
NeverAboveRate == Limiter!NeverAboveRate

\* What a client can tell from the answer.  A connection is dropped exactly
\* when the limiter refused the request, and then nothing happened; 400
\* comes without a request id, before the chain, and every other answer with
\* one; an answer that blames the client (4xx) means that nothing happened;
\* and a write that is answered with 200 has been done.
AnswersTell ==
    \A r \in Req : At(r, "done") =>
        /\ req[r].out = "dropped" <=> req[r].verdict = "refused"
        /\ req[r].out = "400" <=> "X-Request-ID" \notin req[r].hdrs
        /\ req[r].wrote => req[r].out \in {"200", "500"}
        /\ req[r].out = "200" /\ req[r].op \in {"Register", "UpdateUser", "DeleteUser"} => req[r].wrote

\* What a token says stays true, whatever is written after it was made: the
\* row of its id is there, deleted or not, and has the token's name unless an
\* update has emptied it; and it was made by a call of Register or Login that
\* gave that name, in some spelling, and was answered with 200
\* (service/user.go, biz/user.go, data/user_repo.go).
TokensNameRegistered ==
    \A t \in issued :
        /\ Table!Exists(t.id) /\ rows[t.id].name \in {t.name, NoName}
        /\ \E r \in Req : /\ req[r].op \in {"Register", "Login"} /\ req[r].out = "200"
                          /\ Table!SameName(req[r].msg.username.val, t.name)

\* "Login and get token" (user.proto): who logs in with the name and the
\* password of a registration that was answered with 200, while a user of that
\* name is there, is not told that the credentials are wrong.
LoginGetsToken ==
    [][\A q, r \in Req :
        /\ At(q, "done") /\ req[q].op = "Register" /\ req[q].out = "200"
        /\ Serving(r, "Login") /\ At(r, "metrics")'
        /\ \A f \in {"username", "password"} : req[r].msg[f] = req[q].msg[f]
        /\ \E i \in Ids : Table!Live(i) /\ rows[i].name = req[r].msg.username.val
        => req'[r].out # "401"]_vars

Past(r) == req[r].pc \in {"finish", "done"}

\* What the counters say about the answers: an error counts once, unless it
\* comes from a panic or from before the chain, and a request counts as 200
\* if it succeeded or was refused (observability/metrics.go).
MetricsTally ==
    /\ counted["200"] = Cardinality({r \in Req : Past(r) /\ (req[r].out = "200" \/ req[r].verdict = "refused")})
    /\ counted["error"] = Cardinality({r \in Req : /\ Past(r) /\ req[r].verdict = "allowed"
                                                  /\ req[r].out # "200" /\ ac # Nil})

\* "Limiter is a simple token bucket rate limiter." (ratelimit.go): when the
\* first requests ever come after the rate has made up a token, one of them
\* is admitted.
FirstIsAdmitted ==
    LET waiting == Asked = 0 /\ clock * Rate >= Unit /\ \E r \in Req : At(r, "limit")
    IN  waiting ~> (Admitted > 0)
=============================================================================
