------------------------------- MODULE UserAPI -------------------------------
(***************************************************************************)
(* api/user/v1: the request messages of the user service, what the HTTP    *)
(* handlers bind into them, and the rules that Validate checks.            *)
(*                                                                         *)
(* A text is what the rules can tell of it: its length in runes, and which *)
(* of the patterns it matches.  Its val tells two texts apart.             *)
(***************************************************************************)
EXTENDS Integers, Sequences

CONSTANTS
    Vals,      \* values that tell texts apart
    Malformed, \* a body, a query or a path that does not decode
    Nil        \* a message that is not there, or no error

\* What a validation error names: a field, and what is wrong with it.
Fields == {"Username", "Password", "Email", "Phone", "Id", "Page", "PageSize", "User"}
Rules  == {"length", "pattern", "email", "positive", "range", "required", "embedded"}

ASSUME APIAssumption == Vals # {} /\ Nil \notin Fields \X Rules

Operations == {"Register", "Login", "GetUser", "ListUsers", "UpdateUser", "DeleteUser"}

Text == [val : Vals, len : Nat, forms : SUBSET {"word", "email", "mobile"}]
Empty == [val |-> CHOOSE v \in Vals : TRUE, len |-> 0, forms |-> {}]

IsText(t) == t.val \in Vals /\ t.len \in Nat /\ t.forms \subseteq {"word", "email", "mobile"}

-----------------------------------------------------------------------------
\* The messages, as a predicate each.  An absent field has its zero value.

User(m)              == m = Nil \/ m.id \in Int
RegisterRequest(m)   == \A f \in {"username", "password", "email", "phone"} : IsText(m[f])
LoginRequest(m)      == \A f \in {"username", "password"} : IsText(m[f])
GetUserRequest(m)    == m.id \in Int
ListUsersRequest(m)  == m.page \in Int /\ m.page_size \in Int
UpdateUserRequest(m) == m.id \in Int /\ User(m.user)
DeleteUserRequest(m) == m.id \in Int

IsMessage(op, m) ==
    CASE op = "Register"   -> RegisterRequest(m)
      [] op = "Login"      -> LoginRequest(m)
      [] op = "GetUser"    -> GetUserRequest(m)
      [] op = "ListUsers"  -> ListUsersRequest(m)
      [] op = "UpdateUser" -> UpdateUserRequest(m)
      [] op = "DeleteUser" -> DeleteUserRequest(m)

-----------------------------------------------------------------------------
\* Binding.  An HTTP request has a body, a query and path variables, each a
\* function from field names to values.

Decodes(w) == Malformed \notin {w.body, w.query, w.path}

\* What decodes has values of the fields' types.
Decoded(part) ==
    \A f \in DOMAIN part :
        IF f \in {"id", "page", "page_size"} THEN part[f] \in Int ELSE IsText(part[f])

\* A request that is routed to a handler, which for UpdateUser takes an id in
\* the path.
IsWire(w) ==
    /\ w.op \in Operations
    /\ Decodes(w) => /\ Decoded(w.body) /\ Decoded(w.query) /\ Decoded(w.path)
                     /\ w.op = "UpdateUser" => "id" \in DOMAIN w.path

\* What is bound later, f, wins over g.
Over(f, g) == [x \in DOMAIN f \cup DOMAIN g |-> IF x \in DOMAIN f THEN f[x] ELSE g[x]]

BindRegister(w) ==
    Over(w.query, Over(w.body,
        [username |-> Empty, password |-> Empty, email |-> Empty, phone |-> Empty]))

BindLogin(w) == Over(w.query, Over(w.body, [username |-> Empty, password |-> Empty]))

BindGetUser(w) == Over(w.path, Over(w.query, [id |-> 0]))

BindListUsers(w) == Over(w.query, [page |-> 0, page_size |-> 0])

\* The path is users/{user.id}: its variable sets the id of the embedded user
\* (and so makes one if the body was empty), and only a query sets in.Id.
BindUpdateUser(w) ==
    [id |-> Over(w.query, [id |-> 0]).id, user |-> Over(w.path, w.body)]

BindDeleteUser(w) == Over(w.path, Over(w.query, [id |-> 0]))

Bind(op, w) ==
    CASE op = "Register"   -> BindRegister(w)
      [] op = "Login"      -> BindLogin(w)
      [] op = "GetUser"    -> BindGetUser(w)
      [] op = "ListUsers"  -> BindListUsers(w)
      [] op = "UpdateUser" -> BindUpdateUser(w)
      [] op = "DeleteUser" -> BindDeleteUser(w)

-----------------------------------------------------------------------------
\* Validation: the first rule that fails, as <<field, rule>>, or Nil.

\* Validate stops at the first violation.
FirstOf(checks) ==
    LET failing == {i \in DOMAIN checks : ~checks[i].ok}
        first == CHOOSE i \in failing : \A j \in failing : i <= j
    IN  IF failing = {} THEN Nil ELSE <<checks[first].field, checks[first].rule>>

Rule(field, rule, ok) == [field |-> field, rule |-> rule, ok |-> ok]

ValidateUser(m) == Nil

ValidateRegister(m) ==
    FirstOf(<<Rule("Username", "length",  m.username.len \in 1..64),
              Rule("Username", "pattern", "word" \in m.username.forms),
              Rule("Password", "length",  m.password.len \in 6..128),
              Rule("Email",    "email",   "email" \in m.email.forms),
              Rule("Phone",    "pattern", m.phone.len > 0 => "mobile" \in m.phone.forms)>>)

ValidateLogin(m) ==
    FirstOf(<<Rule("Username", "length", m.username.len \in 1..64),
              Rule("Password", "length", m.password.len \in 1..128)>>)

ValidateGetUser(m) == FirstOf(<<Rule("Id", "positive", m.id > 0)>>)

ValidateListUsers(m) ==
    FirstOf(<<Rule("Page",     "range", m.page >= 1),
              Rule("PageSize", "range", m.page_size \in 1..100)>>)

ValidateUpdateUser(m) ==
    FirstOf(<<Rule("Id",   "positive", m.id > 0),
              Rule("User", "required", m.user # Nil),
              Rule("User", "embedded", ValidateUser(m.user) = Nil)>>)

ValidateDeleteUser(m) == FirstOf(<<Rule("Id", "positive", m.id > 0)>>)

Validate(op, m) ==
    CASE op = "Register"   -> ValidateRegister(m)
      [] op = "Login"      -> ValidateLogin(m)
      [] op = "GetUser"    -> ValidateGetUser(m)
      [] op = "ListUsers"  -> ValidateListUsers(m)
      [] op = "UpdateUser" -> ValidateUpdateUser(m)
      [] op = "DeleteUser" -> ValidateDeleteUser(m)
=============================================================================
