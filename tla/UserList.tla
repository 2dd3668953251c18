------------------------------ MODULE UserList ------------------------------
(***************************************************************************)
(* Listing users (internal/pkg/cache/cached_db.go and the callers in biz   *)
(* and data): ListUsers and ListUsersByStatus by page number, with a total *)
(* that comes from a statement of its own, and ListUsersByIdDesc by the    *)
(* last id seen.  A caller asks for page after page until one is empty,    *)
(* while others register, delete and update users.                         *)
(*                                                                         *)
(* Every list is ordered by id, descending, so a page is a set: the rows   *)
(* at certain ranks.                                                       *)
(***************************************************************************)
EXTENDS Integers, FiniteSets

CONSTANTS
    MaxId,       \* bound on the ids that AUTO_INCREMENT hands out
    Statuses,    \* values of the status column
    Gone,        \* no row, or del_state = 1
    AnyStatus,   \* no condition on the status
    Pages,       \* page numbers that callers begin with
    Sizes,       \* page sizes that callers ask for
    DefaultSize, \* 10 in the code
    Half         \* an int32 is less than this: 2^31 in the code

Int32 == -Half..(Half - 1)

ASSUME ListAssumption ==
    /\ MaxId \in Nat /\ Half \in Nat /\ DefaultSize \in 1..(Half - 1)
    /\ Pages \subseteq Int32 /\ Sizes \subseteq Int32
    /\ Gone \notin Statuses /\ AnyStatus \notin Statuses

Ids == 1..MaxId

VARIABLES
    users,   \* id -> status, Gone if there is no such user
    lastId,  \* the last id that AUTO_INCREMENT gave away
    at,      \* where the caller is
    filter, page, size, after, \* what it asks for next
    total,   \* the total it was last told
    seen,    \* the users it was given
    twice,   \* history: it was given one of them again
    kept,    \* history: users from its first page on that have matched ever since
    added, removed \* history: since it began, has a row come into, left its list

query == <<filter, page, size, after>>
table == <<users, lastId>>
vars == <<table, query, at, total, seen, twice, kept, added, removed>>

-----------------------------------------------------------------------------
\* The queries.

\* WHERE del_state = 0, or WHERE status = ? AND del_state = 0.
Matching(f) ==
    {i \in Ids : users[i] # Gone /\ (f = AnyStatus \/ users[i] = f)}

\* The position of i in the rows S, ORDER BY id DESC.
Rank(S, i) == Cardinality({j \in S : j >= i})

\* Mutation: page numbers are taken as they come.
pageOrFirstAny(p) == p

\* if page <= 0 { page = 1 }, in biz and again in CachedDB.
pageOrFirst(p) == IF p <= 0 THEN 1 ELSE p
sizeOrDefault(n) == IF n <= 0 THEN DefaultSize ELSE n

\* What a product of two int32 comes to, and an int64 that is converted.
int32(n) ==
    LET m == n % (2 * Half)
    IN  IF m >= Half THEN m - 2 * Half ELSE m

\* Mutation: pages are counted from zero.
OffsetFromZero(p, n) == int32(p * n)

\* int((page - 1) * pageSize)
Offset(p, n) == int32((p - 1) * n)

\* LIMIT n OFFSET off; gorm leaves an offset that is not positive out.
FindPageListByPage(S, p, n) ==
    LET off == IF Offset(p, n) > 0 THEN Offset(p, n) ELSE 0
    IN  {i \in S : off < Rank(S, i) /\ Rank(S, i) <= off + n}

\* Mutation: WHERE id <= ?.
FindPageListByIdDescAgain(S, last, n) ==
    LET rest == {i \in S : last > 0 => i <= last}
    IN  {i \in rest : Rank(rest, i) <= n}

\* WHERE id < last ... LIMIT n; no condition if last is not positive.
FindPageListByIdDesc(S, last, n) ==
    LET rest == {i \in S : last > 0 => i < last}
    IN  {i \in rest : Rank(rest, i) <= n}

-----------------------------------------------------------------------------
\* The caller.

Begin(l, f, p, n) ==
    /\ at \in {"idle", "pageDone", "descDone"}
    /\ at' = l
    /\ filter' = f
    /\ page' = pageOrFirst(p)
    /\ size' = sizeOrDefault(n)
    /\ after' = 0
    /\ total' = 0
    /\ seen' = {} /\ twice' = FALSE /\ added' = FALSE /\ removed' = FALSE
    /\ kept' = {i \in Matching(f) : Rank(Matching(f), i) > (page' - 1) * size'}
    /\ UNCHANGED table

ListUsers(p, n) == Begin("count", AnyStatus, p, n)
ListUsersByStatus(s, p, n) == Begin("count", s, p, n)
ListUsersByIdDesc(n) == Begin("desc", AnyStatus, 1, n)

\* The rows of a page reach the caller, who goes to next for another page, or
\* to done if there were none.
Receive(rows, next, done) ==
    /\ seen' = seen \cup rows
    /\ twice' = (twice \/ rows \cap seen # {})
    /\ at' = IF rows = {} THEN done ELSE next
    /\ UNCHANGED <<table, filter, size, kept, added, removed>>

\* Mutation: the count forgets the condition on the status.
FindCountAll ==
    /\ at = "count"
    /\ total' = int32(Cardinality(Matching(AnyStatus)))
    /\ at' = "page"
    /\ UNCHANGED <<table, query, seen, twice, kept, added, removed>>

\* FindCount: a statement of its own, before that of the page.
FindCount ==
    /\ at = "count"
    /\ total' = int32(Cardinality(Matching(filter)))
    /\ at' = "page"
    /\ UNCHANGED <<table, query, seen, twice, kept, added, removed>>

\* The caller gives its walk up when the next page number is no int32.
GetPage ==
    LET fits == page < Half - 1
    IN  /\ at = "page"
        /\ Receive(FindPageListByPage(Matching(filter), page, size),
                   IF fits THEN "count" ELSE "idle", "pageDone")
        /\ page' = IF fits THEN page + 1 ELSE page
        /\ UNCHANGED <<after, total>>

\* The last id of a page is passed on as an int32, which an id need not fit.
GetDesc ==
    /\ at = "desc"
    /\ LET rows == FindPageListByIdDesc(Matching(filter), int32(after), size)
       IN  /\ Receive(rows, "desc", "descDone")
           /\ after' = IF rows = {} THEN after
                       ELSE CHOOSE i \in rows : \A j \in rows : i <= j
    /\ UNCHANGED <<page, total>>

\* A statement fails, and with it the call: the caller gives up.
FindFails ==
    /\ at \in {"count", "page", "desc"}
    /\ at' = "idle"
    /\ UNCHANGED <<table, query, total, seen, twice, kept, added, removed>>

-----------------------------------------------------------------------------
\* The others.

\* A write, as the caller's list sees it.
Written ==
    /\ UNCHANGED <<query, at, total, seen, twice>>
    /\ kept' = kept \cap Matching(filter)'
    /\ added' = (added \/ Matching(filter)' \ Matching(filter) # {})
    /\ removed' = (removed \/ Matching(filter) \ Matching(filter)' # {})

CreateUser(s) ==
    /\ lastId < MaxId
    /\ lastId' = lastId + 1
    /\ users' = [users EXCEPT ![lastId + 1] = s]
    /\ Written

\* UpdateUser with a status, or DeleteUser.
UpdateStatus(i, s) ==
    /\ users[i] # Gone
    /\ users' = [users EXCEPT ![i] = s]
    /\ UNCHANGED lastId
    /\ Written

Init ==
    /\ lastId \in 0..MaxId
    /\ users \in [Ids -> Statuses \cup {Gone}]
    /\ \A i \in Ids : i > lastId => users[i] = Gone
    /\ at = "idle"
    /\ filter = AnyStatus /\ page = 1 /\ size = DefaultSize /\ after = 0
    /\ total = 0
    /\ seen = {} /\ twice = FALSE
    /\ kept = {} /\ added = FALSE /\ removed = FALSE

Next ==
    \/ \E n \in Sizes :
          \/ ListUsersByIdDesc(n)
          \/ \E p \in Pages : \/ ListUsers(p, n)
                              \/ \E s \in Statuses : ListUsersByStatus(s, p, n)
    \/ FindCount \/ GetPage \/ GetDesc \/ FindFails
    \/ \E s \in Statuses : CreateUser(s)
    \/ \E i \in Ids, s \in Statuses \cup {Gone} : UpdateStatus(i, s)

Spec == Init /\ [][Next]_vars

-----------------------------------------------------------------------------
\* Properties.

\* Every variable has its type.  Whatever page and size were asked for, the
\* numbers that reach CachedDB are positive and fit an int32.
TypeOK ==
    /\ lastId \in 0..MaxId
    /\ users \in [Ids -> Statuses \cup {Gone}]
    /\ at \in {"idle", "count", "page", "desc", "pageDone", "descDone"}
    /\ filter \in Statuses \cup {AnyStatus}
    /\ page \in 1..(Half - 1) /\ size \in 1..(Half - 1)
    /\ after \in {0} \cup Ids
    /\ total \in Int32
    /\ seen \subseteq Ids /\ kept \subseteq Ids
    /\ {twice, added, removed} \subseteq BOOLEAN

\* ListUsersByIdDesc, called with the last id of every page until a page is
\* empty, shows no user twice and misses none that was there all the time,
\* however many are registered, changed and deleted meanwhile; as long as the
\* ids fit the int32 that they are passed on as (cached_db.go).
DescWalkSeesAll ==
    /\ at \in {"desc", "descDone"} => ~twice
    /\ at = "descDone" => kept \subseteq seen

\* (page - 1) * pageSize has not wrapped so far in this walk.
InRange == (page - 1) * size < Half

\* ListUsers and ListUsersByStatus, called page by page, make no such promise.
\* What they do promise: a user that was there all the time is missed only if
\* a row left the list meanwhile, and one is shown twice only if a row came in.
PageWalkSlips ==
    InRange =>
       /\ at = "pageDone" /\ ~removed => kept \subseteq seen
       /\ at \in {"count", "page", "pageDone"} /\ ~added => ~twice

\* While nobody writes to the list, its pages from the first one asked for are
\* exactly the users from there on, and the total, which comes from another
\* statement than the rows (FindPageListByPageWithTotal), counts the list.
QuietWalkIsExact ==
    at = "pageDone" /\ InRange /\ ~added /\ ~removed =>
       /\ seen = kept
       /\ total = Cardinality(Matching(filter))
=============================================================================
