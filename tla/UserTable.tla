------------------------------ MODULE UserTable ------------------------------
(***************************************************************************)
(* What the users table promises to everyone above it: a row is created    *)
(* once, every update replaces a live row as a whole and moves its version *)
(* by one, a soft delete is final, and no two rows have usernames that SQL *)
(* holds equal.  The repository (module UserRepo) reads a row, computes,   *)
(* and then issues UPDATE ... WHERE id = ? AND version = ?; here each      *)
(* write is one step.                                                      *)
(***************************************************************************)
EXTENDS Naturals

CONSTANTS
    Ids,     \* primary keys
    Names,   \* usernames
    NoName,  \* the empty username
    Weight,  \* username -> what utf8mb4_unicode_ci makes of it
    None     \* no such row

AllNames == Names \cup {NoName}

\* The columns that matter here.  The others (phone, nickname, avatar,
\* status, ...) are told apart by the version, which moves on every write.
Row == [id : Ids, name : AllNames, live : BOOLEAN, version : Nat]

VARIABLE rows  \* id -> row

\* The table holds rows, each under its own primary key.
TypeOK ==
    /\ rows \in [Ids -> Row \cup {None}]
    /\ \A i \in Ids : rows[i] # None => rows[i].id = i

Exists(i) == rows[i] # None
Live(i)   == Exists(i) /\ rows[i].live

\* SQL's m = n under the table's collation: case and accents do not count, so
\* that one name has many spellings.
SameName(m, n) == Weight[m] = Weight[n]

\* UNIQUE (username) covers soft-deleted rows too, in any spelling.
NameFree(n, i) == \A j \in Ids \ {i} : Exists(j) => ~SameName(rows[j].name, n)

NewRow(i, n) == [id |-> i, name |-> n, live |-> TRUE, version |-> 0]

\* UNIQUE (username): no two rows, deleted or not, share a username, in
\* whatever spelling.
UniqueUsernames ==
    \A i, j \in Ids : i # j /\ Exists(i) /\ Exists(j) => ~SameName(rows[i].name, rows[j].name)

\* A database with some users in it already; an update may have emptied a name.
Init ==
    /\ rows \in [Ids -> {None} \cup {NewRow(i, n) : i \in Ids, n \in AllNames}]
    /\ \A i \in Ids : Exists(i) => rows[i].id = i
    /\ UniqueUsernames

Create(i, n) ==
    /\ ~Exists(i)
    /\ NameFree(n, i)
    /\ rows' = [rows EXCEPT ![i] = NewRow(i, n)]

Update(i, n) ==
    /\ Live(i)
    /\ NameFree(n, i)
    /\ rows' = [rows EXCEPT ![i] = [rows[i] EXCEPT !.name = n, !.version = rows[i].version + 1]]

Delete(i) ==
    /\ Live(i)
    /\ rows' = [rows EXCEPT ![i] = [rows[i] EXCEPT !.live = FALSE, !.version = rows[i].version + 1]]

Next ==
    \E i \in Ids : \/ \E n \in AllNames : Create(i, n) \/ Update(i, n)
                   \/ Delete(i)

Spec == Init /\ [][Next]_rows
=============================================================================
