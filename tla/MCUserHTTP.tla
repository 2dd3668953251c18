----------------------------- MODULE MCUserHTTP -----------------------------
(***************************************************************************)
(* Small instances of UserHTTP.                                            *)
(***************************************************************************)
EXTENDS UserHTTP, TLC

T(v, n, forms) == [val |-> v, len |-> n, forms |-> forms]

\* Texts at the edges of the rules.
Name64   == T("a", 64, {"word"})
Name65   == T("a", 65, {"word"})
Word     == T("b", 1, {"word"})
Shout    == T("B", 1, {"word"}) \* SQL holds it equal to Word
Spaced   == T("b", 3, {})
Pass6    == T("a", 6, {})
Pass5    == T("a", 5, {})
Mail     == T("a", 9, {"email"})
Mobile   == T("a", 11, {"mobile"})

Wire(op, body, query, path) ==
    [op |-> op, body |-> body, query |-> query, path |-> path, origin |-> FALSE]

Account(n, p) == [username |-> n, password |-> p, email |-> Mail]

MCWires == {
    Wire("Register", Account(Word, Pass6), <<>>, <<>>),
    Wire("Register", Account(Name65, Pass6), [username |-> Name64, phone |-> Mobile], <<>>),
    Wire("Register", Account(Spaced, Pass6), <<>>, <<>>),
    Wire("Register", Account(Word, Pass5), <<>>, <<>>),
    [Wire("Register", Malformed, <<>>, <<>>) EXCEPT !.origin = TRUE],
    [Wire("Login", [username |-> Word, password |-> Pass6], <<>>, <<>>) EXCEPT !.origin = TRUE],
    Wire("Register", Account(Shout, Pass6), <<>>, <<>>),
    Wire("Login", [username |-> Word], <<>>, <<>>),
    Wire("GetUser", <<>>, [id |-> 0], [id |-> 1]),
    Wire("ListUsers", <<>>, [page |-> 1, page_size |-> 100], <<>>),
    Wire("ListUsers", <<>>, [page |-> 1, page_size |-> 101], <<>>),
    Wire("UpdateUser", <<>>, <<>>, [id |-> 1]),
    Wire("UpdateUser", [id |-> 2], [id |-> 1], [id |-> 2]),
    Wire("UpdateUser", Malformed, <<>>, [id |-> 1]),
    Wire("DeleteUser", <<>>, <<>>, [id |-> 1])}

MCWeight == [n \in Vals \cup {NoName} |-> IF n = "B" THEN "b" ELSE n]

Symmetry == Permutations(Req)
=============================================================================
