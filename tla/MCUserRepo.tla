----------------------------- MODULE MCUserRepo -----------------------------
(***************************************************************************)
(* Small instances of UserRepo.                                            *)
(***************************************************************************)
EXTENDS UserRepo, TLC

CONSTANTS bob, Bob  \* two spellings that SQL holds equal

\* The collation: every name but the empty one has the weight of bob.
MCWeight == [n \in Names \cup {NoName} |-> IF n = NoName THEN NoName ELSE bob]

\* Requests, ids and spellings of one name are interchangeable: none is
\* compared with, or ordered against, another but by its weight.
Symmetry == Permutations(Proc) \cup Permutations(Ids) \cup Permutations(Names)
=============================================================================
