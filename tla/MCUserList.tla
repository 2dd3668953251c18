----------------------------- MODULE MCUserList -----------------------------
(***************************************************************************)
(* A small instance of UserList: an int32 has five bits, so that 16 is the *)
(* first offset that wraps; pages that are no pages, the first ones, one   *)
(* whose offset wraps to a negative number and one whose offset wraps to a *)
(* positive one.                                                           *)
(***************************************************************************)
EXTENDS UserList, TLC

MCPages == {-1, 1, 2, 9, 12}
MCSizes == {0, 1, 3}

Symmetry == Permutations(Statuses)
=============================================================================
