--------------------------- MODULE MCRegisterLock ---------------------------
(***************************************************************************)
(* Small instances of RegisterLock.  One of them is checked for liveness   *)
(* and the other is tiny, so no symmetry is declared.                      *)
(***************************************************************************)
EXTENDS RegisterLock

CONSTANTS bob, Bob  \* two spellings that SQL holds equal

\* The collation: every name has the weight of bob.
MCWeight == [n \in Names |-> bob]
=============================================================================
