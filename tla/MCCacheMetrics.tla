--------------------------- MODULE MCCacheMetrics ---------------------------
(***************************************************************************)
(* A small instance of CacheMetrics.                                       *)
(***************************************************************************)
EXTENDS CacheMetrics, TLC

\* Goroutines, and keys, are interchangeable.
Symmetry == Permutations(Proc) \cup Permutations(Keys)
=============================================================================
