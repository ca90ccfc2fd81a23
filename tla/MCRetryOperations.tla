------------------------- MODULE MCRetryOperations --------------------------
(***************************************************************************)
(* Small instances of RetryOperations: interchangeable sessions, keys, ids *)
(* and connections.                                                        *)
(***************************************************************************)
EXTENDS RetryOperations, TLC

Symmetry == Permutations(Sessions) \cup Permutations(Keys)
              \cup Permutations(Ids) \cup Permutations(Conns)

=============================================================================
