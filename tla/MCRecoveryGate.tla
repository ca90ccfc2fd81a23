--------------------------- MODULE MCRecoveryGate ---------------------------
(***************************************************************************)
(* Small instances of RecoveryGate: interchangeable sessions, retries and  *)
(* connections.                                                            *)
(***************************************************************************)
EXTENDS RecoveryGate, TLC

Symmetry == Permutations(Sessions) \cup Permutations(Ops) \cup Permutations(Conns)

=============================================================================
