----------------------------- MODULE MCRecovery -----------------------------
(***************************************************************************)
(* Small instances of Recovery.  Every bound is reached by the interesting *)
(* cases: see README.md.                                                   *)
(***************************************************************************)
EXTENDS Recovery

=============================================================================
