--------------------------- MODULE ResumeContract ---------------------------
(***************************************************************************)
(* What a caller of Provider::resume may rely on, and Recovery does: a     *)
(* call ends with one verdict, a receipt means that the recovery turn      *)
(* exists, a refusal means that it does not and never will, an uncertain   *)
(* end leaves it open, and no call starts more than one turn.              *)
(***************************************************************************)
EXTENDS Naturals

VARIABLES
  open,     \* a call is under way
  verdict,  \* how the latest call ended, "none" before it has
  turns     \* turns that the latest call has started

vars == <<open, verdict, turns>>

Verdicts == {"none", "receipt", "uncertain", "refused"}

Init == open = FALSE /\ verdict = "none" /\ turns = 0

Begin == ~open /\ open' = TRUE /\ verdict' = "none" /\ turns' = 0

\* A turn may start during the call, and after it only when nobody knows.
Start ==
  /\ open \/ verdict = "uncertain"
  /\ turns = 0
  /\ turns' = 1
  /\ UNCHANGED <<open, verdict>>

End(v) ==
  /\ open
  /\ v = "receipt" => turns = 1
  /\ v = "refused" => turns = 0
  /\ open' = FALSE
  /\ verdict' = v
  /\ UNCHANGED turns

Next == Begin \/ Start \/ \E v \in Verdicts \ {"none"} : End(v)

Spec == Init /\ [][Next]_vars

=============================================================================
