------------------------------ MODULE Policies ------------------------------
(***************************************************************************)
(* The policy for one condition: what conditions.rs defines, what the user *)
(* has set of it, field by field (config.policies.set), what the two       *)
(* resolve to, and the delay that the engine derives from that.            *)
(***************************************************************************)
EXTENDS Naturals, FiniteSetsExt

CONSTANTS
  Limit,     \* u64::MAX
  Delays,    \* bound: delays that a client may send
  Attempts   \* bound: attempts up to which delays are looked at

\* A delay is a u64.  What the proofs use of powers of two is assumed here, where TLC
\* evaluates it, as they cannot be reasoned about by induction.
DelayAssumption ==
  /\ Limit \in Nat /\ 600 <= Limit /\ Attempts \in Nat
  /\ Delays \subseteq 0 .. Limit
  /\ \A a \in 0 .. Attempts : 2 ^ a \in Nat \ {0} /\ 2 ^ (a + 1) \in Nat /\ 2 ^ a <= 2 ^ (a + 1)

VARIABLES
  definition,  \* of the condition
  custom,      \* the override of it in the settings, if there is one
  request      \* an update that was received and is not yet answered

vars == <<definition, custom, request>>

\* Option<T>: a set with at most one member.
Option(S) == {{}} \cup {{v} : v \in S}
Or(option, default) == IF option = {} THEN default ELSE CHOOSE v \in option : TRUE

Retry(initial, max) == [action |-> "retry", initial |-> initial, max |-> max, attempts |-> 5]
Skip == [action |-> "skip", initial |-> 0, max |-> 0, attempts |-> 0]
RetryDefaults == Retry(5, 120)

\* What differs among the conditions.
Definitions ==
  {Retry(5, 120), Retry(10, 180), Retry(15, 300), Retry(30, 600), Retry(10, 300), Skip}

Override == [action : Option({"retry", "skip"}), backoff : Option({"fixed"}),
             initial : Option(Delays), max : Option(Delays), attempts : Option({2})]
Nothing == [action |-> {}, backoff |-> {}, initial |-> {}, max |-> {}, attempts |-> {}]

Quantities == {"initial", "max", "attempts"}

-----------------------------------------------------------------------------
\* policy: a condition that is skipped by default is retried with the defaults of
\* a failed connection.
Resolved(d, option) ==
  LET own == Or(option, Nothing)
      action == Or(own.action, d.action)
      default(f) == IF action = "skip" THEN 0
                    ELSE IF d[f] > 0 THEN d[f] ELSE RetryDefaults[f]
  IN  [action |-> action,
       backoff |-> IF action = "retry" THEN Or(own.backoff, "exponential") ELSE "none",
       initial |-> Or(own.initial, default("initial")),
       max |-> Or(own.max, default("max")),
       attempts |-> Or(own.attempts, default("attempts"))]

\* validate_override
ValidOverride(o) ==
  /\ \A f \in Quantities : 0 \notin o[f]
  /\ \A i \in o.initial, m \in o.max : i <= m
  /\ o.action = {"skip"} => o.backoff = {} /\ \A f \in Quantities : o[f] = {}

\* Mutant: what an override resolves to is not looked at.
ValidAlone(d, o) == ValidOverride(o)
\* validate
Valid(d, o) ==
  /\ ValidOverride(o)
  /\ LET p == Resolved(d, {o})
     IN  p.action = "retry" => p.initial > 0 /\ p.initial <= p.max /\ p.attempts > 0

\* Fields that the update does not name stay, unless the condition is to be
\* skipped.
Merged(old, update) ==
  IF update.action = {"skip"} THEN update
  ELSE [f \in DOMAIN old |-> IF update[f] = {} THEN old[f] ELSE update[f]]

-----------------------------------------------------------------------------
Init ==
  /\ definition \in Definitions
  /\ custom = {}
  /\ request = {}

Request(update) ==
  /\ request = {}
  /\ request' = {update}
  /\ UNCHANGED <<definition, custom>>

\* config.policies.set; an invalid policy is refused by save_settings.
Set ==
  \E update \in request :
    LET entry == Merged(Or(custom, Nothing), update)
    IN  /\ custom' = IF Valid(definition, entry) THEN {entry} ELSE custom
        /\ request' = {}
        /\ UNCHANGED definition

\* config.policies.reset
Reset ==
  /\ request = {} /\ custom # {}
  /\ custom' = {}
  /\ UNCHANGED <<definition, request>>

Next == (\E update \in Override : Request(update)) \/ Set \/ Reset

Spec == Init /\ [][Next]_vars

-----------------------------------------------------------------------------
\* retry_delay_seconds, with the saturating arithmetic of u64.
Saturated(n) == Min({n, Limit})
Delay(p, attempts, retryAfter) ==
  LET configured == IF p.backoff = "fixed" THEN p.initial
                    ELSE Min({Saturated(p.initial * Saturated(2 ^ attempts)), p.max})
  IN  Max({configured, retryAfter})

-----------------------------------------------------------------------------
(* Properties.                                                             *)

Policy == Resolved(definition, custom)

\* The type of the override and of the policy in force.
TypeOK ==
  /\ definition \in Definitions /\ custom \in Option(Override) /\ request \in Option(Override)
  /\ Policy.action \in {"retry", "skip"}
  /\ Policy.action = "skip" <=> Policy.backoff = "none"

\* "Every retry is delayed and bounded" (README.md:250), whatever sequence of
\* partial updates has led to the policy in force: a retry is never immediate, a
\* delay is between the initial and the longest one, or what the provider asked
\* for, it does not become shorter with more attempts, also where the power of two
\* does not fit its type, and attempts are limited.
DelaysSound ==
  Policy.action = "retry" =>
    /\ Policy.attempts > 0
    /\ \A a \in 0 .. Attempts, after \in {0, Limit} :
         LET delay == Delay(Policy, a, after)
         IN  /\ 1 <= delay /\ Policy.initial <= delay
             /\ delay <= Max({Policy.max, after})
             /\ delay <= Delay(Policy, a + 1, after)

=============================================================================
