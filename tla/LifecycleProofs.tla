-------------------------- MODULE LifecycleProofs ---------------------------
(***************************************************************************)
(* Proofs about Lifecycle, for any expiry age and any length of time: what *)
(* expires was inactive, and the engine of a pass works on exactly those   *)
(* targets that its commit keeps.                                          *)
(***************************************************************************)
EXTENDS Lifecycle, TLAPS

Targets == [source : {"none", "manual", "automatic"}, added : Nat, last : Nat]

Passes ==
  [at : {"idle", "planned", "scanned"}, now : Nat, target : Targets, changes : Nat,
   found : BOOLEAN, updated : Nat, protected : BOOLEAN, engine : BOOLEAN,
   truth : Nat, quiet : BOOLEAN]

\* A session that is active is so now; no date is ahead of what it is of.
TypeInv ==
  /\ now \in 1 .. MaxTime /\ changes \in 0 .. MaxChanges
  /\ session \in [activity : Nat, active : BOOLEAN]
  /\ session.activity \in 1 .. now /\ (session.active => session.activity = now)
  /\ target \in Targets
  /\ target.added <= now /\ target.last <= session.activity
  /\ excluded \in BOOLEAN
  /\ Watched(target) => ~excluded
  /\ pass \in Passes /\ pass.now <= now

\* The plan of a pass: while its revision stands its target does, and what was
\* active when it was made was so at its clock.
PlanInv ==
  pass.at # "idle" =>
    /\ pass.changes <= changes
    /\ pass.changes = changes => pass.target = target
    /\ pass.truth \in 1 .. session.activity
    /\ ~pass.quiet => pass.truth = pass.now
    /\ pass.at = "planned" => ~pass.found /\ ~pass.protected /\ pass.updated = 0

\* What discovery has found: the date of a session is not older than its activity
\* when the pass began, and who is neither found nor protected had none since the cutoff.
FoundInv ==
  pass.at = "scanned" =>
    /\ pass.engine = EngineTarget(pass)
    /\ pass.updated <= session.activity
    /\ ~pass.found => pass.updated = 0
    /\ pass.found /\ ~pass.protected => pass.updated >= pass.truth
    /\ Watched(pass.target) /\ ~pass.found /\ ~pass.protected => pass.truth < Cutoff(pass)

IInv == TypeInv /\ PlanInv /\ FoundInv

-----------------------------------------------------------------------------
(* Operators of the model.                                                 *)

\* The later of two dates.
LEMMA MaxOfTwo ==
  ASSUME NEW a \in Nat, NEW b \in Nat
  PROVE  Max({a, b}) = IF a >= b THEN a ELSE b
<1>1. \E x \in {a, b} : \A y \in {a, b} : x >= y
  OBVIOUS
<1>2. Max({a, b}) \in {a, b} /\ Max({a, b}) >= a /\ Max({a, b}) >= b
  BY <1>1 DEF Max
<1> QED BY <1>2

\* inactivity_since with the maxima of two dates spelled out.
LEMMA InactivityCases ==
  ASSUME NEW t \in Targets, NEW u \in Nat
  PROVE  LET latest   == IF u >= t.last THEN u ELSE t.last
             activity == IF latest # 0 THEN latest ELSE t.added
         IN  InactivitySince(t, u) = IF t.source = "manual" /\ activity < t.added
                                     THEN t.added ELSE activity
<1>1. t.added \in Nat /\ t.last \in Nat
  BY DEF Targets
<1>2. Max({u, t.last}) = IF u >= t.last THEN u ELSE t.last
  BY <1>1, MaxOfTwo
<1> DEFINE activity == IF Max({u, t.last}) # 0 THEN Max({u, t.last}) ELSE t.added
<1>3. activity \in Nat
  BY <1>1, <1>2
<1>4. InactivitySince(t, u) = IF t.source = "manual" THEN Max({activity, t.added}) ELSE activity
  BY DEF InactivitySince
<1> HIDE DEF activity
<1>5. Max({activity, t.added}) = IF activity >= t.added THEN activity ELSE t.added
  BY <1>1, <1>3, MaxOfTwo
<1>6. InactivitySince(t, u) = IF t.source = "manual" /\ activity < t.added
                              THEN t.added ELSE activity
  BY <1>1, <1>3, <1>4, <1>5
<1> QED BY <1>2, <1>6 DEF activity

\* A recorded activity counts at least for itself.
LEMMA InactivityBound ==
  ASSUME NEW t \in Targets, NEW u \in Nat \ {0}
  PROVE  InactivitySince(t, u) \in Nat /\ InactivitySince(t, u) >= u
<1>1. t.added \in Nat /\ t.last \in Nat
  BY DEF Targets
<1> QED BY <1>1, InactivityCases

\* An entry that has taken over the date of a sighting is judged as the entry before
\* it together with that date.
LEMMA InactivitySighted ==
  ASSUME NEW p \in Passes
  PROVE  /\ Sighted(p) \in Targets
         /\ Sighted(p).source = p.target.source
         /\ Sighted(p).added = p.target.added
         /\ Sighted(p).last \in {p.target.last, p.updated}
         /\ InactivitySince(Sighted(p), 0) = InactivitySince(p.target, p.updated)
<1> DEFINE t == p.target
           u == p.updated
           s == Sighted(p)
           latest == IF u >= t.last THEN u ELSE t.last
<1>1. t \in Targets /\ u \in Nat /\ t.added \in Nat /\ t.last \in Nat
  BY DEF Passes, Targets
<1>2. Max({t.last, u}) = latest
  BY <1>1, MaxOfTwo
<1>3. s \in Targets /\ s.source = t.source /\ s.added = t.added /\ s.last = latest
  BY <1>1, <1>2 DEF Sighted, Targets
<1> HIDE DEF s, t, u
<1>4. InactivitySince(s, 0) = InactivitySince(t, u)
  BY <1>1, <1>3, InactivityCases
<1> QED BY <1>1, <1>3, <1>4 DEF s, t, u

\* The cutoff is not after the clock of the plan.
LEMMA CutoffBound ==
  ASSUME ClockAssumption, NEW p \in Passes
  PROVE  Cutoff(p) \in Nat /\ Cutoff(p) <= p.now
<1>1. p.now \in Nat /\ StaleAfter \in Nat
  BY DEF Passes, ClockAssumption
<1> QED BY <1>1 DEF Cutoff

\* What a commit writes: an entry without a date ahead of its time, and only of a
\* session that is not excluded.
LEMMA ReconciledType ==
  ASSUME ClockAssumption, IInv, pass.at = "scanned", pass.changes = changes
  PROVE  /\ Reconciled(pass) \in Targets
         /\ Reconciled(pass).added <= now /\ Reconciled(pass).last <= session.activity
         /\ Watched(Reconciled(pass)) => ~excluded
<1>1. /\ pass \in Passes /\ pass.now \in Nat /\ pass.now <= now /\ pass.updated \in Nat
      /\ pass.updated <= session.activity /\ pass.target = target /\ target \in Targets
      /\ now \in Nat /\ session.activity \in Nat
      /\ target.added <= now /\ target.last <= session.activity
      /\ Watched(target) => ~excluded
  BY DEF IInv, TypeInv, PlanInv, FoundInv, Passes, ClockAssumption
<1>2. /\ NoTarget \in Targets /\ NoTarget.added = 0 /\ NoTarget.last = 0
      /\ ~Watched(NoTarget)
  BY DEF NoTarget, Targets, Watched
<1>3. /\ Sighted(pass) \in Targets /\ Sighted(pass).added = target.added
      /\ Sighted(pass).last <= session.activity
  BY <1>1, InactivitySighted
<1> DEFINE new == [source |-> "automatic", added |-> pass.now, last |-> pass.updated]
<1>4. new \in Targets /\ new.added <= now /\ new.last <= session.activity
  BY <1>1 DEF Targets
<1> DEFINE t == CASE pass.found /\ ~excluded /\ Watched(pass.target) -> Sighted(pass)
                  [] Joins(pass) -> new
                  [] OTHER -> pass.target
<1>5. t \in {Sighted(pass), new, target} /\ (Watched(t) => ~excluded)
  <2>1. CASE pass.found /\ ~excluded /\ Watched(pass.target)
    <3>1. t = Sighted(pass)
      BY <2>1 DEF Joins
    <3> QED BY <2>1, <3>1
  <2>2. CASE ~(pass.found /\ ~excluded /\ Watched(pass.target)) /\ Joins(pass)
    <3>1. t = new
      BY <2>2
    <3> QED BY <2>2, <3>1 DEF Joins
  <2>3. CASE ~(pass.found /\ ~excluded /\ Watched(pass.target)) /\ ~Joins(pass)
    <3>1. t = target
      BY <1>1, <2>3
    <3> QED BY <1>1, <3>1
  <2> QED BY <2>1, <2>2, <2>3
<1>6. Reconciled(pass) \in {t, NoTarget}
  BY DEF Reconciled
<1> HIDE DEF t, new
<1>7. t \in Targets /\ t.added <= now /\ t.last <= session.activity
  BY <1>1, <1>3, <1>4, <1>5
<1> QED
  <2>1. CASE Reconciled(pass) = t
    BY <1>5, <1>7, <2>1
  <2>2. CASE Reconciled(pass) = NoTarget
    BY <1>1, <1>2, <2>2
  <2> QED BY <1>6, <2>1, <2>2

\* A watched target that its plan is still right about is kept by the commit if and
\* only if the engine of the pass worked on it.
LEMMA EngineAgrees ==
  ASSUME ClockAssumption, IInv, pass.at = "scanned", pass.changes = changes, Watched(pass.target)
  PROVE  Watched(Reconciled(pass)) <=> EngineTarget(pass)
<1>1. /\ pass \in Passes /\ pass.target = target /\ target \in Targets /\ ~excluded
      /\ pass.updated \in Nat /\ (~pass.found => pass.updated = 0)
  BY DEF IInv, TypeInv, PlanInv, FoundInv, Passes
<1> DEFINE t == IF pass.found THEN Sighted(pass) ELSE pass.target
<1>2. ~Joins(pass)
  BY DEF Joins
<1>3. /\ Watched(t)
      /\ InactivitySince(t, 0) = InactivitySince(pass.target, pass.updated)
  <2>1. CASE pass.found
    BY <1>1, <2>1, InactivitySighted DEF Watched
  <2>2. CASE ~pass.found
    BY <1>1, <2>2
  <2> QED BY <2>1, <2>2
<1>4. Reconciled(pass) =
        IF Watched(t) /\ (pass.protected \/ InactivitySince(t, 0) >= Cutoff(pass))
        THEN t ELSE NoTarget
  <2>1. CASE pass.found
    BY <1>1, <1>2, <2>1 DEF Reconciled
  <2>2. CASE ~pass.found
    BY <1>1, <1>2, <2>2 DEF Reconciled
  <2> QED BY <2>1, <2>2
<1> HIDE DEF t
<1>5. ~Watched(NoTarget)
  BY DEF Watched, NoTarget
<1> QED BY <1>3, <1>4, <1>5 DEF EngineTarget

-----------------------------------------------------------------------------
(* The steps keep the invariant.                                           *)

\* A session that was active long ago, an empty watchlist, no pass.
LEMMA InitInv ==
  ASSUME ClockAssumption, Init
  PROVE  IInv
<1>1. NoTarget \in Targets /\ NoTarget.added = 0 /\ NoTarget.last = 0 /\ ~Watched(NoTarget)
  BY DEF NoTarget, Targets, Watched
<1>2. Idle \in Passes /\ Idle.at = "idle" /\ Idle.now = 0
  BY <1>1 DEF Idle, Passes
<1>3. /\ session \in [activity : Nat, active : BOOLEAN]
      /\ session.activity = 1 /\ ~session.active /\ now = 1
  BY DEF Init
<1>4. TypeInv
  <2>1. excluded \in BOOLEAN /\ ~excluded /\ target = NoTarget /\ pass = Idle /\ changes = 0
    BY DEF Init
  <2>2. session.activity \in 1 .. now /\ (session.active => session.activity = now)
    BY <1>3
  <2> QED BY <1>1, <1>2, <1>3, <2>1, <2>2 DEF ClockAssumption, TypeInv
<1> QED BY <1>2, <1>4 DEF Init, IInv, PlanInv, FoundInv

\* The clock goes on, the session is used: its activity only grows.
LEMMA UserKeepsInv ==
  ASSUME ClockAssumption, IInv, Tick \/ \E goesOn \in BOOLEAN : Activity(goesOn)
  PROVE  IInv'
<1>1. /\ now \in 1 .. MaxTime /\ MaxTime \in Nat
      /\ session \in [activity : Nat, active : BOOLEAN] /\ session.activity \in 1 .. now
      /\ session.active => session.activity = now
  BY DEF IInv, TypeInv, ClockAssumption
<1>2. /\ now' \in 1 .. MaxTime /\ now' >= now
      /\ session' \in [activity : Nat, active : BOOLEAN]
      /\ session'.activity \in 1 .. now' /\ session'.activity >= session.activity
      /\ session'.active => session'.activity = now'
      /\ UNCHANGED <<target, excluded, changes, pass>>
  <2>1. CASE Tick
    <3>1. CASE session.active
      BY <1>1, <2>1, <3>1 DEF Tick
    <3>2. CASE ~session.active
      BY <1>1, <2>1, <3>2 DEF Tick
    <3> QED BY <3>1, <3>2
  <2>2. ASSUME NEW goesOn \in BOOLEAN, Activity(goesOn)
        PROVE  <1>2
    BY <1>1, <2>2 DEF Activity
  <2> QED BY <2>1, <2>2
<1>3. TypeInv'
  <2>1. /\ target \in Targets /\ target.added <= now /\ target.last <= session.activity
        /\ target.added \in Nat /\ target.last \in Nat
        /\ pass \in Passes /\ pass.now <= now /\ pass.now \in Nat
    BY DEF IInv, TypeInv, Targets, Passes
  <2>2. target.added <= now' /\ target.last <= session'.activity /\ pass.now <= now'
    BY <1>1, <1>2, <2>1
  <2> QED BY <1>2, <2>1, <2>2 DEF IInv, TypeInv, Watched
<1>4. PlanInv'
  BY <1>1, <1>2 DEF IInv, TypeInv, PlanInv, Passes
<1>5. FoundInv'
  <2>1. EngineTarget(pass)' = EngineTarget(pass) /\ Cutoff(pass)' = Cutoff(pass)
    BY <1>2 DEF EngineTarget, Cutoff, Watched, InactivitySince
  <2>2. pass.updated \in Nat
    BY DEF IInv, TypeInv, Passes
  <2> QED BY <1>1, <1>2, <2>1, <2>2 DEF IInv, FoundInv, Watched
<1> QED BY <1>3, <1>4, <1>5 DEF IInv

\* A mutation voids the plan of the pass under way.
LEMMA MutationKeepsInv ==
  ASSUME ClockAssumption, IInv, Add \/ Remove \/ Other
  PROVE  IInv'
<1>1. /\ now \in Nat /\ changes \in Nat /\ target \in Targets /\ excluded \in BOOLEAN
      /\ target.added <= now /\ target.last <= session.activity
      /\ session.activity \in Nat
      /\ Watched(target) => ~excluded
  BY DEF IInv, TypeInv, ClockAssumption
<1>2. /\ changes' = changes + 1 /\ changes' \in 0 .. MaxChanges
      /\ UNCHANGED <<now, session, pass>>
  BY <1>1 DEF Add, Remove, Other, ClockAssumption
<1>3. /\ target' \in Targets /\ target'.added <= now /\ target'.last <= session.activity
      /\ excluded' \in BOOLEAN
      /\ Watched(target') => ~excluded'
  <2>1. CASE Add
    <3>1. /\ target' = [target EXCEPT !.source = "manual", !.added = now]
          /\ excluded' = FALSE
      BY <2>1 DEF Add
    <3>2. target' \in Targets
      BY <1>1, <3>1 DEF Targets
    <3>3. target'.added = now /\ target'.last = target.last
      BY <1>1, <3>1 DEF Targets
    <3>4. excluded' \in BOOLEAN /\ ~excluded'
      BY <3>1
    <3> QED BY <1>1, <1>2, <3>2, <3>3, <3>4
  <2>2. CASE Remove
    BY <1>1, <2>2 DEF Remove, NoTarget, Targets, Watched
  <2>3. CASE Other
    BY <1>1, <2>3 DEF Other
  <2> QED BY <2>1, <2>2, <2>3
<1>4. TypeInv'
  BY <1>2, <1>3 DEF IInv, TypeInv, Watched
<1>5. PlanInv'
  <2>1. pass.changes \in Nat
    BY DEF IInv, TypeInv, Passes
  <2> QED BY <1>1, <1>2, <2>1 DEF IInv, PlanInv
<1>6. FoundInv'
  <2>1. EngineTarget(pass)' = EngineTarget(pass) /\ Cutoff(pass)' = Cutoff(pass)
    BY <1>2 DEF EngineTarget, Cutoff, Watched, InactivitySince
  <2> QED BY <1>2, <2>1 DEF IInv, FoundInv, Watched
<1> QED BY <1>4, <1>5, <1>6 DEF IInv

\* The plan is of this moment.
LEMMA PrepareInv ==
  ASSUME ClockAssumption, IInv, Prepare
  PROVE  IInv'
<1> DEFINE p == [Idle EXCEPT !.at = "planned", !.now = now, !.target = target,
                             !.changes = changes, !.truth = session.activity,
                             !.quiet = ~session.active]
<1>1. pass' = p /\ UNCHANGED <<now, session, target, excluded, changes>>
  BY DEF Prepare
<1>2. /\ now \in Nat /\ changes \in Nat /\ target \in Targets
      /\ session.activity \in 1 .. now /\ session.active \in BOOLEAN
      /\ session.active => session.activity = now
  BY DEF IInv, TypeInv, ClockAssumption
<1>3. /\ p.at = "planned" /\ p.now = now /\ p.target = target /\ p.changes = changes
      /\ p.truth = session.activity /\ (~p.quiet => session.active)
      /\ ~p.found /\ ~p.protected /\ p.updated = 0
  BY DEF Idle
<1>4. p \in Passes
  <2>1. Idle \in Passes
    BY DEF Idle, Passes, NoTarget, Targets
  <2>2. (~session.active) \in BOOLEAN /\ session.activity \in Nat
    BY <1>2
  <2> QED BY <1>2, <2>1, <2>2 DEF Passes
<1> HIDE DEF p
<1>5. TypeInv'
  BY <1>1, <1>2, <1>3, <1>4 DEF IInv, TypeInv, Watched
<1>6. PlanInv'
  BY <1>1, <1>2, <1>3 DEF PlanInv
<1>7. FoundInv'
  BY <1>1, <1>3 DEF FoundInv
<1> QED BY <1>5, <1>6, <1>7 DEF IInv

\* What discovery reports is the date of this moment, no date, or nothing; the
\* engine is given the targets that follow from it.
LEMMA DiscoverInv ==
  ASSUME ClockAssumption, IInv, pass.at = "planned",
         NEW found \in BOOLEAN, NEW updated \in Nat, NEW protected \in BOOLEAN,
         NEW p \in Passes,
         p.now = pass.now, p.target = pass.target, p.changes = pass.changes,
         p.truth = pass.truth, p.quiet = pass.quiet,
         p.found = found, p.updated = updated, p.protected = protected,
         Found(p),
         UNCHANGED <<now, session, target, excluded, changes>>,
         updated <= session.activity,
         ~found => updated = 0,
         found /\ ~protected => updated >= pass.truth,
         Watched(pass.target) /\ ~found /\ ~protected => pass.truth < Cutoff(pass)
  PROVE  IInv'
<1> DEFINE q == [p EXCEPT !.at = "scanned", !.engine = EngineTarget(p)]
<1>1. pass' = q
  BY DEF Found
<1>2. EngineTarget(p) \in BOOLEAN
  BY DEF EngineTarget, Watched
<1>3. /\ q \in Passes /\ q.at = "scanned" /\ q.engine = EngineTarget(p)
      /\ q.now = p.now /\ q.target = p.target /\ q.changes = p.changes
      /\ q.truth = p.truth /\ q.quiet = p.quiet
      /\ q.found = found /\ q.updated = updated /\ q.protected = protected
  BY <1>2 DEF Passes
<1> HIDE DEF q
<1>4. EngineTarget(q) = EngineTarget(p) /\ Cutoff(q) = Cutoff(pass)
  BY <1>3 DEF EngineTarget, Cutoff
<1>5. TypeInv'
  BY <1>1, <1>3 DEF IInv, TypeInv, Watched
<1>6. PlanInv'
  BY <1>1, <1>3 DEF IInv, PlanInv
<1>7. FoundInv'
  <2>1. EngineTarget(pass)' = EngineTarget(q) /\ Cutoff(pass)' = Cutoff(q)
    BY <1>1 DEF EngineTarget, Cutoff, Watched, InactivitySince
  <2>2. Watched(pass.target)' <=> Watched(pass.target)
    BY <1>1, <1>3 DEF Watched
  <2> QED BY <1>1, <1>3, <1>4, <2>1, <2>2 DEF FoundInv
<1> QED BY <1>5, <1>6, <1>7 DEF IInv

\* The ways in which discovery ends.
LEMMA ScanKeepsInv ==
  ASSUME ClockAssumption, IInv,
         (\E dated \in BOOLEAN : Discover(dated)) \/ DiscoverAbsent \/ DiscoverFails
  PROVE  IInv'
<1>1. /\ pass.at = "planned" /\ pass \in Passes
      /\ UNCHANGED <<now, session, target, excluded, changes>>
  BY DEF Discover, DiscoverAbsent, DiscoverFails, IInv, TypeInv
<1>2. /\ session.activity \in Nat /\ session.active \in BOOLEAN
      /\ pass.truth \in 1 .. session.activity
  BY <1>1 DEF IInv, TypeInv, PlanInv
<1>3. ASSUME NEW dated \in BOOLEAN, Discover(dated)
      PROVE  IInv'
  <2> DEFINE u == IF dated THEN session.activity ELSE 0
             protected == session.active \/ ~dated
             p == [pass EXCEPT !.found = TRUE, !.updated = u, !.protected = protected]
  <2>1. Found(p)
    BY <1>3 DEF Discover
  <2>2. /\ u \in Nat /\ u <= session.activity /\ protected \in BOOLEAN
        /\ ~protected => u >= pass.truth
    BY <1>2
  <2> HIDE DEF u, protected
  <2>3. /\ p \in Passes /\ p.now = pass.now /\ p.target = pass.target
        /\ p.changes = pass.changes /\ p.truth = pass.truth /\ p.quiet = pass.quiet
        /\ p.found = TRUE /\ p.updated = u /\ p.protected = protected
    BY <1>1, <2>2 DEF Passes
  <2> HIDE DEF p
  <2> QED BY <1>1, <2>1, <2>2, <2>3, DiscoverInv
<1>4. CASE DiscoverAbsent
  <2>1. pass.truth < Cutoff(pass) /\ Found(pass)
    BY <1>4 DEF DiscoverAbsent
  <2>2. /\ ~pass.found /\ ~pass.protected /\ pass.updated = 0
        /\ pass.found \in BOOLEAN /\ pass.protected \in BOOLEAN
    BY <1>1 DEF IInv, PlanInv, Passes
  <2> QED BY <1>1, <1>2, <2>1, <2>2, DiscoverInv
<1>5. CASE DiscoverFails
  <2> DEFINE protected == Watched(pass.target)
             p == [pass EXCEPT !.protected = protected]
  <2>1. Found(p)
    BY <1>5 DEF DiscoverFails
  <2>2. ~pass.found /\ pass.updated = 0 /\ pass.found \in BOOLEAN
    BY <1>1 DEF IInv, PlanInv, Passes
  <2>3. protected \in BOOLEAN /\ (Watched(pass.target) => protected)
    BY DEF Watched
  <2> HIDE DEF protected
  <2>4. /\ p \in Passes /\ p.now = pass.now /\ p.target = pass.target
        /\ p.changes = pass.changes /\ p.truth = pass.truth /\ p.quiet = pass.quiet
        /\ p.found = pass.found /\ p.updated = 0 /\ p.protected = protected
    BY <1>1, <2>2, <2>3 DEF Passes
  <2> HIDE DEF p
  <2> QED BY <1>1, <1>2, <2>1, <2>2, <2>3, <2>4, DiscoverInv
<1> QED BY <1>3, <1>4, <1>5

\* A pass ends; its commit writes the list if the plan still stands.
LEMMA EndKeepsInv ==
  ASSUME ClockAssumption, IInv, Commit \/ Drop
  PROVE  IInv'
<1>1. /\ UNCHANGED <<now, session, excluded, changes>> /\ pass' = Idle
      /\ \/ UNCHANGED target
         \/ /\ pass.at = "scanned" /\ pass.changes = changes
            /\ target' = Reconciled(pass)
  BY DEF Commit, Drop
<1>2. Idle \in Passes /\ Idle.at = "idle" /\ Idle.now = 0
  BY DEF Idle, Passes, NoTarget, Targets
<1>3. /\ target' \in Targets /\ target'.added <= now /\ target'.last <= session.activity
      /\ Watched(target') => ~excluded
  <2>1. CASE UNCHANGED target
    BY <2>1 DEF IInv, TypeInv
  <2>2. CASE /\ pass.at = "scanned" /\ pass.changes = changes
             /\ target' = Reconciled(pass)
    BY <2>2, ReconciledType
  <2> QED BY <1>1, <2>1, <2>2
<1>4. now \in Nat
  BY DEF IInv, TypeInv, ClockAssumption
<1>5. TypeInv'
  BY <1>1, <1>2, <1>3, <1>4 DEF IInv, TypeInv, Watched
<1>6. PlanInv' /\ FoundInv'
  BY <1>1, <1>2 DEF PlanInv, FoundInv
<1> QED BY <1>5, <1>6 DEF IInv

\* Every step keeps the invariant.
LEMMA NextInv ==
  ASSUME ClockAssumption, IInv, [Next]_vars
  PROVE  IInv'
<1>1. CASE UNCHANGED vars
  BY <1>1 DEF vars, IInv, TypeInv, PlanInv, FoundInv, Watched, EngineTarget, Cutoff,
              InactivitySince
<1>2. CASE Next
  BY <1>2, UserKeepsInv, MutationKeepsInv, PrepareInv, ScanKeepsInv, EndKeepsInv DEF Next
<1> QED BY <1>1, <1>2

\* The invariant holds in every behaviour.
LEMMA Invariance ==
  ASSUME ClockAssumption
  PROVE  Spec => []IInv
<1>1. Init => IInv
  BY InitInv
<1>2. IInv /\ [Next]_vars => IInv'
  BY NextInv
<1> QED BY <1>1, <1>2, PTL DEF Spec

-----------------------------------------------------------------------------
(* The theorems.                                                           *)

\* The session, its entry and the pass keep their types; no date is ahead of the
\* clock, and no recorded activity ahead of the real one.
THEOREM TypeCorrect ==
  ASSUME ClockAssumption
  PROVE  Spec => []TypeOK
<1>1. IInv => TypeOK
  <2> SUFFICES ASSUME IInv PROVE TypeOK
    OBVIOUS
  <2>1. target.added \in 0 .. now /\ target.last \in 0 .. session.activity
    BY DEF IInv, TypeInv, Targets
  <2>2. pass.at \in {"idle", "planned", "scanned"} /\ pass.now \in 0 .. now
    BY DEF IInv, TypeInv, Passes
  <2>3. target.source \in {"none", "manual", "automatic"}
    BY DEF IInv, TypeInv, Targets
  <2> QED BY <2>1, <2>2, <2>3 DEF IInv, TypeInv, TypeOK
<1> QED BY <1>1, Invariance, PTL

\* Only a commit takes a session off the watchlist that was not removed by hand, and
\* what it takes off was quiet and without activity since the cutoff.
LEMMA ExpiryIsOfInactive ==
  ASSUME ClockAssumption, IInv, [Next]_vars,
         Watched(target), ~Watched(target'), target' # target, excluded' = excluded
  PROVE  pass.quiet /\ pass.truth < Cutoff(pass)
<1>1. ~excluded
  BY DEF IInv, TypeInv
<1>2. Commit /\ pass.at = "scanned" /\ pass.changes = changes /\ target' = Reconciled(pass)
  <2>1. ~Add
    BY DEF Add, Watched, IInv, TypeInv, Targets
  <2>2. ~Remove
    BY <1>1 DEF Remove
  <2>3. /\ ~Tick /\ ~Other /\ ~Prepare /\ ~Drop /\ ~DiscoverAbsent /\ ~DiscoverFails
        /\ \A b \in BOOLEAN : ~Activity(b) /\ ~Discover(b)
        /\ ~UNCHANGED vars
    BY DEF Tick, Other, Prepare, Drop, DiscoverAbsent, DiscoverFails, Activity, Discover, vars
  <2>4. Commit
    BY <2>1, <2>2, <2>3 DEF Next
  <2> QED BY <2>4 DEF Commit
<1>3. /\ pass \in Passes /\ pass.target = target /\ Watched(pass.target)
      /\ pass.truth \in Nat /\ pass.updated \in Nat /\ pass.truth >= 1
      /\ ~pass.quiet => pass.truth = pass.now
  BY <1>2 DEF IInv, TypeInv, PlanInv, Passes
<1>4. ~EngineTarget(pass)
  BY <1>2, <1>3, EngineAgrees
<1>5. ~pass.protected /\ ~(InactivitySince(pass.target, pass.updated) >= Cutoff(pass))
  BY <1>3, <1>4 DEF EngineTarget
<1>6. Cutoff(pass) \in Nat /\ Cutoff(pass) <= pass.now
  BY <1>3, CutoffBound
<1>7. pass.truth < Cutoff(pass)
  <2>1. CASE pass.found
    <3>1. pass.updated >= pass.truth /\ pass.updated \in Nat \ {0}
      BY <1>2, <1>3, <1>5, <2>1 DEF IInv, FoundInv
    <3>2. pass.target \in Targets
      BY <1>3 DEF Passes
    <3>3. /\ InactivitySince(pass.target, pass.updated) \in Nat
          /\ InactivitySince(pass.target, pass.updated) >= pass.updated
      BY <3>1, <3>2, InactivityBound
    <3> QED BY <1>3, <1>5, <1>6, <3>1, <3>3
  <2>2. CASE ~pass.found
    BY <1>2, <1>3, <1>5, <2>2 DEF IInv, FoundInv
  <2> QED BY <2>1, <2>2
<1>8. pass.quiet
  <2>1. pass.now \in Nat /\ pass.quiet \in BOOLEAN
    BY <1>3 DEF Passes
  <2> QED BY <1>3, <1>6, <1>7, <2>1
<1> QED BY <1>7, <1>8

\* "Protects long-running work, uncertain activity and sessions already being observed
\* when their provider becomes unavailable": only a session that was quiet and had no
\* activity since the cutoff expires, whatever discovery misses or fails to date.
THEOREM InactiveExpireOnly ==
  ASSUME ClockAssumption
  PROVE  Spec => OnlyInactiveExpire
<1>1. IInv /\ [Next]_vars
        => [Watched(target) /\ ~Watched(target') /\ target' # target /\ excluded' = excluded
              => pass.quiet /\ pass.truth < Cutoff(pass)]_vars
  BY ExpiryIsOfInactive
<1> QED BY <1>1, Invariance, PTL DEF Spec, OnlyInactiveExpire

\* recent_sessions filters the targets of the engine, WatchlistStore::reconcile those
\* of the list: the two agree on every target of a plan that is committed.
THEOREM EngineMatchesCommit ==
  ASSUME ClockAssumption
  PROVE  Spec => EngineScansWhatStays
<1>1. IInv => [Commits /\ pass'.at = "idle" /\ target' = Reconciled(pass)
                /\ Watched(pass.target)
                 => (pass.engine <=> Watched(Reconciled(pass)))]_vars
  <2> SUFFICES ASSUME IInv, Commits, Watched(pass.target)
               PROVE  pass.engine <=> Watched(Reconciled(pass))
    OBVIOUS
  <2>1. pass.at = "scanned" /\ pass.changes = changes /\ pass.engine = EngineTarget(pass)
    BY DEF Commits, IInv, FoundInv
  <2>2. Watched(Reconciled(pass)) <=> EngineTarget(pass)
    BY <2>1, EngineAgrees
  <2> QED BY <2>1, <2>2
<1> QED BY <1>1, Invariance, PTL DEF Spec, EngineScansWhatStays

=============================================================================
