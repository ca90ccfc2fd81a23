----------------------------- MODULE Lifecycle ------------------------------
(***************************************************************************)
(* How a session gets onto the watchlist and leaves it: by hand, through   *)
(* the activity that discovery reports, through expiry.  One session: a    *)
(* scan decides about each by itself (module RecoveryGate has the sets and *)
(* the sends).  What discovery reports is what the provider knew at that   *)
(* moment, or less: a date may be missing (module Transcript), a page may  *)
(* end before an old session, a provider may fail.                         *)
(***************************************************************************)
EXTENDS Naturals, FiniteSetsExt

CONSTANTS
  MaxTime,     \* bound: the clock
  StaleAfter,  \* lifecycle.stale_after_seconds
  MaxChanges   \* bound: mutations of the control plane

VARIABLES
  now,       \* the clock
  session,   \* activity: when its latest turn was active; active: it still is
  target,    \* the entry of the watchlist
  excluded,  \* the session is among the exclusions
  changes,   \* mutations so far: the revision
  pass       \* the pass under way: its plan, what discovery has found, and (history)
             \* the activity when it began

vars == <<now, session, target, excluded, changes, pass>>

ClockAssumption == MaxTime \in Nat \ {0} /\ StaleAfter \in Nat /\ MaxChanges \in Nat

\* WatchTarget: no date is 0.
NoTarget == [source |-> "none", added |-> 0, last |-> 0]
Watched(t) == t.source # "none"

\* inactivity_since: an automatic target lives on activity, one that was added by
\* hand also on that.
InactivitySince(t, observed) ==
  LET activity == IF Max({observed, t.last}) # 0 THEN Max({observed, t.last}) ELSE t.added
  IN  IF t.source = "manual" THEN Max({activity, t.added}) ELSE activity

Idle == [at |-> "idle", now |-> 0, target |-> NoTarget, changes |-> 0,
         found |-> FALSE, updated |-> 0, protected |-> FALSE, engine |-> FALSE,
         truth |-> 0, quiet |-> FALSE]

Init ==
  /\ now = 1
  /\ session = [activity |-> 1, active |-> FALSE]
  /\ target = NoTarget /\ excluded = FALSE
  /\ changes = 0
  /\ pass = Idle

-----------------------------------------------------------------------------
(* The clock and the user of the session (external).                       *)

Tick ==
  /\ now < MaxTime
  /\ now' = now + 1
  /\ session' = IF session.active THEN [session EXCEPT !.activity = now + 1] ELSE session
  /\ UNCHANGED <<target, excluded, changes, pass>>

Activity(goesOn) ==
  /\ session' = [activity |-> now, active |-> goesOn]
  /\ UNCHANGED <<now, target, excluded, changes, pass>>

-----------------------------------------------------------------------------
(* Mutations of the control plane.                                         *)

\* WatchlistStore::add
Add ==
  /\ changes < MaxChanges /\ changes' = changes + 1
  /\ target' = [target EXCEPT !.source = "manual", !.added = now]
  /\ excluded' = FALSE
  /\ UNCHANGED <<now, session, pass>>

\* WatchlistStore::remove
Remove ==
  /\ changes < MaxChanges /\ changes' = changes + 1
  /\ target' = NoTarget
  /\ excluded' = TRUE
  /\ UNCHANGED <<now, session, pass>>

\* Any other mutation: the plan under way is void.
Other ==
  /\ changes < MaxChanges /\ changes' = changes + 1
  /\ UNCHANGED <<now, session, target, excluded, pass>>

-----------------------------------------------------------------------------
(* A pass.                                                                 *)

\* prepare_reconcile
Prepare ==
  /\ pass.at = "idle"
  /\ pass' = [Idle EXCEPT !.at = "planned", !.now = now, !.target = target, !.changes = changes,
                          !.truth = session.activity, !.quiet = ~session.active]
  /\ UNCHANGED <<now, session, target, excluded, changes>>

Cutoff(p) == IF p.now > StaleAfter THEN p.now - StaleAfter ELSE 0

\* Mutant: the engine goes by the dates alone.
EngineTargetUnprotected(p) ==
  Watched(p.target) /\ InactivitySince(p.target, p.updated) >= Cutoff(p)
\* The targets that the engine of a pass works on.
EngineTarget(p) ==
  /\ Watched(p.target)
  /\ p.protected \/ InactivitySince(p.target, p.updated) >= Cutoff(p)

Found(p) == pass' = [p EXCEPT !.at = "scanned", !.engine = EngineTarget(p)]

\* reconcile_engine and recent_sessions: the session is reported with its date or
\* without one.
Discover(dated) ==
  /\ pass.at = "planned"
  /\ Found([pass EXCEPT !.found = TRUE, !.updated = IF dated THEN session.activity ELSE 0,
                        !.protected = session.active \/ ~dated])
  /\ UNCHANGED <<now, session, target, excluded, changes>>

\* recent_sessions ends with the page that shows an activity before the cutoff; an
\* old session that comes to life meanwhile may move ahead of the pages already read.
DiscoverAbsent ==
  /\ pass.at = "planned"
  /\ pass.truth < Cutoff(pass)
  /\ Found(pass)
  /\ UNCHANGED <<now, session, target, excluded, changes>>

\* Mutant: a provider that fails has no sessions.
DiscoverFailsEmpty ==
  /\ pass.at = "planned"
  /\ Found(pass)
  /\ UNCHANGED <<now, session, target, excluded, changes>>
\* A provider that fails protects its targets.
DiscoverFails ==
  /\ pass.at = "planned"
  /\ Found([pass EXCEPT !.protected = Watched(pass.target)])
  /\ UNCHANGED <<now, session, target, excluded, changes>>

\* WatchlistStore::reconcile: what is found is updated or added, what is neither
\* protected nor active since the cutoff expires.
Sighted(p) == [p.target EXCEPT !.last = Max({@, p.updated})]

\* Mutant: an activity at the cutoff is too old.
JoinsAfterCutoff(p) ==
  p.found /\ ~excluded /\ ~Watched(p.target) /\ p.updated > Cutoff(p)
\* Activity since the cutoff adds the session.
Joins(p) ==
  p.found /\ ~excluded /\ ~Watched(p.target) /\ p.updated # 0 /\ p.updated >= Cutoff(p)

Reconciled(p) ==
  LET t == CASE p.found /\ ~excluded /\ Watched(p.target) -> Sighted(p)
             [] Joins(p) -> [source |-> "automatic", added |-> p.now, last |-> p.updated]
             [] OTHER -> p.target
  IN  IF Watched(t) /\ (p.protected \/ InactivitySince(t, 0) >= Cutoff(p)) THEN t ELSE NoTarget

\* Mutant: what expires is not saved.
CommitAdditions ==
  /\ pass.at = "scanned"
  /\ target' = IF changes = pass.changes /\ Watched(Reconciled(pass)) THEN Reconciled(pass)
               ELSE target
  /\ pass' = Idle
  /\ UNCHANGED <<now, session, excluded, changes>>
\* commit_reconcile; a changed list is a new revision.
Commit ==
  /\ pass.at = "scanned"
  /\ target' = IF changes = pass.changes THEN Reconciled(pass) ELSE target
  /\ pass' = Idle
  /\ UNCHANGED <<now, session, excluded, changes>>

\* The pass fails in the engine, or the process ends: nothing is committed.
Drop ==
  /\ pass.at # "idle"
  /\ pass' = Idle
  /\ UNCHANGED <<now, session, target, excluded, changes>>

-----------------------------------------------------------------------------
Next ==
  \/ Tick \/ \E goesOn \in BOOLEAN : Activity(goesOn)
  \/ Add \/ Remove \/ Other
  \/ Prepare
  \/ \E dated \in BOOLEAN : Discover(dated)
  \/ DiscoverAbsent \/ DiscoverFails
  \/ Commit \/ Drop

Spec == Init /\ [][Next]_vars

\* Passes go on and end; a provider that is asked again and again answers with a
\* date, and a pass that found one does not fail in the engine for ever.
FairSpec ==
  /\ Spec
  /\ WF_vars(Prepare) /\ WF_vars(Commit \/ Drop)
  /\ SF_vars(Discover(TRUE)) /\ SF_vars(Commit /\ pass.updated # 0)

-----------------------------------------------------------------------------
(* Properties.                                                             *)

\* Types of the session, the watchlist entry and the pass; no date is ahead of
\* the clock, and no recorded activity ahead of the real one.
TypeOK ==
  /\ now \in 1 .. MaxTime /\ changes \in 0 .. MaxChanges
  /\ session.activity \in 1 .. now /\ session.active \in BOOLEAN
  /\ target.source \in {"none", "manual", "automatic"}
  /\ target.added \in 0 .. now /\ target.last \in 0 .. session.activity
  /\ excluded \in BOOLEAN
  /\ pass.at \in {"idle", "planned", "scanned"} /\ pass.now \in 0 .. now

Commits == pass.at = "scanned" /\ changes = pass.changes

\* "Protects long-running work, uncertain activity [...] and sessions already being
\* observed when their provider becomes unavailable": only a session that was
\* quiet and had no activity since the cutoff when the pass began expires.
OnlyInactiveExpire ==
  [][Watched(target) /\ ~Watched(target') /\ target' # target /\ excluded' = excluded
       => pass.quiet /\ pass.truth < Cutoff(pass)]_vars

\* "Never send recovery to an expired target while waiting for membership commit"
\* (src/daemon.rs:426): the engine of a pass works on those targets of its plan
\* that its commit keeps, although the two are computed apart from one another.
EngineScansWhatStays ==
  [][Commits /\ pass'.at = "idle" /\ target' = Reconciled(pass) /\ Watched(pass.target)
       => (pass.engine <=> Watched(Reconciled(pass)))]_vars

\* Membership follows activity in the end: a target that stays inactive expires,
\* unless it is removed, added again, or its session comes back to life; a session
\* with recent activity gets onto the watchlist unless it is excluded.
InactiveExpire ==
  LET inactive == Watched(target) /\ ~session.active
                    /\ InactivitySince(target, session.activity) + StaleAfter < now
  IN  inactive ~> ~inactive
ActiveJoin ==
  LET recent == session.activity + StaleAfter >= now /\ ~excluded
  IN  recent ~> Watched(target) \/ ~recent
MembershipFollowsActivity == InactiveExpire /\ ActiveJoin

=============================================================================
