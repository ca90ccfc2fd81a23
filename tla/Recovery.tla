------------------------------ MODULE Recovery ------------------------------
(***************************************************************************)
(* What the engine does with the failed turns of one watched session:      *)
(* WatchEngine.run_once_authorized, retry_now and                          *)
(* reconcile_pending_recoveries over RuntimeState, against a session whose *)
(* turns go on by themselves, acknowledgements that get lost, state files  *)
(* that cannot be written and a process that may die between any two       *)
(* awaits (src/src/engine.rs, src/src/state.rs).                           *)
(*                                                                         *)
(* Every map of RuntimeState is keyed by session or by failed turn, so one *)
(* session shows what the code does with each.  The engine mutex makes     *)
(* passes and manual retries exclude one another (module RecoveryGate);    *)
(* here the permit may be withdrawn at every point where it is consulted.  *)
(***************************************************************************)
EXTENDS Naturals, Sequences, FiniteSets, SequencesExt

CONSTANTS
  MaxTurns,        \* bound: turns of the session
  MaxTime,         \* bound: ticks of the clock
  InitialDelay,    \* initial_delay_seconds of the policy
  MaxDelay,        \* max_delay_seconds of the policy
  Window,          \* attempt_window_seconds
  MaxAttempts,     \* max_attempts of the policy
  PendingMaxAge,   \* PENDING_RECOVERY_MAX_AGE
  OrphanMaxAge,    \* ORPHAN_PENDING_RECOVERY_MAX_AGE
  MaxObservationFailures, \* PENDING_RECOVERY_MAX_OBSERVATION_FAILURES
  Policies,        \* bound: the actions that the policy of the failure may have
  PruneAge,        \* the 30 days of RuntimeState::prune
  Faults           \* what may go wrong: a lost "ack", a "crash", a failed "save"

ASSUME RecoveryAssumption ==
  /\ MaxTurns \in Nat \ {0} /\ MaxTime \in Nat \ {0}
  /\ InitialDelay \in Nat \ {0} /\ MaxDelay \in Nat /\ InitialDelay <= MaxDelay
  /\ Window \in Nat
  /\ MaxAttempts \in Nat \ {0}
  /\ PendingMaxAge \in Nat /\ OrphanMaxAge \in Nat /\ MaxObservationFailures \in Nat
  /\ PruneAge \in Nat
  /\ Policies \subseteq {"retry", "skip"}
  /\ Faults \subseteq {"ack", "crash", "save"}

\* Arithmetic that the provers have no theory of.
ASSUME PowerAssumption == \A n \in 0..MaxAttempts : 2^n \in Nat \ {0}

VARIABLES
  now,    \* the clock; the first instant is 1
  turns,  \* the session, oldest turn first: status, the failed turn it answers
          \* (0 for a turn of the user), the time of the attempt and its kind
  late,   \* unacknowledged requests that the provider may still act on
  mem,    \* RuntimeState in memory
  disk,   \* RuntimeState in state.json
  plan,   \* ReconcilePlan.now of a prepared pass that waits for the engine, or 0
  job,    \* the pass or manual retry that owns the engine
  latest, \* history: the latest time a resume call was made for, or 0
  unknown \* history: the failed turns, with the time of the call, whose
          \* acknowledgement was lost

session == <<turns, late>>
history == <<latest, unknown>>
vars == <<now, session, mem, disk, plan, job, history>>

Turns == 1..MaxTurns
Times == 0..MaxTime
Actions == {"none", "skipped", "resumed", "unconfirmed"}
HandledMark == [action : Actions, at : Times]
PendingRecovery == [failed : Turns, recovery : Turns, started : Times,
                    automatic : BOOLEAN, failures : 0..MaxObservationFailures]
RecoveryOutcome == [turn : Turns, automatic : BOOLEAN, success : BOOLEAN, at : Times]

\* handled, observed, attempts, pending_recoveries, recovery_outcomes.  A time of
\* 0 is no entry; an outcome names its turn, which the code does not keep.
NotHandled == [action |-> "none", at |-> 0]
EmptyState ==
  [handled  |-> [t \in Turns |-> NotHandled],
   observed |-> [t \in Turns |-> 0],
   attempts |-> <<>>,
   pending  |-> {},
   outcomes |-> <<>>]

Idle == [pc |-> "idle", at |-> 0, watched |-> FALSE, policy |-> "skip",
         automatic |-> FALSE, failed |-> 0, started |-> 0, todo |-> {}]

-----------------------------------------------------------------------------
(***************************************************************************)
(* The provider: the session and its turns (external).                     *)
(***************************************************************************)

LastTurn == Last(turns)

\* Mutant: the last failed turn, whatever came after it.
LastFailedTurn ==
  LET failed == {t \in DOMAIN turns : turns[t].status = "failed"}
  IN  IF failed = {} THEN 0 ELSE Max(failed)

\* latest_failure: the last turn, if it failed.
LatestFailure == IF LastTurn.status = "failed" THEN Len(turns) ELSE 0

TurnEnds(status) ==
  /\ LastTurn.status = "active"
  /\ turns' = [turns EXCEPT ![Len(turns)].status = status]
  /\ UNCHANGED <<now, late, mem, disk, plan, job, history>>

\* A new turn; a provider refuses one while another is active.
StartTurn(answers, at, automatic) ==
  /\ LastTurn.status # "active" /\ Len(turns) < MaxTurns
  /\ turns' = Append(turns, [status |-> "active", answers |-> answers, at |-> at,
                             automatic |-> automatic])

UserTurn ==
  /\ StartTurn(0, 0, FALSE)
  /\ UNCHANGED <<now, late, mem, disk, plan, job, history>>

\* The provider acts on a request after its acknowledgement was given up.
LateDelivery(request) ==
  /\ StartTurn(request.failed, request.at, request.automatic)
  /\ late' = late \ {request}
  /\ UNCHANGED <<now, mem, disk, plan, job, history>>

Tick ==
  /\ now < MaxTime
  /\ now' = now + 1
  /\ UNCHANGED <<session, mem, disk, plan, job, history>>

-----------------------------------------------------------------------------
(***************************************************************************)
(* RuntimeState.                                                           *)
(***************************************************************************)

\* RuntimeState::save: the document is replaced as a whole, or not at all.
Save(state) == disk' = state \/ ("save" \in Faults /\ UNCHANGED disk)

MarkHandled(state, t, action, at) ==
  [state EXCEPT !.handled[t] = [action |-> action, at |-> at]]

\* Vec::retain: the elements of s at the places in kept, in their order.  SelectSeq
\* does this with an operator as argument, of which nothing can be proved.
Retain(s, kept) ==
  LET rank(j) == Cardinality({k \in kept : k <= j})
  IN  [i \in 1..Cardinality(kept) |-> s[CHOOSE j \in kept : rank(j) = i]]

\* prune: entries strictly older than the cutoff go.  The cap of 10000 outcomes
\* is out of reach here.
Prune(state, at) ==
  LET Old(time) == time + PruneAge < at IN
  [state EXCEPT
     !.handled  = [t \in Turns |-> IF Old(@[t].at) THEN NotHandled ELSE @[t]],
     !.observed = [t \in Turns |-> IF Old(@[t]) THEN 0 ELSE @[t]],
     !.attempts = Retain(@, {i \in DOMAIN @ : ~Old(@[i])}),
     !.outcomes = Retain(@, {i \in DOMAIN @ : ~Old(@[i].at)})]

FirstSeen(state, t, at) == IF state.observed[t] = 0 THEN at ELSE state.observed[t]

\* recent_attempts forgets what has left the window.
RecentAttempts(state, at) ==
  Retain(state.attempts, {i \in DOMAIN state.attempts : state.attempts[i] + Window >= at})

\* retry_delay_seconds with exponential backoff; with MaxDelay = InitialDelay it is
\* the fixed one.  The retry_after of a failure only makes it longer: FailureWaits.
RetryDelay(attempts) ==
  LET backoff == InitialDelay * 2^attempts
  IN  IF backoff < MaxDelay THEN backoff ELSE MaxDelay

-----------------------------------------------------------------------------
(***************************************************************************)
(* A pass of the reconcile loop.                                           *)
(***************************************************************************)

\* prepare_reconcile reads the clock before the engine lock is requested.
PreparePass ==
  /\ plan = 0
  /\ plan' = now
  /\ UNCHANGED <<now, session, mem, disk, job, history>>

\* run_once_authorized up to the loop over pending recoveries.
BeginPass(watched, policy) ==
  /\ job.pc = "idle" /\ plan # 0
  /\ mem' = Prune(mem, plan)
  /\ job' = [Idle EXCEPT !.pc = "pending", !.at = plan, !.watched = watched,
                         !.policy = policy, !.automatic = TRUE, !.todo = mem.pending]
  /\ plan' = 0
  /\ UNCHANGED <<now, session, disk, history>>

\* pending_recovery_expired
Expired(p, failures) ==
  \/ job.at >= p.started + PendingMaxAge
  \/ /\ job.at >= p.started + OrphanMaxAge
     /\ failures >= MaxObservationFailures
     /\ ~job.watched

\* turn_outcome fails or does not know the turn.  The counter matters up to its
\* threshold only.
ObserveNothing(p) ==
  LET q == [p EXCEPT !.failures = IF @ < MaxObservationFailures THEN @ + 1 ELSE @] IN
  /\ job.pc = "pending" /\ p \in job.todo
  /\ mem' = [mem EXCEPT !.pending =
               (@ \ {p}) \cup (IF Expired(p, q.failures) THEN {} ELSE {q})]
  /\ job' = [job EXCEPT !.todo = @ \ {p}]
  /\ UNCHANGED <<now, session, disk, plan, history>>

\* Mutant: a recovery that was started counts as completed.
ObserveOutcomeEager(p) ==
  /\ job.pc = "pending" /\ p \in job.todo
  /\ mem' = [mem EXCEPT !.pending = @ \ {p},
               !.outcomes = Append(@, [turn |-> p.recovery, automatic |-> p.automatic,
                                       success |-> turns[p.recovery].status # "failed",
                                       at |-> job.at])]
  /\ job' = [job EXCEPT !.todo = @ \ {p}]
  /\ UNCHANGED <<now, session, disk, plan, history>>

\* turn_outcome reports the recovery turn: finish_recovery, or wait for it.
ObserveOutcome(p) ==
  LET status == turns[p.recovery].status IN
  /\ job.pc = "pending" /\ p \in job.todo
  /\ mem' = IF status = "active"
            THEN [mem EXCEPT !.pending =
                    IF job.at >= p.started + PendingMaxAge THEN @ \ {p} ELSE @]
            ELSE [mem EXCEPT !.pending = @ \ {p},
                    !.outcomes = Append(@, [turn |-> p.recovery, automatic |-> p.automatic,
                                            success |-> status = "completed",
                                            at |-> job.at])]
  /\ job' = [job EXCEPT !.todo = @ \ {p}]
  /\ UNCHANGED <<now, session, disk, plan, history>>

\* The end of a pass saves the state.
EndPass(state) ==
  /\ mem' = state
  /\ Save(state)
  /\ job' = Idle

\* The session is not authorised, or its provider fails or is not available at all.
PassOver ==
  /\ job.pc = "pending" /\ job.todo \in {{}, mem.pending}
  /\ EndPass(mem)
  /\ UNCHANGED <<now, session, plan, history>>

\* Mutant: the attempts are forgotten although a recovery is pending.
NoFailureForgets ==
  /\ job.pc = "pending" /\ job.todo = {} /\ job.watched
  /\ LatestFailure = 0
  /\ EndPass([mem EXCEPT !.attempts = <<>>])
  /\ UNCHANGED <<now, session, plan, history>>

\* latest_failure finds none: the attempts are forgotten unless a recovery is
\* still pending.
NoFailure ==
  /\ job.pc = "pending" /\ job.todo = {} /\ job.watched
  /\ LatestFailure = 0
  /\ EndPass(IF mem.pending = {} THEN [mem EXCEPT !.attempts = <<>>] ELSE mem)
  /\ UNCHANGED <<now, session, plan, history>>

\* Mutant: an unconfirmed recovery does not count as handled.
HandledIfResumed(t) ==
  \/ mem.handled[t].action = "resumed"
  \/ job.policy = "skip" /\ mem.handled[t].action = "skipped"

HandledFailure(t) ==
  \/ mem.handled[t].action \in {"resumed", "unconfirmed"}
  \/ job.policy = "skip" /\ mem.handled[t].action = "skipped"

FailureSkipped ==
  /\ job.pc = "pending" /\ job.todo = {} /\ job.watched
  /\ LatestFailure # 0 /\ ~HandledFailure(LatestFailure) /\ job.policy = "skip"
  /\ EndPass(MarkHandled(mem, LatestFailure, "skipped", job.at))
  /\ UNCHANGED <<now, session, plan, history>>

\* The state after first_seen and recent_attempts, and whether a retry is due.
Inspected(t) ==
  [mem EXCEPT !.observed[t] = FirstSeen(mem, t, job.at),
              !.attempts = RecentAttempts(mem, job.at)]

Due(t) ==
  LET seen == Inspected(t)
      n    == Len(seen.attempts)
      from == IF n = 0 THEN seen.observed[t] ELSE seen.attempts[n]
  IN  n < MaxAttempts /\ job.at >= from + RetryDelay(n)

\* retry.exhausted, retry.waiting, or the permit is gone.
FailureWaits ==
  /\ job.pc = "pending" /\ job.todo = {} /\ job.watched /\ job.policy = "retry"
  /\ LatestFailure # 0 /\ ~HandledFailure(LatestFailure)
  /\ EndPass(Inspected(LatestFailure))
  /\ UNCHANGED <<now, session, plan, history>>

FailureDue ==
  /\ job.pc = "pending" /\ job.todo = {} /\ job.watched /\ job.policy = "retry"
  /\ LatestFailure # 0 /\ ~HandledFailure(LatestFailure) /\ Due(LatestFailure)
  /\ mem' = Inspected(LatestFailure)
  /\ job' = [Idle EXCEPT !.pc = "recheck", !.at = job.at, !.automatic = TRUE,
                         !.failed = LatestFailure]
  /\ UNCHANGED <<now, session, disk, plan, history>>

\* The recheck sees the same failed turn.
RecheckSame ==
  /\ job.pc = "recheck" /\ LatestFailure = job.failed
  /\ job' = [job EXCEPT !.pc = "boundary"]
  /\ UNCHANGED <<now, session, mem, disk, plan, history>>

\* The session changed, or the permit is gone, before the message was sent.
Cancelled ==
  /\ job.pc = "recheck" \/ (job.pc = "boundary" /\ job.automatic)
  /\ EndPass(mem)
  /\ UNCHANGED <<now, session, plan, history>>

\* The recheck fails, or the permit of a manual retry is gone: nothing is saved.
GivenUp ==
  /\ job.pc = "recheck" \/ (job.pc = "boundary" /\ ~job.automatic)
  /\ job' = Idle
  /\ UNCHANGED <<now, session, mem, disk, plan, history>>

-----------------------------------------------------------------------------
(***************************************************************************)
(* A manual retry.  retry_now neither consults handled_action nor waits    *)
(* for the delay, and it does not recheck the turn.                        *)
(***************************************************************************)

RetryNow ==
  /\ job.pc = "idle" /\ LatestFailure # 0
  /\ mem' = [mem EXCEPT !.attempts = RecentAttempts(mem, now)]
  /\ job' = IF Len(RecentAttempts(mem, now)) < MaxAttempts
            THEN [Idle EXCEPT !.pc = "boundary", !.at = now, !.failed = LatestFailure]
            ELSE Idle
  /\ UNCHANGED <<now, session, disk, plan, history>>

-----------------------------------------------------------------------------
(***************************************************************************)
(* The send.                                                               *)
(***************************************************************************)

\* Mutant: the attempt is saved only after the call.
AttemptUnsaved ==
  /\ job.pc = "boundary"
  /\ mem' = [mem EXCEPT !.attempts = Append(@, job.at)]
  /\ job' = [job EXCEPT !.pc = "resume"]
  /\ latest' = IF job.at > latest THEN job.at ELSE latest
  /\ UNCHANGED <<now, session, disk, plan, unknown>>

\* Mutant: the time when the next attempt is due is recorded.
AttemptAtReadyTime ==
  LET recorded == [mem EXCEPT !.attempts = Append(@, job.at + RetryDelay(Len(@)))] IN
  /\ job.pc = "boundary"
  /\ mem' = recorded /\ disk' = recorded
  /\ job' = [job EXCEPT !.pc = "resume"]
  /\ latest' = IF job.at > latest THEN job.at ELSE latest
  /\ UNCHANGED <<now, session, plan, unknown>>

\* record_attempt, save, and the call of resume.
Attempt ==
  LET recorded == [mem EXCEPT !.attempts = Append(@, job.at)] IN
  /\ job.pc = "boundary"
  /\ mem' = recorded
  /\ \/ /\ disk' = recorded
        /\ job' = [job EXCEPT !.pc = "resume"]
        /\ latest' = IF job.at > latest THEN job.at ELSE latest
     \/ /\ "save" \in Faults
        /\ job' = Idle
        /\ UNCHANGED <<disk, latest>>
  /\ UNCHANGED <<now, session, plan, unknown>>

\* The provider starts the recovery turn.
Deliver ==
  /\ job.pc = "resume"
  /\ StartTurn(job.failed, job.at, job.automatic)
  /\ job' = [job EXCEPT !.pc = "delivered", !.started = Len(turns) + 1]
  /\ UNCHANGED <<now, late, mem, disk, plan, history>>

\* Ok(receipt): begin_recovery and mark_handled, in memory even if not on disk.
Receipt ==
  LET pending == [failed |-> job.failed, recovery |-> job.started, started |-> job.at,
                  automatic |-> job.automatic, failures |-> 0]
  IN
  /\ job.pc = "delivered"
  /\ EndPass(MarkHandled([mem EXCEPT !.pending =
                            {p \in @ : p.failed # job.failed} \cup {pending}],
                         job.failed, "resumed", job.at))
  /\ UNCHANGED <<now, session, plan, history>>

\* Mutant: a lost acknowledgement is treated as a failed request.
UnconfirmedAsFailed ==
  /\ job.pc \in {"resume", "delivered"} /\ "ack" \in Faults
  /\ EndPass(mem)
  /\ late' = IF job.pc = "delivered" THEN late
             ELSE late \cup {[failed |-> job.failed, at |-> job.at,
                              automatic |-> job.automatic]}
  /\ unknown' = unknown \cup {[failed |-> job.failed, at |-> job.at]}
  /\ UNCHANGED <<now, turns, plan, latest>>

\* AcknowledgementUnknown: the turn was started, will be or will never be.
Unconfirmed ==
  /\ job.pc \in {"resume", "delivered"} /\ "ack" \in Faults
  /\ EndPass(MarkHandled(mem, job.failed, "unconfirmed", job.at))
  /\ late' = IF job.pc = "delivered" THEN late
             ELSE late \cup {[failed |-> job.failed, at |-> job.at,
                              automatic |-> job.automatic]}
  /\ unknown' = unknown \cup {[failed |-> job.failed, at |-> job.at]}
  /\ UNCHANGED <<now, turns, plan, latest>>

\* A definite error: the failure stays unhandled.  A pass ends with a save.
SendFailed ==
  /\ job.pc = "resume"
  /\ IF job.automatic THEN EndPass(mem) ELSE job' = Idle /\ UNCHANGED <<mem, disk>>
  /\ UNCHANGED <<now, session, plan, history>>

\* The process dies, and a new one loads state.json.
Crash ==
  /\ "crash" \in Faults
  /\ mem' = disk
  /\ plan' = 0
  /\ job' = Idle
  /\ UNCHANGED <<now, session, disk, history>>

-----------------------------------------------------------------------------
Init ==
  /\ now = 1
  /\ turns = <<[status |-> "active", answers |-> 0, at |-> 0, automatic |-> FALSE]>>
  /\ late = {}
  /\ mem = EmptyState /\ disk = EmptyState
  /\ plan = 0 /\ job = Idle
  /\ latest = 0 /\ unknown = {}

Next ==
  \/ \E status \in {"completed", "failed"} : TurnEnds(status)
  \/ UserTurn \/ Tick
  \/ \E request \in late : LateDelivery(request)
  \/ PreparePass
  \/ \E watched \in BOOLEAN, policy \in Policies : BeginPass(watched, policy)
  \/ \E p \in job.todo : ObserveNothing(p) \/ ObserveOutcome(p)
  \/ PassOver \/ NoFailure \/ FailureSkipped \/ FailureWaits \/ FailureDue
  \/ RecheckSame \/ Cancelled \/ GivenUp
  \/ RetryNow
  \/ Attempt \/ Deliver \/ Receipt \/ Unconfirmed \/ SendFailed
  \/ Crash

Spec == Init /\ [][Next]_vars

-----------------------------------------------------------------------------
(***************************************************************************)
(* Properties.                                                             *)
(***************************************************************************)

RuntimeStates ==
  [handled : [Turns -> HandledMark], observed : [Turns -> Times], attempts : Seq(Times),
   pending : SUBSET PendingRecovery, outcomes : Seq(RecoveryOutcome)]
TurnType == [status : {"active", "completed", "failed"}, answers : {0} \cup Turns,
             at : Times, automatic : BOOLEAN]
LateRequest == [failed : Turns, at : Times, automatic : BOOLEAN]
UncertainCall == [failed : Turns, at : Times]
JobType ==
  [pc : {"idle", "pending", "recheck", "boundary", "resume", "delivered"}, at : Times,
   watched : BOOLEAN, policy : {"retry", "skip"}, automatic : BOOLEAN,
   failed : {0} \cup Turns, started : {0} \cup Turns, todo : SUBSET PendingRecovery]

\* The type of the clock, the session, both copies of the state and the job.
TypeOK ==
  /\ now \in Times /\ plan \in Times /\ latest \in Times
  /\ turns \in Seq(TurnType) /\ Len(turns) \in Turns
  /\ late \in SUBSET LateRequest
  /\ unknown \in SUBSET UncertainCall
  /\ mem \in RuntimeStates /\ disk \in RuntimeStates
  /\ job \in JobType

\* "Each failed turn is handled at most once": of the turns that answer a failed
\* turn at most one was sent automatically before the mark of the first has aged
\* out, whatever is lost, refused, late, crashed or repeated by hand.
RecoveredAtMostOnce ==
  \A t, u \in DOMAIN turns :
    /\ turns[t].automatic /\ turns[u].automatic
    /\ turns[t].answers = turns[u].answers
    /\ turns[t].at <= turns[u].at
    => t = u \/ turns[t].at + PruneAge < turns[u].at

\* "Every retry is delayed": an automatic send comes at least the initial delay
\* after every earlier one that has not left the attempt window, manual ones and
\* those before a crash included.
AutomaticSendsSpaced ==
  [][/\ job.pc = "boundary" /\ job'.pc = "resume" /\ job.automatic
     /\ latest # 0 /\ now <= latest + Window /\ now <= latest + PruneAge
     => job.at >= latest + InitialDelay]_vars

\* The recoveries in a row: no user turn and no completed turn after them.
Streak ==
  {t \in DOMAIN turns :
     \A u \in t..Len(turns) : turns[u].answers # 0 /\ turns[u].status # "completed"}

\* "Every retry is [...] bounded" (README.md:250): when a recovery starts, at most
\* max_attempts recoveries in a row, itself included, were attempted within the
\* attempt window that ends then.
RetriesBounded ==
  [][Len(turns') > Len(turns) =>
       Cardinality({t \in Streak' : turns'[t].at + Window >= now}) <= MaxAttempts]_vars

\* "It is counted as successful only when the provider reports the new turn as
\* completed, and counted as failed only when that turn reports failure": and
\* each recovery turn counts once, also when a crash repeats the observation.
OutcomesTruthful ==
  \A i \in DOMAIN mem.outcomes :
    LET o == mem.outcomes[i] IN
    /\ turns[o.turn].answers # 0
    /\ turns[o.turn].status = IF o.success THEN "completed" ELSE "failed"
    /\ \A j \in DOMAIN mem.outcomes : mem.outcomes[j].turn = o.turn => i = j

\* "It never claims that an uncertain recovery was not sent": a failed turn with
\* a call whose acknowledgement was lost, by hand or not, before a crash or not, is
\* not sent for automatically again until its mark has aged out.
UncertainNeverResent ==
  [][job.pc = "boundary" /\ job'.pc = "resume" /\ job.automatic
       => \A r \in unknown : r.failed = job.failed => r.at + PruneAge < job.at]_vars

=============================================================================
