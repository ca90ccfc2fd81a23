---------------------------- MODULE RecoveryGate ----------------------------
(***************************************************************************)
(* Who may send a recovery turn, and when.                                 *)
(*                                                                         *)
(* watchcatd runs one reconcile loop, any number of accepted manual        *)
(* retries, any number of control connections and a shutdown sequence, all *)
(* concurrently.  They share the watchlist, the settings, the control      *)
(* revision and the RecoveryPermit, and they synchronise through three     *)
(* asynchronous mutexes: the engine, the daemon (control plane) and the    *)
(* send boundary of the permit (src/src/daemon.rs, src/src/engine.rs).     *)
(*                                                                         *)
(* A step of this module is the code between two await points, so a value  *)
(* read in one step may be stale in the next one.  Whether a session       *)
(* really has a failed turn, and whether its retry is due, is left open    *)
(* here (InspectSkip or InspectReady): module Recovery models it.          *)
(***************************************************************************)
EXTENDS Naturals, FiniteSets

CONSTANTS
  Sessions,     \* provider:session_id keys
  Ops,          \* manual retry operations that may be in flight at once
  Conns,        \* control connections (CLI clients)
  Reconciler,   \* the reconcile task
  None,         \* no owner, no session, no argument
  MaxRevision,  \* bound: no new input is taken at this revision
  SaveMayFail   \* whether the atomic writes of the state files can fail

ASSUME GateAssumption ==
  /\ None \notin Sessions \cup Ops \cup Conns \cup {Reconciler}
  /\ Reconciler \notin Ops \cup Conns
  /\ Ops \cap Conns = {}
  /\ MaxRevision \in Nat
  /\ SaveMayFail \in BOOLEAN

VARIABLES
  revision,   \* ControlStateStore.revision
  watchlist,  \* targets of the watchlist document
  excluded,   \* exclusions of the watchlist document
  policy,     \* the action of the retry policy in WatchcatDaemon.settings
  permit,     \* RecoveryPermitState
  engine,     \* owner of the engine mutex
  boundary,   \* owner of the send boundary
  daemon,     \* owner of the daemon mutex
  task,       \* program counter and locals of the reconcile task and the retries
  planned,    \* targets of the current ReconcilePlan
  scan,       \* what discovery found, and the targets still to visit
  conn,       \* program counter, request and last snapshot of each control client
  phase,      \* how far the shutdown sequence of serve has come
  halt        \* what the shutdown sequence read under the daemon lock

storeVars == <<revision, watchlist, excluded, policy>>
lockVars  == <<engine, boundary, daemon>>
taskVars  == <<task, planned, scan>>
stopVars  == <<phase, halt>>
vars == <<storeVars, permit, lockVars, taskVars, conn, stopVars>>

Policies == {"retry", "skip"}
Tasks    == Ops \cup {Reconciler}

\* config.policies is policies.set and policies.reset, config.set_lifecycle also
\* dialogs.set; sessions.send and sessions.interrupt do not touch this state.
Methods  == {"sessions.add", "sessions.remove", "config.policies",
             "config.set_lifecycle"}

\* Mutant: removals are left out of requires_recovery_boundary.
BoundaryForPoliciesOnly == {"config.policies"}

\* requires_recovery_boundary
RecoveryBoundaryMethods == {"sessions.remove", "config.policies"}

TaskPcs == {"idle", "admitted", "prepared", "queued", "preparing", "engine", "discover",
            "scan", "authorize", "inspect", "recheck", "boundary", "sending"}
ConnPcs == {"idle", "viewed", "boundary", "lock", "write", "publish"}
Phases  == {"running", "signalled", "read", "revoked",
            "ops_aborted", "joined", "closed"}

Stopping         == phase # "running"
ReconcileAborted == phase \in {"revoked", "ops_aborted", "joined", "closed"}
OpsAborted       == phase \in {"ops_aborted", "joined", "closed"}

IdleTask == [pc |-> "idle", session |-> None, gen |-> 0, policy |-> "skip"]
\* The revision starts at 1: a snapshot of revision 0 is none, and a request
\* made without one carries no expected_revision.
NoSnapshot == [revision |-> 0, watchlist |-> {}, policy |-> "skip"]
IdleConn == [pc |-> "idle", method |-> "sessions.add", arg |-> None, seen |-> NoSnapshot]
NoHalt == [targets |-> {}, revision |-> 0]
EmptyScan == [found |-> {}, expired |-> {}, touched |-> FALSE, todo |-> {}]

-----------------------------------------------------------------------------
(***************************************************************************)
(* RecoveryPermit.                                                         *)
(***************************************************************************)

Permit(running, targets, generation) ==
  [running |-> running, targets |-> targets, generation |-> generation]

\* Mutant: the generation is not compared.
AllowsAnyGeneration(s, generation) == permit.running /\ s \in permit.targets

Allows(s, generation) ==
  /\ permit.running
  /\ permit.generation = generation
  /\ s \in permit.targets

-----------------------------------------------------------------------------
(***************************************************************************)
(* The reconcile task.                                                     *)
(***************************************************************************)

Step(t, pc) == task' = [task EXCEPT ![t].pc = pc]

\* On with the loop over the targets.
NextTarget ==
  task' = [task EXCEPT ![Reconciler] = [@ EXCEPT !.pc = "scan", !.session = None]]

\* The pass, or the operation, is over; its engine guard is dropped.
EndTask(t) ==
  /\ task' = [task EXCEPT ![t] = IdleTask]
  /\ engine' = IF engine = t THEN None ELSE engine
  /\ planned' = IF t = Reconciler THEN {} ELSE planned
  /\ scan' = IF t = Reconciler THEN EmptyScan ELSE scan

\* The loop takes the daemon lock.  prepare_reconcile does not await, so once it
\* runs an abort does not stop it before it has updated the permit.
PrepareLock ==
  /\ task[Reconciler].pc = "idle" /\ ~ReconcileAborted /\ daemon = None
  /\ daemon' = Reconciler
  /\ Step(Reconciler, "preparing")
  /\ UNCHANGED <<storeVars, permit, engine, boundary, planned, scan, conn, stopVars>>

Plan(gen, p) ==
  /\ permit' = Permit(TRUE, watchlist, gen)
  /\ planned' = watchlist
  /\ task' = [task EXCEPT ![Reconciler] =
                [pc |-> "engine", session |-> None, gen |-> gen, policy |-> p]]
  /\ daemon' = None

\* prepare_reconcile, when config.toml did not change on disk.
PrepareReconcile ==
  /\ task[Reconciler].pc = "preparing"
  /\ Plan(revision, policy)
  /\ UNCHANGED <<storeVars, engine, boundary, scan, conn, stopVars>>

\* Mutant: a reloaded file keeps the revision of the one it replaces.
PrepareReloadAtSameRevision(p) ==
  /\ task[Reconciler].pc = "preparing" /\ revision < MaxRevision
  /\ policy' = p
  /\ Plan(revision, p)
  /\ UNCHANGED <<revision, watchlist, excluded, engine, boundary, scan, conn, stopVars>>

\* prepare_reconcile, when reload_external_config activates an edited file.
\* An invalid edit changes nothing that is modelled here.
PrepareReload(p) ==
  /\ task[Reconciler].pc = "preparing" /\ revision < MaxRevision
  /\ revision' = revision + 1
  /\ policy' = p
  /\ Plan(revision + 1, p)
  /\ UNCHANGED <<watchlist, excluded, engine, boundary, scan, conn, stopVars>>

\* prepare_reconcile fails: the watchlist cannot be read, or the revision of a
\* reloaded file cannot be saved.  The pass is over and the permit stays as it is.
PrepareError ==
  /\ task[Reconciler].pc = "preparing" /\ SaveMayFail
  /\ EndTask(Reconciler)
  /\ daemon' = None
  /\ UNCHANGED <<storeVars, permit, boundary, conn, stopVars>>

ReconcileLock ==
  /\ task[Reconciler].pc = "engine" /\ ~ReconcileAborted /\ engine = None
  /\ engine' = Reconciler
  /\ Step(Reconciler, "discover")
  /\ UNCHANGED <<storeVars, permit, boundary, daemon, planned, scan, conn, stopVars>>

\* reconcile_engine up to run_once_authorized: provider discovery.  Found
\* are the sessions beyond the plan that were active since the cutoff, expired
\* the targets that are neither protected nor active; touched says that only the
\* title or the activity of a target changed.  A scan that changes anything needs
\* revisions to spare.
ReconcileDiscover(found, expired, touched) ==
  /\ task[Reconciler].pc = "discover" /\ ~ReconcileAborted
  /\ expired \subseteq planned /\ found \cap planned = {}
  /\ touched => found \cup expired = {}
  /\ revision < MaxRevision \/ (found \cup expired = {} /\ ~touched)
  /\ scan' = [found |-> found, expired |-> expired, touched |-> touched,
              todo |-> planned \ expired]
  /\ NextTarget
  /\ UNCHANGED <<storeVars, permit, lockVars, planned, conn, stopVars>>

\* The head of the loop of run_once_authorized.
ScanTarget(s) ==
  /\ task[Reconciler].pc = "scan" /\ ~ReconcileAborted /\ s \in scan.todo
  /\ scan' = [scan EXCEPT !.todo = @ \ {s}]
  /\ IF Allows(s, task[Reconciler].gen)
     THEN task' = [task EXCEPT ![Reconciler] = [@ EXCEPT !.pc = "inspect", !.session = s]]
     ELSE UNCHANGED task
  /\ UNCHANGED <<storeVars, permit, lockVars, planned, conn, stopVars>>

\* No failure, a provider error, a handled or skipped failure, an exhausted or
\* waiting retry, a dry run, or a permit that is gone.
InspectSkip ==
  /\ task[Reconciler].pc = "inspect" /\ ~ReconcileAborted
  /\ NextTarget
  /\ UNCHANGED <<storeVars, permit, lockVars, planned, scan, conn, stopVars>>

InspectReady ==
  /\ task[Reconciler].pc = "inspect" /\ ~ReconcileAborted
  /\ task[Reconciler].policy = "retry"
  /\ Allows(task[Reconciler].session, task[Reconciler].gen)
  /\ Step(Reconciler, "recheck")
  /\ UNCHANGED <<storeVars, permit, lockVars, planned, scan, conn, stopVars>>

\* The second latest_failure: the same failed turn is still the last one.
RecheckSame ==
  /\ task[Reconciler].pc = "recheck" /\ ~ReconcileAborted
  /\ Allows(task[Reconciler].session, task[Reconciler].gen)
  /\ Step(Reconciler, "boundary")
  /\ UNCHANGED <<storeVars, permit, lockVars, planned, scan, conn, stopVars>>

\* The session or its authorization changed: the continuation is cancelled.
RecheckCancel ==
  /\ task[Reconciler].pc = "recheck" /\ ~ReconcileAborted
  /\ NextTarget
  /\ UNCHANGED <<storeVars, permit, lockVars, planned, scan, conn, stopVars>>

\* The second latest_failure fails: the pass ends without a commit.
RecheckError ==
  /\ task[Reconciler].pc = "recheck" /\ ~ReconcileAborted
  /\ EndTask(Reconciler)
  /\ UNCHANGED <<storeVars, permit, boundary, daemon, conn, stopVars>>

\* Mutant: discovery brings excluded sessions back.
ReconciledWithExcluded == (watchlist \ scan.expired) \cup scan.found

\* WatchlistStore::reconcile
Reconciled == (watchlist \ scan.expired) \cup (scan.found \ excluded)

\* Mutant: the outcome of a scan is committed at any revision.
AnyPlan == TRUE

\* commit_reconcile refuses a plan of another revision.
PlanIsCurrent ==
  revision = task[Reconciler].gen /\ permit.generation = task[Reconciler].gen

\* commit_reconcile.  The daemon lock is taken while the engine lock is held;
\* a plan of another revision is dropped, and so is one whose watchlist cannot
\* be written.  A changed watchlist bumps the revision, after it was written.
CommitReconcile ==
  /\ task[Reconciler].pc = "scan" /\ ~ReconcileAborted /\ scan.todo = {} /\ daemon = None
  /\ LET changed == scan.touched \/ Reconciled # planned
     IN  \/ /\ ~PlanIsCurrent \/ SaveMayFail
            /\ UNCHANGED <<watchlist, revision, permit>>
         \/ /\ PlanIsCurrent
            /\ watchlist' = Reconciled
            /\ revision' = IF changed THEN revision + 1 ELSE revision
            /\ permit' = Permit(TRUE, Reconciled, revision')
         \/ /\ PlanIsCurrent /\ changed /\ SaveMayFail
            /\ watchlist' = Reconciled
            /\ permit' = Permit(TRUE, Reconciled, revision)
            /\ UNCHANGED revision
  /\ EndTask(Reconciler)
  /\ UNCHANGED <<excluded, policy, boundary, daemon, conn, stopVars>>

-----------------------------------------------------------------------------
(***************************************************************************)
(* Manual retries: the sessions.retry_now connection up to tasks.spawn,    *)
(* then the spawned task.  The operation registry is module                *)
(* RetryOperations.                                                        *)
(***************************************************************************)

\* The shutdown flag is read before the daemon lock is requested.
OpAdmit(o, s) ==
  /\ task[o].pc = "idle" /\ ~Stopping /\ revision < MaxRevision
  /\ task' = [task EXCEPT ![o] = [@ EXCEPT !.pc = "admitted", !.session = s]]
  /\ UNCHANGED <<storeVars, permit, lockVars, planned, scan, conn, stopVars>>

\* check_revision succeeds: expected_revision becomes the generation of the
\* operation and the settings of that revision are kept.
OpPrepare(o) ==
  /\ task[o].pc = "admitted" /\ daemon = None
  /\ task' = [task EXCEPT ![o] = [@ EXCEPT !.pc = "prepared", !.gen = revision,
                                            !.policy = policy]]
  /\ UNCHANGED <<storeVars, permit, lockVars, planned, scan, conn, stopVars>>

\* A revision conflict, or an operation the registry does not accept as new.
OpRefuse(o) ==
  /\ task[o].pc \in {"admitted", "prepared"}
  /\ task[o].pc = "admitted" => daemon = None
  /\ EndTask(o)
  /\ UNCHANGED <<storeVars, permit, boundary, daemon, conn, stopVars>>

\* tasks.spawn, under the retry_tasks mutex, which shutdown takes for good.
OpSpawn(o) ==
  /\ task[o].pc = "prepared" /\ ~OpsAborted
  /\ Step(o, "queued")
  /\ UNCHANGED <<storeVars, permit, lockVars, planned, scan, conn, stopVars>>

\* The engine lock, the second look at the shutdown flag, set_running,
\* replace_settings and replace_watch_targets.
OpLock(o) ==
  /\ task[o].pc = "queued" /\ ~OpsAborted /\ engine = None
  /\ ~Stopping /\ task[o].session \in watchlist
  /\ engine' = o
  /\ Step(o, "authorize")
  /\ UNCHANGED <<storeVars, permit, boundary, daemon, planned, scan, conn, stopVars>>

OpLockFail(o) ==
  /\ task[o].pc = "queued" /\ ~OpsAborted
  /\ Stopping \/ (engine = None /\ (SaveMayFail \/ task[o].session \notin watchlist))
  /\ EndTask(o)
  /\ UNCHANGED <<storeVars, permit, boundary, daemon, conn, stopVars>>

\* retry_now: the first look at the permit, then latest_failure.
OpAuthorize(o) ==
  /\ task[o].pc = "authorize" /\ ~OpsAborted
  /\ Allows(task[o].session, task[o].gen)
  /\ Step(o, "inspect")
  /\ UNCHANGED <<storeVars, permit, lockVars, planned, scan, conn, stopVars>>

\* retry_now: a failed turn, a retry policy and attempts left.
OpInspect(o) ==
  /\ task[o].pc = "inspect" /\ ~OpsAborted
  /\ task[o].policy = "retry"
  /\ Step(o, "boundary")
  /\ UNCHANGED <<storeVars, permit, lockVars, planned, scan, conn, stopVars>>

\* ensure_provider or latest_failure fails, the permit is gone, no turn
\* failed, the policy skips or the attempts are used up: finish with an error.
OpReject(o) ==
  /\ task[o].pc \in {"authorize", "inspect"} /\ ~OpsAborted
  /\ EndTask(o)
  /\ UNCHANGED <<storeVars, permit, boundary, daemon, conn, stopVars>>

-----------------------------------------------------------------------------
(***************************************************************************)
(* The send, shared by run_once_authorized and retry_now.                  *)
(***************************************************************************)

Aborted(t) == IF t = Reconciler THEN ReconcileAborted ELSE OpsAborted

\* enter_send_boundary, the last look at the permit, record_attempt and save.
EnterBoundary(t) ==
  /\ task[t].pc = "boundary" /\ ~Aborted(t) /\ boundary = None
  /\ Allows(task[t].session, task[t].gen)
  /\ boundary' = t
  /\ Step(t, "sending")
  /\ UNCHANGED <<storeVars, permit, engine, daemon, planned, scan, conn, stopVars>>

\* The permit is gone, so the reconcile task goes on with its next target and a
\* manual retry fails; or the attempt cannot be saved, which ends either one.
BoundaryCancel(t) ==
  /\ task[t].pc = "boundary" /\ ~Aborted(t) /\ boundary = None
  /\ \/ /\ ~Allows(task[t].session, task[t].gen) /\ t = Reconciler
        /\ NextTarget
        /\ UNCHANGED <<engine, planned, scan>>
     \/ /\ IF Allows(task[t].session, task[t].gen) THEN SaveMayFail ELSE t # Reconciler
        /\ EndTask(t)
  /\ UNCHANGED <<storeVars, permit, boundary, daemon, conn, stopVars>>

\* Mutant: the guard of the boundary outlives the send.
SendDoneHoldingBoundary(t) ==
  /\ task[t].pc = "sending" /\ ~Aborted(t)
  /\ IF t = Reconciler
     THEN NextTarget /\ UNCHANGED <<engine, planned, scan>>
     ELSE EndTask(t)
  /\ UNCHANGED <<storeVars, permit, boundary, daemon, conn, stopVars>>

\* resume returned and its outcome was recorded; the guard of the boundary is
\* dropped at the end of the iteration, the engine's at the end of the retry.
SendDone(t) ==
  /\ task[t].pc = "sending" /\ ~Aborted(t)
  /\ boundary' = None
  /\ IF t = Reconciler
     THEN NextTarget /\ UNCHANGED <<engine, planned, scan>>
     ELSE EndTask(t)
  /\ UNCHANGED <<storeVars, permit, daemon, conn, stopVars>>

-----------------------------------------------------------------------------
(***************************************************************************)
(* Control connections.                                                    *)
(***************************************************************************)

\* snapshot.get, sessions.list and config.get, answered under the daemon lock.
ReadSnapshot(c) ==
  /\ conn[c].pc = "idle" /\ daemon = None /\ revision < MaxRevision
  /\ conn' = [conn EXCEPT ![c] = [@ EXCEPT !.pc = "viewed", !.seen =
                [revision |-> revision, watchlist |-> watchlist, policy |-> policy]]]
  /\ UNCHANGED <<storeVars, permit, lockVars, taskVars, stopVars>>

\* Mutant: the parameters of a request are not decoded.
RequestUndecoded(c, method, arg) ==
  /\ conn[c].pc \in {"idle", "viewed"} /\ revision < MaxRevision
  /\ conn' = [conn EXCEPT ![c] = [@ EXCEPT !.method = method, !.arg = arg, !.pc =
                IF method \in RecoveryBoundaryMethods THEN "boundary" ELSE "lock"]]
  /\ UNCHANGED <<storeVars, permit, lockVars, taskVars, stopVars>>

\* A mutation arrives; expected_revision is that of the client's snapshot.
Request(c, method, arg) ==
  /\ conn[c].pc \in {"idle", "viewed"} /\ revision < MaxRevision
  /\ arg \in IF method \in {"sessions.add", "sessions.remove"} THEN Sessions
             ELSE IF method = "config.policies" THEN Policies ELSE {None}
  /\ conn' = [conn EXCEPT ![c] = [@ EXCEPT !.method = method, !.arg = arg, !.pc =
                IF method \in RecoveryBoundaryMethods THEN "boundary" ELSE "lock"]]
  /\ UNCHANGED <<storeVars, permit, lockVars, taskVars, stopVars>>

\* Mutant: the guard of the boundary is dropped at once.
EnterControlBoundaryUnheld(c) ==
  /\ conn[c].pc = "boundary" /\ boundary = None
  /\ conn' = [conn EXCEPT ![c].pc = "lock"]
  /\ UNCHANGED <<storeVars, permit, lockVars, taskVars, stopVars>>

EnterControlBoundary(c) ==
  /\ conn[c].pc = "boundary" /\ boundary = None
  /\ boundary' = c
  /\ conn' = [conn EXCEPT ![c].pc = "lock"]
  /\ UNCHANGED <<storeVars, permit, engine, daemon, taskVars, stopVars>>

\* Leaving a handler drops its guards.
Respond(c) ==
  /\ conn' = [conn EXCEPT ![c] = IdleConn]
  /\ boundary' = IF boundary = c THEN None ELSE boundary
  /\ daemon' = None

\* check_revision, then bump_revision: the new revision is on disk and in the
\* permit before the mutation is applied.
HandleControl(c) ==
  /\ conn[c].pc = "lock" /\ daemon = None
  /\ conn[c].seen.revision \in {0, revision}
  /\ daemon' = c
  /\ revision' = revision + 1
  /\ permit' = Permit(TRUE, watchlist, revision + 1)
  /\ conn' = [conn EXCEPT ![c].pc = "write"]
  /\ UNCHANGED <<watchlist, excluded, policy, engine, boundary, taskVars, stopVars>>

\* A revision conflict, or a bump_revision that could not be saved.
HandleControlError(c) ==
  /\ conn[c].pc = "lock" /\ daemon = None
  /\ conn[c].seen.revision \notin {0, revision} \/ SaveMayFail
  /\ Respond(c)
  /\ UNCHANGED <<storeVars, permit, engine, taskVars, stopVars>>

\* WatchlistStore::add, WatchlistStore::remove, save_settings.
ApplyControl(c) ==
  /\ conn[c].pc = "write"
  /\ LET method == conn[c].method  arg == conn[c].arg IN
     \/ /\ method = "sessions.add"
        /\ watchlist' = watchlist \cup {arg}
        /\ excluded' = excluded \ {arg}
        /\ UNCHANGED policy
     \/ /\ method = "sessions.remove"
        /\ watchlist' = watchlist \ {arg}
        /\ excluded' = excluded \cup {arg}
        /\ UNCHANGED policy
     \/ /\ method = "config.policies"
        /\ policy' = arg
        /\ UNCHANGED <<watchlist, excluded>>
     \/ /\ method = "config.set_lifecycle"
        /\ UNCHANGED <<watchlist, excluded, policy>>
  /\ conn' = [conn EXCEPT ![c].pc = "publish"]
  /\ UNCHANGED <<revision, permit, lockVars, taskVars, stopVars>>

\* The file could not be written: the revision stays bumped, nothing else changed.
ApplyControlError(c) ==
  /\ conn[c].pc = "write" /\ SaveMayFail
  /\ Respond(c)
  /\ UNCHANGED <<storeVars, permit, engine, taskVars, stopVars>>

\* update_recovery_permit with the new list, then the response.
PublishControl(c) ==
  /\ conn[c].pc = "publish"
  /\ permit' = IF conn[c].method \in {"sessions.add", "sessions.remove"}
               THEN Permit(TRUE, watchlist, revision) ELSE permit
  /\ Respond(c)
  /\ UNCHANGED <<storeVars, engine, taskVars, stopVars>>

-----------------------------------------------------------------------------
(***************************************************************************)
(* Shutdown and restart.  An aborted task is dropped at its next await     *)
(* point, so it takes no further step of its own.                          *)
(***************************************************************************)

StopSignal ==
  /\ phase = "running"
  /\ phase' = "signalled"
  /\ UNCHANGED <<storeVars, permit, lockVars, taskVars, conn, halt>>

StopRead ==
  /\ phase = "signalled" /\ daemon = None
  /\ halt' = [targets |-> watchlist, revision |-> revision + 1]
  /\ phase' = "read"
  /\ UNCHANGED <<storeVars, permit, lockVars, taskVars, conn>>

\* permit.update(false, ...) and reconcile.abort().
Revoke ==
  /\ phase = "read"
  /\ permit' = Permit(FALSE, halt.targets, halt.revision)
  /\ phase' = "revoked"
  /\ halt' = NoHalt
  /\ UNCHANGED <<storeVars, lockVars, taskVars, conn>>

AbortOps ==
  /\ phase = "revoked"
  /\ phase' = "ops_aborted"
  /\ UNCHANGED <<storeVars, permit, lockVars, taskVars, conn, halt>>

Spawned(o) == task[o].pc \notin {"idle", "admitted", "prepared"}

\* Mutant: the engine of an aborted task stays locked.
DropTaskHoldingEngine(t) ==
  /\ Aborted(t)
  /\ IF t = Reconciler THEN task[t].pc \notin {"idle", "preparing"} ELSE Spawned(t)
  /\ task' = [task EXCEPT ![t] = IdleTask]
  /\ boundary' = IF boundary = t THEN None ELSE boundary
  /\ UNCHANGED <<storeVars, permit, engine, daemon, planned, scan, conn, stopVars>>

\* The runtime drops an aborted task, and with it the guards it holds.
DropTask(t) ==
  /\ Aborted(t)
  /\ IF t = Reconciler THEN task[t].pc \notin {"idle", "preparing"} ELSE Spawned(t)
  /\ EndTask(t)
  /\ boundary' = IF boundary = t THEN None ELSE boundary
  /\ UNCHANGED <<storeVars, permit, daemon, conn, stopVars>>

JoinOps ==
  /\ phase = "ops_aborted" /\ \A o \in Ops : ~Spawned(o)
  /\ phase' = "joined"
  /\ UNCHANGED <<storeVars, permit, lockVars, taskVars, conn, halt>>

\* Mutant: serve returns without waiting for the engine.
CloseEngineUnlocked ==
  /\ phase = "joined"
  /\ phase' = "closed"
  /\ UNCHANGED <<storeVars, permit, lockVars, taskVars, conn, halt>>

CloseEngine ==
  /\ phase = "joined" /\ engine = None
  /\ phase' = "closed"
  /\ UNCHANGED <<storeVars, permit, lockVars, taskVars, conn, halt>>

\* A crash, or an exit, and a new process: WatchcatDaemon::load reads the files
\* back and ControlStateStore::load takes a new revision.
Restart ==
  /\ revision < MaxRevision
  /\ revision' = revision + 1
  /\ permit' = Permit(TRUE, watchlist, revision + 1)
  /\ engine' = None /\ boundary' = None /\ daemon' = None
  /\ task' = [t \in Tasks |-> IdleTask]
  /\ planned' = {} /\ scan' = EmptyScan
  /\ conn' = [c \in Conns |-> IdleConn]
  /\ phase' = "running"
  /\ halt' = NoHalt
  /\ UNCHANGED <<watchlist, excluded, policy>>

\* The process has exited and nobody starts it again.
Exited == phase = "closed" /\ UNCHANGED vars

-----------------------------------------------------------------------------
Init ==
  /\ revision = 1
  /\ watchlist \in SUBSET Sessions
  /\ excluded \in SUBSET (Sessions \ watchlist)
  /\ policy = "retry"
  /\ permit = Permit(TRUE, watchlist, 1)
  /\ engine = None /\ boundary = None /\ daemon = None
  /\ task = [t \in Tasks |-> IdleTask]
  /\ planned = {} /\ scan = EmptyScan
  /\ conn = [c \in Conns |-> IdleConn]
  /\ phase = "running"
  /\ halt = NoHalt

ReconcileStep ==
  \/ PrepareLock \/ PrepareReconcile \/ PrepareError
  \/ \E p \in Policies : PrepareReload(p)
  \/ ReconcileLock
  \/ \E found, expired \in SUBSET Sessions, touched \in BOOLEAN :
       ReconcileDiscover(found, expired, touched)
  \/ \E s \in Sessions : ScanTarget(s)
  \/ InspectSkip \/ InspectReady
  \/ RecheckSame \/ RecheckCancel \/ RecheckError
  \/ CommitReconcile

OpStep(o) ==
  \/ OpPrepare(o) \/ OpRefuse(o) \/ OpSpawn(o)
  \/ OpLock(o) \/ OpLockFail(o)
  \/ OpAuthorize(o) \/ OpInspect(o) \/ OpReject(o)

SendStep(t) == EnterBoundary(t) \/ BoundaryCancel(t) \/ SendDone(t) \/ DropTask(t)

ControlStep(c) ==
  \/ EnterControlBoundary(c)
  \/ HandleControl(c) \/ HandleControlError(c)
  \/ ApplyControl(c) \/ ApplyControlError(c)
  \/ PublishControl(c)

StopStep == StopRead \/ Revoke \/ AbortOps \/ JoinOps \/ CloseEngine

Next ==
  \/ phase # "closed" /\
       \/ ReconcileStep
       \/ \E o \in Ops : OpStep(o) \/ \E s \in Sessions : OpAdmit(o, s)
       \/ \E t \in Tasks : SendStep(t)
       \/ \E c \in Conns :
            \/ ControlStep(c)
            \/ ReadSnapshot(c)
            \/ \E method \in Methods, arg \in Sessions \cup Policies \cup {None} :
                 Request(c, method, arg)
       \/ StopSignal \/ StopStep
  \/ Restart
  \/ Exited

Spec == Init /\ [][Next]_vars

(***************************************************************************)
(* Fairness.  Tokio polls every runnable task and its mutexes are FIFO, so  *)
(* a task that waits for a lock that becomes free again and again gets it:  *)
(* strong fairness of each task.  A provider request ends by its timeout.   *)
(* Nothing is assumed of clients, of the poll timer or of the stop signal.  *)
(***************************************************************************)
ReconcileProgress ==
  \/ PrepareReconcile \/ ReconcileLock
  \/ \E found, expired \in SUBSET Sessions, touched \in BOOLEAN :
       ReconcileDiscover(found, expired, touched)
  \/ \E s \in Sessions : ScanTarget(s)
  \/ InspectSkip \/ RecheckCancel \/ CommitReconcile \/ SendStep(Reconciler)

Fairness ==
  /\ SF_vars(ReconcileProgress)
  /\ \A o \in Ops : SF_vars(OpStep(o) \/ SendStep(o))
  /\ \A c \in Conns : SF_vars(ControlStep(c))
  /\ SF_vars(StopStep)

FairSpec == Spec /\ Fairness

-----------------------------------------------------------------------------
(***************************************************************************)
(* Properties.                                                             *)
(***************************************************************************)

PermitType == [running : BOOLEAN, targets : SUBSET Sessions, generation : Nat]
TaskType == [pc : TaskPcs, session : Sessions \cup {None}, gen : Nat, policy : Policies]
ScanType == [found : SUBSET Sessions, expired : SUBSET Sessions, touched : BOOLEAN,
             todo : SUBSET Sessions]
SnapshotType == [revision : Nat, watchlist : SUBSET Sessions, policy : Policies]
ConnType == [pc : ConnPcs, method : Methods, arg : Sessions \cup Policies \cup {None},
             seen : SnapshotType]
HaltType == [targets : SUBSET Sessions, revision : Nat]

\* The type of every variable of the control plane.
TypeOK ==
  /\ revision \in Nat
  /\ watchlist \in SUBSET Sessions
  /\ excluded \in SUBSET Sessions
  /\ policy \in Policies
  /\ permit \in PermitType
  /\ engine \in Tasks \cup {None}
  /\ boundary \in Tasks \cup Conns \cup {None}
  /\ daemon \in Conns \cup {Reconciler, None}
  /\ task \in [Tasks -> TaskType]
  /\ planned \in SUBSET Sessions
  /\ scan \in ScanType
  /\ conn \in [Conns -> ConnType]
  /\ phase \in Phases
  /\ halt \in HaltType

Sending(t) == task[t].pc = "sending"
StartsSend(t) == ~Sending(t) /\ Sending(t)'

\* "Automatic session continuations require current watchlist membership;
\* exclusions revoke recovery": as long as a recovery turn is being sent its
\* session is on the watchlist, whichever of removal, expiry, hot reload,
\* shutdown and restart runs concurrently.
SendOnlyWatched ==
  \A t \in Tasks : Sending(t) => task[t].session \in watchlist

\* A send is never authorised by settings that the daemon has replaced: when
\* the boundary is passed, the policy the task works with is the daemon's.
SendUnderCurrentPolicy ==
  [][\A t \in Tasks : StartsSend(t) => task[t].policy = policy /\ policy = "retry"]_vars

\* Two sends never overlap, and none overlaps the window in which sessions.remove
\* or config.policies.* is applied: an acknowledged removal or policy change is
\* never followed by the end of a send that it should have prevented.
SendsExcludeRevocations ==
  \A t \in Tasks : Sending(t) =>
    /\ \A u \in Tasks : Sending(u) => u = t
    /\ \A c \in Conns : conn[c].pc \in {"write", "publish"}
                          => conn[c].method \notin RecoveryBoundaryMethods

\* The revision names the state: a client whose snapshot carries the current
\* revision has seen the current watchlist and policy, so that check_revision
\* really refuses stale writes.
RevisionNamesState ==
  \A c \in Conns :
    conn[c].seen.revision = revision /\ daemon = None
      => conn[c].seen.watchlist = watchlist /\ conn[c].seen.policy = policy

\* "Manual removals persist as exclusions": a session that was removed by hand
\* comes back by sessions.add only, never through a scan that began earlier.
ExclusionSticks ==
  [][\A s \in excluded : s \in watchlist' =>
       \E c \in Conns : conn[c].pc = "write" /\ conn[c].method = "sessions.add"
                        /\ conn[c].arg = s]_vars

\* "Scans run outside the control lock and commit only at their original
\* revision": a scan that changes the watchlist was planned from that watchlist.
CommitOnlyAsPlanned ==
  [][watchlist' # watchlist /\ task[Reconciler].pc = "scan"
       /\ task'[Reconciler].pc = "idle" => watchlist = planned]_vars

\* When serve returns no recovery is being sent and no task holds the engine.
QuietOnceClosed ==
  phase = "closed" =>
    /\ engine = None
    /\ \A t \in Tasks : ~Sending(t)

\* Every control request is answered unless the process exits first: the lock
\* order engine, boundary, daemon has no cycle, and no holder waits for a request.
RequestsAnswered ==
  \A c \in Conns : conn[c].pc \notin {"idle", "viewed"}
                      ~> conn[c].pc = "idle" \/ phase = "closed"

\* A stop signal ends in a closed engine (or in a restart): shutdown waits for
\* tasks that it has aborted, never for one that waits for it.
StopCompletes == phase = "signalled" ~> phase \in {"closed", "running"}

\* "Service shutdown first revokes the recovery permit [...] so no new
\* continuation starts after the stop signal" (docs/architecture.md:94-96).
NoSendAfterRevocation ==
  [][phase \notin {"running", "signalled", "read"} => \A t \in Tasks : ~StartsSend(t)]_vars

=============================================================================
