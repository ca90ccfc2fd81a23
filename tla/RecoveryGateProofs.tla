------------------------- MODULE RecoveryGateProofs -------------------------
(***************************************************************************)
(* Proofs about RecoveryGate for any sessions, retries, connections and    *)
(* revisions, with state files that may or may not be written.             *)
(*                                                                         *)
(* The inductive invariant SafetyInv has four parts.                       *)
(*   TypeInv      types, and the argument of a request fits its method;    *)
(*   LockInv      the program counters that hold the engine, the boundary  *)
(*                and the daemon lock are those of their owners;           *)
(*   RevisionInv  what a revision stands for: a permit that is given       *)
(*                carries the current one, and a task that carries the     *)
(*                current one has the current policy and watchlist;        *)
(*   SendOnlyWatched itself.                                               *)
(* A task that passes the boundary has the generation of the permit, hence *)
(* the current revision, hence the current policy and a watched session.   *)
(* What could take the session off the list during the send is a commit,   *)
(* which needs the engine that the sender owns, or a removal, which needs  *)
(* the boundary.                                                           *)
(*                                                                         *)
(* Two more invariants build on it: ClosedUnlocked for the end of a        *)
(* shutdown, and SnapshotInv for what the control clients have seen.       *)
(***************************************************************************)
EXTENDS RecoveryGate, TLAPS

\* The argument of a request in progress has the type its method needs.
ArgTyped ==
  \A c \in Conns : conn[c].pc \in {"boundary", "lock", "write", "publish"} =>
    /\ conn[c].method \in {"sessions.add", "sessions.remove"} => conn[c].arg \in Sessions
    /\ conn[c].method = "config.policies" => conn[c].arg \in Policies

TypeInv == TypeOK /\ ArgTyped

-----------------------------------------------------------------------------
(***************************************************************************)
(* How the records of the tasks and of the connections change.             *)
(***************************************************************************)

\* The reconcile task is one of the tasks.
LEMMA ReconcilerIsTask == Reconciler \in Tasks
  BY DEF Tasks

\* The records that Init and the ends of handlers assign have their types.
LEMMA InitialRecords ==
  /\ IdleTask \in TaskType
  /\ IdleConn \in ConnType
  /\ EmptyScan \in ScanType
  /\ NoHalt \in HaltType
<1>1. NoSnapshot \in SnapshotType
  BY DEF NoSnapshot, SnapshotType, Policies
<1> QED
  BY <1>1 DEF IdleTask, TaskType, TaskPcs, Policies, IdleConn, ConnType, ConnPcs, Methods,
     EmptyScan, ScanType, NoHalt, HaltType

\* Both values of the permit that update can leave have the type of permits.
LEMMA PermitTyped ==
  ASSUME NEW targets \in SUBSET Sessions, NEW generation \in Nat
  PROVE  /\ Permit(TRUE, targets, generation) \in PermitType
         /\ Permit(FALSE, targets, generation) \in PermitType
  BY DEF Permit, PermitType

\* Moving a program counter keeps the type of the tasks.
LEMMA StepTyped ==
  ASSUME task \in [Tasks -> TaskType], NEW t \in Tasks, NEW pc \in TaskPcs, Step(t, pc)
  PROVE  task' \in [Tasks -> TaskType]
  BY DEF Step, TaskType

\* Going on with the loop over the targets keeps the type of the tasks.
LEMMA NextTargetTyped ==
  ASSUME task \in [Tasks -> TaskType], NextTarget
  PROVE  task' \in [Tasks -> TaskType]
  BY ReconcilerIsTask DEF NextTarget, TaskType, TaskPcs

\* Ending a task keeps the types of what it resets.
LEMMA EndTaskTyped ==
  ASSUME TypeOK, NEW t \in Tasks, EndTask(t)
  PROVE  /\ task' \in [Tasks -> TaskType]
         /\ engine' \in Tasks \cup {None}
         /\ planned' \in SUBSET Sessions
         /\ scan' \in ScanType
  BY InitialRecords DEF EndTask, TypeOK

\* A plan of prepare_reconcile has the types of what it is stored in.
LEMMA PlanTyped ==
  ASSUME TypeOK, NEW gen \in Nat, NEW p \in Policies, Plan(gen, p)
  PROVE  /\ permit' \in PermitType
         /\ planned' \in SUBSET Sessions
         /\ task' \in [Tasks -> TaskType]
         /\ daemon' = None
<1>1. [pc |-> "engine", session |-> None, gen |-> gen, policy |-> p] \in TaskType
  BY DEF TaskType, TaskPcs
<1> QED BY <1>1, PermitTyped DEF Plan, TypeOK

\* The type invariant holds in the initial states.
LEMMA TypeInit == Init => TypeInv
<1> SUFFICES ASSUME Init PROVE TypeInv
  OBVIOUS
<1>1. permit \in PermitType
  BY DEF Init, Permit, PermitType
<1> QED BY <1>1, InitialRecords DEF Init, TypeInv, TypeOK, ArgTyped, IdleConn, Policies,
     Phases

\* Every step keeps the type invariant.
LEMMA TypeStep == TypeInv /\ [Next]_vars => TypeInv'
<1> SUFFICES ASSUME TypeInv, [Next]_vars PROVE TypeInv'
  OBVIOUS
<1> USE GateAssumption, ReconcilerIsTask, InitialRecords
    DEF TypeInv, TypeOK, ArgTyped, storeVars, lockVars, taskVars, stopVars
<1>1. CASE PrepareLock
  BY <1>1, StepTyped DEF PrepareLock, TaskPcs
<1>2. CASE PrepareReconcile
  BY <1>2, PlanTyped DEF PrepareReconcile
<1>3. ASSUME NEW p \in Policies, PrepareReload(p) PROVE TypeInv'
  BY <1>3, PlanTyped DEF PrepareReload
<1>4. CASE ReconcileLock
  BY <1>4, StepTyped DEF ReconcileLock, TaskPcs
<1>5. ASSUME NEW found \in SUBSET Sessions, NEW expired \in SUBSET Sessions,
             NEW touched \in BOOLEAN, ReconcileDiscover(found, expired, touched)
      PROVE  TypeInv'
  <2>1. scan' \in ScanType
    BY <1>5 DEF ReconcileDiscover, ScanType
  <2> QED BY <1>5, <2>1, NextTargetTyped DEF ReconcileDiscover
<1>6. ASSUME NEW s \in Sessions, ScanTarget(s) PROVE TypeInv'
  <2>1. scan' \in ScanType
    BY <1>6 DEF ScanTarget, ScanType
  <2>2. [task[Reconciler] EXCEPT !.pc = "inspect", !.session = s] \in TaskType
    BY DEF TaskType, TaskPcs
  <2> QED BY <1>6, <2>1, <2>2 DEF ScanTarget
<1>7. CASE InspectSkip \/ RecheckCancel
  BY <1>7, NextTargetTyped DEF InspectSkip, RecheckCancel
<1>8. CASE InspectReady \/ RecheckSame
  BY <1>8, StepTyped DEF InspectReady, RecheckSame, TaskPcs
<1>9. CASE RecheckError \/ PrepareError
  BY <1>9, EndTaskTyped DEF RecheckError, PrepareError
<1>10. CASE CommitReconcile
  <2>1. Reconciled \in SUBSET Sessions
    BY DEF Reconciled, ScanType
  <2>2. /\ watchlist' \in SUBSET Sessions
        /\ revision' \in Nat
        /\ permit' \in PermitType
    <3>1. watchlist' \in SUBSET Sessions
      BY <1>10, <2>1 DEF CommitReconcile
    <3>2. revision' \in {revision, revision + 1}
      BY <1>10 DEF CommitReconcile
    <3>3. revision' \in Nat
      BY <3>2
    <3>4. permit' = permit \/ permit' = Permit(TRUE, Reconciled, revision')
      BY <1>10 DEF CommitReconcile
    <3>5. Permit(TRUE, Reconciled, revision') \in PermitType
      BY <2>1, <3>3 DEF Permit, PermitType
    <3> QED BY <3>1, <3>3, <3>4, <3>5
  <2> QED BY <1>10, <2>2, EndTaskTyped DEF CommitReconcile
<1>11. ASSUME NEW o \in Ops, NEW s \in Sessions, OpAdmit(o, s) PROVE TypeInv'
  <2>1. o \in Tasks
    BY DEF Tasks
  <2>2. [task[o] EXCEPT !.pc = "admitted", !.session = s] \in TaskType
    BY <2>1 DEF TaskType, TaskPcs
  <2> QED BY <1>11, <2>1, <2>2 DEF OpAdmit
<1>12. ASSUME NEW o \in Ops, OpStep(o) PROVE TypeInv'
  <2>0. o \in Tasks
    BY DEF Tasks
  <2>1. CASE OpPrepare(o)
    <3>1. [task[o] EXCEPT !.pc = "prepared", !.gen = revision, !.policy = policy] \in TaskType
      BY <2>0 DEF TaskType, TaskPcs
    <3> QED BY <2>0, <2>1, <3>1 DEF OpPrepare
  <2>2. CASE OpSpawn(o) \/ OpAuthorize(o) \/ OpInspect(o)
    BY <2>0, <2>2, StepTyped DEF OpSpawn, OpAuthorize, OpInspect, TaskPcs
  <2>3. CASE OpLock(o)
    BY <2>0, <2>3, StepTyped DEF OpLock, TaskPcs
  <2>4. CASE OpRefuse(o) \/ OpLockFail(o) \/ OpReject(o)
    BY <2>0, <2>4, EndTaskTyped DEF OpRefuse, OpLockFail, OpReject
  <2> QED BY <1>12, <2>1, <2>2, <2>3, <2>4 DEF OpStep
<1>13. ASSUME NEW t \in Tasks, SendStep(t) PROVE TypeInv'
  <2>1. CASE EnterBoundary(t)
    BY <2>1, StepTyped DEF EnterBoundary, TaskPcs
  <2>2. CASE BoundaryCancel(t)
    BY <2>2, NextTargetTyped, EndTaskTyped DEF BoundaryCancel
  <2>3. CASE SendDone(t)
    BY <2>3, NextTargetTyped, EndTaskTyped DEF SendDone
  <2>4. CASE DropTask(t)
    BY <2>4, EndTaskTyped DEF DropTask
  <2> QED BY <1>13, <2>1, <2>2, <2>3, <2>4 DEF SendStep
<1>14. ASSUME NEW c \in Conns, ReadSnapshot(c) PROVE TypeInv'
  <2>1. [revision |-> revision, watchlist |-> watchlist, policy |-> policy] \in SnapshotType
    BY DEF SnapshotType
  <2> DEFINE viewed == [conn[c] EXCEPT !.pc = "viewed", !.seen =
                 [revision |-> revision, watchlist |-> watchlist, policy |-> policy]]
  <2>2. viewed \in ConnType /\ viewed.pc = "viewed"
    BY <2>1 DEF ConnType, ConnPcs
  <2>3. conn' = [conn EXCEPT ![c] = viewed]
    BY <1>14 DEF ReadSnapshot
  <2> HIDE DEF viewed
  <2> QED BY <1>14, <2>2, <2>3 DEF ReadSnapshot
<1>15. ASSUME NEW c \in Conns, NEW method \in Methods,
              NEW arg \in Sessions \cup Policies \cup {None}, Request(c, method, arg)
       PROVE  TypeInv'
  <2> DEFINE asked == [conn[c] EXCEPT !.method = method, !.arg = arg, !.pc =
                 IF method \in RecoveryBoundaryMethods THEN "boundary" ELSE "lock"]
  <2>1. asked \in ConnType /\ asked.method = method /\ asked.arg = arg
    BY DEF ConnType, ConnPcs
  <2>2. conn' = [conn EXCEPT ![c] = asked]
    BY <1>15 DEF Request
  <2>3. /\ method \in {"sessions.add", "sessions.remove"} => arg \in Sessions
        /\ method = "config.policies" => arg \in Policies
    BY <1>15 DEF Request
  <2> HIDE DEF asked
  <2> QED BY <1>15, <2>1, <2>2, <2>3 DEF Request
<1>16. ASSUME NEW c \in Conns, ControlStep(c) PROVE TypeInv'
  <2>1. ASSUME Respond(c)
        PROVE  conn' \in [Conns -> ConnType] /\ ArgTyped'
               /\ boundary' \in Tasks \cup Conns \cup {None} /\ daemon' = None
    BY <2>1 DEF Respond, IdleConn
  <2>2. ASSUME NEW pc \in {"lock", "write", "publish"}, conn' = [conn EXCEPT ![c].pc = pc],
               conn[c].pc \in {"boundary", "lock", "write", "publish"}
        PROVE  conn' \in [Conns -> ConnType] /\ ArgTyped'
    BY <2>2 DEF ConnType, ConnPcs
  <2>3. CASE EnterControlBoundary(c)
    BY <2>2, <2>3 DEF EnterControlBoundary
  <2>4. CASE HandleControl(c)
    <3>1. permit' \in PermitType
      BY <2>4 DEF HandleControl, Permit, PermitType
    <3>2. conn' \in [Conns -> ConnType] /\ ArgTyped'
      BY <2>2, <2>4 DEF HandleControl
    <3>3. revision' \in Nat
      BY <2>4 DEF HandleControl
    <3> QED BY <2>4, <3>1, <3>2, <3>3 DEF HandleControl
  <2>5. CASE HandleControlError(c) \/ ApplyControlError(c)
    BY <2>1, <2>5 DEF HandleControlError, ApplyControlError
  <2>6. CASE ApplyControl(c)
    BY <2>2, <2>6 DEF ApplyControl
  <2>7. CASE PublishControl(c)
    BY <2>1, <2>7, PermitTyped DEF PublishControl
  <2> QED BY <1>16, <2>3, <2>4, <2>5, <2>6, <2>7 DEF ControlStep
<1>17. CASE StopSignal \/ StopStep
  <2>1. CASE StopRead
    BY <2>1 DEF StopRead, HaltType, Phases
  <2>2. CASE Revoke
    <3>1. permit' \in PermitType
      BY <2>2, PermitTyped DEF Revoke, HaltType
    <3> QED BY <2>2, <3>1 DEF Revoke, Phases
  <2>3. CASE StopSignal \/ AbortOps \/ JoinOps \/ CloseEngine
    BY <2>3 DEF StopSignal, AbortOps, JoinOps, CloseEngine, Phases
  <2> QED BY <1>17, <2>1, <2>2, <2>3 DEF StopStep
<1>18. CASE Restart
  <2>1. permit' \in PermitType
    BY <1>18 DEF Restart, Permit, PermitType
  <2>2. revision' \in Nat
    BY <1>18 DEF Restart
  <2>3. conn' \in [Conns -> ConnType] /\ ArgTyped'
    BY <1>18 DEF Restart, IdleConn
  <2> QED BY <1>18, <2>1, <2>2, <2>3 DEF Restart, Phases
<1>19. CASE Exited \/ UNCHANGED vars
  BY <1>19 DEF Exited, vars
<1> HIDE GateAssumption, ReconcilerIsTask, InitialRecords DEF TypeInv
<1> QED BY <1>1, <1>2, <1>3, <1>4, <1>5, <1>6, <1>7, <1>8, <1>9, <1>10, <1>11, <1>12,
     <1>13, <1>14, <1>15, <1>16, <1>17, <1>18, <1>19 DEF Next, ReconcileStep

\* Every reachable state of the control plane has the expected types.
THEOREM TypeCorrect == Spec => []TypeOK
<1>1. Spec => []TypeInv
  BY TypeInit, TypeStep, PTL DEF Spec
<1> QED BY <1>1, PTL DEF TypeInv

-----------------------------------------------------------------------------
(***************************************************************************)
(* Who owns which lock.                                                    *)
(***************************************************************************)

EnginePcs == {"authorize", "discover", "scan", "inspect", "recheck", "boundary", "sending"}

\* A task that works with the engine owns it.
EngineHeld == \A t \in Tasks : task[t].pc \in EnginePcs => engine = t

\* A sending task, and a revoking request past its boundary, own the boundary.
BoundaryHeld ==
  /\ \A t \in Tasks : Sending(t) => boundary = t
  /\ \A c \in Conns : conn[c].pc \in {"lock", "write", "publish"}
                       /\ conn[c].method \in RecoveryBoundaryMethods => boundary = c

\* A request being applied, and a reconcile pass being prepared, own the daemon.
DaemonHeld ==
  /\ \A c \in Conns : conn[c].pc \in {"write", "publish"} => daemon = c
  /\ task[Reconciler].pc = "preparing" => daemon = Reconciler

LockInv == EngineHeld /\ BoundaryHeld /\ DaemonHeld

SameOthers(t) == \A u \in Tasks : u # t => task'[u] = task[u]

\* Moving a program counter changes nothing else of any task.
LEMMA StepEffect ==
  ASSUME task \in [Tasks -> TaskType], NEW t \in Tasks, NEW pc, Step(t, pc)
  PROVE  /\ task'[t].pc = pc
         /\ task'[t].session = task[t].session
         /\ task'[t].gen = task[t].gen
         /\ task'[t].policy = task[t].policy
         /\ SameOthers(t)
  BY DEF Step, TaskType, SameOthers

\* Going on with the loop keeps the plan of the reconcile task.
LEMMA NextTargetEffect ==
  ASSUME task \in [Tasks -> TaskType], NextTarget
  PROVE  /\ task'[Reconciler].pc = "scan"
         /\ task'[Reconciler].gen = task[Reconciler].gen
         /\ task'[Reconciler].policy = task[Reconciler].policy
         /\ SameOthers(Reconciler)
  BY ReconcilerIsTask DEF NextTarget, TaskType, SameOthers

\* The head of the loop goes to inspect or leaves the tasks alone.
LEMMA ScanTargetEffect ==
  ASSUME task \in [Tasks -> TaskType], NEW s, ScanTarget(s)
  PROVE  \/ task' = task
         \/ /\ task'[Reconciler].pc = "inspect"
            /\ task'[Reconciler].gen = task[Reconciler].gen
            /\ task'[Reconciler].policy = task[Reconciler].policy
            /\ SameOthers(Reconciler)
<1>1. \/ task' = task
      \/ task' = [task EXCEPT ![Reconciler] = [@ EXCEPT !.pc = "inspect", !.session = s]]
  BY DEF ScanTarget
<1> QED BY <1>1, ReconcilerIsTask DEF TaskType, SameOthers

\* A task that ends is idle, without a generation and without the engine.
LEMMA EndTaskEffect ==
  ASSUME task \in [Tasks -> TaskType], NEW t \in Tasks, EndTask(t)
  PROVE  /\ task'[t].pc = "idle"
         /\ task'[t].gen = 0
         /\ SameOthers(t)
         /\ engine' = IF engine = t THEN None ELSE engine
         /\ t # Reconciler => planned' = planned
  BY DEF EndTask, IdleTask, SameOthers

\* prepare_reconcile gives the reconcile task the policy and the targets of its
\* generation.
LEMMA PlanEffect ==
  ASSUME task \in [Tasks -> TaskType], NEW gen, NEW p, Plan(gen, p)
  PROVE  /\ task'[Reconciler].pc = "engine"
         /\ task'[Reconciler].gen = gen
         /\ task'[Reconciler].policy = p
         /\ SameOthers(Reconciler)
         /\ planned' = watchlist
         /\ permit' = Permit(TRUE, watchlist, gen)
         /\ daemon' = None
  BY ReconcilerIsTask DEF Plan, SameOthers

SameOtherConns(c) == \A d \in Conns : d # c => conn'[d] = conn[d]

\* A handler that is left holds no lock.
LEMMA RespondEffect ==
  ASSUME conn \in [Conns -> ConnType], NEW c \in Conns, Respond(c)
  PROVE  /\ conn'[c].pc = "idle"
         /\ SameOtherConns(c)
         /\ boundary' = IF boundary = c THEN None ELSE boundary
         /\ daemon' = None
  BY DEF Respond, IdleConn, SameOtherConns

\* Moving the program counter of a connection keeps its request.
LEMMA ConnStepEffect ==
  ASSUME conn \in [Conns -> ConnType], NEW c \in Conns, NEW pc,
         conn' = [conn EXCEPT ![c].pc = pc]
  PROVE  /\ conn'[c].pc = pc
         /\ conn'[c].method = conn[c].method
         /\ SameOtherConns(c)
  BY DEF ConnType, SameOtherConns

\* No lock is held in the initial states.
LEMMA LockInit == Init => LockInv
  BY ReconcilerIsTask
  DEF Init, LockInv, EngineHeld, BoundaryHeld, DaemonHeld, EnginePcs, Sending, IdleTask, IdleConn

\* Every step keeps the ownership of the three locks in line with the program
\* counters.
LEMMA LockStep == TypeInv /\ LockInv /\ [Next]_vars => LockInv'
<1> SUFFICES ASSUME TypeInv, LockInv, [Next]_vars PROVE LockInv'
  OBVIOUS
<1>0. /\ task \in [Tasks -> TaskType]
      /\ conn \in [Conns -> ConnType]
      /\ None \notin Tasks \cup Conns
  BY GateAssumption DEF TypeInv, TypeOK, Tasks
<1> USE <1>0, GateAssumption, ReconcilerIsTask
    DEF LockInv, EngineHeld, BoundaryHeld, DaemonHeld, EnginePcs, Sending, SameOthers,
        storeVars, lockVars, taskVars, stopVars
<1>1. CASE PrepareLock
  BY <1>1, StepEffect DEF PrepareLock
<1>2. CASE PrepareReconcile
  BY <1>2, PlanEffect DEF PrepareReconcile
<1>3. ASSUME NEW p \in Policies, PrepareReload(p) PROVE LockInv'
  BY <1>3, PlanEffect DEF PrepareReload
<1>4. CASE ReconcileLock
  BY <1>4, StepEffect DEF ReconcileLock
<1>5. ASSUME NEW found \in SUBSET Sessions, NEW expired \in SUBSET Sessions,
             NEW touched \in BOOLEAN, ReconcileDiscover(found, expired, touched)
      PROVE  LockInv'
  BY <1>5, NextTargetEffect DEF ReconcileDiscover
<1>6. ASSUME NEW s \in Sessions, ScanTarget(s) PROVE LockInv'
  BY <1>6, ScanTargetEffect DEF ScanTarget
<1>7. CASE InspectSkip \/ RecheckCancel
  BY <1>7, NextTargetEffect DEF InspectSkip, RecheckCancel
<1>8. CASE InspectReady \/ RecheckSame
  BY <1>8, StepEffect DEF InspectReady, RecheckSame
<1>9. CASE RecheckError \/ PrepareError
  BY <1>9, EndTaskEffect DEF RecheckError, PrepareError
<1>10. CASE CommitReconcile
  BY <1>10, EndTaskEffect DEF CommitReconcile
<1>11. ASSUME NEW o \in Ops, NEW s \in Sessions, OpAdmit(o, s) PROVE LockInv'
  <2>1. task'[o].pc = "admitted" /\ SameOthers(o) /\ o \in Tasks /\ o # Reconciler
    BY <1>11 DEF OpAdmit, TaskType, Tasks
  <2> QED BY <1>11, <2>1 DEF OpAdmit
<1>12. ASSUME NEW o \in Ops, OpStep(o) PROVE LockInv'
  <2>0. o \in Tasks /\ o # Reconciler
    BY DEF Tasks
  <2>1. CASE OpPrepare(o)
    <3>1. task'[o].pc = "prepared" /\ SameOthers(o)
      BY <2>0, <2>1 DEF OpPrepare, TaskType
    <3> QED BY <2>0, <2>1, <3>1 DEF OpPrepare
  <2>2. CASE OpSpawn(o) \/ OpAuthorize(o) \/ OpInspect(o)
    BY <2>0, <2>2, StepEffect DEF OpSpawn, OpAuthorize, OpInspect
  <2>3. CASE OpLock(o)
    BY <2>0, <2>3, StepEffect DEF OpLock
  <2>4. CASE OpRefuse(o) \/ OpLockFail(o) \/ OpReject(o)
    BY <2>0, <2>4, EndTaskEffect DEF OpRefuse, OpLockFail, OpReject
  <2> QED BY <1>12, <2>1, <2>2, <2>3, <2>4 DEF OpStep
<1>13. ASSUME NEW t \in Tasks, SendStep(t) PROVE LockInv'
  <2>0. t \notin Conns
    BY DEF Tasks
  <2>1. CASE EnterBoundary(t)
    BY <2>0, <2>1, StepEffect DEF EnterBoundary
  <2>2. CASE BoundaryCancel(t)
    BY <2>2, NextTargetEffect, EndTaskEffect DEF BoundaryCancel
  <2>3. CASE SendDone(t)
    BY <2>0, <2>3, NextTargetEffect, EndTaskEffect DEF SendDone
  <2>4. CASE DropTask(t)
    BY <2>0, <2>4, EndTaskEffect DEF DropTask
  <2> QED BY <1>13, <2>1, <2>2, <2>3, <2>4 DEF SendStep
<1>14. ASSUME NEW c \in Conns, ReadSnapshot(c) PROVE LockInv'
  <2>1. conn'[c].pc = "viewed" /\ SameOtherConns(c)
    BY <1>14 DEF ReadSnapshot, ConnType, SameOtherConns
  <2> QED BY <1>14, <2>1 DEF ReadSnapshot, SameOtherConns
<1>15. ASSUME NEW c \in Conns, NEW method \in Methods,
              NEW arg \in Sessions \cup Policies \cup {None}, Request(c, method, arg)
       PROVE  LockInv'
  <2>1. /\ conn'[c].pc = IF method \in RecoveryBoundaryMethods THEN "boundary" ELSE "lock"
        /\ conn'[c].method = method
        /\ SameOtherConns(c)
    BY <1>15 DEF Request, ConnType, SameOtherConns
  <2> QED BY <1>15, <2>1 DEF Request, SameOtherConns
<1>16. ASSUME NEW c \in Conns, ControlStep(c) PROVE LockInv'
  <2>0. c \notin Tasks /\ c # Reconciler
    BY DEF Tasks
  <2>1. CASE EnterControlBoundary(c)
    BY <2>0, <2>1, ConnStepEffect DEF EnterControlBoundary, SameOtherConns
  <2>2. CASE HandleControl(c)
    BY <2>0, <2>2, ConnStepEffect DEF HandleControl, SameOtherConns
  <2>3. CASE HandleControlError(c) \/ ApplyControlError(c) \/ PublishControl(c)
    BY <2>0, <2>3, RespondEffect
    DEF HandleControlError, ApplyControlError, PublishControl, SameOtherConns
  <2>4. CASE ApplyControl(c)
    BY <2>4, ConnStepEffect DEF ApplyControl, SameOtherConns
  <2> QED BY <1>16, <2>1, <2>2, <2>3, <2>4 DEF ControlStep
<1>17. CASE StopSignal \/ StopStep
  BY <1>17 DEF StopSignal, StopStep, StopRead, Revoke, AbortOps, JoinOps, CloseEngine
<1>18. CASE Restart
  BY <1>18 DEF Restart, IdleTask, IdleConn
<1>19. CASE Exited \/ UNCHANGED vars
  BY <1>19 DEF Exited, vars
<1> HIDE <1>0, GateAssumption, ReconcilerIsTask DEF LockInv
<1> QED BY <1>1, <1>2, <1>3, <1>4, <1>5, <1>6, <1>7, <1>8, <1>9, <1>10, <1>11, <1>12,
     <1>13, <1>14, <1>15, <1>16, <1>17, <1>18, <1>19 DEF Next, ReconcileStep

-----------------------------------------------------------------------------
(***************************************************************************)
(* What a revision stands for.                                             *)
(***************************************************************************)

\* A permit that is given names the current revision, and sessions that are still
\* watched unless a removal is about to be published.
PermitCurrent ==
  permit.running =>
    /\ permit.generation = revision
    /\ (\A c \in Conns : conn[c].pc = "publish" => conn[c].method # "sessions.remove")
         => permit.targets \subseteq watchlist

\* A task of the current revision has the current policy, and the reconcile task
\* of the current revision was planned from the current watchlist.  Nobody has
\* the revision of a request that is still to be applied.
TasksCurrent ==
  /\ \A t \in Tasks : /\ task[t].gen <= revision
                      /\ task[t].gen = revision => task[t].policy = policy
                      /\ \A c \in Conns : conn[c].pc = "write" => task[t].gen < revision
  /\ task[Reconciler].gen = revision => planned = watchlist

\* Only a retry policy leads to the boundary.
RetriesOnly ==
  \A t \in Tasks : task[t].pc \in {"recheck", "boundary", "sending"} => task[t].policy = "retry"

RevisionInv ==
  /\ revision > 0
  /\ PermitCurrent
  /\ TasksCurrent
  /\ RetriesOnly
  /\ watchlist \cap excluded = {}

\* The first revision stands for the first watchlist and policy.
LEMMA RevisionInit == Init => RevisionInv
  BY ReconcilerIsTask
  DEF Init, RevisionInv, PermitCurrent, TasksCurrent, RetriesOnly, Permit, IdleTask, IdleConn

\* Every step keeps what the revision stands for: the settings and the list change
\* only together with it, and the permit follows it.
LEMMA RevisionStep == TypeInv /\ LockInv /\ RevisionInv /\ [Next]_vars => RevisionInv'
<1> SUFFICES ASSUME TypeInv, LockInv, RevisionInv, [Next]_vars PROVE RevisionInv'
  OBVIOUS
<1>0. /\ task \in [Tasks -> TaskType]
      /\ conn \in [Conns -> ConnType]
      /\ revision \in Nat
      /\ \A t \in Tasks : task[t].gen \in Nat
      /\ None \notin Tasks \cup Conns
  BY GateAssumption DEF TypeInv, TypeOK, TaskType, Tasks
<1>a. ASSUME daemon = None \/ daemon = Reconciler, NEW c \in Conns
      PROVE  conn[c].pc \notin {"write", "publish"}
  BY <1>a, <1>0, GateAssumption DEF LockInv, DaemonHeld
<1> USE <1>0, ReconcilerIsTask
    DEF RevisionInv, PermitCurrent, TasksCurrent, RetriesOnly, SameOthers,
        storeVars, lockVars, taskVars, stopVars
<1>1. CASE PrepareLock
  BY <1>1, StepEffect DEF PrepareLock
<1>2. CASE PrepareReconcile
  <2>1. daemon = Reconciler
    BY <1>2 DEF PrepareReconcile, LockInv, DaemonHeld
  <2> QED BY <1>2, <1>a, <2>1, PlanEffect DEF PrepareReconcile, Permit
<1>3. ASSUME NEW p \in Policies, PrepareReload(p) PROVE RevisionInv'
  <2>1. daemon = Reconciler
    BY <1>3 DEF PrepareReload, LockInv, DaemonHeld
  <2> QED BY <1>3, <1>a, <2>1, PlanEffect DEF PrepareReload, Permit
<1>4. CASE ReconcileLock
  BY <1>4, StepEffect DEF ReconcileLock
<1>5. ASSUME NEW found \in SUBSET Sessions, NEW expired \in SUBSET Sessions,
             NEW touched \in BOOLEAN, ReconcileDiscover(found, expired, touched)
      PROVE  RevisionInv'
  BY <1>5, NextTargetEffect DEF ReconcileDiscover
<1>6. ASSUME NEW s \in Sessions, ScanTarget(s) PROVE RevisionInv'
  BY <1>6, ScanTargetEffect DEF ScanTarget
<1>7. CASE InspectSkip \/ RecheckCancel
  BY <1>7, NextTargetEffect DEF InspectSkip, RecheckCancel
<1>8. CASE InspectReady \/ RecheckSame
  BY <1>8, StepEffect DEF InspectReady, RecheckSame
<1>9. CASE RecheckError \/ PrepareError
  BY <1>9, EndTaskEffect DEF RecheckError, PrepareError
<1>10. CASE CommitReconcile
  <2>1. /\ revision' \in {revision, revision + 1}
        /\ \/ watchlist' = watchlist /\ permit' = permit /\ revision' = revision
           \/ watchlist' = Reconciled /\ permit' = Permit(TRUE, Reconciled, revision')
    BY <1>10 DEF CommitReconcile
  <2>2. /\ task'[Reconciler].gen = 0 /\ task'[Reconciler].pc = "idle"
        /\ SameOthers(Reconciler)
        /\ policy' = policy /\ excluded' = excluded /\ conn' = conn
        /\ \A c \in Conns : conn[c].pc \notin {"write", "publish"}
    BY <1>10, <1>a, EndTaskEffect DEF CommitReconcile
  <2>3. Reconciled \cap excluded = {}
    BY DEF Reconciled
  <2>4. PermitCurrent'
    BY <2>1, <2>2 DEF Permit
  <2>5. TasksCurrent' /\ RetriesOnly'
    BY <2>1, <2>2
  <2>6. watchlist' \cap excluded' = {}
    BY <2>1, <2>2, <2>3
  <2>7. revision' > 0
    BY <2>1
  <2> QED BY <2>4, <2>5, <2>6, <2>7
<1>11. ASSUME NEW o \in Ops, NEW s \in Sessions, OpAdmit(o, s) PROVE RevisionInv'
  <2>1. /\ task'[o].pc = "admitted" /\ SameOthers(o) /\ o \in Tasks
        /\ task'[o].gen = task[o].gen /\ task'[o].policy = task[o].policy
    BY <1>11 DEF OpAdmit, TaskType, Tasks
  <2> QED BY <1>11, <2>1 DEF OpAdmit
<1>12. ASSUME NEW o \in Ops, OpStep(o) PROVE RevisionInv'
  <2>0. o \in Tasks /\ o # Reconciler
    BY GateAssumption DEF Tasks
  <2>1. CASE OpPrepare(o)
    <3>1. /\ task'[o].pc = "prepared" /\ SameOthers(o)
          /\ task'[o].gen = revision /\ task'[o].policy = policy
      BY <2>0, <2>1 DEF OpPrepare, TaskType
    <3> QED BY <2>0, <2>1, <3>1, <1>a DEF OpPrepare
  <2>2. CASE OpSpawn(o) \/ OpAuthorize(o) \/ OpInspect(o)
    BY <2>0, <2>2, StepEffect DEF OpSpawn, OpAuthorize, OpInspect
  <2>3. CASE OpLock(o)
    BY <2>0, <2>3, StepEffect DEF OpLock
  <2>4. CASE OpRefuse(o) \/ OpLockFail(o) \/ OpReject(o)
    BY <2>0, <2>4, EndTaskEffect DEF OpRefuse, OpLockFail, OpReject
  <2> QED BY <1>12, <2>1, <2>2, <2>3, <2>4 DEF OpStep
<1>13. ASSUME NEW t \in Tasks, SendStep(t) PROVE RevisionInv'
  <2>1. CASE EnterBoundary(t)
    BY <2>1, StepEffect DEF EnterBoundary
  <2>2. CASE BoundaryCancel(t)
    BY <2>2, NextTargetEffect, EndTaskEffect DEF BoundaryCancel
  <2>3. CASE SendDone(t)
    BY <2>3, NextTargetEffect, EndTaskEffect DEF SendDone
  <2>4. CASE DropTask(t)
    BY <2>4, EndTaskEffect DEF DropTask
  <2> QED BY <1>13, <2>1, <2>2, <2>3, <2>4 DEF SendStep
<1>14. ASSUME NEW c \in Conns, ReadSnapshot(c) PROVE RevisionInv'
  <2>1. conn'[c].pc = "viewed" /\ SameOtherConns(c)
    BY <1>14 DEF ReadSnapshot, ConnType, SameOtherConns
  <2>2. conn[c].pc = "idle"
    BY <1>14 DEF ReadSnapshot
  <2> QED BY <1>14, <2>1, <2>2 DEF ReadSnapshot, SameOtherConns
<1>15. ASSUME NEW c \in Conns, NEW method \in Methods,
              NEW arg \in Sessions \cup Policies \cup {None}, Request(c, method, arg)
       PROVE  RevisionInv'
  <2>1. conn'[c].pc \in {"boundary", "lock"} /\ SameOtherConns(c)
    BY <1>15 DEF Request, ConnType, SameOtherConns
  <2>2. conn[c].pc \in {"idle", "viewed"}
    BY <1>15 DEF Request
  <2> QED BY <1>15, <2>1, <2>2 DEF Request, SameOtherConns
<1>16. ASSUME NEW c \in Conns, ControlStep(c) PROVE RevisionInv'
  <2>1. CASE EnterControlBoundary(c)
    BY <2>1, ConnStepEffect DEF EnterControlBoundary, SameOtherConns
  <2>2. CASE HandleControl(c)
    BY <2>2, ConnStepEffect DEF HandleControl, SameOtherConns, Permit
  <2>3. CASE HandleControlError(c) \/ ApplyControlError(c)
    BY <2>3, RespondEffect DEF HandleControlError, ApplyControlError, SameOtherConns
  <2>4. CASE ApplyControl(c)
    <3>1. /\ conn'[c].pc = "publish" /\ conn'[c].method = conn[c].method
          /\ SameOtherConns(c)
      BY <2>4, ConnStepEffect DEF ApplyControl
    <3>2. \A t \in Tasks : task[t].gen < revision
      BY <2>4 DEF ApplyControl
    <3>3. watchlist' \cap excluded' = {}
      BY <2>4 DEF ApplyControl
    <3>4. watchlist \subseteq watchlist' \/ conn[c].method = "sessions.remove"
      BY <2>4 DEF ApplyControl
    <3>5. PermitCurrent'
      BY <2>4, <3>1, <3>4 DEF ApplyControl, SameOtherConns
    <3>6. TasksCurrent' /\ RetriesOnly'
      BY <2>4, <3>2 DEF ApplyControl
    <3> QED BY <2>4, <3>3, <3>5, <3>6 DEF ApplyControl
  <2>5. CASE PublishControl(c)
    <3>1. conn[c].method = "sessions.remove" => permit' = Permit(TRUE, watchlist, revision)
      BY <2>5 DEF PublishControl
    <3>2. permit' = permit \/ permit' = Permit(TRUE, watchlist, revision)
      BY <2>5 DEF PublishControl
    <3>3. conn'[c].pc = "idle" /\ SameOtherConns(c)
      BY <2>5, RespondEffect DEF PublishControl
    <3>4. PermitCurrent'
      BY <2>5, <3>1, <3>2, <3>3 DEF PublishControl, SameOtherConns, Permit
    <3> QED BY <2>5, <3>3, <3>4 DEF PublishControl, SameOtherConns
  <2> QED BY <1>16, <2>1, <2>2, <2>3, <2>4, <2>5 DEF ControlStep
<1>17. CASE StopSignal \/ StopStep
  BY <1>17 DEF StopSignal, StopStep, StopRead, Revoke, AbortOps, JoinOps, CloseEngine, Permit
<1>18. CASE Restart
  BY <1>18 DEF Restart, IdleTask, IdleConn, Permit
<1>19. CASE Exited \/ UNCHANGED vars
  BY <1>19 DEF Exited, vars
<1> HIDE <1>0, ReconcilerIsTask DEF RevisionInv
<1> QED BY <1>1, <1>2, <1>3, <1>4, <1>5, <1>6, <1>7, <1>8, <1>9, <1>10, <1>11, <1>12,
     <1>13, <1>14, <1>15, <1>16, <1>17, <1>18, <1>19 DEF Next, ReconcileStep

-----------------------------------------------------------------------------
(***************************************************************************)
(* Sends.                                                                  *)
(***************************************************************************)

\* A task that enters the boundary works with the current policy, which retries,
\* and its session is watched.
LEMMA EnterCurrent ==
  ASSUME TypeInv, LockInv, RevisionInv, NEW t \in Tasks, EnterBoundary(t)
  PROVE  /\ task[t].policy = policy /\ policy = "retry"
         /\ task[t].session \in watchlist
<1>1. /\ permit.running /\ permit.generation = task[t].gen
      /\ task[t].session \in permit.targets
      /\ boundary = None /\ task[t].pc = "boundary"
  BY DEF EnterBoundary, Allows
<1>2. task[t].policy = "retry" /\ task[t].policy = policy
  BY <1>1 DEF RevisionInv, PermitCurrent, TasksCurrent, RetriesOnly
<1>3. \A c \in Conns : conn[c].pc = "publish" => conn[c].method # "sessions.remove"
  BY <1>1, GateAssumption DEF LockInv, BoundaryHeld, RecoveryBoundaryMethods
<1> QED BY <1>1, <1>2, <1>3 DEF RevisionInv, PermitCurrent

\* Every step but EnterBoundary leaves the sending tasks alone or ends their send.
LEMMA SendingStays ==
  ASSUME TypeInv, [Next]_vars, NEW t \in Tasks, Sending(t)'
  PROVE  \/ Sending(t) /\ task'[t].session = task[t].session
         \/ EnterBoundary(t)
<1>0. task \in [Tasks -> TaskType]
  BY DEF TypeInv, TypeOK
<1> USE <1>0, ReconcilerIsTask
    DEF Sending, SameOthers, storeVars, lockVars, taskVars, stopVars
<1> DEFINE Goal == \/ Sending(t) /\ task'[t].session = task[t].session
                   \/ EnterBoundary(t)
<1>1. CASE PrepareLock \/ ReconcileLock \/ InspectReady \/ RecheckSame
  BY <1>1, StepEffect DEF PrepareLock, ReconcileLock, InspectReady, RecheckSame
<1>2. ASSUME PrepareReconcile \/ \E p \in Policies : PrepareReload(p) PROVE Goal
  BY <1>2, PlanEffect DEF PrepareReconcile, PrepareReload
<1>3. ASSUME NEW s, ScanTarget(s) PROVE Goal
  BY <1>3, ScanTargetEffect
<1>4. ASSUME NextTarget PROVE Goal
  BY <1>4, NextTargetEffect
<1>5. ASSUME NEW u \in Tasks, EndTask(u) PROVE Goal
  BY <1>5, EndTaskEffect
<1>6. ASSUME NEW o \in Ops, NEW s \in Sessions, OpAdmit(o, s) PROVE Goal
  BY <1>6 DEF OpAdmit, TaskType, Tasks
<1>7. ASSUME NEW o \in Ops, OpStep(o) PROVE Goal
  <2>0. o \in Tasks
    BY DEF Tasks
  <2>1. CASE OpPrepare(o)
    <3>1. task'[o].pc = "prepared" /\ SameOthers(o)
      BY <2>0, <2>1 DEF OpPrepare, TaskType
    <3> QED BY <3>1, <2>0
  <2>2. CASE OpSpawn(o) \/ OpLock(o) \/ OpAuthorize(o) \/ OpInspect(o)
    BY <2>0, <2>2, StepEffect DEF OpSpawn, OpLock, OpAuthorize, OpInspect
  <2>3. CASE OpRefuse(o) \/ OpLockFail(o) \/ OpReject(o)
    BY <2>0, <2>3, <1>5 DEF OpRefuse, OpLockFail, OpReject
  <2> QED BY <1>7, <2>1, <2>2, <2>3 DEF OpStep
<1>8. ASSUME NEW u \in Tasks, SendStep(u) PROVE Goal
  <2>1. CASE EnterBoundary(u)
    <3>1. SameOthers(u)
      BY <2>1, StepEffect DEF EnterBoundary
    <3> QED BY <2>1, <3>1
  <2>2. CASE BoundaryCancel(u) \/ SendDone(u) \/ DropTask(u)
    BY <2>2, <1>4, <1>5 DEF BoundaryCancel, SendDone, DropTask
  <2> QED BY <1>8, <2>1, <2>2 DEF SendStep
<1>9. CASE InspectSkip \/ RecheckCancel \/ RecheckError \/ PrepareError \/ CommitReconcile
  BY <1>9, <1>4, <1>5
  DEF InspectSkip, RecheckCancel, RecheckError, PrepareError, CommitReconcile
<1>10. ASSUME NEW found, NEW expired, NEW touched, ReconcileDiscover(found, expired, touched)
       PROVE  Goal
  BY <1>10, <1>4 DEF ReconcileDiscover
<1>11. ASSUME NEW c \in Conns, ControlStep(c) PROVE Goal
  BY <1>11 DEF ControlStep, EnterControlBoundary, HandleControl, HandleControlError,
     ApplyControl, ApplyControlError, PublishControl
<1>12. ASSUME NEW c \in Conns, NEW method, NEW arg, ReadSnapshot(c) \/ Request(c, method, arg)
       PROVE  Goal
  BY <1>12 DEF ReadSnapshot, Request
<1>13. CASE StopSignal \/ StopStep
  BY <1>13 DEF StopSignal, StopStep, StopRead, Revoke, AbortOps, JoinOps, CloseEngine
<1>14. CASE Restart
  BY <1>14 DEF Restart, IdleTask
<1>15. CASE Exited \/ UNCHANGED vars
  BY <1>15 DEF Exited, vars
<1> HIDE <1>0, ReconcilerIsTask DEF Sending
<1> QED BY <1>1, <1>2, <1>3, <1>6, <1>7, <1>8, <1>9, <1>10, <1>11, <1>12, <1>13, <1>14,
     <1>15 DEF Next, ReconcileStep

\* Only these steps change the watchlist.
LEMMA WatchlistWriters ==
  ASSUME [Next]_vars
  PROVE  \/ UNCHANGED watchlist
         \/ CommitReconcile
         \/ \E c \in Conns : ApplyControl(c)
  BY DEF Next, ReconcileStep, PrepareLock, PrepareReconcile, PrepareReload, Plan,
     ReconcileLock, ReconcileDiscover, ScanTarget, InspectSkip, InspectReady, RecheckSame,
     RecheckCancel, RecheckError, PrepareError, OpStep, OpAdmit, OpPrepare, OpRefuse, OpSpawn,
     OpLock, OpLockFail, OpAuthorize, OpInspect, OpReject, SendStep, EnterBoundary, BoundaryCancel,
     SendDone, DropTask, ControlStep, ReadSnapshot, Request, EnterControlBoundary,
     HandleControl, HandleControlError, ApplyControlError, PublishControl, StopSignal,
     StopStep, StopRead, Revoke, AbortOps, JoinOps, CloseEngine, Restart, Exited, vars,
     storeVars

\* The watchlist shrinks only while its writer holds the engine or the boundary.
LEMMA WatchedShrinks ==
  ASSUME [Next]_vars, NEW s, s \in watchlist, s \notin watchlist'
  PROVE  \/ CommitReconcile
         \/ \E c \in Conns : conn[c].pc = "write" /\ conn[c].method = "sessions.remove"
<1>1. ASSUME NEW c \in Conns, ApplyControl(c)
      PROVE  conn[c].pc = "write" /\ conn[c].method = "sessions.remove"
  BY <1>1 DEF ApplyControl
<1> QED BY <1>1, WatchlistWriters

\* A session that is being sent to stays on the watchlist.
LEMMA WatchedStep ==
  TypeInv /\ LockInv /\ RevisionInv /\ SendOnlyWatched /\ [Next]_vars => SendOnlyWatched'
<1> SUFFICES ASSUME TypeInv, LockInv, RevisionInv, SendOnlyWatched, [Next]_vars,
                    NEW t \in Tasks, Sending(t)'
             PROVE  task'[t].session \in watchlist'
  BY DEF SendOnlyWatched
<1>1. CASE EnterBoundary(t)
  <2>1. task'[t].session = task[t].session
    BY <1>1, StepEffect DEF EnterBoundary, TypeInv, TypeOK
  <2> QED BY <1>1, <2>1, EnterCurrent DEF EnterBoundary, storeVars
<1>2. CASE Sending(t) /\ task'[t].session = task[t].session
  <2>1. task[t].session \in watchlist
    BY <1>2 DEF SendOnlyWatched
  <2>2. boundary = t /\ engine = t
    BY <1>2 DEF LockInv, EngineHeld, BoundaryHeld, EnginePcs, Sending
  <2>3. ~CommitReconcile
    <3> SUFFICES ASSUME CommitReconcile PROVE FALSE
      OBVIOUS
    <3>1. task[Reconciler].pc = "scan" /\ engine = Reconciler
      BY ReconcilerIsTask DEF CommitReconcile, LockInv, EngineHeld, EnginePcs
    <3> QED BY <1>2, <2>2, <3>1 DEF Sending
  <2>4. ~\E c \in Conns : conn[c].pc = "write" /\ conn[c].method = "sessions.remove"
    BY <2>2, GateAssumption DEF LockInv, BoundaryHeld, RecoveryBoundaryMethods, Tasks
  <2> QED BY <1>2, <2>1, <2>3, <2>4, WatchedShrinks
<1> QED BY <1>1, <1>2, SendingStays

\* The inductive invariant behind the theorems below.
SafetyInv == TypeInv /\ LockInv /\ RevisionInv /\ SendOnlyWatched

\* The inductive invariant holds in every reachable state.
LEMMA SafetyInvariant == Spec => []SafetyInv
<1>1. Init => SendOnlyWatched
  BY DEF Init, SendOnlyWatched, Sending, IdleTask
<1>2. Init => SafetyInv
  BY <1>1, TypeInit, LockInit, RevisionInit DEF SafetyInv
<1>3. SafetyInv /\ [Next]_vars => SafetyInv'
  BY TypeStep, LockStep, RevisionStep, WatchedStep DEF SafetyInv
<1> QED BY <1>2, <1>3, PTL DEF Spec

\* As long as a recovery turn is being sent its session is on the watchlist, for
\* any number of sessions, retries and connections, with failing writes or without:
\* the engine and boundary locks of run_once_authorized, retry_now,
\* commit_reconcile and sessions.remove make it so.
THEOREM SendsAreWatched == Spec => []SendOnlyWatched
<1>1. SafetyInv => SendOnlyWatched
  BY DEF SafetyInv
<1> QED BY <1>1, SafetyInvariant, PTL

\* Sends overlap neither one another nor the application of sessions.remove and
\* config.policies requests, because each of them owns the send boundary.
THEOREM SendsAreExclusive == Spec => []SendsExcludeRevocations
<1>1. SafetyInv => SendsExcludeRevocations
  BY GateAssumption DEF SafetyInv, LockInv, BoundaryHeld, SendsExcludeRevocations, Tasks
<1> QED BY <1>1, SafetyInvariant, PTL

\* The policy a task carries when it passes the boundary is the policy of the
\* daemon: the generation of the permit names one version of the settings.
THEOREM SendsFollowPolicy == Spec => SendUnderCurrentPolicy
<1>1. SafetyInv /\ [Next]_vars
        => [\A t \in Tasks : StartsSend(t) => task[t].policy = policy /\ policy = "retry"]_vars
  BY SendingStays, EnterCurrent DEF SafetyInv, StartsSend
<1> QED BY <1>1, SafetyInvariant, PTL DEF Spec, SendUnderCurrentPolicy

\* commit_reconcile changes only the watchlist its plan was made from.
THEOREM CommitsAsPlanned == Spec => CommitOnlyAsPlanned
<1>1. SafetyInv /\ [Next]_vars
        => [watchlist' # watchlist /\ task[Reconciler].pc = "scan"
              /\ task'[Reconciler].pc = "idle" => watchlist = planned]_vars
  <2> SUFFICES ASSUME SafetyInv, [Next]_vars, watchlist' # watchlist,
                      task[Reconciler].pc = "scan", task'[Reconciler].pc = "idle"
               PROVE  watchlist = planned
    OBVIOUS
  <2>1. ASSUME NEW c \in Conns, ApplyControl(c) PROVE FALSE
    BY <2>1 DEF ApplyControl, taskVars
  <2>2. CommitReconcile
    BY <2>1, WatchlistWriters
  <2>3. task[Reconciler].gen = revision
    BY <2>2 DEF CommitReconcile, PlanIsCurrent
  <2> QED BY <2>3 DEF SafetyInv, RevisionInv, TasksCurrent
<1> QED BY <1>1, SafetyInvariant, PTL DEF Spec, CommitOnlyAsPlanned

\* A manual removal is undone by a manual addition only.
THEOREM ExclusionsStick == Spec => ExclusionSticks
<1>1. SafetyInv /\ [Next]_vars
        => [\A s \in excluded : s \in watchlist' =>
              \E c \in Conns : conn[c].pc = "write" /\ conn[c].method = "sessions.add"
                               /\ conn[c].arg = s]_vars
  <2> SUFFICES ASSUME SafetyInv, [Next]_vars, NEW s \in excluded, s \in watchlist'
               PROVE  \E c \in Conns : /\ conn[c].pc = "write"
                                      /\ conn[c].method = "sessions.add"
                                      /\ conn[c].arg = s
    OBVIOUS
  <2>1. s \notin watchlist
    BY DEF SafetyInv, RevisionInv
  <2>2. ASSUME CommitReconcile PROVE FALSE
    BY <2>1, <2>2 DEF CommitReconcile, Reconciled
  <2>3. PICK c \in Conns : ApplyControl(c)
    BY <2>1, <2>2, WatchlistWriters
  <2> QED BY <2>1, <2>3 DEF ApplyControl
<1> QED BY <1>1, SafetyInvariant, PTL DEF Spec, ExclusionSticks


-----------------------------------------------------------------------------
(***************************************************************************)
(* Shutdown.                                                               *)
(***************************************************************************)

\* The process is closed by CloseEngine, and then only a restart goes on.
LEMMA Closing ==
  ASSUME [Next]_vars, phase' = "closed"
  PROVE  CloseEngine \/ (phase = "closed" /\ UNCHANGED vars)
<1>1. CASE Restart \/ Exited \/ UNCHANGED vars
  BY <1>1 DEF Restart, Exited, vars, stopVars
<1>2. CASE StopSignal \/ StopStep
  BY <1>2 DEF StopSignal, StopStep, StopRead, Revoke, AbortOps, JoinOps
<1>3. ASSUME phase # "closed", UNCHANGED phase PROVE FALSE
  BY <1>3
<1>4. CASE phase # "closed" /\ ~(StopSignal \/ StopStep \/ Restart \/ Exited \/ UNCHANGED vars)
  BY <1>3, <1>4
  DEF Next, ReconcileStep, PrepareLock, PrepareReconcile, PrepareReload, ReconcileLock,
      ReconcileDiscover, ScanTarget, InspectSkip, InspectReady, RecheckSame, RecheckCancel,
      RecheckError, PrepareError, CommitReconcile, OpStep, OpAdmit, OpPrepare, OpRefuse,
      OpSpawn, OpLock, OpLockFail, OpAuthorize, OpInspect, OpReject, SendStep, EnterBoundary,
      BoundaryCancel, SendDone, DropTask, ControlStep, ReadSnapshot, Request,
      EnterControlBoundary, HandleControl, HandleControlError, ApplyControl,
      ApplyControlError, PublishControl, stopVars
<1> QED BY <1>1, <1>2, <1>4 DEF Next

\* The engine of a closed process stays unlocked.
ClosedUnlocked == phase = "closed" => engine = None

\* Once serve has returned no task holds the engine and no recovery is being sent:
\* CloseEngine waits for the engine, and whoever sends owns it.
THEOREM ClosedIsQuiet == Spec => []QuietOnceClosed
<1>1. Init => ClosedUnlocked
  BY DEF Init, ClosedUnlocked
<1>2. ClosedUnlocked /\ [Next]_vars => ClosedUnlocked'
  BY Closing DEF ClosedUnlocked, CloseEngine, vars, lockVars
<1>3. SafetyInv /\ ClosedUnlocked => QuietOnceClosed
  BY GateAssumption
  DEF SafetyInv, LockInv, EngineHeld, EnginePcs, Sending, ClosedUnlocked, QuietOnceClosed, Tasks
<1> QED BY <1>1, <1>2, <1>3, SafetyInvariant, PTL DEF Spec

-----------------------------------------------------------------------------
(***************************************************************************)
(* Snapshots of the control clients.                                       *)
(***************************************************************************)

\* No client has seen a later revision, nor the revision of a request that is
\* still to be applied, and who has seen the current one has seen its content.
SnapshotInv ==
  \A c \in Conns :
    /\ conn[c].seen.revision <= revision
    /\ conn[c].seen.revision = revision
         => conn[c].seen.watchlist = watchlist /\ conn[c].seen.policy = policy
    /\ \A d \in Conns : conn[d].pc = "write" => conn[c].seen.revision < revision

\* Whatever ends or continues a request keeps the snapshots or drops them.
LEMMA SnapshotKept ==
  ASSUME TypeInv, SnapshotInv, RevisionInv, UNCHANGED <<revision, watchlist, policy>>,
         NEW c \in Conns, conn'[c].pc # "write", SameOtherConns(c),
         conn'[c].seen \in {conn[c].seen, NoSnapshot}
  PROVE  SnapshotInv'
<1>1. \A d \in Conns : conn'[d].seen \in {conn[d].seen, NoSnapshot}
  BY DEF SameOtherConns
<1>2. \A d \in Conns : conn'[d].pc = "write" => conn[d].pc = "write"
  BY DEF SameOtherConns
<1>3. NoSnapshot.revision = 0 /\ revision \in Nat /\ revision > 0
  BY DEF NoSnapshot, TypeInv, TypeOK, RevisionInv
<1> QED BY <1>1, <1>2, <1>3 DEF SnapshotInv

\* A scan is committed without a new revision only when it leaves the list as it
\* is, unless the write of the new revision fails.
LEMMA CommitRenames ==
  ASSUME RevisionInv, CommitReconcile, SaveMayFail = FALSE
  PROVE  \/ UNCHANGED <<revision, watchlist>>
         \/ revision' = revision + 1
<1>1. PlanIsCurrent => planned = watchlist
  BY DEF RevisionInv, TasksCurrent, PlanIsCurrent
<1> QED BY <1>1 DEF CommitReconcile

\* Every step keeps the snapshots in line with the revision, as long as the
\* revision can be written.
LEMMA SnapshotStep ==
  ASSUME SaveMayFail = FALSE, TypeInv, LockInv, RevisionInv, SnapshotInv, [Next]_vars
  PROVE  SnapshotInv'
<1>0. /\ conn \in [Conns -> ConnType]
      /\ revision \in Nat
      /\ \A c \in Conns : conn[c].seen.revision \in Nat
  BY DEF TypeInv, TypeOK, ConnType, SnapshotType
<1>a. ASSUME UNCHANGED <<revision, watchlist, policy, conn>> PROVE SnapshotInv'
  BY <1>a DEF SnapshotInv
<1>b. ASSUME revision' = revision + 1, conn' = conn PROVE SnapshotInv'
  BY <1>b, <1>0 DEF SnapshotInv
<1>1. CASE ReconcileStep
  <2>1. ASSUME NEW p \in Policies, PrepareReload(p) PROVE SnapshotInv'
    BY <2>1, <1>b DEF PrepareReload
  <2>2. CASE CommitReconcile
    <3>1. UNCHANGED <<policy, conn>>
      BY <2>2 DEF CommitReconcile
    <3> QED BY <2>2, <3>1, <1>a, <1>b, CommitRenames
  <2> QED BY <1>1, <1>a, <2>1, <2>2
      DEF ReconcileStep, PrepareLock, PrepareReconcile, PrepareError, ReconcileLock,
          ReconcileDiscover, ScanTarget, InspectSkip, InspectReady, RecheckSame,
          RecheckCancel, RecheckError, storeVars
<1>2. ASSUME NEW o \in Ops, OpStep(o) \/ \E s \in Sessions : OpAdmit(o, s)
      PROVE  SnapshotInv'
  BY <1>2, <1>a DEF OpStep, OpAdmit, OpPrepare, OpRefuse, OpSpawn, OpLock, OpLockFail,
     OpAuthorize, OpInspect, OpReject, storeVars
<1>3. ASSUME NEW t \in Tasks, SendStep(t) PROVE SnapshotInv'
  BY <1>3, <1>a DEF SendStep, EnterBoundary, BoundaryCancel, SendDone, DropTask, storeVars
<1>4. ASSUME NEW c \in Conns, ReadSnapshot(c) PROVE SnapshotInv'
  <2>1. /\ conn'[c].pc = "viewed"
        /\ conn'[c].seen = [revision |-> revision, watchlist |-> watchlist, policy |-> policy]
        /\ SameOtherConns(c)
    BY <1>4, <1>0 DEF ReadSnapshot, ConnType, SameOtherConns
  <2>2. /\ UNCHANGED <<revision, watchlist, policy>>
        /\ \A d \in Conns : conn[d].pc # "write"
    BY <1>4, GateAssumption DEF ReadSnapshot, storeVars, LockInv, DaemonHeld
  <2> QED BY <2>1, <2>2, <1>0 DEF SnapshotInv, SameOtherConns
<1>5. ASSUME NEW c \in Conns, NEW method, NEW arg, Request(c, method, arg) PROVE SnapshotInv'
  <2>1. /\ conn'[c].pc \in {"boundary", "lock"}
        /\ conn'[c].seen = conn[c].seen
        /\ SameOtherConns(c)
        /\ UNCHANGED <<revision, watchlist, policy>>
    BY <1>5, <1>0 DEF Request, ConnType, SameOtherConns, storeVars
  <2> QED BY <2>1, SnapshotKept
<1>6. ASSUME NEW c \in Conns, ControlStep(c) PROVE SnapshotInv'
  <2>1. ASSUME Respond(c), UNCHANGED storeVars PROVE SnapshotInv'
    <3>1. conn'[c].pc = "idle" /\ conn'[c].seen = NoSnapshot /\ SameOtherConns(c)
      BY <2>1, <1>0 DEF Respond, IdleConn, SameOtherConns
    <3> QED BY <2>1, <3>1, SnapshotKept DEF storeVars
  <2>2. ASSUME NEW pc, conn' = [conn EXCEPT ![c].pc = pc]
        PROVE  conn'[c].pc = pc /\ conn'[c].seen = conn[c].seen /\ SameOtherConns(c)
    BY <2>2, <1>0 DEF ConnType, SameOtherConns
  <2>3. CASE EnterControlBoundary(c)
    BY <2>2, <2>3, SnapshotKept DEF EnterControlBoundary, storeVars
  <2>4. CASE HandleControl(c)
    <3>1. revision' = revision + 1 /\ \A d \in Conns : conn'[d].seen = conn[d].seen
      BY <2>2, <2>4 DEF HandleControl, SameOtherConns
    <3> QED BY <3>1, <1>0 DEF SnapshotInv
  <2>5. CASE ApplyControl(c)
    <3>1. \A d \in Conns : conn[d].seen.revision < revision
      BY <2>5 DEF ApplyControl, SnapshotInv
    <3>2. UNCHANGED revision /\ \A d \in Conns : conn'[d].seen = conn[d].seen
      BY <2>2, <2>5 DEF ApplyControl, SameOtherConns
    <3> QED BY <3>1, <3>2, <1>0 DEF SnapshotInv
  <2>6. CASE HandleControlError(c) \/ ApplyControlError(c) \/ PublishControl(c)
    BY <2>1, <2>6 DEF HandleControlError, ApplyControlError, PublishControl
  <2> QED BY <1>6, <2>3, <2>4, <2>5, <2>6 DEF ControlStep
<1>7. CASE StopSignal \/ StopStep
  BY <1>7, <1>a DEF StopSignal, StopStep, StopRead, Revoke, AbortOps, JoinOps, CloseEngine,
     storeVars
<1>8. CASE Restart
  <2>1. /\ revision' = revision + 1
        /\ \A c \in Conns : conn'[c].seen.revision = 0 /\ conn'[c].pc = "idle"
    BY <1>8 DEF Restart, IdleConn, NoSnapshot
  <2> QED BY <2>1, <1>0 DEF SnapshotInv
<1>9. CASE Exited \/ UNCHANGED vars
  BY <1>9, <1>a DEF Exited, vars, storeVars
<1> QED BY <1>1, <1>2, <1>3, <1>4, <1>5, <1>6, <1>7, <1>8, <1>9 DEF Next

\* The revision names the state, so check_revision refuses every write that is
\* based on an older list or policy, provided that the state files can be written:
\* commit_reconcile replaces the list before it writes the revision, and a failure
\* between the two leaves a new list under the old revision.
THEOREM RevisionsNameState ==
  ASSUME SaveMayFail = FALSE
  PROVE  Spec => []RevisionNamesState
<1>1. Init => SnapshotInv
  BY DEF Init, SnapshotInv, IdleConn, NoSnapshot
<1>2. SafetyInv /\ SnapshotInv /\ [Next]_vars => SnapshotInv'
  BY SnapshotStep DEF SafetyInv
<1>3. SnapshotInv => RevisionNamesState
  BY DEF SnapshotInv, RevisionNamesState
<1> QED BY <1>1, <1>2, <1>3, SafetyInvariant, PTL DEF Spec

=============================================================================
