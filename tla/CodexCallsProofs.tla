-------------------------- MODULE CodexCallsProofs --------------------------
(***************************************************************************)
(* Proofs about CodexCalls, for any failures of the environment, without   *)
(* a bound on their number: every process is greeted before it is asked    *)
(* for anything, a message is delivered at most once, and resume           *)
(* implements ResumeContract.                                              *)
(*                                                                         *)
(*   TypeInv       types;                                                  *)
(*   AppInv        whom a request to the app-server belongs to;            *)
(*   HandshakeInv  where a call can stand while the process is not greeted;*)
(*   DeskInv       how long a request to Desktop may stay unanswered;      *)
(*   DeliveryInv   at which points of a call its message has been          *)
(*                 delivered, and which request may still deliver it;      *)
(*   ContractInv   what a recovery asks for, and that its turns are those  *)
(*                 that were delivered.                                    *)
(***************************************************************************)
EXTENDS CodexCalls, TLAPS

AppTurns == {"turn/start", "turn/steer"}
DeskTurns == {"start-turn", "steer-turn", "steer-again"}
Done == {"performed", "ok", "noid"}

AppType == [method : AppMethods \cup {"none"},
            at : Unanswered \cup {"none", "ok", "noid", "error", "closed"},
            slow : BOOLEAN, shows : BOOLEAN]
DeskType == [method : IpcMethods \cup {"none"},
             at : Unanswered \cup {"none", "ok", "noid", "error", "nobody", "active", "inactive"},
             slow : BOOLEAN, shows : BOOLEAN]
CallType == [op : Calls, at : {"idle", "ensure", "connect", "send", "wait"},
             method : AppMethods \cup IpcMethods \cup {"none"}]
Verdicts == Plain \cup {"none", "receipt", "uncertain"}
OutcomeType == [verdict : Verdicts, turns : {0, 1}]

\* What a recovery may ask for.
RecoveryMethods == {"none", "initialize", "thread/resume", "turn/start",
                    "hello", "discovery", "start-turn"}

TypeInv ==
  /\ child \in {"none", "up", "mute", "dead"}
  /\ reader \in BOOLEAN /\ started \in BOOLEAN /\ greeted \in BOOLEAN
  /\ app \in AppType /\ desk \in DeskType /\ call \in CallType
  /\ owner \in BOOLEAN /\ active \in BOOLEAN
  /\ outcome \in OutcomeType
  /\ delivered \in {0, 1}

\* A request to the app-server belongs to the call that waits for it.
AppInv ==
  /\ app.method = "none" <=> app.at = "none"
  /\ app.method # "none" => call.at = "wait" /\ call.method = app.method

\* Everything that follows the handshake finds a process that was greeted.
HandshakeInv ==
  /\ started => greeted
  /\ call.at = "connect" => greeted
  /\ call.at \in {"send", "wait"} /\ call.method # "initialize" => greeted
  /\ app.method = "initialize" /\ app.at \in Done => greeted

\* A request to Desktop outlives the wait for it, but not the next call.
DeskInv ==
  /\ desk.method = "none" <=> desk.at = "none"
  /\ call.at = "wait" /\ call.method \in IpcMethods => desk.method = call.method
  /\ desk.method # "none" /\ desk.at \in Unanswered
       => call.at = "idle" \/ (call.at = "wait" /\ call.method = desk.method)
  /\ call.at \in {"ensure", "connect"} => desk.method \notin DeskTurns
  /\ call.at \in {"send", "wait"} /\ call.method \notin DeskTurns
       => desk.method \notin DeskTurns

\* Until a request that carries the message is performed nothing is delivered,
\* and then no other request carries it.
DeliveryInv ==
  /\ call.at \in {"ensure", "connect", "send"} => delivered = 0
  /\ call.at = "wait" /\ call.method \in IpcMethods \ DeskTurns => delivered = 0
  /\ desk.method \in DeskTurns => (delivered = 1 <=> desk.at \in Done)
  /\ app.method \in AppTurns /\ app.at \in Done => delivered = 1
  /\ app.method \in AppTurns /\ app.at \in {"written", "error"} => delivered = 0
  /\ app.method \notin AppTurns \cup {"none"} => delivered = 0

\* A recovery starts a turn and does not steer one, and a turn that Desktop may
\* still start is one that the verdict leaves open.
ContractInv ==
  call.op = "resume" =>
    /\ outcome.turns = delivered
    /\ call.method \in RecoveryMethods /\ desk.method \in RecoveryMethods
    /\ call.at = "idle" /\ desk.method = "start-turn" /\ desk.at = "written"
         => outcome.verdict = "uncertain"

IInv == TypeInv /\ AppInv /\ HandshakeInv /\ DeskInv /\ DeliveryInv /\ ContractInv

-----------------------------------------------------------------------------
(* The requests and the control flow of a call.                            *)

USE DEF AppMethods, IpcMethods, Calls, Unanswered, Plain, Verdicts, AppTurns, DeskTurns, Done,
        RecoveryMethods

\* The requests that are made have their types.
LEMMA RequestsTyped ==
  /\ NoRequest \in AppType /\ NoRequest \in DeskType
  /\ \A m \in AppMethods : Written(m) \in AppType
  /\ \A m \in IpcMethods : Written(m) \in DeskType
  BY DEF NoRequest, Written, AppType, DeskType

\* A step of the call itself: it goes on, or ends with a verdict that neither
\* promises a turn that does not exist nor denies one that does.
Moves ==
  /\ call' \in CallType /\ call'.op = call.op
  /\ outcome' \in OutcomeType /\ outcome'.turns = outcome.turns
  /\ call.op # "resume" => outcome' = outcome
  /\ call'.at # "idle" => outcome' = outcome
  /\ call.op = "resume" => call'.method \in RecoveryMethods
  /\ call.op = "resume" /\ call'.at = "idle"
       => /\ outcome'.verdict # "none"
          /\ outcome'.verdict = "receipt" => delivered = 1
          /\ outcome'.verdict = "refused" => delivered = 0

\* The call goes on with a request.
LEMMA GoToMoves ==
  ASSUME call \in CallType, outcome \in OutcomeType,
         NEW m \in AppMethods \cup IpcMethods, call.op = "resume" => m \in RecoveryMethods,
         GoTo(m)
  PROVE  Moves /\ call'.at = "send" /\ call'.method = m
  BY DEF GoTo, CallType, OutcomeType, Moves

\* The call ends.
LEMMA FinishMoves ==
  ASSUME call \in CallType, outcome \in OutcomeType, NEW v \in Verdicts \ {"none"},
         call.op = "resume" => /\ v = "receipt" => delivered = 1
                               /\ v = "refused" => delivered = 0,
         Finish(v)
  PROVE  /\ Moves /\ call'.at = "idle"
         /\ call.op = "resume" => outcome'.verdict = v
  BY DEF Finish, CallType, OutcomeType, Moves

\* The call goes on after the handshake.
LEMMA FirstStepMoves ==
  ASSUME call \in CallType, outcome \in OutcomeType,
         call.op = "resume" => call.method \in RecoveryMethods,
         FirstStep
  PROVE  /\ Moves
         /\ \/ call'.at = "send" /\ call'.method \in {"list", "turns/list"}
            \/ call'.at = "connect"
<1>1. CASE call.op = "list"
  <2>1. GoTo("list")
    BY <1>1 DEF FirstStep
  <2> QED
    BY <1>1, <2>1, GoToMoves
<1>2. CASE call.op = "interrupt"
  <2>1. GoTo("turns/list")
    BY <1>2 DEF FirstStep
  <2> QED
    BY <1>2, <2>1, GoToMoves
<1>3. CASE call.op \in {"resume", "send"}
  BY <1>3 DEF FirstStep, CallType, OutcomeType, Moves
<1> QED
  BY <1>1, <1>2, <1>3 DEF CallType

\* A plain error of the app-server: nothing was delivered.
LEMMA AppFailedMoves ==
  ASSUME call \in CallType, outcome \in OutcomeType, ContractInv,
         call.op = "resume" => delivered = 0,
         AppFailed
  PROVE  /\ Moves
         /\ \/ call.method = "thread/read" /\ call'.at = "send" /\ call'.method = "discovery"
            \/ call'.at = "idle"
<1>1. CASE call.method = "thread/read"
  <2>1. GoTo("discovery")
    BY <1>1 DEF AppFailed
  <2> QED
    BY <1>1, <2>1, GoToMoves
<1>2. CASE call.method # "thread/read"
  <2>1. Finish("refused")
    BY <1>2 DEF AppFailed
  <2> QED
    BY <2>1, FinishMoves
<1> QED
  BY <1>1, <1>2

-----------------------------------------------------------------------------
(* What the answers lead to.                                               *)

\* ensure_started leaves the call with a process that was greeted, or greets it.
LEMMA EnsureStartedMoves ==
  ASSUME IInv, EnsureStarted
  PROVE  /\ Moves
         /\ call'.at \in {"idle", "connect", "send"}
         /\ \/ call'.at = "idle"
            \/ call'.at = "connect" /\ started
            \/ call'.at = "send" /\ call'.method \in {"list", "turns/list"} /\ started
            \/ call'.at = "send" /\ call'.method = "initialize"
         /\ started' \in {started, FALSE} /\ greeted' \in {greeted, FALSE}
         /\ started' => greeted'
         /\ call'.at = "connect" \/ (call'.at = "send" /\ call'.method # "initialize")
              => greeted'
<1> USE DEF IInv, TypeInv, HandshakeInv, DeliveryInv, ContractInv
<1>1. CASE Running /\ started /\ FirstStep /\ UNCHANGED <<process, faults>>
  BY <1>1, FirstStepMoves DEF EnsureStarted, process
<1>2. CASE Running /\ ~started /\ GoTo("initialize") /\ UNCHANGED <<process, faults>>
  BY <1>2, GoToMoves DEF EnsureStarted, process
<1>3. CASE started' = FALSE /\ greeted' = FALSE /\ GoTo("initialize")
  BY <1>3, GoToMoves DEF EnsureStarted
<1>4. CASE started' = FALSE /\ greeted' = FALSE /\ Finish("refused")
  BY <1>4, FinishMoves DEF EnsureStarted
<1> QED
  BY <1>1, <1>2, <1>3, <1>4 DEF EnsureStarted

\* An answer of the app-server ends the call, or lets it go on with nothing
\* delivered.
LEMMA ReadAppMoves ==
  ASSUME IInv, ReadApp
  PROVE  /\ Moves
         /\ call'.at \in {"idle", "connect", "send"}
         /\ call'.at = "send" => call'.method \notin DeskTurns \cup {"initialize"}
         /\ call'.at # "idle" => delivered = 0 /\ greeted
         /\ started' \in BOOLEAN
         /\ started' => greeted
<1> USE DEF IInv, TypeInv, AppInv, HandshakeInv, DeliveryInv, ContractInv
<1>0. /\ call.at = "wait" /\ call.method \in AppMethods
      /\ app.method = call.method
      /\ app.method \in AppMethods
  BY DEF ReadApp, AppType
<1>1. CASE app.at \in {"ok", "noid"} /\ AfterApp(app)
  <2>1. CASE app.method = "initialize"
    <3>1. greeted
      BY <1>1, <2>1
    <3>2. CASE started' = TRUE /\ FirstStep
      BY <1>0, <2>1, <3>1, <3>2, FirstStepMoves
    <3>3. CASE started' = FALSE /\ Finish("refused")
      BY <1>0, <2>1, <3>1, <3>3, FinishMoves
    <3> QED
      BY <1>1, <2>1, <3>2, <3>3 DEF AfterApp, AfterInitialize
  <2>2. CASE app.method = "turns/list"
    <3>1. AfterTurnsList(app) /\ UNCHANGED started
      BY <1>1, <2>2 DEF AfterApp
    <3>2. CASE app.shows
      BY <1>0, <2>2, <3>1, <3>2 DEF AfterTurnsList, Moves, CallType, OutcomeType
    <3>3. CASE ~app.shows
      <4>1. Finish("refused")
        BY <3>1, <3>3 DEF AfterTurnsList
      <4> QED
        BY <1>0, <2>2, <3>1, <4>1, FinishMoves
    <3> QED
      BY <3>2, <3>3
  <2>3. CASE app.method = "thread/read"
    <3>1. GoTo("discovery") /\ UNCHANGED started
      BY <1>1, <2>3 DEF AfterApp
    <3> QED
      BY <1>0, <2>3, <3>1, GoToMoves
  <2>4. CASE app.method = "thread/resume"
    <3>1. AfterThreadResume(app) /\ UNCHANGED started
      BY <1>1, <2>4 DEF AfterApp
    <3>2. \E m \in {"turn/interrupt", "turn/steer", "turn/start"} :
             GoTo(m) /\ (call.op = "resume" => m = "turn/start")
      BY <3>1 DEF AfterThreadResume
    <3> QED
      BY <1>0, <2>4, <3>1, <3>2, GoToMoves
  <2>5. CASE app.method \notin {"initialize", "turns/list", "thread/read", "thread/resume"}
    <3>1. AfterTurn(app) /\ UNCHANGED started
      BY <1>1, <2>5 DEF AfterApp
    <3>2. PICK v \in {"noid", "receipt"} : Finish(v)
      BY <3>1 DEF AfterTurn
    <3>3. call.op = "resume" => delivered = 1
      BY <1>0, <1>1, <2>5
    <3> QED
      BY <1>0, <3>1, <3>2, <3>3, FinishMoves
  <2> QED
    BY <2>1, <2>2, <2>3, <2>4, <2>5
<1>2. CASE app.at = "closed" /\ SideEffect /\ Finish("closed") /\ UNCHANGED started
  BY <1>2, FinishMoves
<1>3. CASE /\ app.at = "error" \/ (app.at = "closed" /\ ~SideEffect)
           /\ AppFailed /\ UNCHANGED started
  <2>1. call.op = "resume" \/ call.method = "thread/read" => delivered = 0
    BY <1>0, <1>3 DEF SideEffect
  <2> QED
    BY <1>0, <1>3, <2>1, AppFailedMoves
<1> QED
  BY <1>1, <1>2, <1>3 DEF ReadApp

\* A request is written, or the process is gone and the call fails.
LEMMA SendAppMoves ==
  ASSUME IInv, SendApp
  PROVE  \/ /\ app' = Written(call.method)
            /\ call' = [call EXCEPT !.at = "wait"]
            /\ UNCHANGED <<child, reader, outcome>>
         \/ /\ Discard /\ Moves
            /\ \/ /\ call.method = "thread/read"
                  /\ call'.at = "send" /\ call'.method = "discovery"
               \/ call'.at = "idle"
<1> USE DEF IInv, TypeInv, DeliveryInv
<1>1. CASE Discard /\ AppFailed
  BY <1>1, AppFailedMoves DEF SendApp
<1> QED
  BY <1>1 DEF SendApp

\* A request that is not answered in time ends the call, and whether the turn of
\* a recovery was started is left open.
LEMMA TimeoutAppMoves ==
  ASSUME IInv, TimeoutApp
  PROVE  /\ Discard /\ Moves
         /\ \/ call.method = "thread/read" /\ call'.at = "send" /\ call'.method = "discovery"
            \/ call'.at = "idle"
<1> USE DEF IInv, TypeInv, AppInv, DeliveryInv, ContractInv
<1>1. CASE SideEffect /\ Finish("uncertain")
  BY <1>1, FinishMoves DEF TimeoutApp
<1>2. CASE ~SideEffect /\ AppFailed
  <2>1. app.method = call.method
    BY DEF TimeoutApp, AppType
  <2>2. call.op = "resume" => delivered = 0
    BY <1>2, <2>1 DEF TimeoutApp, SideEffect
  <2> QED
    BY <1>2, <2>2, AppFailedMoves DEF TimeoutApp
<1> QED
  BY <1>1, <1>2 DEF TimeoutApp

\* Desktop is asked, or the app-server when no router is there.
LEMMA ConnectMoves ==
  ASSUME IInv, Connect
  PROVE  /\ Moves
         /\ \/ call'.at = "send" /\ call'.method \in {"thread/resume", "hello"}
            \/ call'.at = "idle"
<1> USE DEF IInv, TypeInv, DeliveryInv
<1>1. CASE GoTo("thread/resume")
  BY <1>1, GoToMoves
<1>2. CASE GoTo("hello")
  BY <1>2, GoToMoves
<1>3. CASE Finish("refused")
  BY <1>3, FinishMoves DEF Connect
<1> QED
  BY <1>1, <1>2, <1>3 DEF Connect

\* A request is written, or the connection is gone and the call fails.
LEMMA SendIpcMoves ==
  ASSUME IInv, SendIpc
  PROVE  \/ /\ desk' = Written(call.method)
            /\ call' = [call EXCEPT !.at = "wait"]
            /\ UNCHANGED outcome
         \/ Moves /\ call'.at = "idle" /\ UNCHANGED desk
<1> USE DEF IInv, TypeInv, DeliveryInv
<1>1. CASE Finish("refused") /\ UNCHANGED desk
  BY <1>1, FinishMoves DEF SendIpc
<1> QED
  BY <1>1 DEF SendIpc

\* The end of a request that carries the message.
LEMMA AnsweredMoves ==
  ASSUME IInv, call.at = "wait", call.method \in IpcMethods, desk.at \notin Unanswered, Answered,
         call.op = "resume" => call.method = "start-turn"
  PROVE  Moves /\ call'.at = "idle"
<1> USE DEF IInv, TypeInv, DeskInv, DeliveryInv
<1>1. desk.method = call.method /\ desk.at # "none"
  BY DEF DeskType
<1>2. PICK v \in {"receipt", "noid", "refused"} :
        /\ Finish(v)
        /\ v = "receipt" => desk.at = "ok"
        /\ v = "refused" => desk.at \notin {"ok", "noid"}
  BY DEF Answered
<1> QED
  BY <1>1, <1>2, FinishMoves

\* An answer of Desktop ends the call, or lets it go on with nothing delivered.
LEMMA ReadIpcMoves ==
  ASSUME IInv, ReadIpc
  PROVE  /\ Moves
         /\ call'.at \in {"idle", "send"}
         /\ call'.at = "send" => delivered = 0 /\ call'.method # "initialize"
         /\ call'.at = "send" /\ call'.method \notin DeskTurns => desk.method \notin DeskTurns
<1> USE DEF IInv, TypeInv, DeskInv, DeliveryInv, ContractInv
<1>0. /\ call.at = "wait" /\ call.method \in IpcMethods /\ desk.method = call.method
      /\ desk.at \notin Unanswered
  BY DEF ReadIpc
<1>1. CASE call.method = "hello"
  <2>1. \/ \E m \in {"thread/read", "discovery"} :
             GoTo(m) /\ (call.op = "resume" => m = "discovery")
        \/ Finish("refused")
    BY <1>1 DEF ReadIpc, AfterIpc, AfterHello
  <2> QED
    BY <1>0, <1>1, <2>1, GoToMoves, FinishMoves
<1>2. CASE call.method = "discovery"
  <2>1. \/ \E m \in {"start-turn", "steer-turn", "interrupt-turn", "thread/resume"} :
             GoTo(m) /\ (call.op = "resume" => m \in {"start-turn", "thread/resume"})
        \/ Finish("refused")
    BY <1>2 DEF ReadIpc, AfterIpc, AfterDiscovery
  <2> QED
    BY <1>0, <1>2, <2>1, GoToMoves, FinishMoves
<1>3. CASE call.method = "steer-turn"
  <2>1. CASE desk.at = "inactive" /\ GoTo("start-turn")
    BY <1>0, <1>3, <2>1, GoToMoves
  <2>2. CASE Answered
    BY <1>0, <1>3, <2>2, AnsweredMoves
  <2> QED
    BY <1>3, <2>1, <2>2 DEF ReadIpc, AfterIpc, AfterSteer, TurnStateConflict
<1>4. CASE call.method = "start-turn"
  <2>1. CASE desk.at = "active" /\ call.op = "send" /\ GoTo("steer-again")
    BY <1>0, <1>4, <2>1, GoToMoves
  <2>2. CASE Answered
    BY <1>0, <1>4, <2>2, AnsweredMoves
  <2> QED
    BY <1>4, <2>1, <2>2 DEF ReadIpc, AfterIpc, AfterStart, TurnStateConflict
<1>5. CASE call.method \in {"steer-again", "interrupt-turn"}
  <2>1. Answered
    BY <1>5 DEF ReadIpc, AfterIpc
  <2> QED
    BY <1>0, <1>5, <2>1, AnsweredMoves
<1> QED
  BY <1>0, <1>1, <1>2, <1>3, <1>4, <1>5

\* A time limit or a broken connection ends the call, and leaves it open whether
\* a turn was started.
LEMMA FailIpcMoves ==
  ASSUME IInv, FailIpc
  PROVE  /\ Moves /\ call'.at = "idle"
         /\ call.op = "resume" /\ desk.method = "start-turn" => outcome'.verdict = "uncertain"
<1> USE DEF IInv, TypeInv, DeskInv, DeliveryInv, ContractInv
<1>0. call.at = "wait" /\ call.method \in IpcMethods /\ desk.method = call.method
  BY DEF FailIpc
<1>1. CASE call.method = "start-turn"
  <2>1. Finish("uncertain")
    BY <1>1 DEF FailIpc
  <2> QED
    BY <1>0, <2>1, FinishMoves
<1>2. CASE call.method # "start-turn"
  <2>1. Finish("refused")
    BY <1>2 DEF FailIpc
  <2> QED
    BY <1>0, <1>2, <2>1, FinishMoves
<1> QED
  BY <1>1, <1>2

-----------------------------------------------------------------------------
(* The invariant is inductive.                                             *)

\* Initially nothing is asked for and nothing delivered.
LEMMA InvInit == Init => IInv
<1> SUFFICES ASSUME Init PROVE IInv
  OBVIOUS
<1>1. TypeInv
  BY RequestsTyped DEF Init, TypeInv, CallType, OutcomeType
<1> QED
  BY <1>1 DEF Init, IInv, AppInv, HandshakeInv, DeskInv, DeliveryInv, ContractInv, NoRequest

USE DEF process, environment, history

\* A step of the call that leaves no request to the app-server behind, goes on
\* with nothing delivered, and ends undecided if Desktop may still start the turn.
LEMMA MovesStep ==
  ASSUME IInv, Moves, TypeInv', HandshakeInv',
         app'.method = "none" /\ app'.at = "none",
         UNCHANGED <<desk, delivered>>,
         call'.at \in {"idle", "connect", "send"},
         call'.at # "idle" => delivered = 0,
         desk.method # "none" /\ desk.at \in Unanswered => call'.at = "idle",
         call'.at = "connect" => desk.method \notin DeskTurns,
         call'.at = "send" /\ call'.method \notin DeskTurns => desk.method \notin DeskTurns,
         call.op = "resume" /\ desk.method = "start-turn" /\ desk.at = "written"
           => outcome'.verdict = "uncertain"
  PROVE  IInv'
<1>1. AppInv'
  BY DEF AppInv
<1>2. DeskInv'
  BY DEF IInv, DeskInv
<1>3. DeliveryInv'
  BY DEF IInv, DeliveryInv
<1>4. ContractInv'
  BY DEF IInv, ContractInv, Moves
<1> QED
  BY <1>1, <1>2, <1>3, <1>4 DEF IInv

\* A call begins with nothing asked for.
LEMMA BeginStep ==
  ASSUME IInv, NEW op \in Calls, Begin(op)
  PROVE  IInv'
<1> USE DEF IInv
<1>1. TypeInv'
  BY RequestsTyped DEF TypeInv, Begin, CallType, OutcomeType
<1> QED
  BY <1>1 DEF Begin, AppInv, HandshakeInv, DeskInv, DeliveryInv, ContractInv,
     NoRequest, TypeInv, CallType

\* The process is closed between two calls.
LEMMA CloseStep ==
  ASSUME IInv, Close
  PROVE  IInv'
<1> USE DEF IInv
<1>1. TypeInv'
  BY RequestsTyped DEF TypeInv, Close, Discard
<1> QED
  BY <1>1 DEF Close, Discard, AppInv, HandshakeInv, DeskInv, DeliveryInv, ContractInv, NoRequest

\* ensure_started, from a call that has asked for nothing yet.
LEMMA EnsureStartedStep ==
  ASSUME IInv, EnsureStarted
  PROVE  IInv'
<1>0. UNCHANGED <<app, desk, owner, active, delivered>> /\ call.at = "ensure"
  BY DEF EnsureStarted
<1>1. TypeInv'
  BY <1>0, EnsureStartedMoves DEF IInv, TypeInv, Moves, EnsureStarted, SpawnProcess
<1>2. app.method = "none" /\ app.at = "none"
  BY <1>0 DEF IInv, AppInv
<1>3. HandshakeInv'
  BY <1>0, <1>2, EnsureStartedMoves DEF HandshakeInv
<1>4. delivered = 0 /\ desk.method \notin DeskTurns
        /\ (desk.at \in Unanswered => desk.method = "none")
  BY <1>0 DEF IInv, DeliveryInv, DeskInv
<1> QED
  BY <1>0, <1>1, <1>2, <1>3, <1>4, EnsureStartedMoves, MovesStep

\* request_inner writes, or finds the process gone and discards it.
LEMMA SendAppStep ==
  ASSUME IInv, SendApp
  PROVE  IInv'
<1>0. /\ call.at = "send" /\ call.method \in AppMethods
      /\ UNCHANGED <<started, greeted, desk, owner, active, delivered>>
  BY DEF SendApp
<1>1. CASE /\ app' = Written(call.method)
           /\ call' = [call EXCEPT !.at = "wait"]
           /\ UNCHANGED <<child, reader, outcome>>
  <2>1. TypeInv'
    BY <1>0, <1>1, RequestsTyped DEF IInv, TypeInv, CallType
  <2> QED
    BY <1>0, <1>1, <2>1 DEF IInv, TypeInv, CallType, Written, AppInv, HandshakeInv, DeskInv,
       DeliveryInv, ContractInv
<1>2. CASE /\ Discard /\ Moves
           /\ \/ /\ call.method = "thread/read"
                 /\ call'.at = "send" /\ call'.method = "discovery"
              \/ call'.at = "idle"
  <2>1. TypeInv'
    BY <1>0, <1>2, RequestsTyped DEF IInv, TypeInv, Moves, Discard
  <2>2. app'.method = "none" /\ app'.at = "none"
    BY <1>2 DEF Discard, NoRequest
  <2>3. call.method # "initialize" => greeted
    BY <1>0 DEF IInv, HandshakeInv
  <2>4. delivered = 0 /\ desk.method \notin DeskTurns
          /\ (desk.at \in Unanswered => desk.method = "none")
    BY <1>0 DEF IInv, DeliveryInv, DeskInv
  <2>5. call'.at = "idle" \/ greeted
    BY <1>2, <2>3
  <2>6. HandshakeInv'
    BY <1>0, <1>2, <2>2, <2>5 DEF IInv, HandshakeInv
  <2> QED
    BY <1>0, <1>2, <2>1, <2>2, <2>4, <2>6, MovesStep
<1> QED
  BY <1>1, <1>2, SendAppMoves

\* An answer of the app-server is read.
LEMMA ReadAppStep ==
  ASSUME IInv, ReadApp
  PROVE  IInv'
<1>0. /\ call.at = "wait" /\ call.method \in AppMethods /\ app' = NoRequest
      /\ UNCHANGED <<child, reader, greeted, desk, owner, active, delivered>>
  BY DEF ReadApp
<1>1. TypeInv'
  BY <1>0, ReadAppMoves, RequestsTyped DEF IInv, TypeInv, Moves
<1>2. app'.method = "none" /\ app'.at = "none"
  BY <1>0 DEF NoRequest
<1>3. HandshakeInv'
  BY <1>0, <1>2, ReadAppMoves DEF HandshakeInv
<1>4. desk.method \notin DeskTurns /\ (desk.at \in Unanswered => desk.method = "none")
  BY <1>0 DEF IInv, TypeInv, DeskType, DeskInv
<1> QED
  BY <1>0, <1>1, <1>2, <1>3, <1>4, ReadAppMoves, MovesStep

\* A request to the app-server is given up, and the process with it.
LEMMA TimeoutAppStep ==
  ASSUME IInv, TimeoutApp
  PROVE  IInv'
<1>0. /\ call.at = "wait" /\ call.method \in AppMethods /\ app.at \in Unanswered
      /\ UNCHANGED <<started, greeted, desk, owner, active, delivered>>
  BY DEF TimeoutApp
<1>1. TypeInv'
  BY <1>0, TimeoutAppMoves, RequestsTyped DEF IInv, TypeInv, Moves, Discard
<1>2. app'.method = "none" /\ app'.at = "none"
  BY TimeoutAppMoves DEF Discard, NoRequest
<1>3. call.method = "thread/read" => greeted /\ delivered = 0
  BY <1>0 DEF IInv, TypeInv, AppType, AppInv, HandshakeInv, DeliveryInv
<1>4. HandshakeInv'
  BY <1>0, <1>2, <1>3, TimeoutAppMoves DEF IInv, HandshakeInv
<1>5. desk.method \notin DeskTurns /\ (desk.at \in Unanswered => desk.method = "none")
  BY <1>0 DEF IInv, TypeInv, DeskType, DeskInv
<1> QED
  BY <1>0, <1>1, <1>2, <1>3, <1>4, <1>5, TimeoutAppMoves, MovesStep

\* The app-server answers, refuses, stalls or exits, and the reader meets the end of
\* its output.
LEMMA AppServerStep ==
  ASSUME IInv, Drain \/ ReplyApp \/ RefuseApp \/ StallApp \/ ExitApp
  PROVE  IInv'
<1>1. CASE Drain
  <2>1. TypeInv'
    BY <1>1 DEF IInv, TypeInv, AppType, Drain
  <2> QED
    BY <1>1, <2>1 DEF IInv, TypeInv, AppType, Drain, AppInv, HandshakeInv, DeskInv, DeliveryInv,
       ContractInv
<1>2. CASE ReplyApp
  <2>1. TypeInv'
    BY <1>2 DEF IInv, TypeInv, AppType, ReplyApp
  <2> QED
    BY <1>2, <2>1 DEF IInv, TypeInv, AppType, ReplyApp, AppInv, HandshakeInv, DeskInv, DeliveryInv,
       ContractInv
<1>3. CASE RefuseApp
  <2>1. TypeInv'
    BY <1>3 DEF IInv, TypeInv, AppType, RefuseApp
  <2> QED
    BY <1>3, <2>1 DEF IInv, TypeInv, AppType, RefuseApp, AppInv, HandshakeInv, DeskInv,
       DeliveryInv, ContractInv
<1>4. CASE StallApp
  <2>1. TypeInv'
    BY <1>4 DEF IInv, TypeInv, AppType, StallApp
  <2> QED
    BY <1>4, <2>1 DEF IInv, TypeInv, AppType, StallApp, AppInv, HandshakeInv, DeskInv, DeliveryInv,
       ContractInv
<1>5. CASE ExitApp
  BY <1>5 DEF IInv, TypeInv, ExitApp, AppInv, HandshakeInv, DeskInv, DeliveryInv, ContractInv
<1> QED
  BY <1>1, <1>2, <1>3, <1>4, <1>5

\* The app-server does what a request asks for: only here, and in PerformIpc, is a
\* message delivered, and none was before.
LEMMA PerformAppStep ==
  ASSUME IInv, PerformApp
  PROVE  IInv'
<1>0. /\ app.at = "written" /\ call.at = "wait" /\ call.method = app.method
      /\ app.method \in AppMethods
      /\ app' = [app EXCEPT !.at = "performed", !.shows = active]
      /\ greeted' = (greeted \/ app.method = "initialize")
      /\ UNCHANGED <<child, reader, started, desk, owner, call>>
  BY DEF PerformApp, IInv, AppInv, TypeInv, AppType
<1>1. app' \in AppType /\ app'.method = app.method /\ app'.at = "performed"
  BY <1>0 DEF IInv, TypeInv, AppType
<1>2. greeted' \in BOOLEAN
  BY <1>0 DEF IInv, TypeInv
<1>3. AppInv' /\ DeskInv'
  BY <1>0, <1>1 DEF IInv, AppInv, DeskInv
<1>4. HandshakeInv'
  BY <1>0, <1>1, <1>2 DEF IInv, HandshakeInv
<1>5. CASE app.method \in AppTurns /\ Reaches /\ active' = TRUE
  <2>1. delivered = 0 /\ delivered' = 1
    BY <1>0, <1>5 DEF IInv, TypeInv, DeliveryInv, Reaches
  <2>2. /\ outcome' \in OutcomeType /\ outcome'.verdict = outcome.verdict
        /\ call.op = "resume" => outcome'.turns = delivered'
    BY <1>5, <2>1 DEF IInv, TypeInv, OutcomeType, ContractInv, Reaches
  <2>3. TypeInv'
    BY <1>0, <1>1, <1>2, <1>5, <2>1, <2>2 DEF IInv, TypeInv
  <2>4. DeliveryInv'
    BY <1>0, <1>1, <1>5, <2>1 DEF IInv, DeskInv, DeliveryInv
  <2> QED
    BY <1>0, <1>3, <1>4, <2>2, <2>3, <2>4 DEF IInv, ContractInv
<1>6. CASE app.method \notin AppTurns /\ UNCHANGED history /\ active' \in BOOLEAN
  <2>1. TypeInv'
    BY <1>0, <1>1, <1>2, <1>6 DEF IInv, TypeInv
  <2>2. DeliveryInv'
    BY <1>0, <1>1, <1>6 DEF IInv, DeliveryInv
  <2> QED
    BY <1>0, <1>3, <1>4, <1>6, <2>1, <2>2 DEF IInv, ContractInv
<1> QED
  BY <1>5, <1>6 DEF PerformApp, IInv, TypeInv

\* connect_default chooses the transport.
LEMMA ConnectStep ==
  ASSUME IInv, Connect
  PROVE  IInv'
<1>0. /\ call.at = "connect"
      /\ UNCHANGED <<child, reader, started, greeted, app, desk, owner, active, delivered>>
  BY DEF Connect
<1>1. TypeInv'
  BY <1>0, ConnectMoves DEF IInv, TypeInv, Moves
<1>2. app'.method = "none" /\ app'.at = "none"
  BY <1>0 DEF IInv, AppInv
<1>3. HandshakeInv'
  BY <1>0, <1>2, ConnectMoves DEF IInv, HandshakeInv
<1>4. delivered = 0 /\ desk.method \notin DeskTurns
        /\ (desk.at \in Unanswered => desk.method = "none")
  BY <1>0 DEF IInv, DeliveryInv, DeskInv
<1> QED
  BY <1>0, <1>1, <1>2, <1>3, <1>4, ConnectMoves, MovesStep

\* A request to Desktop is written, or the call fails.
LEMMA SendIpcStep ==
  ASSUME IInv, SendIpc
  PROVE  IInv'
<1>0. /\ call.at = "send" /\ call.method \in IpcMethods
      /\ UNCHANGED <<child, reader, started, greeted, app, owner, active, delivered>>
  BY DEF SendIpc
<1>1. CASE /\ desk' = Written(call.method)
           /\ call' = [call EXCEPT !.at = "wait"]
           /\ UNCHANGED outcome
  <2>1. TypeInv'
    BY <1>0, <1>1, RequestsTyped DEF IInv, TypeInv, CallType
  <2> QED
    BY <1>0, <1>1, <2>1 DEF IInv, TypeInv, CallType, Written, AppInv, HandshakeInv, DeskInv,
       DeliveryInv, ContractInv
<1>2. CASE Moves /\ call'.at = "idle" /\ UNCHANGED desk
  <2>1. TypeInv'
    BY <1>0, <1>2 DEF IInv, TypeInv, Moves
  <2>2. app'.method = "none" /\ app'.at = "none"
    BY <1>0 DEF IInv, AppInv
  <2>3. HandshakeInv'
    BY <1>0, <1>2, <2>2 DEF IInv, HandshakeInv
  <2>4. desk.at \in Unanswered => desk.method = "none"
    BY <1>0 DEF IInv, DeskInv
  <2> QED
    BY <1>0, <1>2, <2>1, <2>2, <2>3, <2>4, MovesStep
<1> QED
  BY <1>1, <1>2, SendIpcMoves

\* An answer of Desktop is read.
LEMMA ReadIpcStep ==
  ASSUME IInv, ReadIpc
  PROVE  IInv'
<1>0. /\ call.at = "wait" /\ call.method \in IpcMethods /\ desk.at \notin Unanswered
      /\ UNCHANGED <<child, reader, started, greeted, app, desk, owner, active, delivered>>
  BY DEF ReadIpc
<1>1. TypeInv'
  BY <1>0, ReadIpcMoves DEF IInv, TypeInv, Moves
<1>2. app'.method = "none" /\ app'.at = "none"
  BY <1>0 DEF IInv, TypeInv, AppType, AppInv
<1>3. greeted
  BY <1>0 DEF IInv, HandshakeInv
<1>4. HandshakeInv'
  BY <1>0, <1>2, <1>3, ReadIpcMoves DEF HandshakeInv
<1> QED
  BY <1>0, <1>1, <1>2, <1>4, ReadIpcMoves, MovesStep

\* A request to Desktop is given up, and may still be performed.
LEMMA FailIpcStep ==
  ASSUME IInv, FailIpc
  PROVE  IInv'
<1>0. /\ call.at = "wait" /\ call.method \in IpcMethods
      /\ UNCHANGED <<child, reader, started, greeted, app, desk, owner, active, delivered>>
  BY DEF FailIpc
<1>1. TypeInv'
  BY <1>0, FailIpcMoves DEF IInv, TypeInv, Moves
<1>2. app'.method = "none" /\ app'.at = "none"
  BY <1>0 DEF IInv, TypeInv, AppType, AppInv
<1>3. HandshakeInv'
  BY <1>0, <1>2, FailIpcMoves DEF IInv, HandshakeInv
<1> QED
  BY <1>0, <1>1, <1>2, <1>3, FailIpcMoves, MovesStep

\* Desktop answers, refuses or stalls: what it has not performed stays undelivered.
LEMMA DesktopStep ==
  ASSUME IInv, ReplyIpc \/ RefuseIpc \/ StallIpc
  PROVE  IInv'
<1>0. /\ desk.at \in Unanswered /\ desk' \in DeskType /\ desk'.method = desk.method
      /\ desk'.at \in {desk.at, "ok", "noid", "nobody", "active", "inactive", "error"}
      /\ desk.at = "written" => desk'.at \notin Done
      /\ desk.at = "performed" => desk'.at \in Done
      /\ UNCHANGED <<child, reader, started, greeted, app, owner, active, call, delivered, outcome>>
  <2>1. CASE ReplyIpc
    BY <2>1 DEF ReplyIpc, AnswerIpc, IInv, TypeInv, DeskType
  <2>2. CASE RefuseIpc
    BY <2>2 DEF RefuseIpc, AnswerIpc, IInv, TypeInv, DeskType
  <2>3. CASE StallIpc
    BY <2>3 DEF StallIpc, IInv, TypeInv, DeskType
  <2> QED
    BY <2>1, <2>2, <2>3
<1>1. TypeInv'
  BY <1>0 DEF IInv, TypeInv
<1>2. AppInv' /\ HandshakeInv'
  BY <1>0 DEF IInv, AppInv, HandshakeInv
<1>3. DeskInv' /\ DeliveryInv'
  BY <1>0 DEF IInv, DeskInv, DeliveryInv
<1>4. ContractInv'
  BY <1>0 DEF IInv, ContractInv
<1> QED
  BY <1>1, <1>2, <1>3, <1>4 DEF IInv

\* The connection breaks, or the user acts.
LEMMA EnvironmentStep ==
  ASSUME IInv, BreakIpc \/ User
  PROVE  IInv'
<1>0. /\ owner' \in BOOLEAN /\ active' \in BOOLEAN
      /\ UNCHANGED <<child, reader, started, greeted, app, desk, call, delivered, outcome>>
  BY DEF BreakIpc, User, IInv, TypeInv
<1> QED
  BY <1>0 DEF IInv, TypeInv, AppInv, HandshakeInv, DeskInv, DeliveryInv, ContractInv

\* Desktop does what a request asks for, during the call or after it.
LEMMA PerformIpcStep ==
  ASSUME IInv, PerformIpc
  PROVE  IInv'
<1>0. /\ desk.at = "written" /\ desk.method \in IpcMethods
      /\ desk' = [desk EXCEPT !.at = "performed"]
      /\ UNCHANGED <<child, reader, started, greeted, app, owner, call>>
  BY DEF PerformIpc, AnswerIpc, IInv, DeskInv, TypeInv, DeskType
<1>1. desk' \in DeskType /\ desk'.method = desk.method /\ desk'.at = "performed"
  BY <1>0 DEF IInv, TypeInv, DeskType
<1>2. AppInv' /\ HandshakeInv' /\ DeskInv'
  BY <1>0, <1>1 DEF IInv, AppInv, HandshakeInv, DeskInv
<1>3. CASE desk.method \in DeskTurns /\ Reaches /\ active' = TRUE
  <2>1. /\ delivered = 0 /\ delivered' = 1
        /\ app.method = "none"
        /\ call.at = "idle" \/ (call.at = "wait" /\ call.method \in DeskTurns)
    BY <1>0, <1>3 DEF IInv, TypeInv, AppType, AppInv, DeskInv, DeliveryInv, Reaches
  <2>2. /\ outcome' \in OutcomeType /\ outcome'.verdict = outcome.verdict
        /\ call.op = "resume" => outcome'.turns = delivered'
    BY <1>3, <2>1 DEF IInv, TypeInv, OutcomeType, ContractInv, Reaches
  <2>3. TypeInv'
    BY <1>0, <1>1, <1>3, <2>1, <2>2 DEF IInv, TypeInv
  <2>4. DeliveryInv'
    BY <1>0, <1>1, <1>3, <2>1 DEF DeliveryInv
  <2> QED
    BY <1>0, <1>1, <1>2, <2>2, <2>3, <2>4 DEF IInv, ContractInv
<1>4. CASE desk.method \notin DeskTurns /\ UNCHANGED history /\ active' \in BOOLEAN
  <2>1. TypeInv'
    BY <1>0, <1>1, <1>4 DEF IInv, TypeInv
  <2>2. DeliveryInv'
    BY <1>0, <1>1, <1>4 DEF IInv, DeliveryInv
  <2> QED
    BY <1>0, <1>1, <1>2, <1>4, <2>1, <2>2 DEF IInv, ContractInv
<1> QED
  BY <1>3, <1>4 DEF PerformIpc, IInv, TypeInv

\* Every step keeps the invariant.
LEMMA InvStep == IInv /\ [Next]_vars => IInv'
<1> SUFFICES ASSUME IInv, [Next]_vars PROVE IInv'
  OBVIOUS
<1>1. CASE \E op \in Calls : Begin(op)
  BY <1>1, BeginStep
<1>2. CASE UNCHANGED vars
  BY <1>2 DEF vars, IInv, TypeInv, AppInv, HandshakeInv, DeskInv, DeliveryInv, ContractInv
<1> QED
  BY <1>1, <1>2, CloseStep, EnsureStartedStep, SendAppStep, ReadAppStep, TimeoutAppStep,
     AppServerStep, PerformAppStep, ConnectStep, SendIpcStep, ReadIpcStep, FailIpcStep,
     DesktopStep, EnvironmentStep, PerformIpcStep DEF Next

\* The invariant holds in every reachable state.
LEMMA Invariant == Spec => []IInv
  BY InvInit, InvStep, PTL DEF Spec

-----------------------------------------------------------------------------
(* The properties.                                                         *)

\* HandshakeFirst: whichever way the process was lost (it exits, closes its output,
\* is killed after a timeout or closed between two calls), the next one is asked
\* for nothing before it has answered initialize.
THEOREM HandshakeComesFirst == Spec => []HandshakeFirst
<1>1. IInv => HandshakeFirst
  BY DEF IInv, AppInv, HandshakeInv, HandshakeFirst
<1> QED
  BY <1>1, Invariant, PTL

\* DeliveredAtMostOnce: no order of timeouts, conflicts and failures, however many,
\* makes one call of resume or send_message bring its message to the thread twice.
THEOREM DeliveredOnce == Spec => []DeliveredAtMostOnce
<1>1. IInv => DeliveredAtMostOnce
  BY DEF IInv, TypeInv, DeliveredAtMostOnce
<1> QED
  BY <1>1, Invariant, PTL

\* A step of the call is a stutter of the contract, or the end of a resume with a
\* verdict that the contract allows.
LEMMA MovesMaps ==
  ASSUME IInv, Moves, call.at # "idle"
  PROVE  [Contract!Next]_Contract!vars
<1> USE DEF IInv, TypeInv, CallType, OutcomeType, Moves
<1>1. CASE call.op = "resume" /\ call'.at = "idle"
  <2> DEFINE v == IF outcome'.verdict \in {"closed", "noid"} THEN "uncertain" ELSE outcome'.verdict
  <2>1. v \in Contract!Verdicts \ {"none"}
    BY <1>1 DEF Contract!Verdicts
  <2>2. Contract!End(v)
    BY <1>1 DEF Contract!End, ContractInv
  <2> QED
    BY <2>1, <2>2 DEF Contract!Next
<1>2. CASE ~(call.op = "resume" /\ call'.at = "idle")
  BY <1>2 DEF Contract!vars
<1> QED
  BY <1>1, <1>2

\* A message that reaches the thread is the start of the turn of a resume that is
\* under way, or whose end has left it open.
LEMMA ReachesMaps ==
  ASSUME IInv, Reaches, UNCHANGED call, delivered = 0,
         call.op = "resume" => call.at # "idle" \/ outcome.verdict = "uncertain"
  PROVE  [Contract!Next]_Contract!vars
<1> USE DEF IInv, TypeInv, OutcomeType, Reaches
<1>1. CASE call.op = "resume"
  <2>1. Contract!Start
    BY <1>1 DEF Contract!Start, ContractInv
  <2> QED
    BY <2>1 DEF Contract!Next
<1>2. CASE call.op # "resume"
  BY <1>2 DEF Contract!vars
<1> QED
  BY <1>1, <1>2

\* The two actions that perform a request, by the transport that carries it.
LEMMA PerformMaps ==
  ASSUME IInv, PerformApp \/ PerformIpc
  PROVE  [Contract!Next]_Contract!vars
<1>1. CASE UNCHANGED history
  BY <1>1 DEF PerformApp, PerformIpc, Contract!vars
<1>2. CASE PerformApp /\ app.method \in AppTurns /\ Reaches
  <2>1. call.at = "wait" /\ delivered = 0 /\ UNCHANGED call
    BY <1>2 DEF PerformApp, IInv, AppInv, DeliveryInv
  <2> QED
    BY <1>2, <2>1, ReachesMaps
<1>3. CASE PerformIpc /\ desk.method \in DeskTurns /\ Reaches
  <2>1. desk.at = "written" /\ UNCHANGED call
    BY <1>3 DEF PerformIpc
  <2>2. delivered = 0
    BY <1>3, <2>1 DEF IInv, TypeInv, DeliveryInv
  <2>3. call.op = "resume" => call.at # "idle" \/ outcome.verdict = "uncertain"
    BY <1>3, <2>1 DEF IInv, ContractInv
  <2> QED
    BY <1>3, <2>1, <2>2, <2>3, ReachesMaps
<1> QED
  BY <1>1, <1>2, <1>3 DEF PerformApp, PerformIpc

\* Every step of the provider is a step of the contract or a stutter.
LEMMA StepMaps ==
  ASSUME IInv, [Next]_vars
  PROVE  [Contract!Next]_Contract!vars
<1>1. CASE \E op \in Calls : Begin(op)
  <2>1. PICK op \in Calls : Begin(op)
    BY <1>1
  <2>2. CASE op = "resume"
    <3>1. Contract!Begin
      BY <2>1, <2>2 DEF Begin, Contract!Begin
    <3> QED
      BY <3>1 DEF Contract!Next
  <2>3. CASE op # "resume"
    BY <2>1, <2>3 DEF Begin, Contract!vars
  <2> QED
    BY <2>2, <2>3
<1>2. CASE EnsureStarted
  BY <1>2, EnsureStartedMoves, MovesMaps DEF EnsureStarted
<1>3. CASE SendApp
  <2>1. call.at = "send"
    BY <1>3 DEF SendApp
  <2>2. CASE call' = [call EXCEPT !.at = "wait"] /\ UNCHANGED outcome
    BY <2>1, <2>2 DEF IInv, TypeInv, CallType, Contract!vars
  <2> QED
    BY <1>3, <2>1, <2>2, SendAppMoves, MovesMaps
<1>4. CASE ReadApp
  BY <1>4, ReadAppMoves, MovesMaps DEF ReadApp
<1>5. CASE TimeoutApp
  BY <1>5, TimeoutAppMoves, MovesMaps DEF TimeoutApp
<1>6. CASE Connect
  BY <1>6, ConnectMoves, MovesMaps DEF Connect
<1>7. CASE SendIpc
  <2>1. call.at = "send"
    BY <1>7 DEF SendIpc
  <2>2. CASE call' = [call EXCEPT !.at = "wait"] /\ UNCHANGED outcome
    BY <2>1, <2>2 DEF IInv, TypeInv, CallType, Contract!vars
  <2> QED
    BY <1>7, <2>1, <2>2, SendIpcMoves, MovesMaps
<1>8. CASE ReadIpc
  BY <1>8, ReadIpcMoves, MovesMaps DEF ReadIpc
<1>9. CASE FailIpc
  BY <1>9, FailIpcMoves, MovesMaps DEF FailIpc
<1>10. CASE PerformApp \/ PerformIpc
  BY <1>10, PerformMaps
<1>11. CASE Close \/ Drain \/ ReplyApp \/ RefuseApp \/ StallApp \/ ExitApp
              \/ ReplyIpc \/ RefuseIpc \/ StallIpc \/ BreakIpc \/ User \/ UNCHANGED vars
  <2>1. UNCHANGED <<call, outcome>>
    BY <1>11 DEF Close, Drain, ReplyApp, RefuseApp, StallApp, ExitApp,
       ReplyIpc, RefuseIpc, StallIpc, BreakIpc, User, vars
  <2> QED
    BY <2>1 DEF Contract!vars
<1> QED
  BY <1>1, <1>2, <1>3, <1>4, <1>5, <1>6, <1>7, <1>8, <1>9, <1>10, <1>11 DEF Next

\* ImplementsContract: resume keeps the contract that the engine relies on, but for
\* the two plain errors (the output closed, no turn id) that the mapping sets apart.
THEOREM ImplementsResumeContract == Spec => ImplementsContract
<1>1. Init => Contract!Init
  BY DEF Init, Contract!Init
<1>2. IInv /\ [Next]_vars => [Contract!Next]_Contract!vars
  BY StepMaps
<1> QED
  BY <1>1, <1>2, Invariant, PTL DEF Spec, ImplementsContract, Contract!Spec

=============================================================================
