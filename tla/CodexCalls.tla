----------------------------- MODULE CodexCalls -----------------------------
(***************************************************************************)
(* The calls of the Codex provider: one call at a time (the provider is    *)
(* owned by its engine) over two transports, the app-server process of     *)
(* JsonRpcClient and the connection to the router of Codex Desktop.        *)
(*                                                                         *)
(* The process, the router and the window that owns the thread are the     *)
(* environment.  A request is written, then performed, then answered, and  *)
(* anything may fail between two of these: the process exits or closes its *)
(* output, an answer does not come in time, the connection breaks, the     *)
(* user starts or ends turns, the window takes or leaves the thread.       *)
(***************************************************************************)
EXTENDS Naturals

CONSTANTS
  Faults,     \* which failures happen: "exit", "stall", "link", "error", "noid"
  MaxFaults   \* bound: failures of the environment in a behaviour

AppMethods == {"initialize", "list", "turns/list", "thread/read",
               "thread/resume", "turn/start", "turn/steer", "turn/interrupt"}
IpcMethods == {"hello", "discovery", "start-turn", "steer-turn",
               "steer-again", "interrupt-turn"}
Calls == {"list", "resume", "send", "interrupt"}

VARIABLES
  child,      \* the app-server: "none", "up", "mute" (output closed), "dead"
  reader,     \* the task that reads its output is running
  started,    \* CodexProvider::started
  greeted,    \* the process has answered initialize
  app,        \* the request to the app-server
  link,       \* the Desktop connection: "none", "open", "broken"
  desk,       \* the request to Desktop
  owner,      \* a Desktop window owns the thread
  active,     \* the last turn of the thread is in progress
  call,       \* the call under way, or the latest one
  delivered,  \* messages that the latest call has brought to the thread
  outcome,    \* verdict and turns of the latest recovery
  faults      \* failures so far

process == <<child, reader, started, greeted>>
environment == <<owner, active>>
history == <<delivered, outcome>>
vars == <<child, reader, started, greeted, app, link, desk, owner, active,
          call, delivered, outcome, faults>>

\* The ends of a call that are plain errors to its caller.  They are told apart
\* for the properties: the output closed while turn/start of a recovery was
\* pending, an answer had no turn id, anything else.
Plain == {"refused", "closed", "noid"}

NoRequest == [method |-> "none", at |-> "none", slow |-> FALSE, shows |-> FALSE]
Written(m) == [method |-> m, at |-> "written", slow |-> FALSE, shows |-> FALSE]
Unanswered == {"written", "performed"}

Init ==
  /\ child = "none" /\ reader = FALSE /\ started = FALSE /\ greeted = FALSE
  /\ app = NoRequest /\ desk = NoRequest /\ link = "none"
  /\ owner \in BOOLEAN /\ active \in BOOLEAN
  /\ call = [op |-> "list", at |-> "idle", method |-> "none"]
  /\ delivered = 0
  /\ outcome = [verdict |-> "none", turns |-> 0]
  /\ faults = 0

Fault(kind) == kind \in Faults /\ faults < MaxFaults /\ faults' = faults + 1

-----------------------------------------------------------------------------
(* Control flow of a call.                                                 *)

GoTo(m) ==
  /\ call' = [call EXCEPT !.at = "send", !.method = m]
  /\ UNCHANGED outcome

Finish(v) ==
  /\ call' = [call EXCEPT !.at = "idle", !.method = "none"]
  /\ outcome' = IF call.op = "resume" THEN [outcome EXCEPT !.verdict = v] ELSE outcome

\* A plain error ends the call, but for the lookup of the working directory.
AppFailed == IF call.method = "thread/read" THEN GoTo("discovery") ELSE Finish("refused")

\* request_with_unknown_ack, used for a recovery only.
SideEffect == call.method = "turn/start" /\ call.op = "resume"

\* discard_unhealthy_process: the process is killed and forgotten.
Discard == child' = "none" /\ reader' = FALSE /\ app' = NoRequest

Begin(op) ==
  /\ call.at = "idle"
  /\ call' = [op |-> op, at |-> "ensure", method |-> "none"]
  /\ outcome' = IF op = "resume" THEN [verdict |-> "none", turns |-> 0] ELSE outcome
  /\ delivered' = 0
  /\ desk' = NoRequest /\ link' = "none"
  /\ UNCHANGED <<process, app, environment, faults>>

FirstStep ==
  CASE call.op = "list" -> GoTo("list")
    [] call.op = "interrupt" -> GoTo("turns/list")
    [] OTHER -> call' = [call EXCEPT !.at = "connect"] /\ UNCHANGED outcome

\* JsonRpcClient::is_running and start.
Running == child \in {"up", "mute"}
SpawnProcess == child' = "up" /\ reader' = TRUE

\* ensure_started and start: a process that is known to work is used, one
\* that is not greeted yet is greeted, a dead one is replaced.
\* Mutant: started outlives the process it was set for.
EnsureStartedStale ==
  /\ call.at = "ensure"
  /\ IF started THEN FirstStep /\ UNCHANGED <<process, faults>>
     ELSE /\ SpawnProcess /\ started' = FALSE /\ greeted' = (greeted /\ Running)
          /\ GoTo("initialize")
          /\ UNCHANGED faults
  /\ UNCHANGED <<app, link, desk, environment, delivered>>
\* Mutant: a process that is running counts as greeted.
EnsureStartedRunning ==
  /\ call.at = "ensure"
  /\ IF Running THEN FirstStep /\ UNCHANGED <<process, faults>>
     ELSE /\ SpawnProcess /\ started' = FALSE /\ greeted' = FALSE
          /\ GoTo("initialize")
          /\ UNCHANGED faults
  /\ UNCHANGED <<app, link, desk, environment, delivered>>
EnsureStarted ==
  /\ call.at = "ensure"
  /\ \/ /\ Running /\ started
        /\ FirstStep
        /\ UNCHANGED <<process, faults>>
     \/ /\ Running /\ ~started
        /\ GoTo("initialize")
        /\ UNCHANGED <<process, faults>>
     \/ /\ ~Running
        /\ started' = FALSE /\ greeted' = FALSE
        /\ \/ SpawnProcess /\ GoTo("initialize") /\ UNCHANGED faults
           \/ child' = "none" /\ reader' = FALSE /\ Finish("refused") /\ Fault("error")
  /\ UNCHANGED <<app, link, desk, environment, delivered>>

\* CodexProvider::close; a process that is not greeted is left to its drop.
Close ==
  /\ call.at = "idle" /\ started
  /\ started' = FALSE
  /\ Discard
  /\ UNCHANGED <<greeted, link, desk, environment, call, history, faults>>

-----------------------------------------------------------------------------
(* JsonRpcClient.                                                          *)

\* request_inner up to the wait: the entry in pending and the write.
SendApp ==
  /\ call.at = "send" /\ call.method \in AppMethods
  /\ \/ /\ child # "none"
        /\ app' = Written(call.method)
        /\ call' = [call EXCEPT !.at = "wait"]
        /\ UNCHANGED <<child, reader, outcome>>
     \/ child \in {"none", "dead"} /\ Discard /\ AppFailed
  /\ UNCHANGED <<started, greeted, link, desk, environment, delivered, faults>>

\* What follows a successful answer, by the method that was answered.
AfterInitialize ==
  \/ started' = TRUE /\ FirstStep
  \/ child = "dead" /\ started' = FALSE /\ Finish("refused")

\* active_turn_id: without a turn in progress there is nothing to interrupt.
AfterTurnsList(answer) ==
  IF answer.shows THEN call' = [call EXCEPT !.at = "connect"] /\ UNCHANGED outcome
                  ELSE Finish("refused")

\* codex_message_request: a message steers the turn that is in progress.
AfterThreadResume(answer) ==
  GoTo(CASE call.op = "interrupt" -> "turn/interrupt"
         [] call.op = "send" /\ answer.shows -> "turn/steer"
         [] OTHER -> "turn/start")

AfterTurn(answer) == Finish(IF answer.at = "noid" THEN "noid" ELSE "receipt")

AfterApp(answer) ==
  IF answer.method = "initialize" THEN AfterInitialize
  ELSE /\ CASE answer.method = "turns/list" -> AfterTurnsList(answer)
              [] answer.method = "thread/read" -> GoTo("discovery")
              [] answer.method = "thread/resume" -> AfterThreadResume(answer)
              [] OTHER -> AfterTurn(answer)
       /\ UNCHANGED started

\* The reader gives the answer to the waiting request.
ReadApp ==
  /\ call.at = "wait" /\ call.method \in AppMethods
  /\ app.at \in {"ok", "noid", "error", "closed"}
  /\ app' = NoRequest
  /\ \/ app.at \in {"ok", "noid"} /\ AfterApp(app)
     \/ app.at = "closed" /\ SideEffect /\ Finish("closed") /\ UNCHANGED started
     \/ /\ app.at = "error" \/ (app.at = "closed" /\ ~SideEffect)
        /\ AppFailed /\ UNCHANGED started
  /\ UNCHANGED <<child, reader, greeted, link, desk, environment, delivered, faults>>

\* The timeout of request_inner.
TimeoutApp ==
  /\ call.at = "wait" /\ call.method \in AppMethods
  /\ app.at \in Unanswered
  /\ app.slow \/ ~reader
  /\ Discard
  /\ IF SideEffect THEN Finish("uncertain") ELSE AppFailed
  /\ UNCHANGED <<started, greeted, link, desk, environment, delivered, faults>>

\* The reader meets the end of the output and answers what is pending.
Drain ==
  /\ reader /\ child \in {"mute", "dead"}
  /\ app.at \notin {"ok", "noid", "error"}
  /\ reader' = FALSE
  /\ app' = IF app.at \in Unanswered THEN [app EXCEPT !.at = "closed"] ELSE app
  /\ UNCHANGED <<child, started, greeted, link, desk, environment, call, history, faults>>

-----------------------------------------------------------------------------
(* The app-server (external).                                              *)

\* A message reaches the thread.
Reaches ==
  /\ delivered' = delivered + 1
  /\ outcome' = IF call.op = "resume" THEN [outcome EXCEPT !.turns = @ + 1] ELSE outcome

PerformApp ==
  /\ app.at = "written" /\ Running
  /\ app' = [app EXCEPT !.at = "performed", !.shows = active]
  /\ greeted' = (greeted \/ app.method = "initialize")
  /\ \/ /\ app.method \in {"turn/start", "turn/steer"}
        /\ app.method = "turn/steer" => active
        /\ Reaches /\ active' = TRUE
     \/ /\ app.method = "turn/interrupt" /\ active
        /\ active' = FALSE /\ UNCHANGED history
     \/ /\ app.method \notin {"turn/start", "turn/steer", "turn/interrupt"}
        /\ UNCHANGED <<active, history>>
  /\ UNCHANGED <<child, reader, started, link, desk, owner, call, faults>>

ReplyApp ==
  /\ app.at = "performed" /\ child = "up"
  /\ \/ app' = [app EXCEPT !.at = "ok"] /\ UNCHANGED faults
     \/ /\ app.method \in {"turn/start", "turn/steer"}
        /\ app' = [app EXCEPT !.at = "noid"] /\ Fault("noid")
  /\ UNCHANGED <<process, link, desk, environment, call, history>>

RefuseApp ==
  /\ app.at = "written" /\ child = "up"
  /\ app' = [app EXCEPT !.at = "error"]
  /\ IF app.method \in {"turn/steer", "turn/interrupt"} /\ ~active
     THEN UNCHANGED faults ELSE Fault("error")
  /\ UNCHANGED <<process, link, desk, environment, call, history>>

StallApp ==
  /\ app.at \in Unanswered /\ ~app.slow
  /\ app' = [app EXCEPT !.slow = TRUE]
  /\ Fault("stall")
  /\ UNCHANGED <<process, link, desk, environment, call, history>>

ExitApp ==
  /\ child = "up"
  /\ child' \in {"mute", "dead"}
  /\ Fault("exit")
  /\ UNCHANGED <<reader, started, greeted, app, link, desk, environment, call, history>>

-----------------------------------------------------------------------------
(* CodexDesktopIpc.                                                        *)

\* connect_default: no router, an unusable one, or a connection.
Connect ==
  /\ call.at = "connect"
  /\ \/ ~owner /\ GoTo("thread/resume") /\ UNCHANGED <<link, faults>>
     \/ Finish("refused") /\ Fault("link") /\ UNCHANGED link
     \/ link' = "open" /\ GoTo("hello") /\ UNCHANGED faults
  /\ UNCHANGED <<process, app, desk, environment, delivered>>

SendIpc ==
  /\ call.at = "send" /\ call.method \in IpcMethods
  /\ \/ /\ link = "open"
        /\ desk' = Written(call.method)
        /\ call' = [call EXCEPT !.at = "wait"]
        /\ UNCHANGED outcome
     \/ link = "broken" /\ Finish("refused") /\ UNCHANGED desk
  /\ UNCHANGED <<process, app, link, environment, delivered, faults>>

\* What follows an answer of Desktop, by the method that was answered.
TurnStateConflict == IF desk.at \in {"inactive", "active"} THEN desk.at ELSE "none"

Answered ==
  Finish(CASE desk.at = "ok" -> "receipt" [] desk.at = "noid" -> "noid" [] OTHER -> "refused")

AfterHello ==
  IF desk.at = "ok" THEN GoTo(IF call.op = "send" THEN "thread/read" ELSE "discovery")
                    ELSE Finish("refused")

\* discover_owner: without an owner the app-server is used.
AfterDiscovery ==
  CASE desk.at = "ok" -> GoTo(CASE call.op = "resume" -> "start-turn"
                                [] call.op = "send" -> "steer-turn"
                                [] OTHER -> "interrupt-turn")
    [] desk.at = "nobody" -> GoTo("thread/resume")
    [] OTHER -> Finish("refused")

\* send_message: steer, else start, else steer once more.
AfterSteer == IF TurnStateConflict = "inactive" THEN GoTo("start-turn") ELSE Answered
AfterStart ==
  IF TurnStateConflict = "active" /\ call.op = "send" THEN GoTo("steer-again") ELSE Answered

AfterIpc ==
  CASE call.method = "hello" -> AfterHello
    [] call.method = "discovery" -> AfterDiscovery
    [] call.method = "steer-turn" -> AfterSteer
    [] call.method = "start-turn" -> AfterStart
    [] OTHER -> Answered

ReadIpc ==
  /\ call.at = "wait" /\ call.method \in IpcMethods
  /\ link = "open" /\ desk.at \notin Unanswered
  /\ AfterIpc
  /\ UNCHANGED <<process, app, link, desk, environment, delivered, faults>>

\* A timeout or a failed read: unknown when a turn may have been started.
\* Mutant: a message that Desktop leaves unanswered goes to the app-server.
FailIpcFallsBack ==
  /\ call.at = "wait" /\ call.method \in IpcMethods
  /\ (desk.slow /\ desk.at \in Unanswered) \/ link = "broken"
  /\ CASE call.op = "send" -> GoTo("thread/resume")
       [] call.method = "start-turn" -> Finish("uncertain")
       [] OTHER -> Finish("refused")
  /\ UNCHANGED <<process, app, link, desk, environment, delivered, faults>>
\* Mutant: an interrupted start-turn is a definite error.
FailIpcPlain ==
  /\ call.at = "wait" /\ call.method \in IpcMethods
  /\ (desk.slow /\ desk.at \in Unanswered) \/ link = "broken"
  /\ Finish("refused")
  /\ UNCHANGED <<process, app, link, desk, environment, delivered, faults>>
FailIpc ==
  /\ call.at = "wait" /\ call.method \in IpcMethods
  /\ (desk.slow /\ desk.at \in Unanswered) \/ link = "broken"
  /\ Finish(IF call.method = "start-turn" THEN "uncertain" ELSE "refused")
  /\ UNCHANGED <<process, app, link, desk, environment, delivered, faults>>

-----------------------------------------------------------------------------
(* Codex Desktop and the user (external).  What Desktop has read it may    *)
(* still perform when watchcat has given up.                               *)

AnswerIpc(at) == desk' = [desk EXCEPT !.at = at]

PerformIpc ==
  /\ desk.at = "written"
  /\ \/ /\ desk.method \in {"start-turn", "steer-turn", "steer-again"} /\ owner
        /\ active = (desk.method # "start-turn")
        /\ Reaches /\ active' = TRUE
     \/ /\ desk.method = "interrupt-turn" /\ owner /\ active
        /\ active' = FALSE /\ UNCHANGED history
     \/ desk.method = "hello" /\ UNCHANGED <<active, history>>
     \/ desk.method = "discovery" /\ owner /\ UNCHANGED <<active, history>>
  /\ AnswerIpc("performed")
  /\ UNCHANGED <<process, app, link, owner, call, faults>>

ReplyIpc ==
  /\ desk.at = "performed"
  /\ \/ AnswerIpc("ok") /\ UNCHANGED faults
     \/ desk.method \in {"start-turn", "steer-turn", "steer-again"}
        /\ AnswerIpc("noid") /\ Fault("noid")
  /\ UNCHANGED <<process, app, link, environment, call, history>>

RefuseIpc ==
  /\ desk.at = "written"
  /\ \/ desk.method # "hello" /\ ~owner /\ AnswerIpc("nobody") /\ UNCHANGED faults
     \/ /\ desk.method \in {"steer-turn", "steer-again", "interrupt-turn"}
        /\ owner /\ ~active /\ AnswerIpc("inactive") /\ UNCHANGED faults
     \/ desk.method = "start-turn" /\ owner /\ active /\ AnswerIpc("active") /\ UNCHANGED faults
     \/ AnswerIpc("error") /\ Fault("error")
  /\ UNCHANGED <<process, app, link, environment, call, history>>

StallIpc ==
  /\ desk.at \in Unanswered /\ ~desk.slow
  /\ desk' = [desk EXCEPT !.slow = TRUE]
  /\ Fault("stall")
  /\ UNCHANGED <<process, app, link, environment, call, history>>

BreakIpc ==
  /\ link = "open" /\ call.at # "idle"
  /\ link' = "broken"
  /\ Fault("link")
  /\ UNCHANGED <<process, app, desk, environment, call, history>>

User ==
  /\ \/ owner' = ~owner /\ UNCHANGED active
     \/ active' = ~active /\ UNCHANGED owner
  /\ UNCHANGED <<process, app, link, desk, call, history, faults>>

-----------------------------------------------------------------------------
CallStep == EnsureStarted \/ SendApp \/ ReadApp \/ TimeoutApp
              \/ Connect \/ SendIpc \/ ReadIpc \/ FailIpc
ServerStep == PerformApp \/ ReplyApp \/ RefuseApp
                \/ PerformIpc \/ ReplyIpc \/ RefuseIpc

Next ==
  \/ \E op \in Calls : Begin(op)
  \/ Close
  \/ EnsureStarted \/ SendApp \/ ReadApp \/ TimeoutApp \/ Drain
  \/ PerformApp \/ ReplyApp \/ RefuseApp \/ StallApp \/ ExitApp
  \/ Connect \/ SendIpc \/ ReadIpc \/ FailIpc
  \/ PerformIpc \/ ReplyIpc \/ RefuseIpc \/ StallIpc \/ BreakIpc
  \/ User

Spec == Init /\ [][Next]_vars

\* Every pass lists sessions, tokio runs what is ready, the timeouts fire, and
\* a request that is not stalled is answered.
Fairness ==
  /\ SF_vars(Begin("list"))
  /\ WF_vars(CallStep)
  /\ WF_vars(Drain)
  /\ WF_vars(ServerStep)

FairSpec == Spec /\ Fairness

-----------------------------------------------------------------------------
(* Properties.                                                             *)

\* No call of resume or send_message brings its message to the thread twice,
\* over Desktop and over the app-server, by steering and by starting, in spite
\* of timeouts, conflicts and a window that leaves between two requests.
DeliveredAtMostOnce == delivered <= 1

\* No process is asked for anything before it has answered initialize,
\* whichever way its predecessor was lost.
HandshakeFirst ==
  app.method \notin {"none", "initialize"} => greeted

Contract == INSTANCE ResumeContract WITH
  open <- call.op = "resume" /\ call.at # "idle",
  verdict <- IF outcome.verdict \in {"closed", "noid"} THEN "uncertain" ELSE outcome.verdict,
  turns <- outcome.turns

StrictContract == INSTANCE ResumeContract WITH
  open <- call.op = "resume" /\ call.at # "idle",
  verdict <- IF outcome.verdict \in Plain THEN "refused" ELSE outcome.verdict,
  turns <- outcome.turns

\* resume keeps the contract that the engine relies on, but for these two
\* errors: no other verdict denies a turn that exists or will exist, or
\* promises one that does not.
ImplementsContract == Contract!Spec

\* resume as the engine understands it: a plain error is a definite failure.
ResumeKeepsContract == StrictContract!Spec

\* Every call ends, as every wait has a timeout or an end, and the provider works
\* again after the failures have stopped: a process that is lost or that does not
\* answer is replaced and greeted.
EventuallyServing == []<>(call.at = "idle" /\ child = "up" /\ started /\ greeted)

=============================================================================
