--------------------------- MODULE DialogMonitor ----------------------------
(***************************************************************************)
(* The monitor that answers consent dialogs on macOS                       *)
(* (os_permissions/macos.rs).  Everything it does runs on the main thread, *)
(* driven by queued scans; other threads change the rules and stop it, and *)
(* the windows change whenever their application likes.  What must not go  *)
(* wrong is the one irreversible step, the press of a button.              *)
(*                                                                         *)
(* One application is watched, by one rule.  A window shows a request that *)
(* the rule matches, or something else; the signature of a request is its  *)
(* content.                                                                *)
(***************************************************************************)
EXTENDS Naturals, FiniteSets

CONSTANTS
  Windows,    \* windows that the application may open
  Requests,   \* contents that the rule matches
  MaxEvents   \* bound: things that happen outside the monitor

VARIABLES
  window,   \* what each window shows
  trusted,  \* the process has the Accessibility permission
  rule,     \* RULES: the rule is enabled
  permit,   \* the permit of the Guard
  monitor,  \* none, or the state of the application: unknown, failed, observed
  retries,  \* attempts to subscribe so far, while a timer is set for the next
  dialogs,  \* the Dialog of each window
  queued,   \* QUEUED, and the stop of the monitor
  main,     \* what the main thread is doing
  events,   \* events outside so far
  blind,    \* history: a read or a record failed since the last scan
  pressed   \* history: the request that was last pressed in each window as it is

\* What a window shows instead of a request.
RequestAssumption == Requests \cap {"none", "other", "closed", "unborn"} = {}

vars == <<window, trusted, rule, permit, monitor, retries, dialogs, queued, main, events, blind,
          pressed>>

NoDialog == [last |-> "none", awaiting |-> FALSE, due |-> FALSE, timer |-> FALSE]
NoDialogs == [w \in Windows |-> NoDialog]
Idle == [at |-> "idle"]
Open(w) == window[w] \notin {"unborn", "closed"}

\* The RULES lock is held while a window is inspected, the permit's while the
\* button is pressed.
RulesHeld == main.at \in {"first", "second", "intended"}
PermitHeld == main.at = "intended"

Init ==
  /\ window = [w \in Windows |-> "unborn"]
  /\ trusted = TRUE /\ rule = TRUE /\ permit = TRUE
  /\ monitor = "unknown" /\ retries = 0
  /\ dialogs = NoDialogs
  /\ queued = {"reconcile"}
  /\ main = Idle
  /\ events = 0
  /\ blind = FALSE
  /\ pressed = [w \in Windows |-> "none"]

-----------------------------------------------------------------------------
(* What happens outside (external): the application, the user, the system. *)

Event == events < MaxEvents /\ events' = events + 1

\* The observer of the application has its events, of new windows and of changes,
\* queue a scan.
Shows(w, content) ==
  /\ Event
  /\ window[w] # "closed" /\ content # window[w]
  /\ content = "closed" => Open(w)
  /\ window' = [window EXCEPT ![w] = content]
  /\ pressed' = [pressed EXCEPT ![w] = "none"]
  /\ queued' = IF monitor = "observed" THEN queued \cup {"scan"} ELSE queued
  /\ UNCHANGED <<trusted, rule, permit, monitor, retries, dialogs, main, blind>>

TrustChanges ==
  /\ Event
  /\ trusted' = ~trusted
  /\ UNCHANGED <<window, rule, permit, monitor, retries, dialogs, queued, main, blind, pressed>>

\* The application is launched, activated or unhidden: a failed subscription to it
\* is forgotten.
Activated ==
  /\ Event /\ main = Idle /\ monitor # "none"
  /\ monitor' = IF monitor = "failed" THEN "unknown" ELSE monitor
  /\ retries' = 0
  /\ queued' = queued \cup {"reconcile"}
  /\ UNCHANGED <<window, trusted, rule, permit, dialogs, main, blind, pressed>>

\* Mutant: who is subscribed again starts anew.
WokenAnew ==
  /\ Event /\ main = Idle /\ monitor # "none"
  /\ monitor' = IF monitor = "failed" THEN "unknown" ELSE monitor
  /\ retries' = 0
  /\ dialogs' = NoDialogs
  /\ queued' = queued \cup {"reconcile"}
  /\ UNCHANGED <<window, trusted, rule, permit, main, blind, pressed>>
\* reconnect: after a sleep the subscriptions are made again, the dialogs are kept.
Woken ==
  /\ Event /\ main = Idle /\ monitor # "none"
  /\ monitor' = IF monitor = "failed" THEN "unknown" ELSE monitor
  /\ retries' = 0
  /\ queued' = queued \cup {"reconcile"}
  /\ UNCHANGED <<window, trusted, rule, permit, dialogs, main, blind, pressed>>

-----------------------------------------------------------------------------
(* The threads of the daemon.                                              *)

\* configure, on a mutation or a reload; the rest is queued for the main thread.
Configure ==
  /\ Event /\ ~RulesHeld
  /\ rule' = ~rule
  /\ queued' = queued \cup {"configured"}
  /\ UNCHANGED <<window, trusted, permit, monitor, retries, dialogs, main, blind, pressed>>

\* Guard::stop
Stop ==
  /\ Event /\ permit /\ ~PermitHeld
  /\ permit' = FALSE
  /\ queued' = queued \cup {"stop"}
  /\ UNCHANGED <<window, trusted, rule, monitor, retries, dialogs, main, blind, pressed>>

-----------------------------------------------------------------------------
(* The main thread: what is queued runs one after another.                 *)

\* configuration_changed: a failed subscription is forgotten.
Configured ==
  /\ main = Idle /\ "configured" \in queued
  /\ monitor' = IF monitor = "failed" THEN "unknown" ELSE monitor
  /\ retries' = IF monitor = "failed" THEN 0 ELSE retries
  /\ queued' = (queued \ {"configured"}) \cup {"reconcile"}
  /\ UNCHANGED <<window, trusted, rule, permit, dialogs, main, events, blind, pressed>>

Forget(state) ==
  /\ monitor' = state /\ retries' = 0
  /\ dialogs' = NoDialogs
  /\ pressed' = [w \in Windows |-> "none"]

RunStop ==
  /\ main = Idle /\ "stop" \in queued
  /\ queued' = {}
  /\ Forget("none")
  /\ UNCHANGED <<window, trusted, rule, permit, main, events, blind>>

\* attach: the subscription succeeds, or fails for now or for good.
Attach(result) ==
  CASE result = "observed"  -> /\ monitor' = "observed" /\ retries' = 0
                               /\ queued' = (queued \ {"reconcile"}) \cup {"scan"}
    [] result = "transient" -> /\ monitor' = "failed"
                               /\ retries' = IF retries < 3 THEN retries + 1 ELSE 0
                               /\ queued' = queued \ {"reconcile"}
    [] result = "failed"    -> /\ monitor' = "failed" /\ retries' = 0
                               /\ queued' = queued \ {"reconcile"}

Attachments == {"observed", "transient", "failed"}

\* reconcile: without the permission or an enabled rule nothing is observed.
Reconcile(result) ==
  /\ main = Idle /\ "reconcile" \in queued /\ permit
  /\ IF ~trusted \/ ~rule
     THEN Forget("unknown") /\ queued' = queued \ {"reconcile"}
     ELSE /\ IF monitor = "unknown"
             THEN Attach(result)
             ELSE /\ queued' = (queued \ {"reconcile"})
                                 \cup (IF monitor = "observed" THEN {"scan"} ELSE {})
                  /\ UNCHANGED <<monitor, retries>>
          /\ UNCHANGED <<dialogs, pressed>>
  /\ UNCHANGED <<window, trusted, rule, permit, main, events, blind>>

\* The timer of a failed subscription.
Retry(result) ==
  /\ main = Idle /\ monitor = "failed" /\ retries > 0 /\ permit
  /\ monitor' = IF result = "observed" THEN "observed" ELSE "failed"
  /\ retries' = IF result = "transient" /\ retries < 3 THEN retries + 1 ELSE 0
  /\ queued' = queued \cup {"reconcile"} \cup (IF result = "observed" THEN {"scan"} ELSE {})
  /\ UNCHANGED <<window, trusted, rule, permit, dialogs, main, events, blind, pressed>>

\* A queued scan that has nothing to do.
Skip ==
  /\ main = Idle
  /\ \/ ~permit /\ queued' = queued \cap {"stop"} /\ queued # queued'
     \/ permit /\ "scan" \in queued /\ trusted /\ monitor # "observed"
          /\ queued' = queued \ {"scan"}
     \/ permit /\ "scan" \in queued /\ ~trusted
          /\ queued' = (queued \ {"scan"}) \cup {"reconcile"}
  /\ UNCHANGED <<window, trusted, rule, permit, monitor, retries, dialogs, main, events, blind,
                 pressed>>

-----------------------------------------------------------------------------
(* scan.                                                                   *)

\* The windows are listed; the dialogs of those that are gone are dropped.
BeginScan ==
  /\ main = Idle /\ "scan" \in queued /\ permit /\ trusted /\ monitor = "observed"
  /\ queued' = queued \ {"scan"}
  /\ main' = [at |-> "windows", left |-> {w \in Windows : Open(w)}]
  /\ dialogs' = [w \in Windows |-> IF Open(w) THEN dialogs[w] ELSE NoDialog]
  /\ blind' = FALSE
  /\ UNCHANGED <<window, trusted, rule, permit, monitor, retries, events, pressed>>

ScanFails ==
  /\ main = Idle /\ "scan" \in queued /\ permit /\ trusted /\ monitor = "observed"
  /\ queued' = queued \ {"scan"}
  /\ blind' = TRUE
  /\ UNCHANGED <<window, trusted, rule, permit, monitor, retries, dialogs, main, events, pressed>>

\* Mutant: the scan leaves the queue at its end, with what was queued meanwhile.
EndScanDropsQueue ==
  /\ main.at = "windows" /\ (main.left = {} \/ ~permit)
  /\ main' = Idle
  /\ queued' = queued \ {"scan"}
  /\ UNCHANGED <<window, trusted, rule, permit, monitor, retries, dialogs, events, blind, pressed>>
EndScan ==
  /\ main.at = "windows" /\ (main.left = {} \/ ~permit)
  /\ main' = Idle
  /\ UNCHANGED <<window, trusted, rule, permit, monitor, retries, dialogs, queued, events, blind,
                 pressed>>

Leave == main' = [at |-> "windows", left |-> main.left]

\* A click whose deadline has passed counts as unconfirmed; then the window is read
\* for the first time.
Inspect(w) ==
  /\ main.at = "windows" /\ w \in main.left /\ permit
  /\ main' = [at |-> "first", w |-> w, left |-> main.left \ {w}]
  /\ dialogs' = IF dialogs[w].awaiting /\ dialogs[w].due
                THEN [dialogs EXCEPT ![w].awaiting = FALSE, ![w].due = FALSE, ![w].timer = FALSE]
                ELSE dialogs
  /\ UNCHANGED <<window, trusted, rule, permit, monitor, retries, queued, events, blind, pressed>>

\* matching_button: exactly one enabled rule matches what the window shows.
Matches(w) == window[w] \in Requests /\ rule

\* A window that does not match, or whose request was answered, is left.
LeaveWindow ==
  /\ main.at = "first"
  /\ ~Matches(main.w) \/ dialogs[main.w].last = window[main.w] \/ ~permit
  /\ Leave
  /\ UNCHANGED <<window, trusted, rule, permit, monitor, retries, dialogs, queued, events, blind,
                 pressed>>

Match ==
  /\ main.at = "first" /\ permit
  /\ Matches(main.w) /\ dialogs[main.w].last # window[main.w]
  /\ main' = [at |-> "second", w |-> main.w, left |-> main.left, request |-> window[main.w]]
  /\ UNCHANGED <<window, trusted, rule, permit, monitor, retries, dialogs, queued, events, blind,
                 pressed>>

\* The second reading differs, or the monitor is stopped.
LeaveChanged ==
  /\ main.at = "second"
  /\ window[main.w] # main.request \/ ~permit
  /\ IF permit THEN Leave ELSE main' = Idle
  /\ UNCHANGED <<window, trusted, rule, permit, monitor, retries, dialogs, queued, events, blind,
                 pressed>>

\* A read fails, or click.attempt cannot be recorded.
LeaveFailed ==
  /\ main.at \in {"first", "second"}
  /\ Leave
  /\ blind' = TRUE
  /\ UNCHANGED <<window, trusted, rule, permit, monitor, retries, dialogs, queued, events, pressed>>

\* The permit is locked, click.attempt is recorded and the request remembered.
Intend ==
  /\ main.at = "second" /\ permit
  /\ window[main.w] = main.request
  /\ main' = [main EXCEPT !.at = "intended"]
  /\ dialogs' = [dialogs EXCEPT ![main.w] = [NoDialog EXCEPT !.last = main.request]]
  /\ UNCHANGED <<window, trusted, rule, permit, monitor, retries, queued, events, blind, pressed>>

\* AXPress; an answer that did not come in time counts as sent.
Press(sent) ==
  /\ main.at = "intended"
  /\ Leave
  /\ pressed' = [pressed EXCEPT ![main.w] = main.request]
  /\ dialogs' = IF sent
                THEN [dialogs EXCEPT ![main.w].awaiting = TRUE, ![main.w].timer = TRUE]
                ELSE dialogs
  /\ queued' = IF sent THEN queued \cup {"scan"} ELSE queued
  /\ UNCHANGED <<window, trusted, rule, permit, monitor, retries, events, blind>>

\* Three seconds after a click its deadline has passed and its timer fires.
Deadline(w) ==
  /\ dialogs[w].awaiting /\ ~dialogs[w].due
  /\ dialogs' = [dialogs EXCEPT ![w].due = TRUE]
  /\ UNCHANGED <<window, trusted, rule, permit, monitor, retries, queued, main, events, blind,
                 pressed>>

TimerFires(w) ==
  /\ main = Idle /\ dialogs[w].timer /\ dialogs[w].due
  /\ dialogs' = [dialogs EXCEPT ![w].timer = FALSE]
  /\ queued' = queued \cup {"scan"}
  /\ UNCHANGED <<window, trusted, rule, permit, monitor, retries, main, events, blind, pressed>>

-----------------------------------------------------------------------------
Contents == Requests \cup {"other", "closed"}

Outside ==
  \/ \E w \in Windows, content \in Contents : Shows(w, content)
  \/ TrustChanges \/ Activated \/ Woken \/ Configure \/ Stop

Main ==
  \/ Configured \/ RunStop \/ Skip
  \/ \E result \in Attachments : Reconcile(result) \/ Retry(result)
  \/ BeginScan \/ ScanFails \/ EndScan
  \/ \E w \in Windows : Inspect(w)
  \/ LeaveWindow \/ Match \/ LeaveChanged \/ LeaveFailed \/ Intend
  \/ \E sent \in BOOLEAN : Press(sent)

Next ==
  \/ Outside \/ Main
  \/ \E w \in Windows : Deadline(w) \/ TimerFires(w)

Spec == Init /\ [][Next]_vars

\* The main loop runs what is queued, and time passes.
FairSpec ==
  /\ Spec
  /\ WF_vars(Main)
  /\ \A w \in Windows : WF_vars(Deadline(w)) /\ SF_vars(TimerFires(w))

-----------------------------------------------------------------------------
(* Properties.                                                             *)

\* Types; a dialog has a timer only while its click is not resolved, and an
\* application that is not observed has no dialogs.
TypeOK ==
  /\ window \in [Windows -> Contents \cup {"unborn"}]
  /\ monitor \in {"none", "unknown", "failed", "observed"} /\ retries \in 0 .. 3
  /\ queued \subseteq {"reconcile", "scan", "configured", "stop"}
  /\ \A w \in Windows : dialogs[w].last \in Requests \cup {"none"}
  /\ \A w \in Windows : dialogs[w].timer => dialogs[w].awaiting
  /\ monitor # "observed" => dialogs = NoDialogs
  /\ retries > 0 => monitor = "failed"

Presses == main.at = "intended" /\ main'.at = "windows"

\* "Reconnecting an observer must not authorize a second press" (macos.rs:524) and
\* "click will not be retried": a request is pressed once, whether the press
\* succeeded or not, however often the window is scanned, while the window shows
\* the request and the application is observed without interruption.  And "once
\* stop returns, no new click can cross this boundary" (macos.rs:111), "no
\* removed/disabled rule can authorize a subsequent action" (macos.rs:674):
\* whoever stops the monitor or disables the rule waits for the press under way.
PressedOnce ==
  [][Presses => permit /\ rule /\ pressed[main.w] # main.request]_vars

\* A request that an observed application shows is pressed, also when it appears
\* or changes in the middle of a scan, unless it goes, the rule, the permit or the
\* permission is withdrawn, or something cannot be read or recorded.
RequestAnswered ==
  \A w \in Windows, request \in Requests :
    window[w] = request /\ monitor = "observed"
      ~> \/ dialogs[w].last = request \/ window[w] # request
         \/ monitor # "observed" \/ ~rule \/ ~permit \/ ~trusted \/ blind

\* No press is left open in the audit log: it is closed, unconfirmed or failed in
\* the end, unless the window cannot be read when the timer has fired.
ClickResolved ==
  \A w \in Windows : dialogs[w].awaiting ~> ~dialogs[w].awaiting \/ blind

RequestsEnd == RequestAnswered /\ ClickResolved

=============================================================================
