----------------------------- MODULE PartsProofs ----------------------------
(***************************************************************************)
(* What the theorems about single components say of MCParts, for any of    *)
(* its bounds: a behaviour of MCParts is, for each component, one of that  *)
(* component, which moves or stays as it is.  For the components that have *)
(* no module of theorems the proofs themselves are here:                   *)
(*   - dialogs: what was pressed is remembered by the dialog of its window *)
(*     (RememberedInv), and what is about to be pressed is allowed and new *)
(*     (IntentInv);                                                        *)
(*   - audit log: whole events in their order, and what was accepted is in *)
(*     the file or before the last ones that are kept (AuditInv);          *)
(*   - policies: an override in force is valid (RulesInv);                 *)
(*   - event log: events in their order, and every line that cannot be     *)
(*     read, or will not be, is paid for by a fault (LogInv);              *)
(*   - transcripts: an entry knows the records before its offset, of the   *)
(*     file it is about (KnownInv), whose dates come in order (DatesInv).  *)
(***************************************************************************)
EXTENDS MCParts, FiniteSetTheorems, SequenceTheorems, TLAPS

\* A step is one of Lifecycle only if that part was chosen; else its variables stay.
LEMMA WatchSteps == [Next]_vars => [Watch!Next]_(Watch!vars)
BY DEF Next, vars, tVars, wVars, cVars, fVars, eVars, aVars, dVars, pVars, rVars,
       ReaderOnly, WatchOnly, ConfigOnly, FeedOnly, LogOnly, AuditOnly, DialogsOnly,
       RulesOnly, RetriesOnly, Watch!vars

\* Likewise for ConfigFile.
LEMMA ConfigSteps == [Next]_vars => [Config!Next]_(Config!vars)
BY DEF Next, vars, tVars, wVars, cVars, fVars, eVars, aVars, dVars, pVars, rVars,
       ReaderOnly, WatchOnly, ConfigOnly, FeedOnly, LogOnly, AuditOnly, DialogsOnly,
       RulesOnly, RetriesOnly, Config!vars

\* Likewise for Subscriptions.
LEMMA FeedSteps == [Next]_vars => [Feed!Next]_(Feed!vars)
BY DEF Next, vars, tVars, wVars, cVars, fVars, eVars, aVars, dVars, pVars, rVars,
       ReaderOnly, WatchOnly, ConfigOnly, FeedOnly, LogOnly, AuditOnly, DialogsOnly,
       RulesOnly, RetriesOnly, Feed!vars

\* Likewise for DialogMonitor.
LEMMA DialogsSteps == [Next]_vars => [Dialogs!Next]_(Dialogs!vars)
BY DEF Next, vars, tVars, wVars, cVars, fVars, eVars, aVars, dVars, pVars, rVars,
       ReaderOnly, WatchOnly, ConfigOnly, FeedOnly, LogOnly, AuditOnly, DialogsOnly,
       RulesOnly, RetriesOnly, Dialogs!vars

\* Hence every behaviour is one of each of these components.
LEMMA PartsImplement == Spec => Watch!Spec /\ Config!Spec /\ Feed!Spec /\ Dialogs!Spec
<1>1. Init => Watch!Init /\ Config!Init /\ Feed!Init /\ Dialogs!Init
  BY DEF Init
<1> QED BY <1>1, WatchSteps, ConfigSteps, FeedSteps, DialogsSteps, PTL
       DEF Spec, Watch!Spec, Config!Spec, Feed!Spec, Dialogs!Spec

-----------------------------------------------------------------------------
\* recent_sessions and WatchlistStore::reconcile: a session that was in use when the
\* pass began does not expire.
THEOREM NoActiveExpires == Spec => OnlyInactiveExpire
<1>1. Watch!ClockAssumption
  BY PartsAssumption
<1>2. Watch!Spec => Watch!OnlyInactiveExpire
  BY <1>1, Watch!InactiveExpireOnly
<1> QED BY <1>2, PartsImplement DEF OnlyInactiveExpire

\* The engine of a pass works on the targets that the commit of the pass keeps.
THEOREM EngineScansTheKept == Spec => EngineScansWhatStays
<1>1. Watch!ClockAssumption
  BY PartsAssumption
<1>2. Watch!Spec => Watch!EngineScansWhatStays
  BY <1>1, Watch!EngineMatchesCommit
<1> QED BY <1>2, PartsImplement DEF EngineScansWhatStays

\* reload_external_config and save_settings: a revision is one configuration.
THEOREM OneConfigurationPerRevision == Spec => []RevisionIsOneConfiguration
<1>1. Config!BoundAssumption
  BY PartsAssumption
<1>2. Config!Spec => []Config!RevisionIsOneConfiguration
  BY <1>1, Config!RevisionsAreConfigurations
<1> QED BY <1>2, PartsImplement, PTL DEF RevisionIsOneConfiguration

\* A setting in force is never replaced by an earlier one.
THEOREM NoSettingGoesBack == Spec => SettingsNeverGoBack
<1>1. Config!BoundAssumption
  BY PartsAssumption
<1>2. Config!Spec => Config!SettingsNeverGoBack
  BY <1>1, Config!SettingsOnlyAdvance
<1> QED BY <1>2, PartsImplement DEF SettingsNeverGoBack

\* events.subscribe: nobody is left behind in silence.
THEOREM SubscribersSkipNothing == Spec => []NothingSkipped
<1>1. Feed!ChannelAssumption
  BY PartsAssumption
<1>2. Feed!Spec => []Feed!NothingSkipped
  BY <1>1, Feed!NobodyIsSkipped
<1> QED BY <1>2, PartsImplement, PTL DEF NothingSkipped

-----------------------------------------------------------------------------
(* The dialog monitor.                                                     *)

Dialog == [last : dRequests \cup {"none"}, awaiting : BOOLEAN, due : BOOLEAN, timer : BOOLEAN]

\* What the main thread works on: windows that were open when the scan began.
MainType ==
  \/ dMain = Dialogs!Idle
  \/ dMain \in [at : {"windows"}, left : SUBSET dWindows]
  \/ dMain \in [at : {"first"}, w : dWindows, left : SUBSET dWindows]
  \/ dMain \in [at : {"second", "intended"}, w : dWindows, left : SUBSET dWindows,
               request : dRequests]

DialogTypes ==
  /\ dWindow \in [dWindows -> Dialogs!Contents \cup {"unborn"}]
  /\ dTrusted \in BOOLEAN /\ dRule \in BOOLEAN /\ dPermit \in BOOLEAN
  /\ dMonitor \in {"none", "unknown", "failed", "observed"} /\ dRetries \in 0 .. 3
  /\ dQueued \subseteq {"reconcile", "scan", "configured", "stop"}
  /\ dDialogs \in [dWindows -> Dialog]
  /\ dPressed \in [dWindows -> dRequests \cup {"none"}]
  /\ MainType
  /\ \A w \in dWindows : dDialogs[w].timer => dDialogs[w].awaiting
  /\ dMonitor # "observed" => dDialogs = Dialogs!NoDialogs
  /\ dMain # Dialogs!Idle => dMonitor = "observed"
  /\ dRetries > 0 => dMonitor = "failed"

\* A scan works on windows that exist; those that do not were never pressed.
OpenedInv ==
  /\ dMain # Dialogs!Idle => \A w \in dMain.left : dWindow[w] # "unborn"
  /\ dMain.at \in {"first", "second", "intended"} => dWindow[dMain.w] # "unborn"
  /\ \A w \in dWindows : dWindow[w] = "unborn" => dPressed[w] = "none"

\* The request that was pressed last is remembered by the dialog of its window,
\* until the window is closed, and but for the one that is about to be replaced.
RememberedInv ==
  \A w \in dWindows :
    \/ dPressed[w] \in {"none", dDialogs[w].last}
    \/ dWindow[w] = "closed"
    \/ dMain.at = "intended" /\ dMain.w = w

\* What is between the two readings and the press was allowed, and is new.
IntentInv ==
  /\ dMain.at \in {"second", "intended"} => dRule
  /\ dMain.at = "second" => dDialogs[dMain.w].last # dMain.request
  /\ dMain.at = "intended" => /\ dPermit /\ dPressed[dMain.w] # dMain.request
                              /\ dDialogs[dMain.w].last = dMain.request

DialogInv == DialogTypes /\ OpenedInv /\ RememberedInv /\ IntentInv

\* A dialog of which nothing is known.
LEMMA NoDialogTyped ==
  /\ Dialogs!NoDialog \in Dialog /\ Dialogs!NoDialog.last = "none"
  /\ ~Dialogs!NoDialog.timer /\ ~Dialogs!NoDialog.awaiting
  /\ Dialogs!NoDialogs \in [dWindows -> Dialog]
  /\ \A w \in dWindows : Dialogs!NoDialogs[w] = Dialogs!NoDialog
BY DEF Dialogs!NoDialog, Dialogs!NoDialogs, Dialog

\* The fields that the main thread has at each point of a scan.
LEMMA MainFields ==
  ASSUME MainType
  PROVE  /\ dMain.at \in {"idle", "windows", "first", "second", "intended"}
         /\ dMain = Dialogs!Idle <=> dMain.at = "idle"
         /\ dMain.at # "idle" => dMain.left \in SUBSET dWindows
         /\ dMain.at \in {"first", "second", "intended"} => dMain.w \in dWindows
         /\ dMain.at \in {"second", "intended"} => dMain.request \in dRequests
BY DEF MainType, Dialogs!Idle

\* In the beginning nothing is observed or pressed.
LEMMA DialogInit == Dialogs!Init => DialogInv
BY NoDialogTyped DEF Dialogs!Init, Dialogs!Idle, Dialogs!Contents, DialogInv, DialogTypes,
   OpenedInv, RememberedInv, IntentInv, MainType

\* The application changes a window: what was pressed in it is over.
LEMMA ShowsInv ==
  ASSUME Dialogs!RequestAssumption, DialogInv,
         NEW w \in dWindows, NEW content \in Dialogs!Contents, Dialogs!Shows(w, content)
  PROVE  DialogInv'
<1>1. /\ dWindow' = [dWindow EXCEPT ![w] = content]
      /\ dPressed' = [dPressed EXCEPT ![w] = "none"]
      /\ dQueued' = IF dMonitor = "observed" THEN dQueued \cup {"scan"} ELSE dQueued
      /\ UNCHANGED <<dTrusted, dRule, dPermit, dMonitor, dRetries, dDialogs, dMain, dBlind>>
      /\ dWindow[w] # "closed" /\ content # "unborn"
  BY DEF Dialogs!Shows, Dialogs!Contents, Dialogs!RequestAssumption
<1>2. DialogTypes'
  BY <1>1 DEF DialogInv, DialogTypes, MainType, Dialogs!Contents
<1>3. dWindow \in [dWindows -> Dialogs!Contents \cup {"unborn"}]
      /\ dPressed \in [dWindows -> dRequests \cup {"none"}]
      /\ MainType
  BY DEF DialogInv, DialogTypes
<1>4. OpenedInv'
  BY <1>1, <1>3, MainFields DEF DialogInv, OpenedInv
<1>5. RememberedInv'
  BY <1>1, <1>3 DEF DialogInv, RememberedInv
<1>6. IntentInv'
  BY <1>1, <1>3, MainFields DEF DialogInv, IntentInv, Dialogs!RequestAssumption
<1> QED BY <1>2, <1>4, <1>5, <1>6 DEF DialogInv

\* Steps that change neither the dialogs, nor what the main thread does, nor what
\* windows show.
LEMMA AsideKeeps ==
  ASSUME DialogInv, UNCHANGED <<dWindow, dMain, dDialogs, dPressed>>,
         dTrusted' \in BOOLEAN, dRule' \in BOOLEAN, dPermit' \in BOOLEAN,
         dMonitor' \in {"none", "unknown", "failed", "observed"}, dRetries' \in 0 .. 3,
         dQueued' \subseteq {"reconcile", "scan", "configured", "stop"},
         dMonitor' # "observed" => dMonitor # "observed",
         dRetries' > 0 => dMonitor' = "failed",
         dMain.at \in {"second", "intended"} => dRule',
         dMain.at = "intended" => dPermit'
  PROVE  DialogInv'
<1>1. DialogTypes'
  BY DEF DialogInv, DialogTypes, MainType
<1>2. OpenedInv' /\ RememberedInv'
  BY DEF DialogInv, OpenedInv, RememberedInv
<1>3. IntentInv'
  BY DEF DialogInv, IntentInv
<1> QED BY <1>1, <1>2, <1>3 DEF DialogInv

\* What changes outside of the monitor, and what waits for the main thread.
LEMMA OutsideInv ==
  ASSUME DialogInv,
         \/ Dialogs!TrustChanges \/ Dialogs!Activated \/ Dialogs!Woken
         \/ Dialogs!Configure \/ Dialogs!Stop \/ Dialogs!Configured \/ Dialogs!Skip
  PROVE  DialogInv'
<1>0. /\ dTrusted \in BOOLEAN /\ dRule \in BOOLEAN /\ dPermit \in BOOLEAN
      /\ dMonitor \in {"none", "unknown", "failed", "observed"} /\ dRetries \in 0 .. 3
      /\ dQueued \subseteq {"reconcile", "scan", "configured", "stop"}
      /\ dRetries > 0 => dMonitor = "failed"
  BY DEF DialogInv, DialogTypes
<1>1. /\ dMain.at \in {"second", "intended"} => dRule
      /\ dMain.at = "intended" => dPermit
  BY DEF DialogInv, IntentInv
<1>2. CASE Dialogs!TrustChanges
  BY <1>0, <1>1, <1>2, AsideKeeps DEF Dialogs!TrustChanges
<1>3. CASE Dialogs!Activated \/ Dialogs!Woken
  <2>1. /\ UNCHANGED <<dWindow, dMain, dDialogs, dPressed, dTrusted, dRule, dPermit>>
        /\ dMonitor' = IF dMonitor = "failed" THEN "unknown" ELSE dMonitor
        /\ dRetries' = 0 /\ dQueued' = dQueued \cup {"reconcile"}
    BY <1>3 DEF Dialogs!Activated, Dialogs!Woken
  <2> QED BY <1>0, <1>1, <2>1, AsideKeeps
<1>4. CASE Dialogs!Configure
  <2>1. dMain.at \notin {"second", "intended"}
    BY <1>4 DEF Dialogs!Configure, Dialogs!RulesHeld
  <2>2. /\ UNCHANGED <<dWindow, dMain, dDialogs, dPressed, dTrusted, dPermit, dMonitor, dRetries>>
        /\ dRule' \in BOOLEAN /\ dQueued' = dQueued \cup {"configured"}
    BY <1>0, <1>4 DEF Dialogs!Configure
  <2> QED BY <1>0, <1>1, <2>1, <2>2, AsideKeeps
<1>5. CASE Dialogs!Stop
  <2>1. dMain.at # "intended"
    BY <1>5 DEF Dialogs!Stop, Dialogs!PermitHeld
  <2>2. /\ UNCHANGED <<dWindow, dMain, dDialogs, dPressed, dTrusted, dRule, dMonitor, dRetries>>
        /\ dPermit' \in BOOLEAN /\ dQueued' = dQueued \cup {"stop"}
    BY <1>5 DEF Dialogs!Stop
  <2> QED BY <1>0, <1>1, <2>1, <2>2, AsideKeeps
<1>6. CASE Dialogs!Configured
  <2>1. /\ UNCHANGED <<dWindow, dMain, dDialogs, dPressed, dTrusted, dRule, dPermit>>
        /\ dMonitor' = IF dMonitor = "failed" THEN "unknown" ELSE dMonitor
        /\ dRetries' = IF dMonitor = "failed" THEN 0 ELSE dRetries
        /\ dQueued' = (dQueued \ {"configured"}) \cup {"reconcile"}
    BY <1>6 DEF Dialogs!Configured
  <2> QED BY <1>0, <1>1, <2>1, AsideKeeps
<1>7. CASE Dialogs!Skip
  <2>1. /\ UNCHANGED <<dWindow, dMain, dDialogs, dPressed, dTrusted, dRule, dPermit, dMonitor,
                      dRetries>>
        /\ dQueued' \subseteq {"reconcile", "scan", "configured", "stop"}
    BY <1>0, <1>7 DEF Dialogs!Skip
  <2> QED BY <1>0, <1>1, <2>1, AsideKeeps
<1> QED BY <1>2, <1>3, <1>4, <1>5, <1>6, <1>7

\* The application is given up, with its dialogs and what was pressed in them.
LEMMA ForgetKeeps ==
  ASSUME DialogInv, NEW state \in {"none", "unknown"}, Dialogs!Forget(state), dMain = Dialogs!Idle,
         dQueued' \subseteq {"reconcile", "scan", "configured", "stop"},
         UNCHANGED <<dWindow, dTrusted, dRule, dPermit, dMain>>
  PROVE  DialogInv'
<1>1. /\ dMonitor' = state /\ dRetries' = 0 /\ dDialogs' = Dialogs!NoDialogs
      /\ dPressed' = [w \in dWindows |-> "none"]
  BY DEF Dialogs!Forget
<1>2. DialogTypes'
  BY <1>1, NoDialogTyped DEF DialogInv, DialogTypes, MainType, Dialogs!Idle, Dialogs!NoDialogs
<1>3. dMain'.at = "idle" /\ dMain' = Dialogs!Idle
  BY DEF Dialogs!Idle
<1>4. OpenedInv' /\ RememberedInv' /\ IntentInv'
  BY <1>1, <1>3 DEF OpenedInv, RememberedInv, IntentInv
<1> QED BY <1>2, <1>4 DEF DialogInv

\* Stopping, subscribing, and repeating the subscription.
LEMMA SubscribingInv ==
  ASSUME DialogInv,
         \/ Dialogs!RunStop
         \/ \E result \in Dialogs!Attachments : Dialogs!Reconcile(result) \/ Dialogs!Retry(result)
  PROVE  DialogInv'
<1>0. /\ dTrusted \in BOOLEAN /\ dRule \in BOOLEAN /\ dPermit \in BOOLEAN
      /\ dMonitor \in {"none", "unknown", "failed", "observed"} /\ dRetries \in 0 .. 3
      /\ dQueued \subseteq {"reconcile", "scan", "configured", "stop"}
      /\ dRetries > 0 => dMonitor = "failed"
  BY DEF DialogInv, DialogTypes
<1>1. /\ dMain.at \in {"second", "intended"} => dRule
      /\ dMain.at = "intended" => dPermit
  BY DEF DialogInv, IntentInv
<1>2. CASE Dialogs!RunStop
  BY <1>0, <1>2, ForgetKeeps DEF Dialogs!RunStop
<1>3. ASSUME NEW result \in Dialogs!Attachments, Dialogs!Reconcile(result)
      PROVE  DialogInv'
  <2>1. dMain = Dialogs!Idle /\ UNCHANGED <<dWindow, dTrusted, dRule, dPermit, dMain>>
    BY <1>3 DEF Dialogs!Reconcile
  <2>2. CASE ~dTrusted \/ ~dRule
    <3>1. Dialogs!Forget("unknown") /\ dQueued' = dQueued \ {"reconcile"}
      BY <1>3, <2>2 DEF Dialogs!Reconcile
    <3> QED BY <1>0, <2>1, <3>1, ForgetKeeps
  <2>3. CASE dTrusted /\ dRule /\ dMonitor = "unknown"
    <3>1. Dialogs!Attach(result) /\ UNCHANGED <<dDialogs, dPressed>>
      BY <1>3, <2>3 DEF Dialogs!Reconcile
    <3>2. \/ /\ dMonitor' = "observed" /\ dRetries' = 0
             /\ dQueued' = (dQueued \ {"reconcile"}) \cup {"scan"}
          \/ /\ dMonitor' = "failed"
             /\ dRetries' \in 0 .. 3
             /\ dQueued' = dQueued \ {"reconcile"}
      <4>1. CASE result = "observed"
        BY <3>1, <4>1 DEF Dialogs!Attach
      <4>2. CASE result = "transient"
        BY <1>0, <3>1, <4>2 DEF Dialogs!Attach
      <4>3. CASE result = "failed"
        BY <3>1, <4>3 DEF Dialogs!Attach
      <4> QED BY <4>1, <4>2, <4>3 DEF Dialogs!Attachments
    <3>3. /\ dMonitor' \in {"observed", "failed"} /\ dRetries' \in 0 .. 3
          /\ dRetries' > 0 => dMonitor' = "failed"
          /\ dQueued' \subseteq {"reconcile", "scan", "configured", "stop"}
      <4>1. dQueued' \subseteq {"reconcile", "scan", "configured", "stop"}
        BY <1>0, <3>2
      <4>2. /\ dMonitor' \in {"observed", "failed"} /\ dRetries' \in 0 .. 3
            /\ dRetries' > 0 => dMonitor' = "failed"
        BY <3>2
      <4> QED BY <4>1, <4>2
    <3> QED BY <1>0, <1>1, <2>1, <2>3, <3>1, <3>3, AsideKeeps
  <2>4. CASE dTrusted /\ dRule /\ dMonitor # "unknown"
    <3>1. /\ UNCHANGED <<dDialogs, dPressed, dMonitor, dRetries>>
          /\ dQueued' \subseteq {"reconcile", "scan", "configured", "stop"}
      BY <1>0, <1>3, <2>4 DEF Dialogs!Reconcile
    <3> QED BY <1>0, <1>1, <2>1, <3>1, AsideKeeps
  <2> QED BY <1>0, <2>2, <2>3, <2>4
<1>4. ASSUME NEW result \in Dialogs!Attachments, Dialogs!Retry(result)
      PROVE  DialogInv'
  <2>1. /\ UNCHANGED <<dWindow, dMain, dDialogs, dPressed, dTrusted, dRule, dPermit>>
        /\ dMonitor = "failed"
        /\ dMonitor' = IF result = "observed" THEN "observed" ELSE "failed"
        /\ dRetries' = IF result = "transient" /\ dRetries < 3 THEN dRetries + 1 ELSE 0
        /\ dQueued' \subseteq {"reconcile", "scan", "configured", "stop"}
    BY <1>0, <1>4 DEF Dialogs!Retry
  <2>2. dRetries' \in 0 .. 3 /\ (dRetries' > 0 => dMonitor' = "failed")
    BY <1>0, <2>1
  <2> QED BY <1>0, <1>1, <2>1, <2>2, AsideKeeps
<1> QED BY <1>2, <1>3, <1>4

\* A scan begins with the windows that are open, and ends.
LEMMA ScanInv ==
  ASSUME Dialogs!RequestAssumption, DialogInv,
         Dialogs!BeginScan \/ Dialogs!ScanFails \/ Dialogs!EndScan
  PROVE  DialogInv'
<1>0. /\ DialogTypes /\ MainType
      /\ dWindow \in [dWindows -> Dialogs!Contents \cup {"unborn"}]
      /\ dDialogs \in [dWindows -> Dialog] /\ dPressed \in [dWindows -> dRequests \cup {"none"}]
      /\ dQueued \subseteq {"reconcile", "scan", "configured", "stop"}
  BY DEF DialogInv, DialogTypes
<1>1. CASE Dialogs!BeginScan
  <2> DEFINE open == {w \in dWindows : Dialogs!Open(w)}
  <2>1. /\ dMain = Dialogs!Idle /\ dMonitor = "observed"
        /\ dQueued' = dQueued \ {"scan"}
        /\ dMain' = [at |-> "windows", left |-> open]
        /\ dDialogs' = [w \in dWindows |-> IF Dialogs!Open(w) THEN dDialogs[w] ELSE Dialogs!NoDialog]
        /\ UNCHANGED <<dWindow, dTrusted, dRule, dPermit, dMonitor, dRetries, dPressed>>
    BY <1>1 DEF Dialogs!BeginScan
  <2>2. dMain'.at = "windows" /\ dMain'.left = open /\ open \in SUBSET dWindows /\ MainType'
    BY <2>1 DEF MainType
  <2>3. dDialogs' \in [dWindows -> Dialog]
    BY <1>0, <2>1, NoDialogTyped
  <2>4. \A w \in dWindows : /\ dDialogs'[w] \in {dDialogs[w], Dialogs!NoDialog}
                            /\ Dialogs!Open(w) => dDialogs'[w] = dDialogs[w]
    BY <2>1
  <2>5. DialogTypes'
    <3>1. \A w \in dWindows : dDialogs'[w].timer => dDialogs'[w].awaiting
      BY <2>4, NoDialogTyped DEF DialogInv, DialogTypes
    <3> QED BY <1>0, <2>1, <2>2, <2>3, <3>1 DEF DialogTypes
  <2>6. OpenedInv'
    BY <2>1, <2>2 DEF DialogInv, OpenedInv, Dialogs!Open
  <2>7. RememberedInv'
    <3> SUFFICES ASSUME NEW w \in dWindows
                 PROVE  dPressed[w] \in {"none", dDialogs'[w].last} \/ dWindow[w] = "closed"
      BY <2>1 DEF RememberedInv
    <3>1. CASE Dialogs!Open(w)
      BY <2>1, <2>4, <3>1 DEF DialogInv, RememberedInv, Dialogs!Idle
    <3>2. CASE ~Dialogs!Open(w)
      BY <3>2 DEF Dialogs!Open, DialogInv, OpenedInv
    <3> QED BY <3>1, <3>2
  <2>8. IntentInv'
    BY <2>2 DEF IntentInv
  <2> QED BY <2>5, <2>6, <2>7, <2>8 DEF DialogInv
<1>2. CASE Dialogs!ScanFails
  BY <1>0, <1>2, AsideKeeps DEF Dialogs!ScanFails, DialogInv, DialogTypes, IntentInv
<1>3. CASE Dialogs!EndScan
  <2>1. /\ dMain' = Dialogs!Idle /\ dMain.at = "windows"
        /\ UNCHANGED <<dWindow, dTrusted, dRule, dPermit, dMonitor, dRetries, dDialogs,
                      dQueued, dPressed>>
    BY <1>3 DEF Dialogs!EndScan
  <2>2. dMain'.at = "idle" /\ MainType'
    BY <2>1 DEF Dialogs!Idle, MainType
  <2>3. DialogTypes'
    BY <1>0, <2>1, <2>2 DEF DialogTypes
  <2>4. OpenedInv' /\ RememberedInv' /\ IntentInv'
    BY <2>1, <2>2 DEF DialogInv, OpenedInv, RememberedInv, IntentInv
  <2> QED BY <2>3, <2>4 DEF DialogInv
<1> QED BY <1>1, <1>2, <1>3

\* A step of a scan in which the dialogs keep what they remember.
LEMMA MainKeeps ==
  ASSUME DialogInv, MainType', dMain' # Dialogs!Idle, dMonitor = "observed",
         UNCHANGED <<dWindow, dTrusted, dRule, dPermit, dMonitor, dRetries, dPressed>>,
         dQueued' \subseteq {"reconcile", "scan", "configured", "stop"},
         dDialogs' \in [dWindows -> Dialog],
         \A w \in dWindows : /\ dDialogs'[w].last = dDialogs[w].last
                             /\ dDialogs'[w].timer => dDialogs'[w].awaiting
  PROVE  DialogTypes' /\ (dMain.at # "intended" => RememberedInv')
<1>1. DialogTypes'
  BY DEF DialogInv, DialogTypes
<1>2. dMain.at # "intended" => RememberedInv'
  BY DEF DialogInv, RememberedInv
<1> QED BY <1>1, <1>2

\* A window is read and left: the ways through a scan in which nothing is pressed.
LEMMA ReadInv ==
  ASSUME Dialogs!RequestAssumption, DialogInv,
         \/ \E w \in dWindows : Dialogs!Inspect(w)
         \/ Dialogs!LeaveWindow \/ Dialogs!Match \/ Dialogs!LeaveChanged \/ Dialogs!LeaveFailed
  PROVE  DialogInv'
<1>0. /\ MainType /\ dDialogs \in [dWindows -> Dialog]
      /\ dQueued \subseteq {"reconcile", "scan", "configured", "stop"}
      /\ \A w \in dWindows : dDialogs[w].timer => dDialogs[w].awaiting
      /\ dMain # Dialogs!Idle => dMonitor = "observed"
      /\ dWindow \in [dWindows -> Dialogs!Contents \cup {"unborn"}]
  BY DEF DialogInv, DialogTypes
<1>1. ASSUME NEW w \in dWindows, Dialogs!Inspect(w)
      PROVE  DialogInv'
  <2>1. /\ dMain.at = "windows" /\ w \in dMain.left
        /\ dMain' = [at |-> "first", w |-> w, left |-> dMain.left \ {w}]
        /\ dDialogs' = IF dDialogs[w].awaiting /\ dDialogs[w].due
                      THEN [dDialogs EXCEPT ![w].awaiting = FALSE, ![w].due = FALSE,
                                           ![w].timer = FALSE]
                      ELSE dDialogs
        /\ UNCHANGED <<dWindow, dTrusted, dRule, dPermit, dMonitor, dRetries, dQueued, dPressed>>
    BY <1>1 DEF Dialogs!Inspect
  <2>2. dMain.left \in SUBSET dWindows /\ dMain # Dialogs!Idle
    BY <1>0, <2>1, MainFields DEF Dialogs!Idle
  <2>3. /\ MainType' /\ dMain' # Dialogs!Idle /\ dMain'.at = "first" /\ dMain'.w = w
        /\ dMain'.left = dMain.left \ {w}
    BY <2>1, <2>2 DEF MainType, Dialogs!Idle
  <2>4. /\ dDialogs' \in [dWindows -> Dialog]
        /\ \A v \in dWindows : /\ dDialogs'[v].last = dDialogs[v].last
                               /\ dDialogs'[v].timer => dDialogs'[v].awaiting
    <3>1. CASE dDialogs[w].awaiting /\ dDialogs[w].due
      <4> DEFINE d == [dDialogs[w] EXCEPT !.awaiting = FALSE, !.due = FALSE, !.timer = FALSE]
      <4>1. d \in Dialog /\ d.last = dDialogs[w].last /\ ~d.timer
        BY <1>0 DEF Dialog
      <4>2. dDialogs' = [dDialogs EXCEPT ![w] = d]
        BY <1>0, <2>1, <3>1
      <4> HIDE DEF d
      <4> QED BY <1>0, <4>1, <4>2
    <3>2. CASE ~(dDialogs[w].awaiting /\ dDialogs[w].due)
      BY <1>0, <2>1, <3>2
    <3> QED BY <3>1, <3>2
  <2>5. DialogTypes' /\ RememberedInv'
    BY <1>0, <2>1, <2>2, <2>3, <2>4, MainKeeps
  <2>6. OpenedInv' /\ IntentInv'
    BY <2>1, <2>2, <2>3 DEF DialogInv, OpenedInv, IntentInv
  <2> QED BY <2>5, <2>6 DEF DialogInv
<1>2. CASE Dialogs!Match
  <2>1. /\ dMain.at = "first" /\ dPermit /\ Dialogs!Matches(dMain.w)
        /\ dDialogs[dMain.w].last # dWindow[dMain.w]
        /\ dMain' = [at |-> "second", w |-> dMain.w, left |-> dMain.left,
                    request |-> dWindow[dMain.w]]
        /\ UNCHANGED <<dWindow, dTrusted, dRule, dPermit, dMonitor, dRetries, dDialogs,
                      dQueued, dPressed>>
    BY <1>2 DEF Dialogs!Match
  <2>2. dMain.left \in SUBSET dWindows /\ dMain.w \in dWindows /\ dMain # Dialogs!Idle
    BY <1>0, <2>1, MainFields DEF Dialogs!Idle
  <2>3. dWindow[dMain.w] \in dRequests /\ dRule
    BY <2>1 DEF Dialogs!Matches
  <2>4. /\ MainType' /\ dMain' # Dialogs!Idle /\ dMain'.at = "second" /\ dMain'.w = dMain.w
        /\ dMain'.left = dMain.left /\ dMain'.request = dWindow[dMain.w]
    BY <2>1, <2>2, <2>3 DEF MainType, Dialogs!Idle
  <2>5. DialogTypes' /\ RememberedInv'
    BY <1>0, <2>1, <2>2, <2>4, MainKeeps
  <2>6. OpenedInv' /\ IntentInv'
    BY <2>1, <2>2, <2>3, <2>4 DEF DialogInv, OpenedInv, IntentInv
  <2> QED BY <2>5, <2>6 DEF DialogInv
<1>3. CASE Dialogs!LeaveWindow \/ Dialogs!LeaveFailed \/ (Dialogs!LeaveChanged /\ dPermit)
  <2>1. /\ dMain.at \in {"first", "second"} /\ Dialogs!Leave
        /\ UNCHANGED <<dWindow, dTrusted, dRule, dPermit, dMonitor, dRetries, dDialogs,
                      dQueued, dPressed>>
    BY <1>3 DEF Dialogs!LeaveWindow, Dialogs!LeaveFailed, Dialogs!LeaveChanged
  <2>2. dMain.left \in SUBSET dWindows /\ dMain # Dialogs!Idle
    BY <1>0, <2>1, MainFields DEF Dialogs!Idle
  <2>3. /\ MainType' /\ dMain' # Dialogs!Idle /\ dMain'.at = "windows" /\ dMain'.left = dMain.left
    BY <2>1, <2>2 DEF MainType, Dialogs!Idle, Dialogs!Leave
  <2>4. DialogTypes' /\ RememberedInv'
    BY <1>0, <2>1, <2>2, <2>3, MainKeeps
  <2>5. OpenedInv' /\ IntentInv'
    BY <2>1, <2>2, <2>3 DEF DialogInv, OpenedInv, IntentInv
  <2> QED BY <2>4, <2>5 DEF DialogInv
<1>4. CASE Dialogs!LeaveChanged /\ ~dPermit
  <2>1. /\ dMain.at = "second" /\ dMain' = Dialogs!Idle
        /\ UNCHANGED <<dWindow, dTrusted, dRule, dPermit, dMonitor, dRetries, dDialogs,
                      dQueued, dPressed>>
    BY <1>4 DEF Dialogs!LeaveChanged
  <2>2. dMain'.at = "idle" /\ MainType'
    BY <2>1 DEF Dialogs!Idle, MainType
  <2>3. DialogTypes'
    BY <2>1, <2>2 DEF DialogInv, DialogTypes
  <2>4. OpenedInv' /\ RememberedInv' /\ IntentInv'
    BY <2>1, <2>2 DEF DialogInv, OpenedInv, RememberedInv, IntentInv
  <2> QED BY <2>3, <2>4 DEF DialogInv
<1> QED BY <1>1, <1>2, <1>3, <1>4

\* The request is remembered before its button is pressed.
LEMMA IntendInv ==
  ASSUME Dialogs!RequestAssumption, DialogInv, Dialogs!Intend
  PROVE  DialogInv'
<1>0. /\ MainType /\ dDialogs \in [dWindows -> Dialog]
      /\ dPressed \in [dWindows -> dRequests \cup {"none"}]
      /\ dQueued \subseteq {"reconcile", "scan", "configured", "stop"}
  BY DEF DialogInv, DialogTypes
<1>1. /\ dMain.at = "second" /\ dPermit /\ dWindow[dMain.w] = dMain.request
      /\ dMain' = [dMain EXCEPT !.at = "intended"]
      /\ dDialogs' = [dDialogs EXCEPT ![dMain.w] = [Dialogs!NoDialog EXCEPT !.last = dMain.request]]
      /\ UNCHANGED <<dWindow, dTrusted, dRule, dPermit, dMonitor, dRetries, dQueued, dPressed>>
  BY DEF Dialogs!Intend
<1>2. /\ dMain.left \in SUBSET dWindows /\ dMain.w \in dWindows /\ dMain.request \in dRequests
      /\ dMain # Dialogs!Idle
      /\ dMain \in [at : {"second", "intended"}, w : dWindows, left : SUBSET dWindows,
                   request : dRequests]
  BY <1>0, <1>1, MainFields DEF Dialogs!Idle, MainType
<1>3. /\ dMain' \in [at : {"second", "intended"}, w : dWindows, left : SUBSET dWindows,
                    request : dRequests]
      /\ dMain'.at = "intended" /\ dMain'.w = dMain.w /\ dMain'.left = dMain.left
      /\ dMain'.request = dMain.request
  BY <1>1, <1>2
<1> DEFINE d == [Dialogs!NoDialog EXCEPT !.last = dMain.request]
<1>4. d \in Dialog /\ ~d.timer /\ d.last = dMain.request
  BY <1>2 DEF Dialogs!NoDialog, Dialog
<1>5. /\ dDialogs' \in [dWindows -> Dialog] /\ dDialogs'[dMain.w] = d
      /\ \A w \in dWindows \ {dMain.w} : dDialogs'[w] = dDialogs[w]
  BY <1>0, <1>1, <1>2, <1>4
<1> HIDE DEF d
<1>6. DialogTypes'
  <2>1. \A w \in dWindows : dDialogs'[w].timer => dDialogs'[w].awaiting
    BY <1>4, <1>5 DEF DialogInv, DialogTypes
  <2>2. MainType' /\ dMonitor = "observed"
    BY <1>2, <1>3 DEF MainType, DialogInv, DialogTypes
  <2> QED BY <1>1, <1>5, <2>1, <2>2 DEF DialogInv, DialogTypes
<1>7. OpenedInv'
  BY <1>1, <1>2, <1>3 DEF DialogInv, OpenedInv
<1>8. RememberedInv'
  BY <1>1, <1>3, <1>5 DEF DialogInv, RememberedInv
<1>9. IntentInv'
  <2>1. dWindow[dMain.w] # "closed" /\ dMain.request # "none"
    BY <1>1, <1>2 DEF Dialogs!RequestAssumption
  <2>2. dPressed[dMain.w] \in {"none", dDialogs[dMain.w].last}
    BY <1>1, <1>2, <2>1 DEF DialogInv, RememberedInv
  <2>3. dPressed[dMain.w] # dMain.request /\ dRule
    BY <1>1, <2>1, <2>2 DEF DialogInv, IntentInv
  <2> QED BY <1>1, <1>3, <1>4, <1>5, <2>3 DEF IntentInv
<1> QED BY <1>6, <1>7, <1>8, <1>9 DEF DialogInv

\* The press: its request is the one that the dialog remembers.
LEMMA PressInv ==
  ASSUME Dialogs!RequestAssumption, DialogInv, NEW sent \in BOOLEAN, Dialogs!Press(sent)
  PROVE  DialogInv'
<1>0. /\ MainType /\ dDialogs \in [dWindows -> Dialog]
      /\ dPressed \in [dWindows -> dRequests \cup {"none"}]
      /\ dQueued \subseteq {"reconcile", "scan", "configured", "stop"}
      /\ \A w \in dWindows : dDialogs[w].timer => dDialogs[w].awaiting
  BY DEF DialogInv, DialogTypes
<1>1. /\ dMain.at = "intended" /\ Dialogs!Leave
      /\ dPressed' = [dPressed EXCEPT ![dMain.w] = dMain.request]
      /\ dDialogs' = IF sent
                    THEN [dDialogs EXCEPT ![dMain.w].awaiting = TRUE, ![dMain.w].timer = TRUE]
                    ELSE dDialogs
      /\ dQueued' = IF sent THEN dQueued \cup {"scan"} ELSE dQueued
      /\ UNCHANGED <<dWindow, dTrusted, dRule, dPermit, dMonitor, dRetries>>
  BY DEF Dialogs!Press
<1>2. /\ dMain.left \in SUBSET dWindows /\ dMain.w \in dWindows /\ dMain.request \in dRequests
      /\ dMain # Dialogs!Idle
  BY <1>0, <1>1, MainFields DEF Dialogs!Idle
<1>3. /\ MainType' /\ dMain'.at = "windows" /\ dMain'.left = dMain.left
  BY <1>1, <1>2 DEF MainType, Dialogs!Leave
<1>4. /\ dDialogs' \in [dWindows -> Dialog]
      /\ \A v \in dWindows : /\ dDialogs'[v].last = dDialogs[v].last
                             /\ dDialogs'[v].timer => dDialogs'[v].awaiting
  <2>1. CASE sent
    <3> DEFINE d == [dDialogs[dMain.w] EXCEPT !.awaiting = TRUE, !.timer = TRUE]
    <3>1. d \in Dialog /\ d.last = dDialogs[dMain.w].last /\ d.awaiting
      <4>1. dDialogs[dMain.w] \in Dialog
        BY <1>0, <1>2
      <4>2. d \in Dialog
        BY <4>1 DEF Dialog
      <4>3. d.last = dDialogs[dMain.w].last /\ d.awaiting = TRUE
        BY <4>1 DEF Dialog
      <4> QED BY <4>2, <4>3
    <3>2. dDialogs' = [dDialogs EXCEPT ![dMain.w] = d]
      BY <1>0, <1>1, <1>2, <2>1
    <3> HIDE DEF d
    <3> QED BY <1>0, <1>2, <3>1, <3>2
  <2>2. CASE ~sent
    BY <1>0, <1>1, <2>2
  <2> QED BY <2>1, <2>2
<1>5. /\ dPressed' \in [dWindows -> dRequests \cup {"none"}]
      /\ dPressed'[dMain.w] = dMain.request
      /\ \A w \in dWindows \ {dMain.w} : dPressed'[w] = dPressed[w]
  BY <1>0, <1>1, <1>2
<1>6. DialogTypes'
  <2>1. dMonitor = "observed"
    BY <1>2 DEF DialogInv, DialogTypes
  <2>2. dQueued' \subseteq {"reconcile", "scan", "configured", "stop"}
    BY <1>0, <1>1
  <2> QED BY <1>1, <1>3, <1>4, <1>5, <2>1, <2>2 DEF DialogInv, DialogTypes
<1>7. OpenedInv'
  BY <1>1, <1>2, <1>3, <1>5 DEF DialogInv, OpenedInv
<1>8. RememberedInv'
  BY <1>1, <1>3, <1>4, <1>5 DEF DialogInv, RememberedInv, IntentInv
<1>9. IntentInv'
  BY <1>3 DEF IntentInv
<1> QED BY <1>6, <1>7, <1>8, <1>9 DEF DialogInv

\* Three seconds pass after a click, and its timer fires.
LEMMA TimerInv ==
  ASSUME DialogInv, NEW w \in dWindows, Dialogs!Deadline(w) \/ Dialogs!TimerFires(w)
  PROVE  DialogInv'
<1>0. /\ MainType /\ dDialogs \in [dWindows -> Dialog]
      /\ dQueued \subseteq {"reconcile", "scan", "configured", "stop"}
      /\ \A v \in dWindows : dDialogs[v].timer => dDialogs[v].awaiting
  BY DEF DialogInv, DialogTypes
<1>1. /\ UNCHANGED <<dWindow, dTrusted, dRule, dPermit, dMonitor, dRetries, dMain, dPressed>>
      /\ dQueued' \subseteq {"reconcile", "scan", "configured", "stop"}
      /\ dDialogs[w].awaiting \/ dDialogs[w].timer
      /\ \/ dDialogs' = [dDialogs EXCEPT ![w].due = TRUE]
         \/ dDialogs' = [dDialogs EXCEPT ![w].timer = FALSE]
  BY <1>0 DEF Dialogs!Deadline, Dialogs!TimerFires
<1>2. /\ dDialogs' \in [dWindows -> Dialog]
      /\ \A v \in dWindows : /\ dDialogs'[v].last = dDialogs[v].last
                             /\ dDialogs'[v].timer => dDialogs'[v].awaiting
  <2>1. CASE dDialogs' = [dDialogs EXCEPT ![w].due = TRUE]
    BY <1>0, <2>1 DEF Dialog
  <2>2. CASE dDialogs' = [dDialogs EXCEPT ![w].timer = FALSE]
    BY <1>0, <2>2 DEF Dialog
  <2> QED BY <1>1, <2>1, <2>2
<1>3. dMonitor = "observed"
  BY <1>1, NoDialogTyped DEF DialogInv, DialogTypes
<1>4. DialogTypes'
  BY <1>1, <1>2, <1>3 DEF DialogInv, DialogTypes, MainType
<1>5. OpenedInv' /\ RememberedInv'
  BY <1>1, <1>2 DEF DialogInv, OpenedInv, RememberedInv
<1>6. IntentInv'
  BY <1>0, <1>1, <1>2, MainFields DEF DialogInv, IntentInv
<1> QED BY <1>4, <1>5, <1>6 DEF DialogInv

\* Every step keeps the invariant.
LEMMA DialogStep ==
  ASSUME Dialogs!RequestAssumption, DialogInv, [Dialogs!Next]_(Dialogs!vars)
  PROVE  DialogInv'
<1>1. CASE UNCHANGED Dialogs!vars
  BY <1>1 DEF Dialogs!vars, DialogInv, DialogTypes, OpenedInv, RememberedInv, IntentInv, MainType
<1>2. CASE Dialogs!Outside
  BY <1>2, ShowsInv, OutsideInv DEF Dialogs!Outside
<1>3. CASE Dialogs!Main
  BY <1>3, OutsideInv, SubscribingInv, ScanInv, ReadInv, IntendInv, PressInv DEF Dialogs!Main
<1>4. CASE \E w \in dWindows : Dialogs!Deadline(w) \/ Dialogs!TimerFires(w)
  BY <1>4, TimerInv
<1> QED BY <1>1, <1>2, <1>3, <1>4 DEF Dialogs!Next

\* The invariant holds in every behaviour.
LEMMA DialogInvariance ==
  ASSUME Dialogs!RequestAssumption
  PROVE  Dialogs!Spec => []DialogInv
<1>1. Dialogs!Init => DialogInv
  BY DialogInit
<1>2. DialogInv /\ [Dialogs!Next]_(Dialogs!vars) => DialogInv'
  BY DialogStep
<1> QED BY <1>1, <1>2, PTL DEF Dialogs!Spec

\* "Reconnecting an observer must not authorize a second press" (macos.rs:524), and
\* who stops the monitor or disables the rule waits for the press under way: for any
\* windows and requests, a press is of a request that was not pressed in this window
\* as it is, with the rule enabled and the permit given.
THEOREM OnePress == Spec => PressedOnce
<1>1. Dialogs!RequestAssumption
  BY PartsAssumption
<1>2. DialogInv => [Dialogs!Presses => dPermit /\ dRule
                                       /\ dPressed[dMain.w] # dMain.request]_(Dialogs!vars)
  BY DEF DialogInv, IntentInv, Dialogs!Presses
<1>3. Dialogs!Spec => Dialogs!PressedOnce
  BY <1>1, <1>2, DialogInvariance, PTL DEF Dialogs!Spec, Dialogs!PressedOnce
<1> QED BY <1>3, PartsImplement DEF PressedOnce

-----------------------------------------------------------------------------
(* The audit log of the dialog monitor.                                    *)

\* A file of whole events, in their order, up to this one.
AuditFile(file, last) ==
  /\ file \in Seq(Seq(Nat))
  /\ \A i \in DOMAIN file : Len(file[i]) = 1 /\ file[i][1] \in 1 .. last
  /\ \A i, j \in DOMAIN file : i < j => file[i][1] < file[j][1]

\* An event is in the file, or before the last events that are kept.
Held(file, e) ==
  \/ \E i \in DOMAIN file : file[i][1] = e
  \/ /\ Len(file) >= aRetention
     /\ \A i \in DOMAIN file : i > Len(file) - aRetention => e < file[i][1]

\* The last event that is not being written.
LastBegun == IF aWriting # 0 THEN aWriting - 1 ELSE aNext - 1

AuditTypes ==
  /\ aNext \in Nat \ {0} /\ aWriting \in Nat /\ aFaults \in Nat
  /\ aLog \in [up : BOOLEAN, count : Nat, repair : BOOLEAN]
  /\ aTail \in Seq(Nat)
  /\ aWriting # 0 => /\ aWriting = aNext - 1 /\ aLog.up /\ ~aLog.repair
                     /\ aTail \in {<<>>, <<aWriting>>}
  /\ aLog.up /\ ~aLog.repair /\ aWriting = 0 => aTail = <<>>

\* Whole events are in the file, and what was accepted is held.
AuditInv ==
  /\ AuditTypes
  /\ AuditFile(aLines, LastBegun)
  /\ aLog.up => aLog.count = Len(aLines)
  /\ Len(aLines) <= 2 * aRetention + aFaults
  /\ aAccepted \subseteq 1 .. LastBegun
  /\ \A e \in aAccepted : Held(aLines, e)

\* A line that is added holds a later event, and what was held stays held.
LEMMA AppendedFile ==
  ASSUME aRetention \in Nat, NEW file \in Seq(Seq(Nat)), NEW e \in Nat \ {0},
         AuditFile(file, e - 1)
  PROVE  /\ AuditFile(Append(file, <<e>>), e)
         /\ Len(Append(file, <<e>>)) = Len(file) + 1
         /\ Held(Append(file, <<e>>), e)
         /\ \A k \in 1 .. e - 1 : Held(file, k) => Held(Append(file, <<e>>), k)
<1> DEFINE all == Append(file, <<e>>)
<1>1. <<e>> \in Seq(Nat) /\ Len(<<e>>) = 1 /\ <<e>>[1] = e
  OBVIOUS
<1>2. /\ all \in Seq(Seq(Nat)) /\ Len(all) = Len(file) + 1
      /\ \A i \in 1 .. Len(file) : all[i] = file[i]
      /\ all[Len(file) + 1] = <<e>>
      /\ DOMAIN all = 1 .. Len(file) + 1 /\ DOMAIN file = 1 .. Len(file)
      /\ Len(file) \in Nat
  BY <1>1, AppendProperties, LenProperties
<1> HIDE DEF all
<1>3. /\ \A i \in 1 .. Len(file) : /\ Len(file[i]) = 1 /\ file[i][1] \in 1 .. e - 1
                                   /\ Len(all[i]) = 1 /\ all[i][1] \in 1 .. e - 1
                                   /\ all[i][1] = file[i][1]
      /\ Len(all[Len(file) + 1]) = 1 /\ all[Len(file) + 1][1] = e
  BY <1>1, <1>2 DEF AuditFile
<1>4. \A i, j \in DOMAIN all : i < j => all[i][1] < all[j][1]
  <2> SUFFICES ASSUME NEW i \in DOMAIN all, NEW j \in DOMAIN all, i < j
               PROVE  all[i][1] < all[j][1]
    OBVIOUS
  <2>1. i \in 1 .. Len(file)
    BY <1>2
  <2>2. CASE j \in 1 .. Len(file)
    BY <1>2, <1>3, <2>1, <2>2 DEF AuditFile
  <2>3. CASE j = Len(file) + 1
    BY <1>3, <2>1, <2>3
  <2> QED BY <1>2, <2>2, <2>3
<1>5. AuditFile(all, e)
  <2>1. ASSUME NEW i \in DOMAIN all PROVE Len(all[i]) = 1 /\ all[i][1] \in 1 .. e
    <3>1. CASE i \in 1 .. Len(file)
      BY <1>3, <3>1
    <3>2. CASE i = Len(file) + 1
      BY <1>3, <3>2
    <3> QED BY <1>2, <3>1, <3>2
  <2> QED BY <1>2, <1>4, <2>1 DEF AuditFile
<1>6. Held(all, e)
  <2>1. Len(file) + 1 \in DOMAIN all
    BY <1>2
  <2> QED BY <1>3, <2>1 DEF Held
<1>7. ASSUME NEW k \in 1 .. e - 1, Held(file, k) PROVE Held(all, k)
  <2>1. CASE \E i \in DOMAIN file : file[i][1] = k
    BY <1>2, <1>3, <2>1 DEF Held
  <2>2. CASE /\ Len(file) >= aRetention
             /\ \A i \in DOMAIN file : i > Len(file) - aRetention => k < file[i][1]
    <3>1. ASSUME NEW i \in DOMAIN all, i > Len(all) - aRetention PROVE k < all[i][1]
      <4>1. CASE i \in 1 .. Len(file)
        <5>1. i > Len(file) - aRetention
          BY <1>2, <3>1
        <5> QED BY <1>2, <1>3, <2>2, <4>1, <5>1
      <4>2. CASE i = Len(file) + 1
        BY <1>3, <4>2
      <4> QED BY <1>2, <4>1, <4>2
    <3>2. Len(all) >= aRetention
      BY <1>2, <2>2
    <3> QED BY <3>1, <3>2 DEF Held
  <2> QED BY <1>7, <2>1, <2>2 DEF Held
<1> QED BY <1>2, <1>5, <1>6, <1>7 DEF all

\* Compaction keeps the last lines, and what was held.
LEMMA KeptFile ==
  ASSUME aRetention \in Nat, NEW last \in Nat, NEW all, AuditFile(all, last),
         Len(all) >= aRetention
  PROVE  /\ AuditFile(Audit!Kept(all), last)
         /\ Len(Audit!Kept(all)) = aRetention
         /\ \A e \in Nat : Held(all, e) => Held(Audit!Kept(all), e)
<1> DEFINE kept == Audit!Kept(all)
           d == Len(all) - aRetention
<1>1. all \in Seq(Seq(Nat)) /\ Len(all) \in Nat /\ DOMAIN all = 1 .. Len(all) /\ d \in Nat
  BY LenProperties DEF AuditFile
<1>2. Len(all) = d + aRetention
  BY <1>1
<1>3. kept = SubSeq(all, d + 1, Len(all))
  BY DEF Audit!Kept
<1> HIDE DEF d, kept
<1>4. /\ SubSeq(all, d + 1, Len(all)) \in Seq(Seq(Nat))
      /\ Len(SubSeq(all, d + 1, Len(all)))
           = IF d + 1 <= Len(all) THEN Len(all) - (d + 1) + 1 ELSE 0
      /\ \A i \in 1 .. Len(all) - (d + 1) + 1 :
           SubSeq(all, d + 1, Len(all))[i] = all[d + 1 + i - 1]
  <2>1. d + 1 \in Int /\ Len(all) \in Int
    BY <1>1
  <2>2. \A i \in d + 1 .. Len(all) : all[i] \in Seq(Nat)
    BY <1>1, ElementOfSeq
  <2> QED BY <2>1, <2>2, SubSeqProperties
<1>5. kept \in Seq(Seq(Nat)) /\ Len(kept) = aRetention /\ DOMAIN kept = 1 .. aRetention
  <2>1. kept \in Seq(Seq(Nat)) /\ Len(kept) = aRetention
    BY <1>1, <1>2, <1>3, <1>4
  <2> QED BY <2>1, LenProperties
<1>6. ASSUME NEW i \in 1 .. aRetention PROVE d + i \in DOMAIN all /\ kept[i] = all[d + i]
  <2>1. /\ i \in 1 .. Len(all) - (d + 1) + 1 /\ d + 1 + i - 1 = d + i
        /\ d + i \in DOMAIN all
    BY <1>1, <1>2
  <2> QED BY <1>3, <1>4, <2>1
<1>7. AuditFile(kept, last)
  <2>1. \A i \in DOMAIN kept : Len(kept[i]) = 1 /\ kept[i][1] \in 1 .. last
    BY <1>5, <1>6 DEF AuditFile
  <2>2. ASSUME NEW i \in DOMAIN kept, NEW j \in DOMAIN kept, i < j
        PROVE  kept[i][1] < kept[j][1]
    <3>1. d + i < d + j
      BY <1>1, <1>5, <2>2
    <3> QED BY <1>5, <1>6, <3>1 DEF AuditFile
  <2> QED BY <1>5, <2>1, <2>2 DEF AuditFile
<1>8. ASSUME NEW e \in Nat, Held(all, e) PROVE Held(kept, e)
  <2>1. CASE \A i \in DOMAIN all : i > d => e < all[i][1]
    <3>1. \A i \in DOMAIN kept : e < kept[i][1]
      <4>1. ASSUME NEW i \in 1 .. aRetention PROVE d + i > d
        BY <1>1
      <4> QED BY <1>5, <1>6, <2>1, <4>1
    <3> QED BY <1>5, <3>1 DEF Held
  <2>2. ASSUME NEW i \in DOMAIN all, all[i][1] = e PROVE Held(kept, e)
    <3>1. CASE i > d
      <4>1. i - d \in 1 .. aRetention /\ d + (i - d) = i
        BY <1>1, <1>2, <3>1
      <4>2. i - d \in DOMAIN kept /\ kept[i - d] = all[i]
        BY <1>5, <1>6, <4>1
      <4> QED BY <2>2, <4>2 DEF Held
    <3>2. CASE i <= d
      <4>1. ASSUME NEW j \in 1 .. aRetention PROVE e < kept[j][1]
        <5>1. i < d + j
          BY <1>1, <3>2
        <5> QED BY <1>6, <2>2, <5>1 DEF AuditFile
      <4> QED BY <1>5, <4>1 DEF Held
    <3> QED BY <1>1, <3>1, <3>2
  <2> QED BY <1>8, <2>1, <2>2 DEF Held, d
<1> QED BY <1>5, <1>7, <1>8 DEF kept

\* If an event is before the last ones that are kept, enough later ones are there.
LEMMA EnoughLater ==
  ASSUME aRetention \in Nat, NEW last \in Nat, NEW file, AuditFile(file, last), NEW e \in Nat,
         Len(file) >= aRetention,
         \A i \in DOMAIN file : i > Len(file) - aRetention => e < file[i][1]
  PROVE  Cardinality({k \in {file[i][1] : i \in DOMAIN file} : k > e}) >= aRetention
<1> DEFINE later == {k \in {file[i][1] : i \in DOMAIN file} : k > e}
           d == Len(file) - aRetention
           f == [i \in 1 .. aRetention |-> file[d + i][1]]
<1>1. Len(file) \in Nat /\ DOMAIN file = 1 .. Len(file) /\ d \in Nat /\ Len(file) = d + aRetention
  BY LenProperties DEF AuditFile
<1>2. IsFiniteSet(later)
  <2>1. later \in SUBSET (1 .. last)
    BY DEF AuditFile
  <2>2. IsFiniteSet(1 .. last)
    BY FS_Interval
  <2> QED BY <2>1, <2>2, FS_Subset
<1>3. \A i \in DOMAIN file : i > d => e < file[i][1]
  OBVIOUS
<1> HIDE DEF d
<1>4. ASSUME NEW i \in 1 .. aRetention
      PROVE  d + i \in DOMAIN file /\ f[i] = file[d + i][1] /\ f[i] \in later
  <2>1. d + i \in DOMAIN file /\ d + i > d
    BY <1>1
  <2>2. file[d + i][1] \in 1 .. last /\ e < file[d + i][1]
    BY <1>3, <2>1 DEF AuditFile
  <2> QED BY <2>1, <2>2
<1>5. \A i, j \in 1 .. aRetention : f[i] = f[j] => i = j
  <2> SUFFICES ASSUME NEW i \in 1 .. aRetention, NEW j \in 1 .. aRetention, i < j
               PROVE  f[i] # f[j]
    OBVIOUS
  <2>1. d + i < d + j
    BY <1>1
  <2>2. /\ d + i \in DOMAIN file /\ f[i] = file[d + i][1]
        /\ d + j \in DOMAIN file /\ f[j] = file[d + j][1]
    BY <1>4
  <2> HIDE DEF f
  <2>3. f[i] < f[j]
    BY <2>1, <2>2 DEF AuditFile
  <2>4. f[i] \in Nat /\ f[j] \in Nat
    BY <2>2 DEF AuditFile
  <2> QED BY <2>3, <2>4
<1> HIDE DEF later
<1>6. f \in Injection(1 .. aRetention, later)
  BY <1>4, <1>5 DEF Injection, IsInjective
<1>7. Cardinality(1 .. aRetention) = aRetention
  BY FS_Interval
<1> HIDE DEF f
<1>8. Cardinality(later) \in Nat
  BY <1>2, FS_CardinalityType
<1> QED BY <1>2, <1>6, <1>7, <1>8, FS_Injection DEF later

\* The empty file of the beginning.
LEMMA AuditInit == aRetention \in Nat /\ Audit!Init => AuditInv
<1> SUFFICES ASSUME aRetention \in Nat, Audit!Init PROVE AuditInv
  OBVIOUS
<1>1. /\ aLines = <<>> /\ aTail = <<>> /\ aLog = [up |-> TRUE, count |-> 0, repair |-> FALSE]
      /\ aWriting = 0 /\ aNext = 1 /\ aFaults = 0 /\ aAccepted = {}
  BY DEF Audit!Init
<1>2. AuditTypes
  BY <1>1 DEF AuditTypes
<1>3. AuditFile(aLines, LastBegun) /\ Len(aLines) = 0
  BY <1>1 DEF AuditFile
<1> QED BY <1>1, <1>2, <1>3 DEF AuditInv

\* A line is added and nothing is written any more.
LEMMA LineAdded ==
  ASSUME aRetention \in Nat, AuditInv, aWriting # 0, aTail = <<aWriting>>
  PROVE  LET all == Append(aLines, aTail)
         IN  /\ AuditFile(all, aNext - 1) /\ Len(all) = Len(aLines) + 1 /\ Held(all, aWriting)
             /\ \A e \in aAccepted : Held(all, e)
             /\ aWriting \in 1 .. aNext - 1 /\ aAccepted \subseteq 1 .. aNext - 1
             /\ Len(aLines) \in Nat /\ aNext - 1 \in Nat /\ aLog.up /\ aLog.count = Len(aLines)
<1>1. /\ aWriting = aNext - 1 /\ aNext \in Nat \ {0} /\ aWriting \in Nat \ {0} /\ aLog.up
      /\ LastBegun = aWriting - 1
  BY DEF AuditInv, AuditTypes, LastBegun
<1>2. AuditFile(aLines, aWriting - 1) /\ aLines \in Seq(Seq(Nat)) /\ Len(aLines) \in Nat
      /\ aAccepted \subseteq 1 .. aWriting - 1 /\ aLog.count = Len(aLines)
      /\ \A e \in aAccepted : Held(aLines, e)
  BY <1>1, LenProperties DEF AuditInv, AuditFile
<1>3. /\ AuditFile(Append(aLines, aTail), aWriting)
      /\ Len(Append(aLines, aTail)) = Len(aLines) + 1
      /\ Held(Append(aLines, aTail), aWriting)
      /\ \A k \in 1 .. aWriting - 1 : Held(aLines, k) => Held(Append(aLines, aTail), k)
  BY <1>1, <1>2, AppendedFile
<1>4. \A e \in aAccepted : Held(Append(aLines, aTail), e)
  BY <1>2, <1>3
<1>5. aWriting \in 1 .. aNext - 1 /\ aAccepted \subseteq 1 .. aNext - 1 /\ aNext - 1 \in Nat
  BY <1>1, <1>2
<1>6. AuditFile(Append(aLines, aTail), aNext - 1)
  <2>1. aWriting = aNext - 1
    BY <1>1
  <2> QED BY <1>3, <2>1
<1>7. aLog.up /\ aLog.count = Len(aLines) /\ Len(aLines) \in Nat
  BY <1>1, <1>2
<1> QED BY <1>3, <1>4, <1>5, <1>6, <1>7

\* Begin, WritePart and WriteFails leave the lines and what was accepted.
LEMMA LinesStay ==
  ASSUME aRetention \in Nat, AuditInv,
         \/ Audit!Begin \/ Audit!WritePart \/ \E repaired \in BOOLEAN : Audit!WriteFails(repaired)
         \/ Audit!Exit(FALSE) \/ Audit!Start
  PROVE  AuditInv'
<1>1. /\ AuditTypes /\ AuditFile(aLines, LastBegun) /\ (aLog.up => aLog.count = Len(aLines))
      /\ Len(aLines) <= 2 * aRetention + aFaults /\ aAccepted \subseteq 1 .. LastBegun
      /\ \A e \in aAccepted : Held(aLines, e)
  BY DEF AuditInv
<1>2. aLines' = aLines /\ aAccepted' = aAccepted /\ aFaults' \in Nat /\ aFaults' >= aFaults
  BY <1>1 DEF AuditTypes, Audit!Begin, Audit!WritePart, Audit!WriteFails, Audit!Exit,
              Audit!Start, Audit!Fault
<1>3. LastBegun \in Nat /\ Len(aLines) \in Nat /\ aFaults \in Nat
  BY <1>1, LenProperties DEF AuditTypes, LastBegun, AuditFile
<1>4. AuditTypes' /\ LastBegun' \in Nat /\ LastBegun' >= LastBegun
      /\ (aLog'.up => aLog'.count = Len(aLines))
  <2>1. CASE Audit!Begin
    BY <1>1, <2>1 DEF Audit!Begin, AuditTypes, LastBegun
  <2>2. CASE Audit!WritePart
    <3>1. aWriting \notin {aTail[i] : i \in DOMAIN aTail}
      BY <2>2 DEF Audit!WritePart, Audit!Range
    <3>2. aTail # <<aWriting>>
      <4>1. <<aWriting>>[1] = aWriting /\ 1 \in DOMAIN <<aWriting>>
        OBVIOUS
      <4> QED BY <3>1, <4>1
    <3>3. aTail = <<>> /\ aTail' = Append(aTail, aWriting) /\ aWriting # 0 /\ aWriting \in Nat
      BY <1>1, <2>2, <3>2 DEF Audit!WritePart, AuditTypes
    <3>4. aTail' = <<aWriting>> /\ aTail' \in Seq(Nat)
      BY <3>3
    <3> QED BY <1>1, <1>3, <2>2, <3>3, <3>4 DEF Audit!WritePart, AuditTypes, LastBegun
  <2>3. CASE \E repaired \in BOOLEAN : Audit!WriteFails(repaired)
    <3>1. PICK repaired \in BOOLEAN : Audit!WriteFails(repaired)
      BY <2>3
    <3>2. /\ aWriting # 0 /\ aWriting' = 0 /\ aNext' = aNext
          /\ aTail' = (IF repaired THEN <<>> ELSE aTail)
          /\ aLog' = [aLog EXCEPT !.repair = ~repaired]
      BY <3>1 DEF Audit!WriteFails
    <3>3. /\ aLog' \in [up : BOOLEAN, count : Nat, repair : BOOLEAN]
          /\ aLog'.repair = ~repaired /\ aLog'.up = aLog.up /\ aLog'.count = aLog.count
          /\ aTail' \in Seq(Nat) /\ (repaired => aTail' = <<>>)
      BY <1>1, <3>2 DEF AuditTypes
    <3>4. AuditTypes'
      BY <1>1, <1>2, <3>2, <3>3 DEF AuditTypes
    <3>5. LastBegun = aNext - 2 /\ LastBegun' = aNext - 1 /\ aNext \in Nat
      BY <1>1, <3>2 DEF AuditTypes, LastBegun
    <3> QED BY <1>1, <1>3, <3>3, <3>4, <3>5
  <2>4. CASE Audit!Exit(FALSE)
    <3>1. /\ aWriting' = 0 /\ aNext' = aNext /\ aTail' = aTail
          /\ aLog' = [aLog EXCEPT !.up = FALSE]
      BY <2>4 DEF Audit!Exit
    <3>2. aLog' \in [up : BOOLEAN, count : Nat, repair : BOOLEAN] /\ ~aLog'.up
      BY <1>1, <3>1 DEF AuditTypes
    <3>3. AuditTypes'
      BY <1>1, <1>2, <3>1, <3>2 DEF AuditTypes
    <3>4. /\ LastBegun = aNext - 1 \/ LastBegun = aNext - 2
          /\ LastBegun' = aNext - 1 /\ aNext \in Nat
      BY <1>1, <3>1 DEF AuditTypes, LastBegun
    <3> QED BY <1>3, <3>2, <3>3, <3>4
  <2>5. CASE Audit!Start
    <3>1. aLog' = [up |-> TRUE, count |-> Len(aLines), repair |-> FALSE] /\ aTail' = <<>>
          /\ aWriting' = 0 /\ aWriting = 0 /\ aNext' = aNext /\ aFaults' = aFaults
      BY <1>1, <2>5 DEF Audit!Start, AuditTypes
    <3>2. AuditTypes'
      BY <1>1, <1>3, <3>1 DEF AuditTypes
    <3>3. LastBegun' = LastBegun
      BY <3>1 DEF LastBegun
    <3> QED BY <1>3, <3>1, <3>2, <3>3
  <2> QED BY <2>1, <2>2, <2>3, <2>4, <2>5
<1>5. AuditFile(aLines', LastBegun')
  BY <1>1, <1>2, <1>3, <1>4 DEF AuditFile
<1>6. Len(aLines') <= 2 * aRetention + aFaults'
  BY <1>1, <1>2, <1>3
<1>7. aAccepted' \subseteq 1 .. LastBegun'
  BY <1>1, <1>2, <1>3, <1>4
<1> QED BY <1>1, <1>2, <1>4, <1>5, <1>6, <1>7 DEF AuditInv, AuditFile, Held

\* Written, CompactFails and an end of the process after all was written.
LEMMA LineWritten ==
  ASSUME aRetention \in Nat, AuditInv,
         \/ \E compacts \in BOOLEAN : Audit!Written(compacts)
         \/ Audit!CompactFails \/ Audit!Exit(TRUE)
  PROVE  AuditInv'
<1> DEFINE all == Append(aLines, aTail)
<1>1. /\ AuditTypes /\ Len(aLines) <= 2 * aRetention + aFaults
  BY DEF AuditInv
<1>2. aWriting # 0 /\ aTail = <<aWriting>>
  <2>1. aWriting # 0 /\ aWriting \in {aTail[i] : i \in DOMAIN aTail}
    BY DEF Audit!Written, Audit!CompactFails, Audit!Exit, Audit!Range
  <2>2. DOMAIN <<>> = {}
    OBVIOUS
  <2>3. aTail # <<>>
    BY <2>1, <2>2
  <2> QED BY <1>1, <2>1, <2>3 DEF AuditTypes
<1>3. /\ AuditFile(all, aNext - 1) /\ Len(all) = Len(aLines) + 1 /\ Held(all, aWriting)
      /\ \A e \in aAccepted : Held(all, e)
      /\ aWriting \in 1 .. aNext - 1 /\ aAccepted \subseteq 1 .. aNext - 1
      /\ Len(aLines) \in Nat /\ aNext - 1 \in Nat /\ aLog.up /\ aLog.count = Len(aLines)
  BY <1>2, LineAdded
<1>4. aFaults \in Nat /\ aLog \in [up : BOOLEAN, count : Nat, repair : BOOLEAN] /\ ~aLog.repair
      /\ aNext \in Nat \ {0}
  BY <1>1, <1>2 DEF AuditTypes
<1> HIDE DEF all
<1>5. aWriting' = 0 /\ aTail' = <<>> /\ aNext' = aNext /\ LastBegun' = aNext - 1
  BY DEF Audit!Written, Audit!CompactFails, Audit!Exit, LastBegun
<1>6. <<>> \in Seq(Nat)
  OBVIOUS
<1>7. ASSUME NEW kept, aLines' = kept, AuditFile(kept, aNext - 1),
             aAccepted' \subseteq aAccepted \cup {aWriting},
             \A e \in aAccepted \cup {aWriting} : Held(kept, e),
             Len(kept) \in Nat,
             aLog' \in [up : BOOLEAN, count : Nat, repair : BOOLEAN], ~aLog'.repair,
             aLog'.up => aLog'.count = Len(kept),
             aFaults' \in Nat, Len(kept) <= 2 * aRetention + aFaults'
      PROVE  AuditInv'
  <2>1. AuditTypes'
    BY <1>4, <1>5, <1>6, <1>7 DEF AuditTypes
  <2>2. AuditFile(aLines', LastBegun')
    BY <1>5, <1>7
  <2>3. aAccepted' \subseteq 1 .. LastBegun'
    BY <1>3, <1>5, <1>7
  <2>4. \A e \in aAccepted' : Held(aLines', e)
    BY <1>7
  <2> QED BY <1>7, <2>1, <2>2, <2>3, <2>4 DEF AuditInv, AuditFile, Held
<1>8. CASE \E compacts \in BOOLEAN : Audit!Written(compacts)
  <2>1. /\ aLines' = IF Len(all) > 2 * aRetention THEN Audit!Kept(all) ELSE all
        /\ aLog' = [aLog EXCEPT !.count = IF Len(all) > 2 * aRetention
                                          THEN Len(Audit!Kept(all)) ELSE Len(all)]
        /\ aAccepted' = aAccepted \cup {aWriting} /\ aFaults' = aFaults
    BY <1>3, <1>8 DEF Audit!Written, Audit!CountAfter, all
  <2>2. CASE Len(all) > 2 * aRetention
    <3>1. Len(all) >= aRetention
      BY <1>3, <2>2
    <3>2. /\ AuditFile(Audit!Kept(all), aNext - 1) /\ Len(Audit!Kept(all)) = aRetention
          /\ \A e \in Nat : Held(all, e) => Held(Audit!Kept(all), e)
      BY <1>3, <3>1, KeptFile
    <3>3. \A e \in aAccepted \cup {aWriting} : Held(Audit!Kept(all), e)
      BY <1>3, <3>2
    <3>4. aLines' = Audit!Kept(all) /\ aLog' = [aLog EXCEPT !.count = aRetention]
      BY <2>1, <2>2, <3>2
    <3> QED BY <1>4, <1>7, <2>1, <3>2, <3>3, <3>4
  <2>3. CASE ~(Len(all) > 2 * aRetention)
    <3>1. aLines' = all /\ aLog' = [aLog EXCEPT !.count = Len(all)]
      BY <2>1, <2>3
    <3>2. Len(all) \in Nat /\ Len(all) <= 2 * aRetention + aFaults
      BY <1>3, <1>4, <2>3
    <3> QED BY <1>3, <1>4, <1>7, <2>1, <3>1, <3>2
  <2> QED BY <2>2, <2>3
<1>9. CASE Audit!CompactFails
  <2>1. /\ aLines' = all /\ aLog' = [aLog EXCEPT !.count = Len(all)]
        /\ aAccepted' = aAccepted /\ aFaults' = aFaults + 1
    BY <1>3, <1>9 DEF Audit!CompactFails, Audit!Fault, all
  <2>2. Len(all) \in Nat /\ Len(all) <= 2 * aRetention + (aFaults + 1)
    BY <1>1, <1>3, <1>4
  <2> QED BY <1>3, <1>4, <1>7, <2>1, <2>2
<1>10. CASE Audit!Exit(TRUE)
  <2>1. /\ aLines' = all /\ aLog' = [aLog EXCEPT !.up = FALSE]
        /\ aAccepted' = aAccepted /\ aFaults' = aFaults + 1
    BY <1>10 DEF Audit!Exit, Audit!Fault, all
  <2>2. Len(all) \in Nat /\ Len(all) <= 2 * aRetention + (aFaults + 1)
    BY <1>1, <1>3, <1>4
  <2>3. aLog' \in [up : BOOLEAN, count : Nat, repair : BOOLEAN] /\ ~aLog'.repair /\ ~aLog'.up
    BY <1>4, <2>1
  <2> QED BY <1>3, <1>4, <1>7, <2>1, <2>2, <2>3
<1> QED BY <1>8, <1>9, <1>10

\* Every step keeps the invariant.
LEMMA AuditStep == aRetention \in Nat /\ AuditInv /\ [Audit!Next]_(Audit!vars) => AuditInv'
<1> SUFFICES ASSUME aRetention \in Nat, AuditInv, [Audit!Next]_(Audit!vars) PROVE AuditInv'
  OBVIOUS
<1>1. CASE Audit!Next
  BY <1>1, LinesStay, LineWritten DEF Audit!Next
<1>2. CASE UNCHANGED Audit!vars
  BY <1>2 DEF Audit!vars, AuditInv, AuditTypes, AuditFile, Held, LastBegun
<1> QED BY <1>1, <1>2

\* The instance counts as this module does.
LEMMA SameCardinality == \A S : Audit!Cardinality(S) = Cardinality(S)
BY DEF Audit!Cardinality, Cardinality

\* A step is one of DialogLog only if that part was chosen; else its variables stay.
LEMMA AuditSteps == [Next]_vars => [Audit!Next]_(Audit!vars)
BY DEF Next, vars, tVars, wVars, cVars, fVars, eVars, aVars, dVars, pVars, rVars,
       ReaderOnly, WatchOnly, ConfigOnly, FeedOnly, LogOnly, AuditOnly, DialogsOnly,
       RulesOnly, RetriesOnly, Audit!vars

\* The invariant of the audit log holds in every reachable state.
LEMMA AuditInvariant == Spec => []AuditInv
<1>1. aRetention \in Nat
  BY PartsAssumption DEF Audit!RetentionAssumption
<1>2. Init => AuditInv
  BY <1>1, AuditInit DEF Init
<1>3. AuditInv /\ [Next]_vars => AuditInv'
  BY <1>1, AuditStep, AuditSteps
<1> QED BY <1>2, <1>3, PTL DEF Spec

\* Whoever reads the audit log, while it is written, after a failed write or after a
\* crash, finds whole events in their order, and every accepted event, on whose
\* strength a dialog may have been pressed, until enough later ones are there, for
\* any retention and any number of events and faults.
THEOREM AcceptedEventsAreRead == Spec => []AcceptedIsRead
<1>1. AuditInv => AcceptedIsRead
  <2> SUFFICES ASSUME AuditInv PROVE AcceptedIsRead
    OBVIOUS
  <2>1. aRetention \in Nat
    BY PartsAssumption DEF Audit!RetentionAssumption
  <2>2. AuditFile(aLines, LastBegun) /\ LastBegun \in Nat /\ aLines \in Seq(Seq(Nat))
        /\ \A e \in aAccepted : e \in Nat /\ Held(aLines, e)
    BY DEF AuditInv, AuditTypes, AuditFile, LastBegun
  <2>3. /\ \A i \in DOMAIN aLines : Audit!Whole(aLines[i])
        /\ \A i, j \in DOMAIN aLines : i < j => aLines[i][1] < aLines[j][1]
    BY <2>2 DEF AuditFile, Audit!Whole
  <2>4. ASSUME NEW e \in aAccepted \ Audit!Events
        PROVE  Audit!Cardinality({k \in Audit!Events : k > e}) >= aRetention
    <3>1. e \in Nat /\ Len(aLines) >= aRetention
          /\ \A i \in DOMAIN aLines : i > Len(aLines) - aRetention => e < aLines[i][1]
      BY <2>2, <2>4 DEF Held, Audit!Events
    <3>2. Cardinality({k \in {aLines[i][1] : i \in DOMAIN aLines} : k > e}) >= aRetention
      BY <2>1, <2>2, <3>1, EnoughLater
    <3> QED BY <3>2, SameCardinality DEF Audit!Events
  <2> QED BY <2>3, <2>4 DEF AcceptedIsRead, Audit!AcceptedIsRead
<1> QED BY <1>1, AuditInvariant, PTL

\* The types of the audit log.
LEMMA AuditTyped == aRetention \in Nat /\ AuditInv => Audit!TypeOK
<1> SUFFICES ASSUME aRetention \in Nat, AuditInv PROVE Audit!TypeOK
  OBVIOUS
<1>1. aWriting \in 0 .. aNext - 1 /\ aAccepted \subseteq 1 .. aNext - 1
  BY DEF AuditInv, AuditTypes, LastBegun
<1> QED BY <1>1 DEF AuditInv, AuditTypes, Audit!TypeOK

-----------------------------------------------------------------------------
(* Policies.                                                               *)

\* An override that is in force is valid for its condition.
RulesInv ==
  /\ pDefinition \in Rules!Definitions
  /\ pCustom \in Rules!Option(Rules!Override) /\ pRequest \in Rules!Option(Rules!Override)
  /\ \A o \in pCustom : Rules!Valid(pDefinition, o)

\* The value of an option, or the default.
LEMMA OptionValue ==
  ASSUME NEW S, NEW option \in Rules!Option(S), NEW default
  PROVE  /\ option = {} => Rules!Or(option, default) = default
         /\ option # {} => /\ Rules!Or(option, default) \in S
                           /\ option = {Rules!Or(option, default)}
BY DEF Rules!Option, Rules!Or

\* The least and the greatest of two numbers.
LEMMA OfTwo ==
  ASSUME NEW a \in Nat, NEW b \in Nat
  PROVE  /\ Rules!Min({a, b}) = IF a <= b THEN a ELSE b
         /\ Rules!Max({a, b}) = IF a <= b THEN b ELSE a
BY DEF Rules!Min, Rules!Max

\* Products with the powers of two.
LEMMA Products ==
  ASSUME NEW x \in Nat, NEW p \in Nat, NEW q \in Nat, 1 <= p, p <= q
  PROVE  x * p \in Nat /\ x * q \in Nat /\ x <= x * p /\ x * p <= x * q
<1>1. x * p \in Nat /\ x * q \in Nat
  OBVIOUS
<1>2. x * p = x + x * (p - 1) /\ p - 1 \in Nat
  OBVIOUS
<1>3. x * (p - 1) \in Nat
  BY <1>2
<1>4. x * q = x * p + x * (q - p) /\ q - p \in Nat
  OBVIOUS
<1>5. x * (q - p) \in Nat
  BY <1>4
<1> QED BY <1>1, <1>2, <1>3, <1>4, <1>5

\* What an override and the defaults resolve to.
LEMMA ResolvedTypes ==
  ASSUME Rules!DelayAssumption, NEW d \in Rules!Definitions,
         NEW option \in Rules!Option(Rules!Override)
  PROVE  LET p == Rules!Resolved(d, option)
         IN  /\ p.action \in {"retry", "skip"} /\ (p.action = "skip" <=> p.backoff = "none")
             /\ p.initial \in 0 .. pLimit /\ p.max \in 0 .. pLimit /\ p.attempts \in Nat
             /\ option = {} /\ p.action = "retry" =>
                  p.initial > 0 /\ p.initial <= p.max /\ p.attempts > 0
<1> DEFINE own == Rules!Or(option, Rules!Nothing)
           action == Rules!Or(own.action, d.action)
           default(f) == IF action = "skip" THEN 0
                         ELSE IF d[f] > 0 THEN d[f] ELSE Rules!RetryDefaults[f]
           p == Rules!Resolved(d, option)
<1>1. /\ p.action = action
      /\ p.backoff = IF action = "retry" THEN Rules!Or(own.backoff, "exponential") ELSE "none"
      /\ p.initial = Rules!Or(own.initial, default("initial"))
      /\ p.max = Rules!Or(own.max, default("max"))
      /\ p.attempts = Rules!Or(own.attempts, default("attempts"))
  BY DEF Rules!Resolved
<1>2. /\ own.action \in Rules!Option({"retry", "skip"})
      /\ own.backoff \in Rules!Option({"fixed"})
      /\ own.initial \in Rules!Option(pDelays) /\ own.max \in Rules!Option(pDelays)
      /\ own.attempts \in Rules!Option({2})
  <2>1. Rules!Nothing \in Rules!Override
    BY DEF Rules!Nothing, Rules!Override, Rules!Option
  <2>2. own \in Rules!Override
    BY <2>1, OptionValue
  <2> QED BY <2>2 DEF Rules!Override
<1>3. /\ d.action \in {"retry", "skip"} /\ pLimit \in Nat /\ 600 <= pLimit
      /\ d.initial \in 0 .. 600 /\ d.max \in 0 .. 600 /\ d.attempts \in 0 .. 5
      /\ d.action = "retry" => d.initial > 0 /\ d.initial <= d.max /\ d.attempts > 0
  BY DEF Rules!Definitions, Rules!Retry, Rules!Skip, Rules!DelayAssumption
<1>4. option = {} => own = Rules!Nothing
  BY OptionValue
<1> HIDE DEF own, p
<1>5. action \in {"retry", "skip"}
  BY <1>2, <1>3, OptionValue
<1>6. /\ Rules!RetryDefaults.initial = 5 /\ Rules!RetryDefaults.max = 120
      /\ Rules!RetryDefaults.attempts = 5
  BY DEF Rules!RetryDefaults, Rules!Retry
<1>7. /\ default("initial") \in 0 .. pLimit /\ default("max") \in 0 .. pLimit
      /\ default("attempts") \in Nat
  BY <1>3, <1>6
<1>8. \A x \in pDelays : x \in 0 .. pLimit
  BY DEF Rules!DelayAssumption
<1>9. p.initial \in 0 .. pLimit /\ p.max \in 0 .. pLimit /\ p.attempts \in Nat
  <2> HIDE DEF default, action
  <2>1. p.initial \in 0 .. pLimit
    BY <1>1, <1>2, <1>7, <1>8, OptionValue
  <2>2. p.max \in 0 .. pLimit
    BY <1>1, <1>2, <1>7, <1>8, OptionValue
  <2>3. p.attempts \in {2} \cup {default("attempts")}
    BY <1>1, <1>2, OptionValue
  <2> QED BY <1>7, <2>1, <2>2, <2>3
<1>10. p.action \in {"retry", "skip"} /\ (p.action = "skip" <=> p.backoff = "none")
  <2> HIDE DEF action
  <2>1. Rules!Or(own.backoff, "exponential") \in {"fixed", "exponential"}
    BY <1>2, OptionValue
  <2> QED BY <1>1, <1>5, <2>1
<1>11. ASSUME option = {}, p.action = "retry"
       PROVE  p.initial > 0 /\ p.initial <= p.max /\ p.attempts > 0
  <2>1. /\ own.action = {} /\ own.initial = {} /\ own.max = {} /\ own.attempts = {}
    BY <1>4, <1>11 DEF Rules!Nothing
  <2>2. action = d.action /\ action = "retry"
    BY <1>1, <1>2, <1>11, <2>1, OptionValue
  <2>3. /\ p.initial = default("initial") /\ p.max = default("max")
        /\ p.attempts = default("attempts")
    <3> HIDE DEF default
    <3> QED BY <1>1, <1>2, <2>1, OptionValue
  <2>4. /\ default("initial") = d.initial /\ default("max") = d.max
        /\ default("attempts") = d.attempts
    <3>1. d.initial > 0 /\ d.max > 0 /\ d.attempts > 0
      BY <1>3, <2>2
    <3> QED BY <2>2, <3>1
  <2> HIDE DEF default, action
  <2> QED BY <1>3, <2>2, <2>3, <2>4
<1> QED BY <1>9, <1>10, <1>11 DEF p

\* The policy in force.
LEMMA PolicyInForce ==
  ASSUME Rules!DelayAssumption, RulesInv
  PROVE  /\ Rules!Policy.action \in {"retry", "skip"}
         /\ Rules!Policy.action = "skip" <=> Rules!Policy.backoff = "none"
         /\ Rules!Policy.initial \in 0 .. pLimit /\ Rules!Policy.max \in 0 .. pLimit
         /\ Rules!Policy.attempts \in Nat
         /\ Rules!Policy.action = "retry" =>
              /\ Rules!Policy.initial > 0 /\ Rules!Policy.initial <= Rules!Policy.max
              /\ Rules!Policy.attempts > 0
<1>1. pDefinition \in Rules!Definitions /\ pCustom \in Rules!Option(Rules!Override)
      /\ \A o \in pCustom : Rules!Valid(pDefinition, o)
  BY DEF RulesInv
<1>2. pCustom = {} \/ \E o \in pCustom : pCustom = {o}
  BY <1>1, OptionValue
<1>3. ASSUME NEW o \in pCustom, pCustom = {o}, Rules!Policy.action = "retry"
      PROVE  /\ Rules!Policy.initial > 0 /\ Rules!Policy.initial <= Rules!Policy.max
             /\ Rules!Policy.attempts > 0
  BY <1>1, <1>3 DEF Rules!Valid, Rules!Policy
<1> QED BY <1>1, <1>2, <1>3, ResolvedTypes DEF Rules!Policy

\* An update of a part of the fields is merged into an override.
LEMMA MergedType ==
  ASSUME NEW old \in Rules!Override, NEW update \in Rules!Override
  PROVE  Rules!Merged(old, update) \in Rules!Override
<1> DEFINE new == [f \in DOMAIN old |-> IF update[f] = {} THEN old[f] ELSE update[f]]
<1>1. new \in Rules!Override
  BY DEF Rules!Override
<1> QED BY <1>1 DEF Rules!Merged

\* Every step keeps the override valid.
LEMMA RulesStep == RulesInv /\ [Rules!Next]_(Rules!vars) => RulesInv'
<1> SUFFICES ASSUME RulesInv, [Rules!Next]_(Rules!vars) PROVE RulesInv'
  OBVIOUS
<1>1. pDefinition \in Rules!Definitions
      /\ pCustom \in Rules!Option(Rules!Override) /\ pRequest \in Rules!Option(Rules!Override)
      /\ \A o \in pCustom : Rules!Valid(pDefinition, o)
  BY DEF RulesInv
<1>2. /\ {} \in Rules!Option(Rules!Override)
      /\ \A o \in Rules!Override : {o} \in Rules!Option(Rules!Override)
  BY DEF Rules!Option
<1>3. ASSUME NEW update \in Rules!Override, Rules!Request(update) PROVE RulesInv'
  BY <1>1, <1>2, <1>3 DEF Rules!Request, RulesInv, Rules!Valid, Rules!Resolved
<1>4. CASE Rules!Set
  <2>1. PICK update \in pRequest :
          LET entry == Rules!Merged(Rules!Or(pCustom, Rules!Nothing), update)
          IN  /\ pCustom' = IF Rules!Valid(pDefinition, entry) THEN {entry} ELSE pCustom
              /\ pRequest' = {} /\ pDefinition' = pDefinition
    BY <1>4 DEF Rules!Set
  <2> DEFINE entry == Rules!Merged(Rules!Or(pCustom, Rules!Nothing), update)
  <2>2. entry \in Rules!Override
    <3>1. Rules!Nothing \in Rules!Override
      BY DEF Rules!Nothing, Rules!Override, Rules!Option
    <3>2. Rules!Or(pCustom, Rules!Nothing) \in Rules!Override
      BY <1>1, <3>1, OptionValue
    <3>3. update \in Rules!Override
      BY <1>1, OptionValue DEF Rules!Option
    <3> QED BY <3>2, <3>3, MergedType
  <2>3. /\ pCustom' = (IF Rules!Valid(pDefinition, entry) THEN {entry} ELSE pCustom)
        /\ pRequest' = {} /\ pDefinition' = pDefinition
    BY <2>1
  <2> HIDE DEF entry
  <2> QED BY <1>1, <1>2, <2>2, <2>3 DEF RulesInv
<1>5. CASE Rules!Reset
  BY <1>1, <1>2, <1>5 DEF Rules!Reset, RulesInv
<1>6. CASE UNCHANGED Rules!vars
  BY <1>1, <1>6 DEF Rules!vars, RulesInv
<1> QED BY <1>3, <1>4, <1>5, <1>6 DEF Rules!Next

\* A step is one of Policies only if that part was chosen; else its variables stay.
LEMMA RulesSteps == [Next]_vars => [Rules!Next]_(Rules!vars)
BY DEF Next, vars, tVars, wVars, cVars, fVars, eVars, aVars, dVars, pVars, rVars,
       ReaderOnly, WatchOnly, ConfigOnly, FeedOnly, LogOnly, AuditOnly, DialogsOnly,
       RulesOnly, RetriesOnly, Rules!vars

\* Overrides in force are valid in every reachable state.
LEMMA RulesInvariant == Spec => []RulesInv
<1>1. Init => RulesInv
  BY DEF Init, Rules!Init, RulesInv, Rules!Option
<1>2. RulesInv /\ [Next]_vars => RulesInv'
  BY RulesStep, RulesSteps
<1> QED BY <1>1, <1>2, PTL DEF Spec

\* The number that does not fit its type is the greatest one.
LEMMA SaturatedNumber ==
  ASSUME Rules!DelayAssumption, NEW n \in Nat
  PROVE  Rules!Saturated(n) = IF n <= pLimit THEN n ELSE pLimit
BY OfTwo DEF Rules!Saturated, Rules!DelayAssumption

\* The delay before an attempt, for a policy that is valid.
LEMMA DelayBounds ==
  ASSUME Rules!DelayAssumption, NEW p, p.initial \in Nat, p.max \in Nat,
         p.initial > 0, p.initial <= p.max, p.initial <= pLimit,
         NEW a \in 0 .. pAttempts, NEW after \in Nat
  PROVE  /\ 1 <= Rules!Delay(p, a, after) /\ p.initial <= Rules!Delay(p, a, after)
         /\ Rules!Delay(p, a, after) <= Rules!Max({p.max, after})
         /\ Rules!Delay(p, a, after) <= Rules!Delay(p, a + 1, after)
<1> DEFINE x == p.initial
           low == Rules!Saturated(2 ^ a)
           high == Rules!Saturated(2 ^ (a + 1))
           now == Rules!Min({Rules!Saturated(x * low), p.max})
           later == Rules!Min({Rules!Saturated(x * high), p.max})
<1>1. /\ 2 ^ a \in Nat \ {0} /\ 2 ^ (a + 1) \in Nat /\ 2 ^ a <= 2 ^ (a + 1)
      /\ pLimit \in Nat /\ 600 <= pLimit
  BY DEF Rules!DelayAssumption
<1>2. low \in Nat /\ high \in Nat /\ 1 <= low /\ low <= high
  BY <1>1, SaturatedNumber
<1> HIDE DEF low, high
<1>3. x * low \in Nat /\ x * high \in Nat /\ x <= x * low /\ x * low <= x * high
  BY <1>2, Products
<1>4. /\ Rules!Saturated(x * low) = IF x * low <= pLimit THEN x * low ELSE pLimit
      /\ Rules!Saturated(x * high) = IF x * high <= pLimit THEN x * high ELSE pLimit
  BY <1>3, SaturatedNumber
<1> DEFINE m == Rules!Saturated(x * low)
           n == Rules!Saturated(x * high)
<1>5. m \in Nat /\ n \in Nat /\ x <= m /\ m <= n
  BY <1>1, <1>3, <1>4
<1>6. now = (IF m <= p.max THEN m ELSE p.max) /\ later = (IF n <= p.max THEN n ELSE p.max)
  BY <1>5, OfTwo
<1> HIDE DEF m, n
<1>7. now \in Nat /\ later \in Nat /\ x <= now /\ now <= p.max /\ now <= later
  BY <1>5, <1>6
<1>8. /\ Rules!Delay(p, a, after) = Rules!Max({IF p.backoff = "fixed" THEN x ELSE now, after})
      /\ Rules!Delay(p, a + 1, after)
           = Rules!Max({IF p.backoff = "fixed" THEN x ELSE later, after})
  BY DEF Rules!Delay, low, high
<1> HIDE DEF now, later
<1>9. /\ Rules!Max({p.max, after}) = IF p.max <= after THEN after ELSE p.max
      /\ Rules!Max({x, after}) = IF x <= after THEN after ELSE x
      /\ Rules!Max({now, after}) = IF now <= after THEN after ELSE now
      /\ Rules!Max({later, after}) = IF later <= after THEN after ELSE later
  BY <1>7, OfTwo
<1>10. CASE p.backoff = "fixed"
  BY <1>8, <1>9, <1>10
<1>11. CASE p.backoff # "fixed"
  BY <1>7, <1>8, <1>9, <1>11
<1> QED BY <1>10, <1>11

\* Every retry is delayed and bounded, whatever sequence of partial updates of the
\* policy was accepted: a delay is between the initial and the longest one, or what
\* the provider asked for, and does not become shorter with more attempts.
THEOREM DelaysAreSound == Spec => []DelaysSound
<1>1. RulesInv => DelaysSound
  <2> SUFFICES ASSUME RulesInv, Rules!Policy.action = "retry"
               PROVE  /\ Rules!Policy.attempts > 0
                      /\ \A a \in 0 .. pAttempts, after \in {0, pLimit} :
                           LET delay == Rules!Delay(Rules!Policy, a, after)
                           IN  /\ 1 <= delay /\ Rules!Policy.initial <= delay
                               /\ delay <= Rules!Max({Rules!Policy.max, after})
                               /\ delay <= Rules!Delay(Rules!Policy, a + 1, after)
    BY DEF DelaysSound, Rules!DelaysSound
  <2>1. Rules!DelayAssumption
    BY PartsAssumption
  <2>2. /\ Rules!Policy.initial \in 0 .. pLimit /\ Rules!Policy.max \in 0 .. pLimit
        /\ Rules!Policy.initial > 0 /\ Rules!Policy.initial <= Rules!Policy.max
        /\ Rules!Policy.attempts > 0
    BY <2>1, PolicyInForce
  <2>3. pLimit \in Nat
    BY <2>1 DEF Rules!DelayAssumption
  <2> QED BY <2>1, <2>2, <2>3, DelayBounds
<1> QED BY <1>1, RulesInvariant, PTL

\* The types of the policies.
LEMMA RulesTyped == Rules!DelayAssumption /\ RulesInv => Rules!TypeOK
BY PolicyInForce DEF RulesInv, Rules!TypeOK

-----------------------------------------------------------------------------
(* The event log.                                                          *)

Pieces == [event : Nat, cut : Log!Cuts]
Files == Seq(Seq(Pieces))

\* The pieces of a file are in their order.
Sorted(file) ==
  \A i, k \in DOMAIN file : \A j \in DOMAIN file[i], l \in DOMAIN file[k] :
    i < k \/ (i = k /\ j < l) => file[i][j].event < file[k][l].event

\* All events of a file are up to this one.
UpTo(file, n) ==
  \A i \in DOMAIN file : \A j \in DOMAIN file[i] : file[i][j].event \in 1 .. n

\* The lines that cannot be read.
BadIn(file) == {i \in DOMAIN file : ~Log!Readable(file[i])}
Bad(line) == IF Log!Readable(line) THEN 0 ELSE 1

\* The lines and what follows them.
All == Append(eLines, eTail)
\* The event that is to be written, and whether some of it is in the file.
Current == eNext - Len(eBatch)
InProgress == eBatch # <<>> /\ eTail # <<>> /\ eTail[Len(eTail)].event = Current
Latest == IF InProgress THEN Current ELSE Current - 1
\* The last line holds more than a part of the current event, and will be unreadable.
Spoilt == IF eTail = <<>> \/ (Len(eTail) = 1 /\ InProgress) THEN 0 ELSE 1

LogTypes ==
  /\ eLines \in Files /\ eTail \in Seq(Pieces) /\ eBatch \in Seq(Nat)
  /\ eRetention \in eRetentions /\ eNext \in Nat \ {0} /\ eFaults \in 0 .. eMaxFaults
  /\ Len(eBatch) < eNext /\ \A i \in DOMAIN eBatch : eBatch[i] = Current + i - 1
  /\ InProgress => eTail[Len(eTail)].cut \in {"clean", "no"}

\* Events are in the file in their order; each fault has spoilt one line at most.
LogInv ==
  /\ LogTypes
  /\ Sorted(All) /\ UpTo(All, Latest)
  /\ Cardinality(BadIn(eLines)) + Spoilt <= eFaults

\* A line at the end of a file.
LEMMA LineAppended ==
  ASSUME NEW file \in Files, NEW line \in Seq(Pieces)
  PROVE  /\ Append(file, line) \in Files /\ Len(Append(file, line)) = Len(file) + 1
         /\ DOMAIN Append(file, line) = 1 .. Len(file) + 1 /\ DOMAIN file = 1 .. Len(file)
         /\ Len(file) \in Nat
         /\ \A i \in 1 .. Len(file) : Append(file, line)[i] = file[i]
         /\ Append(file, line)[Len(file) + 1] = line
BY AppendProperties, LenProperties DEF Files

\* A line that goes on after the last event.
LEMMA SortedAppend ==
  ASSUME NEW file \in Files, NEW line \in Seq(Pieces), NEW new \in Seq(Pieces),
         Sorted(Append(file, line)),
         NEW n \in Nat,
         \A i \in DOMAIN Append(file, line) : \A j \in DOMAIN Append(file, line)[i] :
           Append(file, line)[i][j].event < n,
         Len(new) = Len(line) + 1,
         \A j \in DOMAIN line : new[j].event = line[j].event,
         new[Len(line) + 1].event = n
  PROVE  Sorted(Append(file, new))
<1> DEFINE all == Append(file, line)
           next == Append(file, new)
           m == Len(file)
<1>1. /\ m \in Nat /\ DOMAIN all = 1 .. m + 1 /\ DOMAIN next = 1 .. m + 1
      /\ \A i \in 1 .. m : all[i] = next[i]
      /\ all[m + 1] = line /\ next[m + 1] = new
      /\ DOMAIN line = 1 .. Len(line) /\ DOMAIN new = 1 .. Len(line) + 1 /\ Len(line) \in Nat
  BY LineAppended, LenProperties
<1>2. /\ Sorted(all) /\ \A i \in DOMAIN all : \A j \in DOMAIN all[i] : all[i][j].event < n
  OBVIOUS
<1> HIDE DEF all, next, m
<1>3. \A i \in DOMAIN next : \A j \in DOMAIN next[i] :
        \/ j \in DOMAIN all[i] /\ next[i][j].event = all[i][j].event
        \/ i = m + 1 /\ j = Len(line) + 1 /\ next[i][j].event = n
  BY <1>1
<1>4. ASSUME NEW i \in DOMAIN next, NEW k \in DOMAIN next,
             NEW j \in DOMAIN next[i], NEW l \in DOMAIN next[k],
             i < k \/ (i = k /\ j < l)
      PROVE  next[i][j].event < next[k][l].event
  <2>1. j \in DOMAIN all[i] /\ next[i][j].event = all[i][j].event
    <3>1. ~(i = m + 1 /\ j = Len(line) + 1)
      BY <1>1, <1>4
    <3> QED BY <1>3, <3>1
  <2>2. CASE l \in DOMAIN all[k] /\ next[k][l].event = all[k][l].event
    BY <1>1, <1>2, <1>4, <2>1, <2>2 DEF Sorted
  <2>3. CASE next[k][l].event = n
    BY <1>1, <1>2, <2>1, <2>3
  <2> QED BY <1>3, <2>2, <2>3
<1> QED BY <1>4 DEF Sorted, next

\* A line whose events stay the same.
LEMMA SortedSame ==
  ASSUME NEW file \in Files, NEW line \in Seq(Pieces), NEW new \in Seq(Pieces),
         Sorted(Append(file, line)), Len(new) = Len(line),
         \A j \in DOMAIN line : new[j].event = line[j].event
  PROVE  Sorted(Append(file, new))
<1> DEFINE all == Append(file, line)
           next == Append(file, new)
           m == Len(file)
<1>1. /\ m \in Nat /\ DOMAIN all = 1 .. m + 1 /\ DOMAIN next = 1 .. m + 1
      /\ \A i \in 1 .. m : all[i] = next[i]
      /\ all[m + 1] = line /\ next[m + 1] = new
      /\ DOMAIN line = DOMAIN new
  BY LineAppended, LenProperties
<1>2. Sorted(all)
  OBVIOUS
<1> HIDE DEF all, next, m
<1>3. \A i \in DOMAIN next : /\ i \in DOMAIN all /\ DOMAIN next[i] = DOMAIN all[i]
                             /\ \A j \in DOMAIN next[i] : next[i][j].event = all[i][j].event
  BY <1>1
<1> QED BY <1>2, <1>3 DEF Sorted, next

\* An empty line at the end.
LEMMA SortedEmpty ==
  ASSUME NEW file \in Files, Sorted(file)
  PROVE  Sorted(Append(file, <<>>))
<1> DEFINE next == Append(file, <<>>)
<1>1. <<>> \in Seq(Pieces) /\ DOMAIN <<>> = {}
  OBVIOUS
<1>2. /\ DOMAIN next = 1 .. Len(file) + 1 /\ DOMAIN file = 1 .. Len(file)
      /\ \A i \in 1 .. Len(file) : file[i] = next[i]
      /\ next[Len(file) + 1] = <<>>
  BY <1>1, LineAppended
<1> HIDE DEF next
<1>3. \A i \in DOMAIN next : \A j \in DOMAIN next[i] : i \in DOMAIN file /\ next[i] = file[i]
  BY <1>1, <1>2
<1> QED BY <1>3 DEF Sorted, next

\* Compaction: the last lines.
LEMMA CompactedLines ==
  ASSUME NEW file \in Files, eRetention \in Nat, Len(file) >= eRetention
  PROVE  /\ Log!Compacted(file) \in Files /\ Len(Log!Compacted(file)) = eRetention
         /\ DOMAIN Log!Compacted(file) = 1 .. eRetention
         /\ Len(file) - eRetention \in Nat
         /\ \A i \in 1 .. eRetention : /\ Len(file) - eRetention + i \in DOMAIN file
                                       /\ Log!Compacted(file)[i] = file[Len(file) - eRetention + i]
<1> DEFINE kept == Log!Compacted(file)
           gone == Len(file) - eRetention
<1>1. Len(file) \in Nat /\ DOMAIN file = 1 .. Len(file) /\ gone \in Nat
      /\ \A i \in gone + 1 .. Len(file) : file[i] \in Seq(Pieces)
  BY LenProperties, ElementOfSeq DEF Files
<1>2. /\ SubSeq(file, gone + 1, Len(file)) \in Seq(Seq(Pieces))
      /\ Len(SubSeq(file, gone + 1, Len(file)))
           = IF gone + 1 <= Len(file) THEN Len(file) - (gone + 1) + 1 ELSE 0
      /\ \A i \in 1 .. Len(file) - (gone + 1) + 1 :
           SubSeq(file, gone + 1, Len(file))[i] = file[gone + 1 + i - 1]
  <2> HIDE DEF gone
  <2>1. gone + 1 \in Int /\ Len(file) \in Int
    BY <1>1
  <2> QED BY <1>1, <2>1, SubSeqProperties
<1>3. kept = SubSeq(file, gone + 1, Len(file))
  BY DEF Log!Compacted
<1>4. Len(kept) = eRetention /\ kept \in Files
  BY <1>1, <1>2, <1>3 DEF Files
<1>5. ASSUME NEW i \in 1 .. eRetention
      PROVE  gone + i \in DOMAIN file /\ kept[i] = file[gone + i]
  <2>1. i \in 1 .. Len(file) - (gone + 1) + 1 /\ gone + 1 + i - 1 = gone + i
        /\ gone + i \in DOMAIN file
    BY <1>1
  <2> HIDE DEF gone, kept
  <2> QED BY <1>2, <1>3, <2>1
<1>6. DOMAIN kept = 1 .. eRetention
  BY <1>4, LenProperties DEF Files
<1> QED BY <1>1, <1>4, <1>5, <1>6

\* What stays is sorted, and after everything that goes.
LEMMA CompactedSorted ==
  ASSUME NEW file \in Files, eRetention \in Nat, Len(file) >= eRetention, Sorted(file)
  PROVE  /\ Sorted(Log!Compacted(file))
         /\ Log!EventsIn(Log!Compacted(file)) \subseteq Log!EventsIn(file)
         /\ \A gone \in Log!EventsIn(file) \ Log!EventsIn(Log!Compacted(file)) :
              \A e \in Log!EventsIn(Log!Compacted(file)) : gone < e
<1> DEFINE kept == Log!Compacted(file)
           d == Len(file) - eRetention
<1>1. /\ kept \in Files /\ Len(kept) = eRetention /\ DOMAIN kept = 1 .. eRetention
      /\ d \in Nat /\ DOMAIN file = 1 .. Len(file) /\ Len(file) \in Nat
      /\ \A i \in 1 .. eRetention : d + i \in DOMAIN file /\ kept[i] = file[d + i]
  BY CompactedLines, LenProperties DEF Files
<1>2. Len(file) = d + eRetention
  BY <1>1
<1> HIDE DEF kept, d
<1>3. Sorted(kept)
  <2> SUFFICES ASSUME NEW i \in DOMAIN kept, NEW k \in DOMAIN kept,
                      NEW j \in DOMAIN kept[i], NEW l \in DOMAIN kept[k],
                      i < k \/ (i = k /\ j < l)
               PROVE  kept[i][j].event < kept[k][l].event
    BY DEF Sorted
  <2>1. /\ d + i \in DOMAIN file /\ d + k \in DOMAIN file
        /\ kept[i] = file[d + i] /\ kept[k] = file[d + k]
        /\ d + i < d + k \/ (d + i = d + k /\ j < l)
    BY <1>1
  <2> QED BY <2>1 DEF Sorted
<1>4. Log!EventsIn(kept) \subseteq Log!EventsIn(file)
  <2> SUFFICES ASSUME NEW i \in DOMAIN kept, NEW j \in DOMAIN kept[i]
               PROVE  kept[i][j].event \in Log!EventsIn(file)
    BY DEF Log!EventsIn
  <2>1. d + i \in DOMAIN file /\ kept[i] = file[d + i]
    BY <1>1
  <2> QED BY <2>1 DEF Log!EventsIn
<1>5. ASSUME NEW gone \in Log!EventsIn(file) \ Log!EventsIn(kept), NEW e \in Log!EventsIn(kept)
      PROVE  gone < e
  <2>1. /\ \E i \in DOMAIN file : \E j \in DOMAIN file[i] : gone = file[i][j].event
        /\ \E k \in DOMAIN kept : \E l \in DOMAIN kept[k] : e = kept[k][l].event
    BY DEF Log!EventsIn
  <2>2. PICK i \in DOMAIN file : \E j \in DOMAIN file[i] : gone = file[i][j].event
    BY <2>1
  <2>3. PICK j \in DOMAIN file[i] : gone = file[i][j].event
    BY <2>2
  <2>4. PICK k \in DOMAIN kept : \E l \in DOMAIN kept[k] : e = kept[k][l].event
    BY <2>1
  <2>5. PICK l \in DOMAIN kept[k] : e = kept[k][l].event
    BY <2>4
  <2>6. i <= d
    <3> SUFFICES ASSUME i > d PROVE FALSE
      BY <1>1
    <3>1. i - d \in DOMAIN kept /\ kept[i - d] = file[i]
      <4>1. i - d \in 1 .. eRetention /\ d + (i - d) = i
        BY <1>1, <1>2
      <4> QED BY <1>1, <4>1
    <3> QED BY <2>3, <3>1 DEF Log!EventsIn
  <2>7. /\ d + k \in DOMAIN file /\ kept[k] = file[d + k] /\ i < d + k
    BY <1>1, <2>6
  <2> QED BY <2>3, <2>5, <2>7 DEF Sorted
<1> QED BY <1>3, <1>4, <1>5 DEF kept

\* The unreadable lines of a longer file.
LEMMA BadAppended ==
  ASSUME NEW file \in Files, NEW line \in Seq(Pieces)
  PROVE  /\ IsFiniteSet(BadIn(file)) /\ Cardinality(BadIn(file)) \in Nat
         /\ Cardinality(BadIn(Append(file, line))) = Cardinality(BadIn(file)) + Bad(line)
<1>1. /\ DOMAIN Append(file, line) = 1 .. Len(file) + 1 /\ DOMAIN file = 1 .. Len(file)
      /\ Len(file) \in Nat
      /\ \A i \in 1 .. Len(file) : Append(file, line)[i] = file[i]
      /\ Append(file, line)[Len(file) + 1] = line
  BY LineAppended
<1>2. BadIn(file) \in SUBSET (1 .. Len(file))
  BY <1>1 DEF BadIn
<1>3. IsFiniteSet(BadIn(file)) /\ Cardinality(BadIn(file)) \in Nat
  <2>1. 1 \in Int /\ Len(file) \in Int
    BY <1>1
  <2>2. IsFiniteSet(1 .. Len(file))
    BY <2>1, FS_Interval
  <2> QED BY <1>2, <2>2, FS_Subset, FS_CardinalityType
<1>4. CASE Log!Readable(line)
  <2>1. BadIn(Append(file, line)) = BadIn(file)
    BY <1>1, <1>4 DEF BadIn
  <2> QED BY <1>3, <1>4, <2>1 DEF Bad
<1>5. CASE ~Log!Readable(line)
  <2>1. BadIn(Append(file, line)) = BadIn(file) \cup {Len(file) + 1}
    BY <1>1, <1>5 DEF BadIn
  <2>2. Len(file) + 1 \notin BadIn(file)
    BY <1>1, <1>2
  <2> QED BY <1>3, <1>5, <2>1, <2>2, FS_AddElement DEF Bad
<1> QED BY <1>3, <1>4, <1>5

\* Compaction adds no unreadable line.
LEMMA BadCompacted ==
  ASSUME NEW file \in Files, eRetention \in Nat, Len(file) >= eRetention
  PROVE  Cardinality(BadIn(Log!Compacted(file))) <= Cardinality(BadIn(file))
<1> DEFINE kept == Log!Compacted(file)
           d == Len(file) - eRetention
           f == [i \in BadIn(kept) |-> d + i]
<1>1. /\ DOMAIN kept = 1 .. eRetention /\ d \in Nat
      /\ \A i \in 1 .. eRetention : d + i \in DOMAIN file /\ kept[i] = file[d + i]
  BY CompactedLines
<1>2. IsFiniteSet(BadIn(file))
  <2>1. <<>> \in Seq(Pieces)
    OBVIOUS
  <2> QED BY <2>1, BadAppended
<1> HIDE DEF kept, d
<1>3. f \in Injection(BadIn(kept), BadIn(file))
  <2>1. \A i \in BadIn(kept) : i \in Nat /\ f[i] = d + i /\ f[i] \in BadIn(file)
    BY <1>1 DEF BadIn
  <2>2. \A i, j \in BadIn(kept) : f[i] = f[j] => i = j
    BY <1>1, <2>1
  <2> QED BY <2>1, <2>2 DEF Injection, IsInjective
<1> HIDE DEF f
<1> QED BY <1>2, <1>3, FS_Injection DEF kept

\* What the invariant says of the numbers and of the whole file.
LEMMA LogNumbers ==
  ASSUME Log!HistoryAssumption, LogInv
  PROVE  /\ Len(eBatch) \in Nat /\ Len(eTail) \in Nat /\ Current \in Nat \ {0}
         /\ eRetention \in Nat /\ eFaults \in Nat
         /\ eBatch = <<>> <=> Len(eBatch) = 0
         /\ eTail = <<>> <=> Len(eTail) = 0
         /\ eBatch # <<>> => Head(eBatch) = Current
         /\ All \in Files /\ Len(All) = Len(eLines) + 1 /\ Len(eLines) \in Nat
         /\ DOMAIN All = 1 .. Len(eLines) + 1 /\ All[Len(eLines) + 1] = eTail
         /\ Latest \in Nat /\ Spoilt \in {0, 1}
         /\ Cardinality(BadIn(eLines)) \in Nat
         /\ eTail # <<>> => Log!File = All
         /\ eTail = <<>> => Log!File = eLines
         /\ DOMAIN eTail = 1 .. Len(eTail)
         /\ \A j \in DOMAIN eTail : eTail[j].event \in 1 .. Latest
<1>1. /\ eLines \in Files /\ eTail \in Seq(Pieces) /\ eBatch \in Seq(Nat)
      /\ eRetention \in eRetentions /\ eNext \in Nat \ {0} /\ eFaults \in 0 .. eMaxFaults
      /\ Len(eBatch) < eNext /\ \A i \in DOMAIN eBatch : eBatch[i] = Current + i - 1
  BY DEF LogInv, LogTypes
<1>2. /\ Len(eBatch) \in Nat /\ Len(eTail) \in Nat
      /\ (eBatch = <<>> <=> Len(eBatch) = 0) /\ (eTail = <<>> <=> Len(eTail) = 0)
      /\ DOMAIN eBatch = 1 .. Len(eBatch) /\ DOMAIN eTail = 1 .. Len(eTail)
  BY <1>1, LenProperties, EmptySeq
<1>3. Current \in Nat \ {0}
  <2>1. eNext \in Nat /\ Len(eBatch) \in Nat /\ Len(eBatch) < eNext
    BY <1>1, <1>2
  <2> QED BY <2>1 DEF Current
<1>4. eBatch # <<>> => Head(eBatch) = Current
  <2> SUFFICES ASSUME eBatch # <<>> PROVE Head(eBatch) = Current
    OBVIOUS
  <2>1. Head(eBatch) = eBatch[1] /\ 1 \in DOMAIN eBatch
    BY <1>1, <1>2
  <2> QED BY <1>1, <1>3, <2>1
<1>5. /\ All \in Files /\ Len(All) = Len(eLines) + 1 /\ Len(eLines) \in Nat
      /\ DOMAIN All = 1 .. Len(eLines) + 1 /\ All[Len(eLines) + 1] = eTail
  BY <1>1, LineAppended DEF All
<1>6. Latest \in Nat /\ Spoilt \in {0, 1}
  BY <1>3 DEF Latest, Spoilt
<1>7. Cardinality(BadIn(eLines)) \in Nat
  BY <1>1, BadAppended
<1>8. (eTail # <<>> => Log!File = All) /\ (eTail = <<>> => Log!File = eLines)
  BY DEF Log!File, All
<1>9. \A j \in DOMAIN eTail : eTail[j].event \in 1 .. Latest
  <2>1. Len(eLines) + 1 \in DOMAIN All
    BY <1>5
  <2> QED BY <1>5, <2>1 DEF LogInv, UpTo
<1>10. eRetention \in Nat /\ eFaults \in Nat
  BY <1>1 DEF Log!HistoryAssumption
<1> QED BY <1>2, <1>3, <1>4, <1>5, <1>6, <1>7, <1>8, <1>9, <1>10

\* After a line has ended there is no tail.
LEMMA LineEnded ==
  ASSUME Log!HistoryAssumption, LogInv, NEW file \in Files, Sorted(file), UpTo(file, Current),
         Cardinality(BadIn(file)) <= eFaults',
         eLines' = file, eTail' = <<>>, eRetention' = eRetention, eNext' = eNext,
         eFaults' \in 0 .. eMaxFaults,
         \/ eBatch' = <<>> /\ Len(eBatch) >= 1
         \/ eBatch' = Tail(eBatch) /\ Len(eBatch) > 1
  PROVE  LogInv'
<1>1. /\ eBatch \in Seq(Nat) /\ eRetention \in eRetentions /\ eNext \in Nat \ {0}
      /\ Len(eBatch) < eNext /\ Len(eBatch) \in Nat
      /\ \A i \in DOMAIN eBatch : eBatch[i] = Current + i - 1
      /\ Current \in Nat \ {0} /\ DOMAIN eBatch = 1 .. Len(eBatch)
  BY LogNumbers, LenProperties DEF LogInv, LogTypes
<1>2. <<>> \in Seq(Pieces) /\ <<>> \in Seq(Nat) /\ Len(<<>>) = 0 /\ DOMAIN <<>> = {}
  OBVIOUS
<1>3. ~InProgress' /\ Spoilt' = 0
  BY DEF InProgress, Spoilt
<1>4. /\ Current = eNext - Len(eBatch) /\ Current' = eNext - Len(eBatch')
      /\ eNext \in Nat /\ Len(eBatch) \in Nat /\ Len(eBatch) < eNext /\ Current \in Nat
  BY <1>1 DEF Current
<1>5. Current' \in Nat /\ Current' - 1 >= Current /\ eBatch' \in Seq(Nat) /\ Len(eBatch') < eNext
      /\ \A i \in DOMAIN eBatch' : eBatch'[i] = Current' + i - 1
  <2>1. CASE eBatch' = <<>> /\ Len(eBatch) >= 1
    <3>1. Len(eBatch') = 0 /\ Current' = eNext
      BY <1>2, <1>4, <2>1
    <3>2. Current' \in Nat /\ Current' - 1 >= Current /\ Len(eBatch') < eNext
      BY <1>4, <2>1, <3>1
    <3> QED BY <1>2, <2>1, <3>2
  <2>2. CASE eBatch' = Tail(eBatch) /\ Len(eBatch) > 1
    <3>1. /\ eBatch' \in Seq(Nat) /\ Len(eBatch') = Len(eBatch) - 1
          /\ \A i \in 1 .. Len(eBatch') : eBatch'[i] = eBatch[i + 1]
          /\ DOMAIN eBatch' = 1 .. Len(eBatch')
      <4>1. eBatch # <<>>
        BY <1>1, <2>2
      <4> QED BY <1>1, <2>2, <4>1, HeadTailProperties, LenProperties
    <3>2. Current' = Current + 1
      BY <1>4, <3>1
    <3>3. ASSUME NEW i \in DOMAIN eBatch' PROVE eBatch'[i] = Current' + i - 1
      <4>1. i + 1 \in DOMAIN eBatch /\ i \in Nat
        BY <1>1, <3>1
      <4> QED BY <1>1, <3>1, <3>2, <4>1
    <3> QED BY <1>1, <3>1, <3>2, <3>3
  <2> QED BY <2>1, <2>2
<1>6. Sorted(All)'
  BY SortedEmpty DEF All
<1>7. UpTo(All, Latest)'
  <2>1. Latest' >= Current /\ Latest' \in Nat
    <3>1. Latest' = Current' - 1
      BY <1>3 DEF Latest
    <3> QED BY <1>4, <1>5, <3>1
  <2>2. /\ DOMAIN All' = 1 .. Len(file) + 1 /\ DOMAIN file = 1 .. Len(file)
        /\ \A i \in 1 .. Len(file) : All'[i] = file[i]
        /\ All'[Len(file) + 1] = <<>>
    BY <1>2, LineAppended DEF All
  <2>3. ASSUME NEW i \in DOMAIN All', NEW j \in DOMAIN All'[i]
        PROVE  All'[i][j].event \in 1 .. Latest'
    <3>1. i \in DOMAIN file /\ All'[i] = file[i]
      BY <1>2, <2>2
    <3>2. file[i][j].event \in 1 .. Current
      BY <3>1 DEF UpTo
    <3> QED BY <1>1, <2>1, <3>1, <3>2
  <2> QED BY <2>3 DEF UpTo
<1>8. Cardinality(BadIn(eLines')) + Spoilt' <= eFaults'
  <2>1. Cardinality(BadIn(file)) \in Nat
    BY <1>2, BadAppended
  <2> QED BY <1>3, <2>1
<1>9. LogTypes'
  BY <1>1, <1>2, <1>3, <1>5 DEF LogTypes
<1> QED BY <1>6, <1>7, <1>8, <1>9 DEF LogInv

\* The whole event before its newline makes a readable line, unless the line is
\* already spoilt.
LEMMA WholeLine ==
  ASSUME Log!HistoryAssumption, LogInv, Log!AtNewline
  PROVE  /\ Log!File = All /\ All \in Files /\ Sorted(All) /\ UpTo(All, Current)
         /\ Cardinality(BadIn(All)) <= eFaults /\ Len(eBatch) >= 1
<1>1. /\ eTail # <<>> /\ eBatch # <<>> /\ eTail[Len(eTail)] = Log!Piece(Current, "no")
      /\ Len(eBatch) \in Nat /\ Len(eBatch) # 0
  BY LogNumbers DEF Log!AtNewline, Log!Last
<1>2. InProgress
  BY <1>1 DEF InProgress, Log!Piece
<1>3. UpTo(All, Current)
  BY <1>2 DEF LogInv, Latest
<1>4. Bad(eTail) <= Spoilt
  <2>1. Len(eTail) = 1 => Log!Readable(eTail)
    BY <1>1 DEF Log!Readable, Log!Piece
  <2> QED BY <1>1, <2>1 DEF Bad, Spoilt
<1>5. Cardinality(BadIn(All)) <= eFaults
  <2>1. eLines \in Files /\ eTail \in Seq(Pieces)
    BY DEF LogInv, LogTypes
  <2>2. /\ Cardinality(BadIn(All)) = Cardinality(BadIn(eLines)) + Bad(eTail)
        /\ Cardinality(BadIn(eLines)) \in Nat
    BY <2>1, BadAppended DEF All
  <2>3. Cardinality(BadIn(eLines)) + Spoilt <= eFaults /\ eFaults \in Nat /\ Spoilt \in Nat
    BY LogNumbers DEF LogInv
  <2>4. Bad(eTail) \in Nat
    BY DEF Bad
  <2> QED BY <1>4, <2>2, <2>3, <2>4
<1> QED BY <1>1, <1>3, <1>5, LogNumbers DEF LogInv

\* EndLine, EndBatch, CannotCompact and CompactFails.
LEMMA LineSteps ==
  ASSUME Log!HistoryAssumption, LogInv,
         Log!EndLine \/ Log!EndBatch \/ Log!CannotCompact \/ Log!CompactFails
  PROVE  LogInv'
<1>1. /\ Log!File = All /\ All \in Files /\ Sorted(All) /\ UpTo(All, Current)
      /\ Cardinality(BadIn(All)) <= eFaults /\ Len(eBatch) >= 1
  BY WholeLine DEF Log!EndLine, Log!EndBatch, Log!CannotCompact, Log!CompactFails
<1>2. /\ eRetention \in Nat /\ eFaults \in Nat /\ Len(All) \in Nat
      /\ Cardinality(BadIn(All)) \in Nat /\ eFaults \in 0 .. eMaxFaults
  <2>1. <<>> \in Seq(Pieces)
    OBVIOUS
  <2>2. Cardinality(BadIn(All)) \in Nat
    BY <1>1, <2>1, BadAppended
  <2> QED BY <1>1, <2>2, LogNumbers DEF LogInv, LogTypes
<1>3. CASE Log!EndLine
  <2>1. /\ eLines' = All /\ eTail' = <<>> /\ eRetention' = eRetention /\ eNext' = eNext
        /\ eFaults' = eFaults /\ eBatch' = Tail(eBatch) /\ Len(eBatch) > 1
    BY <1>1, <1>3 DEF Log!EndLine
  <2> QED BY <1>1, <1>2, <2>1, LineEnded
<1>4. CASE Log!EndBatch
  <2>1. /\ eTail' = <<>> /\ eRetention' = eRetention /\ eNext' = eNext
        /\ eFaults' = eFaults /\ eBatch' = <<>>
        /\ eLines' = IF Log!TooMany(All) THEN Log!Compacted(All) ELSE All
    BY <1>1, <1>4 DEF Log!EndBatch
  <2>2. CASE Log!TooMany(All)
    <3>1. Len(All) >= eRetention
      BY <1>2, <2>2 DEF Log!TooMany
    <3>2. /\ Log!Compacted(All) \in Files /\ Sorted(Log!Compacted(All))
          /\ Cardinality(BadIn(Log!Compacted(All))) <= Cardinality(BadIn(All))
      BY <1>1, <1>2, <3>1, CompactedLines, CompactedSorted, BadCompacted
    <3>3. UpTo(Log!Compacted(All), Current)
      BY <1>1, <1>2, <3>1, CompactedLines DEF UpTo
    <3>4. Cardinality(BadIn(Log!Compacted(All))) <= eFaults'
      <4>1. <<>> \in Seq(Pieces)
        OBVIOUS
      <4>2. Cardinality(BadIn(Log!Compacted(All))) \in Nat
        BY <3>2, <4>1, BadAppended
      <4> QED BY <1>1, <1>2, <2>1, <3>2, <4>2
    <3> QED BY <1>1, <1>2, <2>1, <2>2, <3>2, <3>3, <3>4, LineEnded
  <2>3. CASE ~Log!TooMany(All)
    BY <1>1, <1>2, <2>1, <2>3, LineEnded
  <2> QED BY <2>2, <2>3
<1>5. CASE Log!CannotCompact
  <2>1. /\ eLines' = All /\ eTail' = <<>> /\ eRetention' = eRetention /\ eNext' = eNext
        /\ eFaults' = eFaults /\ eBatch' = <<>>
    BY <1>1, <1>5 DEF Log!CannotCompact
  <2> QED BY <1>1, <1>2, <2>1, LineEnded
<1>6. CASE Log!CompactFails
  <2>1. /\ eLines' = All /\ eTail' = <<>> /\ eRetention' = eRetention /\ eNext' = eNext
        /\ eFaults < eMaxFaults /\ eFaults' = eFaults + 1 /\ eBatch' = <<>>
    BY <1>1, <1>6 DEF Log!CompactFails, Log!Faulty
  <2>2. eFaults' \in 0 .. eMaxFaults /\ Cardinality(BadIn(All)) <= eFaults'
    BY <1>1, <1>2, <2>1 DEF Log!HistoryAssumption
  <2> QED BY <1>1, <1>2, <2>1, <2>2, LineEnded
<1> QED BY <1>3, <1>4, <1>5, <1>6

\* Begin and SetRetention: the file stays.
LEMMA BetweenBatches ==
  ASSUME Log!HistoryAssumption, LogInv,
         \/ \E n \in 1 .. eMaxBatch : Log!Begin(n)
         \/ \E n \in eRetentions : Log!SetRetention(n)
  PROVE  LogInv'
<1>1. /\ eLines \in Files /\ eTail \in Seq(Pieces) /\ eNext \in Nat \ {0}
      /\ eRetention \in eRetentions /\ eFaults \in 0 .. eMaxFaults
      /\ Sorted(All) /\ UpTo(All, Latest)
      /\ Cardinality(BadIn(eLines)) + Spoilt <= eFaults
  BY DEF LogInv, LogTypes
<1>2. /\ eBatch = <<>> /\ UNCHANGED <<eLines, eTail, eFaults>>
      /\ eRetention' \in eRetentions
      /\ \/ eBatch' = <<>> /\ eNext' = eNext
         \/ \E n \in 1 .. eMaxBatch : eBatch' = [i \in 1 .. n |-> eNext + i - 1]
                                      /\ eNext' = eNext + n
  BY <1>1 DEF Log!Begin, Log!SetRetention
<1>3. /\ eBatch' \in Seq(Nat) /\ eNext' \in Nat \ {0} /\ Len(eBatch') < eNext'
      /\ eNext' - Len(eBatch') = eNext /\ DOMAIN eBatch' = 1 .. Len(eBatch')
      /\ \A i \in DOMAIN eBatch' : eBatch'[i] = eNext + i - 1
  <2>1. CASE eBatch' = <<>> /\ eNext' = eNext
    BY <1>1, <2>1
  <2>2. ASSUME NEW n \in 1 .. eMaxBatch, eBatch' = [i \in 1 .. n |-> eNext + i - 1],
               eNext' = eNext + n
        PROVE  /\ eBatch' \in Seq(Nat) /\ eNext' \in Nat \ {0} /\ Len(eBatch') < eNext'
               /\ eNext' - Len(eBatch') = eNext /\ DOMAIN eBatch' = 1 .. Len(eBatch')
               /\ \A i \in DOMAIN eBatch' : eBatch'[i] = eNext + i - 1
    <3>1. n \in Nat \ {0}
      BY DEF Log!HistoryAssumption
    <3>2. \A i \in 1 .. n : eNext + i - 1 \in Nat
      BY <1>1, <3>1
    <3>3. eBatch' \in Seq(Nat) /\ Len(eBatch') = n /\ DOMAIN eBatch' = 1 .. n
      BY <2>2, <3>1, <3>2
    <3> QED BY <1>1, <2>2, <3>1, <3>3
  <2> QED BY <1>2, <2>1, <2>2
<1>4. Current' = eNext /\ Current = eNext /\ ~InProgress /\ Latest = eNext - 1
  <2>1. Len(<<>>) = 0
    OBVIOUS
  <2>2. Current' = eNext' - Len(eBatch') /\ Current = eNext - Len(eBatch) /\ ~InProgress
    BY <1>2 DEF Current, InProgress
  <2>3. Current' = eNext
    BY <1>3, <2>2
  <2>4. Current = eNext
    BY <1>1, <1>2, <2>1, <2>2
  <2> QED BY <2>2, <2>3, <2>4 DEF Latest
<1>5. ~InProgress' /\ Latest' = Latest /\ Spoilt' = Spoilt
  <2>1. eTail # <<>> => Len(eTail) \in DOMAIN eTail /\ eTail[Len(eTail)].event \in 1 .. Latest
    BY LogNumbers
  <2>2. ~InProgress'
    BY <1>1, <1>2, <1>4, <2>1 DEF InProgress
  <2> QED BY <1>2, <1>4, <2>2 DEF Latest, Spoilt
<1>6. All' = All
  BY <1>2 DEF All
<1>7. LogTypes'
  BY <1>1, <1>2, <1>3, <1>4, <1>5 DEF LogTypes
<1>8. Sorted(All)' /\ UpTo(All, Latest)'
  BY <1>1, <1>5, <1>6 DEF Sorted, UpTo
<1>9. Cardinality(BadIn(eLines')) + Spoilt' <= eFaults'
  BY <1>1, <1>2, <1>5
<1> QED BY <1>7, <1>8, <1>9 DEF LogInv

\* The tail with its last piece replaced by another one of the same event.
LEMMA LastReplaced ==
  ASSUME NEW tail \in Seq(Pieces), tail # <<>>, NEW piece \in Pieces
  PROVE  LET new == Append(Log!Front(tail), piece)
         IN  /\ new \in Seq(Pieces) /\ Len(new) = Len(tail) /\ new # <<>>
             /\ Len(tail) \in Nat \ {0}
             /\ DOMAIN new = 1 .. Len(tail) /\ DOMAIN tail = 1 .. Len(tail)
             /\ new[Len(tail)] = piece
             /\ \A j \in DOMAIN tail : j # Len(tail) => new[j] = tail[j]
<1> DEFINE n == Len(tail) - 1
           front == Log!Front(tail)
<1>1. Len(tail) \in Nat \ {0} /\ n \in Nat /\ Len(tail) = n + 1 /\ DOMAIN tail = 1 .. Len(tail)
  BY EmptySeq, LenProperties
<1>2. \A j \in 1 .. n : tail[j] \in Pieces
  BY <1>1, ElementOfSeq
<1>3. front = SubSeq(tail, 1, n)
  BY DEF Log!Front
<1> HIDE DEF n, front
<1>4. front \in Seq(Pieces) /\ Len(front) = n /\ \A j \in 1 .. n : front[j] = tail[j]
  <2>1. /\ SubSeq(tail, 1, n) \in Seq(Pieces)
        /\ Len(SubSeq(tail, 1, n)) = IF 1 <= n THEN n - 1 + 1 ELSE 0
        /\ \A j \in 1 .. n - 1 + 1 : SubSeq(tail, 1, n)[j] = tail[1 + j - 1]
    <3>1. n \in Int /\ 1 \in Int
      BY <1>1
    <3> QED BY <1>2, <3>1, SubSeqProperties
  <2>2. Len(front) = n
    BY <1>1, <1>3, <2>1
  <2>3. ASSUME NEW j \in 1 .. n PROVE front[j] = tail[j]
    <3>1. j \in 1 .. n - 1 + 1 /\ 1 + j - 1 = j
      BY <1>1
    <3> QED BY <1>3, <2>1, <3>1
  <2> QED BY <1>3, <2>1, <2>2, <2>3
<1>5. /\ Append(front, piece) \in Seq(Pieces) /\ Append(front, piece) # <<>>
      /\ Len(Append(front, piece)) = n + 1
      /\ \A j \in 1 .. n : Append(front, piece)[j] = front[j]
      /\ Append(front, piece)[n + 1] = piece
  BY <1>4, AppendProperties
<1>6. DOMAIN Append(front, piece) = 1 .. n + 1
  BY <1>5, LenProperties
<1>7. ASSUME NEW j \in DOMAIN tail, j # Len(tail) PROVE Append(front, piece)[j] = tail[j]
  <2>1. j \in 1 .. n
    BY <1>1, <1>7
  <2> QED BY <1>4, <1>5, <2>1
<1> QED BY <1>1, <1>5, <1>6, <1>7 DEF front

\* The events of lines that stay and of a tail that is known.
LEMMA UpToTail ==
  ASSUME NEW file \in Files, NEW old \in Seq(Pieces), NEW new \in Seq(Pieces),
         NEW m \in Nat, NEW n \in Nat, m <= n, UpTo(Append(file, old), m),
         \A j \in DOMAIN new : new[j].event \in 1 .. n
  PROVE  UpTo(Append(file, new), n)
<1>1. /\ DOMAIN Append(file, old) = 1 .. Len(file) + 1
      /\ DOMAIN Append(file, new) = 1 .. Len(file) + 1 /\ Len(file) \in Nat
      /\ \A i \in 1 .. Len(file) : Append(file, new)[i] = Append(file, old)[i]
      /\ Append(file, new)[Len(file) + 1] = new
  BY LineAppended
<1>2. ASSUME NEW i \in 1 .. Len(file) + 1, NEW j \in DOMAIN Append(file, new)[i]
      PROVE  Append(file, new)[i][j].event \in 1 .. n
  <2>1. CASE i \in 1 .. Len(file)
    <3>1. i \in DOMAIN Append(file, old) /\ Append(file, new)[i] = Append(file, old)[i]
      BY <1>1, <2>1
    <3>2. Append(file, old)[i][j].event \in 1 .. m
      BY <1>2, <3>1 DEF UpTo
    <3> QED BY <3>1, <3>2
  <2>2. CASE i = Len(file) + 1
    BY <1>1, <1>2, <2>2
  <2> QED BY <1>1, <2>1, <2>2
<1> QED BY <1>1, <1>2 DEF UpTo

\* A part of an event is written after what was there.
LEMMA PartWritten == ASSUME Log!HistoryAssumption, LogInv, Log!WritePart PROVE LogInv'
<1>1. /\ eBatch # <<>> /\ Head(eBatch) = Current
      /\ \A j \in DOMAIN eTail : eTail[j].event # Current
      /\ eTail' = Append(eTail, Log!Piece(Current, "clean"))
      /\ UNCHANGED <<eLines, eBatch, eRetention, eNext, eFaults>>
  BY LogNumbers DEF Log!WritePart
<1>2. /\ eLines \in Files /\ eTail \in Seq(Pieces) /\ Current \in Nat \ {0}
      /\ Len(eTail) \in Nat /\ DOMAIN eTail = 1 .. Len(eTail)
      /\ (eTail = <<>> <=> Len(eTail) = 0)
      /\ \A j \in DOMAIN eTail : eTail[j].event \in 1 .. Latest
      /\ Sorted(All) /\ UpTo(All, Latest)
  BY LogNumbers DEF LogInv, LogTypes
<1>3. ~InProgress /\ Latest = Current - 1
  BY <1>1, <1>2 DEF InProgress, Latest
<1>4. Log!Piece(Current, "clean") \in Pieces /\ Log!Piece(Current, "clean").event = Current
      /\ Log!Piece(Current, "clean").cut = "clean"
  BY <1>2 DEF Pieces, Log!Piece, Log!Cuts
<1>5. /\ eTail' \in Seq(Pieces) /\ eTail' # <<>> /\ Len(eTail') = Len(eTail) + 1
      /\ \A j \in 1 .. Len(eTail) : eTail'[j] = eTail[j]
      /\ eTail'[Len(eTail) + 1] = Log!Piece(Current, "clean")
      /\ DOMAIN eTail' = 1 .. Len(eTail) + 1
  BY <1>1, <1>2, <1>4, AppendProperties, LenProperties
<1>6. Current' = Current /\ InProgress' /\ Latest' = Current
  <2>1. Current' = Current
    BY <1>1 DEF Current
  <2>2. InProgress'
    BY <1>1, <1>4, <1>5, <2>1 DEF InProgress
  <2> QED BY <2>1, <2>2 DEF Latest
<1>7. Spoilt' <= Spoilt
  <2>1. CASE eTail = <<>>
    BY <1>2, <1>5, <1>6, <2>1 DEF Spoilt
  <2>2. CASE eTail # <<>>
    BY <1>3, <2>2 DEF Spoilt
  <2> QED BY <2>1, <2>2
<1>8. Sorted(All')
  <2>1. \A i \in DOMAIN All : \A j \in DOMAIN All[i] : All[i][j].event < Current
    BY <1>2, <1>3 DEF UpTo
  <2>2. \A j \in DOMAIN eTail : eTail'[j].event = eTail[j].event
    BY <1>2, <1>5
  <2> QED BY <1>1, <1>2, <1>4, <1>5, <2>1, <2>2, SortedAppend DEF All
<1>9. UpTo(All', Current)
  <2>1. ASSUME NEW j \in DOMAIN eTail' PROVE eTail'[j].event \in 1 .. Current
    <3>1. CASE j \in 1 .. Len(eTail)
      BY <1>2, <1>3, <1>5, <3>1
    <3>2. CASE j = Len(eTail) + 1
      BY <1>2, <1>4, <1>5, <3>2
    <3> QED BY <1>2, <1>5, <3>1, <3>2
  <2>2. Latest \in Nat /\ Latest <= Current
    BY <1>2, <1>3
  <2> QED BY <1>1, <1>2, <1>5, <2>1, <2>2, UpToTail DEF All
<1>10. LogTypes'
  BY <1>1, <1>4, <1>5, <1>6 DEF LogInv, LogTypes
<1>11. Cardinality(BadIn(eLines')) + Spoilt' <= eFaults'
  <2>1. /\ Cardinality(BadIn(eLines)) + Spoilt <= eFaults /\ Cardinality(BadIn(eLines)) \in Nat
        /\ Spoilt \in Nat /\ eFaults \in Nat /\ Spoilt' \in Nat
    BY LogNumbers DEF LogInv, Spoilt
  <2> QED BY <1>1, <1>7, <2>1
<1> QED BY <1>6, <1>8, <1>9, <1>10, <1>11 DEF LogInv, Sorted, UpTo

\* The last piece is completed, or cut off, or stays as it is.
LEMMA PieceReplaced ==
  ASSUME Log!HistoryAssumption, LogInv,
         Log!WriteRest \/ \E cut \in Log!Cuts \ {"no"} : Log!Break(cut)
  PROVE  LogInv'
<1>1. /\ eLines \in Files /\ eTail \in Seq(Pieces) /\ Current \in Nat \ {0}
      /\ eBatch \in Seq(Nat) /\ eNext \in Nat \ {0} /\ Len(eBatch) < eNext /\ Len(eBatch) \in Nat
      /\ eRetention \in eRetentions /\ eFaults \in 0 .. eMaxFaults
      /\ Len(eTail) \in Nat /\ DOMAIN eTail = 1 .. Len(eTail)
      /\ (eTail = <<>> <=> Len(eTail) = 0) /\ (eBatch = <<>> <=> Len(eBatch) = 0)
      /\ \A j \in DOMAIN eTail : eTail[j].event \in 1 .. Latest
      /\ Sorted(All) /\ UpTo(All, Latest)
      /\ Latest \in Nat /\ Spoilt \in {0, 1} /\ Cardinality(BadIn(eLines)) \in Nat
      /\ Cardinality(BadIn(eLines)) + Spoilt <= eFaults /\ eFaults \in Nat
      /\ eBatch # <<>> => Head(eBatch) = Current
  BY LogNumbers DEF LogInv, LogTypes
<1>2. ASSUME eTail' \in Seq(Pieces), Len(eTail') = Len(eTail), UNCHANGED eLines,
             \A j \in DOMAIN eTail : eTail'[j].event = eTail[j].event,
             NEW n \in Nat, Latest <= n
      PROVE  Sorted(All') /\ UpTo(All', n)
  <2>1. Sorted(All')
    BY <1>1, <1>2, SortedSame DEF All
  <2>2. \A j \in DOMAIN eTail' : eTail'[j].event \in 1 .. n
    <3>1. DOMAIN eTail' = DOMAIN eTail
      BY <1>1, <1>2, LenProperties
    <3>2. ASSUME NEW j \in DOMAIN eTail PROVE eTail'[j].event \in 1 .. n
      <4>1. eTail[j].event \in 1 .. Latest
        BY <1>1
      <4> QED BY <1>1, <1>2, <4>1
    <3> QED BY <3>1, <3>2
  <2>3. UpTo(Append(eLines, eTail'), n)
    BY <1>1, <1>2, <2>2, UpToTail DEF All
  <2> QED BY <1>2, <2>1, <2>3 DEF All
<1>3. CASE Log!WriteRest
  <2>1. /\ eBatch # <<>> /\ eTail # <<>> /\ eTail[Len(eTail)] = Log!Piece(Current, "clean")
        /\ eTail' = Append(Log!Front(eTail), Log!Piece(Current, "no"))
        /\ UNCHANGED <<eLines, eBatch, eRetention, eNext, eFaults>>
    BY <1>1, <1>3 DEF Log!WriteRest, Log!Last
  <2>2. /\ Log!Piece(Current, "no") \in Pieces /\ Log!Piece(Current, "no").event = Current
        /\ Log!Piece(Current, "no").cut = "no"
        /\ Log!Piece(Current, "clean").event = Current
    BY <1>1 DEF Pieces, Log!Piece, Log!Cuts
  <2>3. /\ eTail' \in Seq(Pieces) /\ Len(eTail') = Len(eTail) /\ eTail' # <<>>
        /\ eTail'[Len(eTail)] = Log!Piece(Current, "no")
        /\ \A j \in DOMAIN eTail : j # Len(eTail) => eTail'[j] = eTail[j]
    BY <1>1, <2>1, <2>2, LastReplaced
  <2>4. \A j \in DOMAIN eTail : eTail'[j].event = eTail[j].event
    BY <2>1, <2>2, <2>3
  <2>5. Current' = Current /\ InProgress /\ InProgress' /\ Latest' = Latest /\ Spoilt' = Spoilt
    <3>1. Current' = Current
      BY <2>1 DEF Current
    <3>2. InProgress /\ InProgress'
      BY <2>1, <2>2, <2>3, <3>1 DEF InProgress
    <3> QED BY <2>1, <2>3, <3>1, <3>2 DEF Latest, Spoilt
  <2>6. Sorted(All') /\ UpTo(All', Latest)
    BY <1>1, <1>2, <2>1, <2>3, <2>4
  <2>7. LogTypes'
    BY <2>1, <2>2, <2>3, <2>5 DEF LogInv, LogTypes
  <2>8. Cardinality(BadIn(eLines')) + Spoilt' <= eFaults'
    BY <1>1, <2>1, <2>5
  <2> QED BY <2>5, <2>6, <2>7, <2>8 DEF LogInv, Sorted, UpTo
<1>4. CASE \E cut \in Log!Cuts \ {"no"} : Log!Break(cut)
  <2>1. PICK cut \in Log!Cuts \ {"no"} : Log!Break(cut)
    BY <1>4
  <2>2. /\ eBatch # <<>> /\ eFaults < eMaxFaults /\ eFaults' = eFaults + 1 /\ eBatch' = <<>>
        /\ UNCHANGED <<eLines, eRetention, eNext>>
        /\ eTail' = IF eTail # <<>> /\ eTail[Len(eTail)].event = Current /\ ~Log!AtNewline
                    THEN Append(Log!Front(eTail), Log!Piece(Current, cut)) ELSE eTail
    BY <1>1, <2>1 DEF Log!Break, Log!Faulty, Log!Last
  <2>3. /\ Log!Piece(Current, cut) \in Pieces /\ Log!Piece(Current, cut).event = Current
    BY <1>1, <2>1 DEF Pieces, Log!Piece, Log!Cuts
  <2>4. /\ eTail' \in Seq(Pieces) /\ Len(eTail') = Len(eTail) /\ (eTail' = <<>> <=> eTail = <<>>)
        /\ \A j \in DOMAIN eTail : eTail'[j].event = eTail[j].event
    <3>1. CASE eTail # <<>> /\ eTail[Len(eTail)].event = Current /\ ~Log!AtNewline
      <4>1. eTail' = Append(Log!Front(eTail), Log!Piece(Current, cut))
        BY <2>2, <3>1
      <4>2. /\ eTail' \in Seq(Pieces) /\ Len(eTail') = Len(eTail) /\ eTail' # <<>>
            /\ eTail'[Len(eTail)] = Log!Piece(Current, cut)
            /\ \A j \in DOMAIN eTail : j # Len(eTail) => eTail'[j] = eTail[j]
        BY <1>1, <2>3, <3>1, <4>1, LastReplaced
      <4> QED BY <2>3, <3>1, <4>2
    <3>2. CASE ~(eTail # <<>> /\ eTail[Len(eTail)].event = Current /\ ~Log!AtNewline)
      BY <1>1, <2>2, <3>2
    <3> QED BY <3>1, <3>2
  <2>5. ~InProgress' /\ Current' = eNext /\ Latest' = eNext - 1 /\ eNext - 1 \in Nat
        /\ Latest <= eNext - 1
    <3>1. Len(<<>>) = 0
      OBVIOUS
    <3>2. ~InProgress' /\ Current' = eNext - 0
      BY <2>2, <3>1 DEF InProgress, Current
    <3>3. Latest <= Current /\ Current <= eNext - 1
      <4>1. Len(eBatch) \in Nat /\ Len(eBatch) # 0 /\ eNext \in Nat /\ Current \in Nat
        BY <1>1, <2>2
      <4>2. Current = eNext - Len(eBatch)
        BY DEF Current
      <4>3. Latest = Current \/ Latest = Current - 1
        BY DEF Latest
      <4> QED BY <4>1, <4>2, <4>3
    <3>4. Latest' = Current' - 1
      BY <3>2 DEF Latest
    <3> QED BY <1>1, <3>2, <3>3, <3>4
  <2>6. Sorted(All') /\ UpTo(All', Latest')
    BY <1>1, <1>2, <2>2, <2>4, <2>5
  <2>7. LogTypes'
    <3>1. <<>> \in Seq(Nat) /\ Len(<<>>) = 0 /\ DOMAIN <<>> = {}
      OBVIOUS
    <3>2. eFaults' \in 0 .. eMaxFaults
      BY <1>1, <2>2 DEF Log!HistoryAssumption
    <3>3. /\ eBatch' \in Seq(Nat) /\ Len(eBatch') = 0 /\ DOMAIN eBatch' = {}
      BY <2>2, <3>1
    <3>4. /\ eLines' \in Files /\ eTail' \in Seq(Pieces) /\ eRetention' \in eRetentions
          /\ eNext' \in Nat \ {0} /\ Len(eBatch') < eNext'
      <4>1. /\ eLines \in Files /\ eNext \in Nat \ {0} /\ eRetention \in eRetentions
        BY <1>1
      <4>2. /\ eLines' = eLines /\ eNext' = eNext /\ eRetention' = eRetention
        BY <2>2
      <4> QED BY <2>4, <3>3, <4>1, <4>2
    <3>5. \A i \in DOMAIN eBatch' : eBatch'[i] = Current' + i - 1
      BY <3>3
    <3> QED BY <2>5, <3>2, <3>3, <3>4, <3>5 DEF LogTypes
  <2>8. Cardinality(BadIn(eLines')) + Spoilt' <= eFaults'
    <3>1. Spoilt' \in {0, 1}
      BY DEF Spoilt
    <3> QED BY <1>1, <2>2, <3>1
  <2> QED BY <2>6, <2>7, <2>8 DEF LogInv, Sorted, UpTo
<1> QED BY <1>3, <1>4

\* The empty file of the beginning.
LEMMA LogInit == Log!HistoryAssumption /\ Log!Init => LogInv
<1> SUFFICES ASSUME Log!HistoryAssumption, Log!Init PROVE LogInv
  OBVIOUS
<1>1. /\ eLines = <<>> /\ eTail = <<>> /\ eBatch = <<>> /\ eRetention \in eRetentions
      /\ eNext = 1 /\ eFaults = 0 /\ eMaxFaults \in Nat
  BY DEF Log!Init, Log!HistoryAssumption
<1>2. /\ <<>> \in Files /\ <<>> \in Seq(Pieces) /\ <<>> \in Seq(Nat) /\ Len(<<>>) = 0
      /\ DOMAIN <<>> = {}
  BY DEF Files
<1>3. ~InProgress /\ Spoilt = 0
  BY <1>1 DEF InProgress, Spoilt
<1>4. LogTypes
  BY <1>1, <1>2, <1>3 DEF LogTypes
<1>5. Sorted(eLines)
  BY <1>1, <1>2 DEF Sorted
<1>6. Sorted(All)
  BY <1>1, <1>2, <1>5, SortedEmpty DEF All
<1>7. UpTo(All, Latest)
  <2>1. /\ DOMAIN All = 1 .. Len(eLines) + 1 /\ All[Len(eLines) + 1] = <<>>
    BY <1>1, <1>2, LineAppended DEF All
  <2>2. \A i \in DOMAIN All : All[i] = <<>>
    BY <1>1, <1>2, <2>1
  <2> QED BY <1>2, <2>2 DEF UpTo
<1>8. Cardinality(BadIn(eLines)) = 0
  <2>1. BadIn(eLines) = {}
    BY <1>1, <1>2 DEF BadIn
  <2> QED BY <2>1, FS_EmptySet
<1> QED BY <1>1, <1>3, <1>4, <1>6, <1>7, <1>8 DEF LogInv

\* Every step keeps the invariant.
LEMMA LogStep == Log!HistoryAssumption /\ LogInv /\ [Log!Next]_(Log!vars) => LogInv'
<1> SUFFICES ASSUME Log!HistoryAssumption, LogInv, [Log!Next]_(Log!vars) PROVE LogInv'
  OBVIOUS
<1>1. CASE \/ \E n \in 1 .. eMaxBatch : Log!Begin(n)
           \/ \E n \in eRetentions : Log!SetRetention(n)
  BY <1>1, BetweenBatches
<1>2. CASE Log!WritePart
  BY <1>2, PartWritten
<1>3. CASE Log!WriteRest \/ \E cut \in Log!Cuts \ {"no"} : Log!Break(cut)
  BY <1>3, PieceReplaced
<1>4. CASE Log!EndLine \/ Log!EndBatch \/ Log!CannotCompact \/ Log!CompactFails
  BY <1>4, LineSteps
<1>5. CASE UNCHANGED Log!vars
  <2>1. /\ eLines' = eLines /\ eTail' = eTail /\ eBatch' = eBatch /\ eRetention' = eRetention
        /\ eNext' = eNext /\ eFaults' = eFaults
    BY <1>5 DEF Log!vars
  <2>2. Current' = Current /\ All' = All
    BY <2>1 DEF Current, All
  <2>3. InProgress' <=> InProgress
    BY <2>1, <2>2 DEF InProgress
  <2>4. Latest' = Latest /\ Spoilt' = Spoilt
    BY <2>1, <2>2, <2>3 DEF Latest, Spoilt
  <2>5. LogTypes'
    BY <2>1, <2>2, <2>3 DEF LogInv, LogTypes
  <2>6. Sorted(All') /\ UpTo(All', Latest')
    BY <2>2, <2>4 DEF LogInv
  <2>7. Cardinality(BadIn(eLines')) + Spoilt' <= eFaults'
    BY <2>1, <2>4 DEF LogInv
  <2> QED BY <2>5, <2>6, <2>7 DEF LogInv, Sorted, UpTo
<1> QED BY <1>1, <1>2, <1>3, <1>4, <1>5 DEF Log!Next

\* A step is one of EventLog only if that part was chosen; else its variables stay.
LEMMA LogSteps == [Next]_vars => [Log!Next]_(Log!vars)
BY DEF Next, vars, tVars, wVars, cVars, fVars, eVars, aVars, dVars, pVars, rVars,
       ReaderOnly, WatchOnly, ConfigOnly, FeedOnly, LogOnly, AuditOnly, DialogsOnly,
       RulesOnly, RetriesOnly, Log!vars

\* The invariant of the event log holds in every reachable state.
LEMMA LogInvariant == Spec => []LogInv
<1>1. Init => LogInv
  BY LogInit, PartsAssumption DEF Init
<1>2. LogInv /\ [Next]_vars => LogInv'
  BY LogStep, LogSteps, PartsAssumption
<1> QED BY <1>1, <1>2, PTL DEF Spec

\* The events of a file and of the line that follows it.
LEMMA EventsAppended ==
  ASSUME NEW file \in Files, NEW line \in Seq(Pieces)
  PROVE  Log!EventsIn(Append(file, line))
           = Log!EventsIn(file) \cup {line[j].event : j \in DOMAIN line}
<1> DEFINE all == Append(file, line)
<1>1. /\ DOMAIN all = DOMAIN file \cup {Len(file) + 1} /\ all[Len(file) + 1] = line
      /\ \A i \in DOMAIN file : all[i] = file[i]
  BY LineAppended
<1> HIDE DEF all
<1>2. Log!EventsIn(all) = Log!EventsIn(file) \cup {line[j].event : j \in DOMAIN line}
  BY <1>1 DEF Log!EventsIn
<1> QED BY <1>2 DEF all

\* What a reader finds is what is in the file, and the unreadable lines are those
\* before the last newline and perhaps the one after it.
LEMMA FileRead ==
  Log!HistoryAssumption /\ LogInv =>
    /\ Log!EventsIn(Log!File) = Log!EventsIn(All)
    /\ Cardinality(BadIn(eLines)) <= eFaults
    /\ eBatch = <<>> => Cardinality(Log!Unreadable) <= eFaults
<1> SUFFICES ASSUME Log!HistoryAssumption, LogInv
             PROVE  /\ Log!EventsIn(Log!File) = Log!EventsIn(All)
                    /\ Cardinality(BadIn(eLines)) <= eFaults
                    /\ eBatch = <<>> => Cardinality(Log!Unreadable) <= eFaults
  OBVIOUS
<1>1. /\ eLines \in Files /\ eTail \in Seq(Pieces) /\ Spoilt \in {0, 1}
      /\ Cardinality(BadIn(eLines)) + Spoilt <= eFaults /\ eFaults \in Nat
      /\ Cardinality(BadIn(eLines)) \in Nat
      /\ (eTail # <<>> => Log!File = All) /\ (eTail = <<>> => Log!File = eLines)
  BY LogNumbers DEF LogInv, LogTypes
<1>2. Log!Unreadable = BadIn(Log!File)
  BY DEF Log!Unreadable, BadIn
<1>3. CASE eTail = <<>>
  <2>1. {eTail[j].event : j \in DOMAIN eTail} = {}
    BY <1>3
  <2>2. Log!EventsIn(All) = Log!EventsIn(eLines)
    BY <1>1, <2>1, EventsAppended DEF All
  <2> QED BY <1>1, <1>2, <1>3, <2>2
<1>4. CASE eTail # <<>>
  <2>1. eBatch = <<>> => Spoilt = 1
    BY <1>4 DEF Spoilt, InProgress
  <2>2. Cardinality(BadIn(All)) = Cardinality(BadIn(eLines)) + Bad(eTail)
    BY <1>1, BadAppended DEF All
  <2>3. Bad(eTail) \in {0, 1}
    BY DEF Bad
  <2> QED BY <1>1, <1>2, <1>4, <2>1, <2>2, <2>3
<1> QED BY <1>3, <1>4

\* Only a compaction takes events out of the file.
LEMMA EventsStay ==
  ASSUME Log!HistoryAssumption, LogInv, [Log!Next]_(Log!vars),
         ~(Log!EndBatch /\ Log!TooMany(Log!File))
  PROVE  Log!EventsIn(All) \subseteq Log!EventsIn(All')
<1> DEFINE in(line) == {line[j].event : j \in DOMAIN line}
<1>1. eLines \in Files /\ eTail \in Seq(Pieces) /\ Current \in Nat \ {0}
      /\ (eBatch # <<>> => Head(eBatch) = Current)
  BY LogNumbers DEF LogInv, LogTypes
<1>2. ASSUME eLines' = eLines, eTail' \in Seq(Pieces), in(eTail) \subseteq in(eTail')
      PROVE  Log!EventsIn(All) \subseteq Log!EventsIn(All')
  <2>1. /\ Log!EventsIn(All) = Log!EventsIn(eLines) \cup in(eTail)
        /\ Log!EventsIn(Append(eLines, eTail')) = Log!EventsIn(eLines) \cup in(eTail')
    BY <1>1, <1>2, EventsAppended DEF All
  <2>2. All' = Append(eLines, eTail')
    BY <1>2 DEF All
  <2> QED BY <1>2, <2>1, <2>2
<1>3. CASE \/ \E n \in 1 .. eMaxBatch : Log!Begin(n)
           \/ \E n \in eRetentions : Log!SetRetention(n)
           \/ UNCHANGED Log!vars
  <2>1. eLines' = eLines /\ eTail' = eTail
    BY <1>3 DEF Log!Begin, Log!SetRetention, Log!vars
  <2> QED BY <1>1, <1>2, <2>1
<1>4. CASE Log!WritePart
  <2>1. eLines' = eLines /\ eTail' = Append(eTail, Log!Piece(Current, "clean"))
    BY <1>1, <1>4 DEF Log!WritePart
  <2>2. Log!Piece(Current, "clean") \in Pieces
    BY <1>1 DEF Pieces, Log!Piece, Log!Cuts
  <2>3. /\ eTail' \in Seq(Pieces) /\ DOMAIN eTail \subseteq DOMAIN eTail'
        /\ \A j \in DOMAIN eTail : eTail'[j] = eTail[j]
    BY <1>1, <2>1, <2>2, AppendProperties, LenProperties
  <2> QED BY <1>2, <2>1, <2>3
<1>5. CASE Log!WriteRest \/ \E cut \in Log!Cuts \ {"no"} : Log!Break(cut)
  <2>1. /\ eLines' = eLines /\ eBatch # <<>>
        /\ \/ eTail' = eTail
           \/ /\ eTail # <<>> /\ eTail[Len(eTail)].event = Head(eBatch)
              /\ \E cut \in Log!Cuts :
                   eTail' = Append(Log!Front(eTail), Log!Piece(Head(eBatch), cut))
    <3>1. Log!Piece(Head(eBatch), "clean").event = Head(eBatch)
      BY DEF Log!Piece
    <3> QED BY <1>5, <3>1 DEF Log!WriteRest, Log!Break, Log!Last, Log!Cuts
  <2>2. CASE eTail' = eTail
    BY <1>1, <1>2, <2>1, <2>2
  <2>3. CASE eTail # <<>> /\ eTail[Len(eTail)].event = Head(eBatch)
             /\ \E cut \in Log!Cuts :
                  eTail' = Append(Log!Front(eTail), Log!Piece(Head(eBatch), cut))
    <3>1. PICK cut \in Log!Cuts :
            eTail' = Append(Log!Front(eTail), Log!Piece(Head(eBatch), cut))
      BY <2>3
    <3>2. /\ Log!Piece(Head(eBatch), cut) \in Pieces
          /\ Log!Piece(Head(eBatch), cut).event = Head(eBatch)
      BY <1>1, <2>1 DEF Pieces, Log!Piece
    <3>3. /\ eTail' \in Seq(Pieces) /\ DOMAIN eTail' = DOMAIN eTail
          /\ eTail'[Len(eTail)] = Log!Piece(Head(eBatch), cut)
          /\ \A j \in DOMAIN eTail : j # Len(eTail) => eTail'[j] = eTail[j]
      <4>1. Len(eTail') = Len(eTail) /\ eTail' \in Seq(Pieces)
        BY <1>1, <2>3, <3>1, <3>2, LastReplaced
      <4> QED BY <1>1, <2>3, <3>1, <3>2, <4>1, LastReplaced, LenProperties
    <3>4. \A j \in DOMAIN eTail : eTail'[j].event = eTail[j].event
      BY <2>3, <3>2, <3>3
    <3> QED BY <1>2, <2>1, <3>3, <3>4
  <2> QED BY <2>1, <2>2, <2>3
<1>6. CASE Log!EndLine \/ Log!EndBatch \/ Log!CannotCompact \/ Log!CompactFails
  <2>1. eLines' = Log!File /\ eTail' = <<>> /\ Log!AtNewline
    BY <1>6 DEF Log!EndLine, Log!EndBatch, Log!CannotCompact, Log!CompactFails
  <2>2. Log!File = All /\ All \in Files
    BY <2>1, WholeLine
  <2>3. <<>> \in Seq(Pieces)
    OBVIOUS
  <2>4. All' = Append(All, <<>>)
    BY <2>1, <2>2 DEF All
  <2>5. Log!EventsIn(Append(All, <<>>)) = Log!EventsIn(All) \cup in(<<>>)
    BY <2>2, <2>3, EventsAppended
  <2> QED BY <2>4, <2>5
<1> QED BY <1>3, <1>4, <1>5, <1>6 DEF Log!Next

\* The instance counts as this module does.
LEMMA SameCount == \A S : Log!Cardinality(S) = Cardinality(S)
BY DEF Log!Cardinality, Cardinality

\* What leaves the history of the engine is older than everything that stays, and
\* the retention stays; each fault makes at most one line unreadable, and without
\* faults everything is readable whenever no append is under way: for any
\* retentions, batches and number of events and faults.
THEOREM HistoryIsKept == Spec => HistoryKept
<1>1. ASSUME LogInv, LogInv', [Log!Next]_(Log!vars) PROVE Log!Kept
  <2>1. Log!HistoryAssumption
    BY PartsAssumption
  <2>2. Log!EventsIn(Log!File) = Log!EventsIn(All)
    BY <1>1, <2>1, FileRead
  <2>3. /\ Log!EventsIn(Log!File') = Log!EventsIn(All')
        /\ Cardinality(BadIn(eLines')) <= eFaults'
        /\ eBatch' = <<>> => Cardinality(Log!Unreadable') <= eFaults'
    <3>1. (Log!HistoryAssumption /\ LogInv =>
             /\ Log!EventsIn(Log!File) = Log!EventsIn(All)
             /\ Cardinality(BadIn(eLines)) <= eFaults
             /\ eBatch = <<>> => Cardinality(Log!Unreadable) <= eFaults)'
      BY FileRead, PTL
    <3> QED BY <1>1, <2>1, <3>1
  <2>4. Cardinality({i \in DOMAIN eLines' : ~Log!Readable(eLines'[i])}) <= eFaults'
    BY <2>3 DEF BadIn
  <2>5. CASE ~(Log!EndBatch /\ Log!TooMany(Log!File))
    <3>1. Log!EventsIn(Log!File) \ Log!EventsIn(Log!File') = {}
      BY <1>1, <2>1, <2>2, <2>3, <2>5, EventsStay
    <3> QED BY <2>3, <2>4, <3>1, SameCount DEF Log!Kept
  <2>6. CASE Log!EndBatch /\ Log!TooMany(Log!File)
    <3>1. /\ Log!File = All /\ All \in Files /\ Sorted(All) /\ eRetention \in Nat
          /\ eLines' = Log!Compacted(All) /\ eTail' = <<>>
      BY <1>1, <2>1, <2>6, WholeLine, LogNumbers DEF Log!EndBatch
    <3>2. Len(All) >= eRetention
      <4>1. Len(All) \in Nat /\ eRetention \in Nat
        BY <1>1, <2>1, LogNumbers
      <4> QED BY <2>6, <3>1, <4>1 DEF Log!TooMany
    <3>3. Log!File' = Log!Compacted(All)
      BY <3>1 DEF Log!File
    <3>4. Len(Log!File') >= eRetention
      BY <3>1, <3>2, <3>3, CompactedLines
    <3>5. \A gone \in Log!EventsIn(Log!File) \ Log!EventsIn(Log!File') :
            \A kept \in Log!EventsIn(Log!File') : gone < kept
      BY <3>1, <3>2, <3>3, CompactedSorted
    <3> QED BY <2>3, <2>4, <3>4, <3>5, SameCount DEF Log!Kept
  <2> QED BY <2>5, <2>6
<1>2. LogInv /\ LogInv' /\ [Next]_vars => [Log!Kept]_(Log!vars)
  BY <1>1, LogSteps
<1> QED BY <1>2, LogInvariant, PTL DEF Spec, HistoryKept, Log!HistoryKept

\* The types of the event log, and that each event is in it at most once.
LEMMA LogTyped == Log!HistoryAssumption /\ LogInv => Log!TypeOK
<1> SUFFICES ASSUME Log!HistoryAssumption, LogInv PROVE Log!TypeOK
  OBVIOUS
<1>1. /\ eLines \in Files /\ All \in Files /\ Sorted(All) /\ UpTo(All, Latest)
      /\ (eTail # <<>> => Log!File = All) /\ (eTail = <<>> => Log!File = eLines)
      /\ eRetention \in eRetentions /\ eFaults \in 0 .. eMaxFaults
  BY LogNumbers DEF LogInv, LogTypes
<1>2. Latest \in Nat /\ Latest <= eNext - 1 /\ eNext \in Nat
  <2>1. Len(eBatch) \in Nat /\ Current \in Nat /\ eNext \in Nat
    BY LogNumbers DEF LogInv, LogTypes
  <2>2. InProgress => Len(eBatch) # 0
    BY LogNumbers DEF InProgress
  <2>3. Current = eNext - Len(eBatch) /\ Latest = IF InProgress THEN Current ELSE Current - 1
    BY DEF Current, Latest
  <2>4. Latest \in Nat
    BY LogNumbers
  <2> QED BY <2>1, <2>2, <2>3, <2>4
<1>3. DOMAIN Log!File \subseteq DOMAIN All /\ \A i \in DOMAIN Log!File : Log!File[i] = All[i]
  <2>1. eTail \in Seq(Pieces)
    BY DEF LogInv, LogTypes
  <2>2. CASE eTail = <<>>
    <3>1. DOMAIN eLines \subseteq DOMAIN All /\ \A i \in DOMAIN eLines : All[i] = eLines[i]
      BY <1>1, <2>1, LineAppended DEF All
    <3> QED BY <1>1, <2>2, <3>1
  <2>3. CASE eTail # <<>>
    BY <1>1, <2>3
  <2> QED BY <2>2, <2>3
<1>4. Log!File \in Files
  BY <1>1
<1>5. ASSUME NEW i \in DOMAIN Log!File, NEW j \in DOMAIN Log!File[i]
      PROVE  Log!File[i][j].event \in 1 .. eNext - 1 /\ Log!File[i][j].cut \in Log!Cuts
  <2>1. Log!File[i][j].event \in 1 .. Latest
    BY <1>1, <1>3 DEF UpTo
  <2>2. Log!File[i] \in Seq(Pieces)
    BY <1>4, LenProperties, ElementOfSeq DEF Files
  <2>3. Log!File[i][j] \in Pieces
    BY <2>2, LenProperties, ElementOfSeq
  <2> QED BY <1>2, <2>1, <2>3 DEF Pieces
<1>6. \A i, k \in DOMAIN Log!File : \A j \in DOMAIN Log!File[i], l \in DOMAIN Log!File[k] :
        i < k \/ (i = k /\ j < l) => Log!File[i][j].event < Log!File[k][l].event
  BY <1>1, <1>3 DEF Sorted
<1> QED BY <1>1, <1>5, <1>6 DEF Log!TypeOK

-----------------------------------------------------------------------------
(* The transcripts.                                                        *)

\* Records that show no date.
Undated == {0, Reader!Bad}
Records == Seq(0 .. Reader!Bad)

\* The dates of a transcript come in their order.
Orderly(records) ==
  \A i, j \in 1 .. Len(records) :
    i <= j /\ records[i] \notin Undated /\ records[j] \notin Undated => records[i] <= records[j]

\* An entry of the provider says of the first n records what must be known of
\* them: their latest date, and doubt if one that cannot be read comes last.
Knows(entry, records, n) ==
  /\ entry.updated # 0 => \E i \in 1 .. n : entry.updated = records[i] /\ records[i] \notin Undated
  /\ \A i \in 1 .. n : records[i] \notin Undated => records[i] <= entry.updated
  /\ \A b \in 1 .. n :
       records[b] = Reader!Bad /\ (\A i \in b .. n : records[i] \in Undated) => entry.uncertain

\* Types of an entry of the provider and of a file that is open.
Entries == [offset : Nat, modified : 0 .. tMaxTime, identity : 0 .. tMaxFiles,
            uncertain : BOOLEAN, updated : 0 .. tMaxTime]

Handles == [open : BOOLEAN, identity : 0 .. tMaxFiles, modified : 0 .. tMaxTime, size : Nat,
            records : Records, torn : BOOLEAN]

TranscriptTypes ==
  /\ tNow \in 1 .. tMaxTime
  /\ tFile \in [identity : 1 .. tMaxFiles, modified : 1 .. tMaxTime, records : Records,
                torn : BOOLEAN]
  /\ Len(tFile.records) <= tMaxRecords
  /\ tCache \in Entries
  /\ \E n \in 0 .. tMaxRecords : tCache.offset = 2 * n
  /\ tHandle \in Handles
  /\ Len(tHandle.records) <= tMaxRecords

\* No record is dated in the future.
DatesInv ==
  /\ Orderly(tFile.records) /\ Orderly(tHandle.records)
  /\ \A i \in 1 .. Len(tFile.records) :
       tFile.records[i] \notin Undated => tFile.records[i] <= tNow

\* What the refresh has opened still begins with the records it saw.
HandleInv ==
  tHandle.open =>
    /\ 1 <= tHandle.identity /\ tHandle.identity <= tFile.identity
    /\ \E n \in 0 .. Len(tHandle.records) :
         /\ tHandle.size = 2 * n \/ tHandle.size = 2 * n + 1
         /\ tHandle.identity = tFile.identity =>
              /\ n <= Len(tFile.records)
              /\ \A i \in 1 .. n : tFile.records[i] = tHandle.records[i]

\* The offset is the end of one of the records, and the entry knows those before it.
Covers(records) ==
  \E n \in 0 .. Len(records) : tCache.offset = 2 * n /\ Knows(tCache, records, n)

\* The entry is about the file of its identity, as long as that can be read.
KnownInv ==
  /\ tCache.identity <= tFile.identity
  /\ tCache.identity = tFile.identity => Covers(tFile.records)
  /\ tHandle.open /\ tCache.identity = tHandle.identity => Covers(Reader!Content.records)

TranscriptInv == TranscriptTypes /\ DatesInv /\ HandleInv /\ KnownInv

-----------------------------------------------------------------------------
\* A bounded set of numbers has a greatest one, which Max finds.
LEMMA Greatest ==
  ASSUME NEW S \in SUBSET Nat, S # {}, NEW m \in Nat, \A s \in S : s <= m
  PROVE  Reader!Max(S) \in S /\ \A y \in S : Reader!Max(S) >= y
<1> DEFINE Gaps == {m - s : s \in S}
<1>1. \A s \in S : s \in Nat /\ m - s \in Nat
  OBVIOUS
<1>2. Gaps \subseteq Nat /\ Gaps # {}
  BY <1>1
<1>3. PICK g \in Gaps : \A h \in Gaps : ~(<<h, g>> \in OpToRel(<, Nat))
  BY <1>2, WFMin, NatLessThanWellFounded
<1>4. \A h \in Gaps : ~(h < g)
  BY <1>2, <1>3 DEF OpToRel
<1>5. PICK x \in S : g = m - x
  OBVIOUS
<1>6. ASSUME NEW y \in S PROVE x >= y
  <2>1. ~(m - y < m - x)
    BY <1>4, <1>5
  <2> QED BY <1>1, <2>1
<1>7. \E z \in S : \A y \in S : z >= y
  BY <1>6
<1> QED BY <1>7 DEF Reader!Max

\* The numbers that stand for records.
LEMMA RecordNumbers ==
  ASSUME Reader!RecordAssumption
  PROVE  /\ Reader!Bad \in Nat /\ Reader!Bad = tMaxTime + 1 /\ tMaxTime \in Nat \ {0}
         /\ \A r \in 0 .. Reader!Bad : r \notin Undated => r \in 1 .. tMaxTime
BY DEF Reader!RecordAssumption, Reader!Bad, Undated

\* The records of a file.
LEMMA RecordElements ==
  ASSUME NEW records \in Records
  PROVE  /\ Len(records) \in Nat /\ DOMAIN records = 1 .. Len(records)
         /\ \A i \in 1 .. Len(records) : records[i] \in 0 .. Reader!Bad
BY ElementOfSeq, LenProperties DEF Records

\* The records after the first ones.
LEMMA Sliced ==
  ASSUME NEW records \in Records, NEW from \in 0 .. Len(records), NEW n \in from .. Len(records)
  PROVE  /\ Len(SubSeq(records, from + 1, n)) = n - from
         /\ DOMAIN SubSeq(records, from + 1, n) = 1 .. n - from
         /\ \A i \in 1 .. n - from : SubSeq(records, from + 1, n)[i] = records[from + i]
<1> DEFINE rest == SubSeq(records, from + 1, n)
<1>1. Len(records) \in Nat /\ \A i \in 1 .. Len(records) : records[i] \in 0 .. Reader!Bad
  BY RecordElements
<1>2. \A i \in from + 1 .. n : records[i] \in 0 .. Reader!Bad
  BY <1>1
<1>3. /\ rest \in Seq(0 .. Reader!Bad)
      /\ Len(rest) = IF from + 1 <= n THEN n - (from + 1) + 1 ELSE 0
      /\ \A i \in 1 .. n - (from + 1) + 1 : rest[i] = records[from + 1 + i - 1]
  <2>1. from + 1 \in Int /\ n \in Int
    BY <1>1
  <2> QED BY <1>2, <2>1, SubSeqProperties
<1> HIDE DEF rest
<1>4. Len(rest) = n - from /\ DOMAIN rest = 1 .. Len(rest)
  BY <1>1, <1>3
<1>5. \A i \in 1 .. n - from : rest[i] = records[from + i]
  <2> SUFFICES ASSUME NEW i \in 1 .. n - from PROVE rest[i] = records[from + i]
    OBVIOUS
  <2>1. i \in 1 .. n - (from + 1) + 1 /\ from + 1 + i - 1 = from + i
    BY <1>1
  <2> QED BY <1>3, <2>1
<1> QED BY <1>4, <1>5 DEF rest

\* An entry that knows the records up to one is brought up to a later one.
Updates(read, entry, records, from, n) ==
  /\ records \in Records /\ from \in 0 .. Len(records) /\ n \in from .. Len(records)
  /\ entry \in Entries /\ Knows(entry, records, from)
  /\ read = Reader!Parsed(entry, SubSeq(records, from + 1, n))

\* read_to_end and the fold over its records: then it knows those up to the later one.
LEMMA Parsing ==
  ASSUME Reader!RecordAssumption,
         NEW records, NEW from, NEW n, NEW entry, NEW read,
         Updates(read, entry, records, from, n)
  PROVE  /\ Knows(read, records, n)
         /\ read \in Entries /\ read.identity = entry.identity
<1> DEFINE rest == SubSeq(records, from + 1, n)
<1>0. /\ records \in Records /\ from \in 0 .. Len(records) /\ n \in from .. Len(records)
      /\ entry \in Entries /\ Knows(entry, records, from)
      /\ read = Reader!Parsed(entry, rest)
  BY DEF Updates
<1> DEFINE dated == {i \in DOMAIN rest : rest[i] \notin Undated}
           dates == {entry.updated} \cup {rest[i] : i \in dated}
           doubt == \/ \E b \in DOMAIN rest :
                         rest[b] = Reader!Bad /\ \A i \in dated : i < b
                    \/ entry.uncertain /\ dated = {}
<1>1. read = [entry EXCEPT !.updated = Reader!Max(dates), !.uncertain = doubt]
  BY <1>0 DEF Reader!Parsed, Undated
<1>2. /\ Len(records) \in Nat /\ from \in Nat /\ n \in Nat /\ from <= n /\ n <= Len(records)
      /\ DOMAIN rest = 1 .. n - from
      /\ \A i \in 1 .. n - from : rest[i] = records[from + i]
      /\ \A i \in 1 .. Len(records) : records[i] \in 0 .. Reader!Bad
  <2>1. Len(records) \in Nat /\ \A i \in 1 .. Len(records) : records[i] \in 0 .. Reader!Bad
    BY <1>0, RecordElements
  <2> QED BY <1>0, <2>1, Sliced
<1>3. /\ entry.updated \in 0 .. tMaxTime /\ entry.uncertain \in BOOLEAN /\ tMaxTime \in Nat
      /\ Reader!Bad \in Nat
      /\ \A r \in 0 .. Reader!Bad : r \notin Undated => r \in 1 .. tMaxTime
  BY <1>0, RecordNumbers DEF Entries
<1> HIDE DEF rest
<1>4. \A i \in dated : i \in 1 .. n - from /\ rest[i] \in 1 .. tMaxTime
  <2> SUFFICES ASSUME NEW i \in dated PROVE i \in 1 .. n - from /\ rest[i] \in 1 .. tMaxTime
    OBVIOUS
  <2>1. i \in 1 .. n - from /\ from + i \in 1 .. Len(records) /\ rest[i] = records[from + i]
    BY <1>2
  <2> QED BY <1>2, <1>3, <2>1
<1>5. dates \in SUBSET Nat /\ dates # {} /\ (\A d \in dates : d <= tMaxTime)
  BY <1>3, <1>4
<1>6. /\ Reader!Max(dates) \in dates
      /\ \A d \in dates : Reader!Max(dates) >= d
  BY <1>3, <1>5, Greatest
<1>7. /\ read.updated = Reader!Max(dates) /\ read.uncertain = doubt
      /\ read = [entry EXCEPT !.updated = read.updated, !.uncertain = read.uncertain]
  <2> HIDE DEF dates, doubt
  <2> QED BY <1>0, <1>1 DEF Entries
<1>8. /\ read.updated \in dates /\ read.updated \in 0 .. tMaxTime
      /\ \A d \in dates : read.updated >= d
      /\ read.uncertain \in BOOLEAN
  <2>1. Reader!Max(dates) \in Nat /\ Reader!Max(dates) <= tMaxTime
    BY <1>5, <1>6
  <2>2. doubt \in BOOLEAN
    BY <1>3
  <2> HIDE DEF dates, doubt
  <2> QED BY <1>3, <1>6, <1>7, <2>1, <2>2
<1>9. read.updated # 0 =>
        \E i \in 1 .. n : read.updated = records[i] /\ records[i] \notin Undated
  <2> SUFFICES ASSUME read.updated # 0
               PROVE  \E i \in 1 .. n : read.updated = records[i] /\ records[i] \notin Undated
    OBVIOUS
  <2>1. CASE read.updated = entry.updated
    <3>1. PICK i \in 1 .. from : entry.updated = records[i] /\ records[i] \notin Undated
      BY <2>1, <1>0 DEF Knows
    <3>2. i \in 1 .. n
      BY <1>2
    <3> QED BY <2>1, <3>1, <3>2
  <2>2. ASSUME NEW i \in dated, read.updated = rest[i]
        PROVE  \E k \in 1 .. n : read.updated = records[k] /\ records[k] \notin Undated
    <3>1. i \in 1 .. n - from /\ rest[i] \notin Undated /\ rest[i] = records[from + i]
      BY <1>2, <1>4
    <3>2. from + i \in 1 .. n
      BY <1>2, <3>1
    <3> QED BY <2>2, <3>1, <3>2
  <2> QED BY <1>8, <2>1, <2>2
<1>10. ASSUME NEW i \in 1 .. n, records[i] \notin Undated
       PROVE  records[i] <= read.updated
  <2>0. i \in 1 .. Len(records) /\ records[i] \in Nat
    BY <1>2, <1>3
  <2>1. CASE i <= from
    <3>1. records[i] <= entry.updated
      BY <1>0, <1>2, <1>10, <2>1 DEF Knows
    <3>2. read.updated >= entry.updated /\ read.updated \in Nat /\ entry.updated \in Nat
      BY <1>3, <1>8
    <3> HIDE DEF dates
    <3> QED BY <2>0, <3>1, <3>2
  <2>2. CASE ~(i <= from)
    <3>1. i - from \in 1 .. n - from /\ from + (i - from) = i
      BY <1>2, <2>2
    <3>2. rest[i - from] = records[i] /\ i - from \in dated
      BY <1>2, <1>10, <3>1
    <3>3. records[i] \in dates
      BY <3>2
    <3> QED BY <1>8, <2>0, <3>3
  <2> QED BY <2>1, <2>2
<1>11. ASSUME NEW b \in 1 .. n, records[b] = Reader!Bad,
              \A i \in b .. n : records[i] \in Undated
       PROVE  read.uncertain
  <2>1. CASE b <= from
    <3>1. dated = {}
      <4> SUFFICES ASSUME NEW i \in dated PROVE FALSE
        OBVIOUS
      <4>1. i \in 1 .. n - from /\ rest[i] = records[from + i] /\ rest[i] \notin Undated
        BY <1>2, <1>4
      <4>2. from + i \in b .. n
        BY <1>2, <2>1, <4>1
      <4> QED BY <1>11, <4>1, <4>2
    <3>2. b \in 1 .. from /\ \A i \in b .. from : i \in b .. n
      BY <1>2, <2>1
    <3>3. entry.uncertain
      BY <1>0, <1>11, <3>2 DEF Knows
    <3> QED BY <1>7, <3>1, <3>3
  <2>2. CASE ~(b <= from)
    <3>1. /\ b - from \in 1 .. n - from /\ from + (b - from) = b
      BY <1>2, <2>2
    <3>2. rest[b - from] = Reader!Bad /\ b - from \in DOMAIN rest
      BY <1>2, <1>11, <3>1
    <3>3. \A i \in dated : i < b - from
      <4> SUFFICES ASSUME NEW i \in dated, ~(i < b - from) PROVE FALSE
        OBVIOUS
      <4>1. i \in 1 .. n - from /\ rest[i] = records[from + i] /\ rest[i] \notin Undated
        BY <1>2, <1>4
      <4>2. from + i \in b .. n
        BY <1>2, <3>1, <4>1
      <4> QED BY <1>11, <4>1, <4>2
    <3>4. doubt
      BY <3>2, <3>3
    <3> QED BY <1>7, <3>4
  <2> QED BY <2>1, <2>2
<1>12. Knows(read, records, n)
  BY <1>9, <1>10, <1>11 DEF Knows
<1>13. read \in Entries /\ read.identity = entry.identity
  BY <1>0, <1>7, <1>8 DEF Entries
<1> QED BY <1>12, <1>13

\* The dates of records.
LEMMA DatesOf ==
  ASSUME NEW records, NEW d
  PROVE  d \in Reader!Dates(records)
           <=> \E i \in DOMAIN records : d = records[i] /\ records[i] \notin Undated
BY DEF Reader!Dates, Undated

\* An entry without doubt, of at least the records that were there at the look,
\* has a date that is right for them: it is a date of the file and none of them is
\* later, and if the last ones cannot be read then it is of a record after them.
LEMMA NothingForgotten ==
  ASSUME Reader!RecordAssumption,
         NEW records \in Records, Orderly(records),
         NEW seen, NEW later, NEW s \in 0 .. Len(records), NEW n \in s .. Len(records),
         DOMAIN seen = 1 .. s, \A i \in 1 .. s : seen[i] = records[i],
         DOMAIN later = 1 .. Len(records) - s,
         \A i \in 1 .. Len(records) - s : later[i] = records[s + i],
         NEW entry, Knows(entry, records, n), ~entry.uncertain, entry.updated # 0
  PROVE  /\ entry.updated >= Reader!Latest(seen)
         /\ entry.updated \in Reader!Dates(records)
         /\ (\E b \in DOMAIN seen :
               seen[b] = Reader!Bad /\ \A i \in b .. Len(seen) : seen[i] \in Undated)
              => entry.updated \in Reader!Dates(later)
<1>1. /\ Len(records) \in Nat /\ s \in Nat /\ n \in Nat /\ s <= n /\ n <= Len(records)
      /\ DOMAIN records = 1 .. Len(records)
      /\ \A i \in 1 .. Len(records) : records[i] \in 0 .. Reader!Bad
  BY RecordElements
<1>2. /\ tMaxTime \in Nat
      /\ \A r \in 0 .. Reader!Bad : r \notin Undated => r \in 1 .. tMaxTime
  BY RecordNumbers
<1>3. PICK top \in 1 .. n : entry.updated = records[top] /\ records[top] \notin Undated
  BY DEF Knows
<1>4. entry.updated \in 1 .. tMaxTime /\ top \in 1 .. Len(records)
  BY <1>1, <1>2, <1>3
<1>5. entry.updated \in Reader!Dates(records)
  BY <1>1, <1>3, <1>4, DatesOf
<1>6. entry.updated >= Reader!Latest(seen)
  <2>1. CASE Reader!Dates(seen) = {}
    BY <1>4, <2>1 DEF Reader!Latest
  <2>2. CASE Reader!Dates(seen) # {}
    <3>1. ASSUME NEW d \in Reader!Dates(seen)
          PROVE  d \in Nat /\ d <= tMaxTime /\ d <= entry.updated
      <4>1. PICK i \in DOMAIN seen : d = seen[i] /\ seen[i] \notin Undated
        BY <3>1, DatesOf
      <4>2. i \in 1 .. s /\ i \in 1 .. n /\ i \in 1 .. Len(records) /\ d = records[i]
        BY <1>1, <4>1
      <4>3. records[i] \in 0 .. Reader!Bad /\ records[i] \notin Undated
        BY <1>1, <4>1, <4>2
      <4>4. records[i] \in 1 .. tMaxTime
        BY <1>2, <4>3
      <4>5. records[i] <= entry.updated
        BY <4>2, <4>3 DEF Knows
      <4> QED BY <1>2, <4>2, <4>4, <4>5
    <3>2. Reader!Dates(seen) \in SUBSET Nat
      BY <3>1
    <3>3. Reader!Max(Reader!Dates(seen)) \in Reader!Dates(seen)
      BY <1>2, <2>2, <3>1, <3>2, Greatest
    <3>4. Reader!Latest(seen) = Reader!Max(Reader!Dates(seen))
      BY <2>2 DEF Reader!Latest
    <3>5. Reader!Latest(seen) \in Nat /\ Reader!Latest(seen) <= entry.updated
      BY <3>1, <3>3, <3>4
    <3> QED BY <1>2, <1>4, <3>5
  <2> QED BY <2>1, <2>2
<1>7. ASSUME NEW b \in DOMAIN seen, seen[b] = Reader!Bad,
             \A i \in b .. Len(seen) : seen[i] \in Undated
      PROVE  entry.updated \in Reader!Dates(later)
  <2>1. b \in 1 .. s /\ b \in 1 .. n /\ records[b] = Reader!Bad
    BY <1>1, <1>7
  <2>2. \A i \in b .. s : records[i] \in Undated
    <3> SUFFICES ASSUME NEW i \in b .. s PROVE records[i] \in Undated
      OBVIOUS
    <3>1. i \in 1 .. s /\ seen[i] = records[i]
      BY <1>1, <2>1
    <3>2. Len(seen) = s
      OBVIOUS
    <3> QED BY <1>7, <3>1, <3>2
  <2>3. PICK i \in b .. n : records[i] \notin Undated
    BY <2>1 DEF Knows
  <2>4. i \in s + 1 .. n /\ i \in 1 .. Len(records)
    BY <1>1, <2>1, <2>2, <2>3
  <2>5. records[i] \in 1 .. tMaxTime /\ records[i] <= entry.updated
    <3>1. records[i] \in 1 .. tMaxTime
      BY <1>1, <1>2, <2>3, <2>4
    <3>2. i \in 1 .. n
      BY <1>1, <2>4
    <3> QED BY <2>3, <3>1, <3>2 DEF Knows
  <2>6. PICK k \in s + 1 .. n : records[k] = entry.updated /\ records[k] \notin Undated
    <3>1. CASE top > s
      <4>1. top \in s + 1 .. n
        BY <1>1, <3>1
      <4> QED BY <1>3, <4>1
    <3>2. CASE ~(top > s)
      <4>1. top <= i
        BY <1>1, <2>4, <3>2
      <4>2. records[top] <= records[i]
        BY <1>3, <1>4, <2>3, <2>4, <4>1 DEF Orderly
      <4>3. records[i] = entry.updated
        BY <1>2, <1>3, <1>4, <2>5, <4>2
      <4> QED BY <2>3, <2>4, <4>3
    <3> QED BY <3>1, <3>2
  <2>7. k - s \in 1 .. Len(records) - s /\ s + (k - s) = k
    BY <1>1, <2>6
  <2>8. later[k - s] = records[k]
    BY <2>7
  <2> QED BY <2>6, <2>7, <2>8, DatesOf
<1> QED BY <1>5, <1>6, <1>7

\* What is known of records depends on them, the date and the doubt.
LEMMA KnowsSame ==
  ASSUME NEW entry, NEW records, NEW n, Knows(entry, records, n),
         NEW other, other.updated = entry.updated, entry.uncertain => other.uncertain,
         NEW copy, \A i \in 1 .. n : copy[i] = records[i]
  PROVE  Knows(other, copy, n)
<1>1. other.updated # 0 =>
        \E i \in 1 .. n : other.updated = copy[i] /\ copy[i] \notin Undated
  BY DEF Knows
<1>2. \A i \in 1 .. n : copy[i] \notin Undated => copy[i] <= other.updated
  BY DEF Knows
<1>3. ASSUME NEW b \in 1 .. n, copy[b] = Reader!Bad, \A i \in b .. n : copy[i] \in Undated
      PROVE  other.uncertain
  <2>1. \A i \in b .. n : i \in 1 .. n
    OBVIOUS
  <2>2. records[b] = Reader!Bad /\ \A i \in b .. n : records[i] \in Undated
    BY <1>3, <2>1
  <2> QED BY <2>2 DEF Knows
<1> QED BY <1>1, <1>2, <1>3 DEF Knows

\* What the refresh reads.
LEMMA ContentFacts ==
  ASSUME TranscriptInv, tHandle.open
  PROVE  /\ Reader!Content.records \in Records
         /\ Len(Reader!Content.records) <= tMaxRecords
         /\ Orderly(Reader!Content.records)
         /\ tHandle.identity \in 1 .. tFile.identity /\ tFile.identity \in 1 .. tMaxFiles
         /\ \E s \in 0 .. Len(Reader!Content.records) :
              /\ s = tHandle.size \div 2 /\ s <= Len(tHandle.records)
              /\ tHandle.size \in {2 * s, 2 * s + 1}
              /\ \A i \in 1 .. s : tHandle.records[i] = Reader!Content.records[i]
<1>1. /\ tFile.records \in Records /\ tHandle.records \in Records
      /\ Len(tFile.records) <= tMaxRecords /\ Len(tHandle.records) <= tMaxRecords
      /\ tFile.identity \in 1 .. tMaxFiles /\ tHandle.identity \in 0 .. tMaxFiles
      /\ Orderly(tFile.records) /\ Orderly(tHandle.records)
      /\ 1 <= tHandle.identity /\ tHandle.identity <= tFile.identity
  BY DEF TranscriptInv, TranscriptTypes, DatesInv, HandleInv, Handles
<1>2. Reader!Content = IF tHandle.identity = tFile.identity THEN tFile ELSE tHandle
  BY DEF Reader!Content
<1>3. Len(tFile.records) \in Nat /\ Len(tHandle.records) \in Nat
  BY <1>1, RecordElements
<1>4. PICK s \in 0 .. Len(tHandle.records) :
        /\ tHandle.size = 2 * s \/ tHandle.size = 2 * s + 1
        /\ tHandle.identity = tFile.identity =>
             /\ s <= Len(tFile.records)
             /\ \A i \in 1 .. s : tFile.records[i] = tHandle.records[i]
  BY DEF TranscriptInv, HandleInv
<1>5. s = tHandle.size \div 2
  BY <1>3, <1>4
<1>6. /\ s \in 0 .. Len(Reader!Content.records) /\ s <= Len(tHandle.records)
      /\ \A i \in 1 .. s : tHandle.records[i] = Reader!Content.records[i]
  BY <1>2, <1>3, <1>4
<1>7. tHandle.size \in {2 * s, 2 * s + 1}
  BY <1>4
<1> QED BY <1>1, <1>2, <1>3, <1>5, <1>6, <1>7

\* read_new_records: what the entry knows after it has read up to the n-th record.
LEMMA ReadKnows ==
  ASSUME Reader!RecordAssumption, TranscriptInv, tHandle.open,
         NEW n \in Reader!From .. Len(Reader!Content.records)
  PROVE  /\ Reader!ReadTo(n) \in Entries
         /\ Reader!ReadTo(n).offset = 2 * n /\ Reader!ReadTo(n).identity = tHandle.identity
         /\ Knows(Reader!ReadTo(n), Reader!Content.records, n)
         /\ n \in 0 .. Len(Reader!Content.records)
<1> DEFINE records == Reader!Content.records
           entry == [tCache EXCEPT !.identity = tHandle.identity,
                                   !.updated = IF Reader!FromStart THEN 0 ELSE @]
           read == Reader!Parsed(entry, SubSeq(records, Reader!From + 1, n))
<1>1. /\ records \in Records /\ Len(records) \in Nat
      /\ tHandle.identity \in 0 .. tMaxFiles /\ tMaxTime \in Nat
  BY ContentFacts, RecordElements, RecordNumbers DEF Reader!RecordAssumption
<1>2. tCache \in Entries
  BY DEF TranscriptInv, TranscriptTypes
<1>3. /\ entry \in Entries /\ entry.identity = tHandle.identity
      /\ entry.updated = (IF Reader!FromStart THEN 0 ELSE tCache.updated)
      /\ entry.uncertain = tCache.uncertain
  <2> DEFINE updated == IF Reader!FromStart THEN 0 ELSE tCache.updated
  <2>1. updated \in 0 .. tMaxTime
    BY <1>1, <1>2 DEF Entries
  <2>2. entry = [tCache EXCEPT !.identity = tHandle.identity, !.updated = updated]
    OBVIOUS
  <2> HIDE DEF updated, entry
  <2>3. /\ entry \in Entries /\ entry.identity = tHandle.identity
        /\ entry.updated = updated /\ entry.uncertain = tCache.uncertain
    BY <1>1, <1>2, <2>1, <2>2 DEF Entries
  <2> QED BY <2>3 DEF updated
<1>4. Reader!From \in 0 .. Len(records) /\ Knows(entry, records, Reader!From)
  <2>1. CASE Reader!FromStart
    <3>1. Reader!From = 0 /\ entry.updated = 0
      BY <1>3, <2>1 DEF Reader!From
    <3>2. Knows(entry, records, 0)
      BY <3>1 DEF Knows
    <3> QED BY <1>1, <3>1, <3>2
  <2>2. CASE ~Reader!FromStart
    <3>1. tCache.identity = tHandle.identity
      BY <2>2 DEF Reader!FromStart
    <3>2. PICK k \in 0 .. Len(records) : tCache.offset = 2 * k /\ Knows(tCache, records, k)
      BY <3>1 DEF TranscriptInv, KnownInv, Covers
    <3>3. Reader!From = k
      BY <1>1, <2>2, <3>2 DEF Reader!From
    <3>4. entry.updated = tCache.updated
      BY <1>3, <2>2
    <3>5. Knows(entry, records, k)
      BY <1>3, <3>2, <3>4, KnowsSame
    <3> QED BY <3>3, <3>5
  <2> QED BY <2>1, <2>2
<1>5. n \in 0 .. Len(records) /\ n \in Reader!From .. Len(records)
  BY <1>1, <1>4
<1>6. Reader!ReadTo(n) = [read EXCEPT !.offset = 2 * n]
  BY DEF Reader!ReadTo, Reader!Offset
<1> HIDE DEF entry, records
<1>7. /\ Knows(read, records, n)
      /\ read \in Entries /\ read.identity = tHandle.identity
  <2> DEFINE rest == SubSeq(records, Reader!From + 1, n)
  <2>1. read = Reader!Parsed(entry, rest)
    OBVIOUS
  <2>2. rest = SubSeq(records, Reader!From + 1, n)
    OBVIOUS
  <2> HIDE DEF read, rest
  <2>3. entry \in Entries
    BY <1>3
  <2>4. Updates(read, entry, records, Reader!From, n)
    BY <1>1, <1>4, <1>5, <2>1, <2>2, <2>3 DEF Updates
  <2>5. Knows(read, records, n) /\ read \in Entries /\ read.identity = entry.identity
    BY <2>4, Parsing
  <2> QED BY <1>3, <2>5
<1> HIDE DEF read
<1>9. /\ Reader!ReadTo(n) \in Entries /\ Reader!ReadTo(n).offset = 2 * n
      /\ Reader!ReadTo(n).identity = tHandle.identity
      /\ Reader!ReadTo(n).updated = read.updated
      /\ Reader!ReadTo(n).uncertain = read.uncertain
  BY <1>1, <1>5, <1>6, <1>7 DEF Entries
<1>10. Knows(Reader!ReadTo(n), records, n)
  BY <1>7, <1>9, KnowsSame
<1> QED BY <1>5, <1>9, <1>10 DEF records

\* A refresh that ends with what it knows of the file it has opened, or with the
\* old entry and doubt.
LEMMA RefreshEnds ==
  ASSUME Reader!RecordAssumption, TranscriptInv, tHandle.open,
         tHandle' = Reader!Closed, UNCHANGED <<tNow, tFile>>, tCache' \in Entries,
         \E entry \in Entries :
           /\ tCache'.offset = entry.offset /\ tCache'.identity = entry.identity
           /\ tCache'.updated = entry.updated /\ (entry.uncertain => tCache'.uncertain)
           /\ \/ entry = tCache
              \/ /\ entry.identity = tHandle.identity
                 /\ \E n \in 0 .. Len(Reader!Content.records) :
                      entry.offset = 2 * n /\ Knows(entry, Reader!Content.records, n)
  PROVE  TranscriptInv'
<1> DEFINE records == Reader!Content.records
<1>1. /\ records \in Records /\ Len(records) \in Nat /\ Len(records) <= tMaxRecords
      /\ tHandle.identity \in 1 .. tFile.identity /\ tFile.identity \in 1 .. tMaxFiles
      /\ tMaxRecords \in Nat /\ tMaxFiles \in Nat /\ tMaxTime \in Nat
      /\ (tHandle.identity = tFile.identity => records = tFile.records)
  BY ContentFacts, RecordElements DEF Reader!RecordAssumption, Reader!Content
<1>2. PICK entry \in Entries :
           /\ tCache'.offset = entry.offset /\ tCache'.identity = entry.identity
           /\ tCache'.updated = entry.updated /\ (entry.uncertain => tCache'.uncertain)
           /\ \/ entry = tCache
              \/ /\ entry.identity = tHandle.identity
                 /\ \E n \in 0 .. Len(records) : entry.offset = 2 * n /\ Knows(entry, records, n)
  OBVIOUS
<1> HIDE DEF records
<1>3. /\ \E n \in 0 .. tMaxRecords : entry.offset = 2 * n
      /\ entry.identity <= tFile.identity
      /\ entry.identity = tFile.identity =>
           \E n \in 0 .. Len(tFile.records) :
             entry.offset = 2 * n /\ Knows(entry, tFile.records, n)
  <2>1. CASE entry = tCache
    BY <2>1 DEF TranscriptInv, TranscriptTypes, KnownInv, Covers
  <2>2. CASE /\ entry.identity = tHandle.identity
             /\ \E n \in 0 .. Len(records) : entry.offset = 2 * n /\ Knows(entry, records, n)
    BY <1>1, <2>2
  <2> QED BY <1>2, <2>1, <2>2
<1>4. /\ tHandle' \in Handles
      /\ Len(tHandle'.records) <= tMaxRecords /\ ~tHandle'.open /\ Orderly(tHandle'.records)
  <2>1. <<>> \in Records /\ Len(<<>>) = 0
    BY DEF Records
  <2>2. Orderly(<<>>)
    BY DEF Orderly
  <2> QED BY <1>1, <2>1, <2>2 DEF Handles, Reader!Closed
<1>5. TranscriptTypes'
  BY <1>2, <1>3, <1>4 DEF TranscriptInv, TranscriptTypes, Records, Entries, Handles
<1>6. DatesInv'
  BY <1>4 DEF TranscriptInv, DatesInv
<1>7. HandleInv'
  BY <1>4 DEF HandleInv
<1>8. KnownInv'
  <2>1. tCache'.identity = tFile.identity => Covers(tFile.records)'
    <3> SUFFICES ASSUME tCache'.identity = tFile.identity PROVE Covers(tFile.records)'
      OBVIOUS
    <3>1. PICK n \in 0 .. Len(tFile.records) :
             entry.offset = 2 * n /\ Knows(entry, tFile.records, n)
      BY <1>2, <1>3
    <3>2. Knows(tCache', tFile.records, n)
      BY <1>2, <3>1, KnowsSame
    <3>3. tCache'.offset = 2 * n /\ tFile' = tFile
      BY <1>2, <3>1
    <3>4. Knows(tCache', tFile'.records, n) /\ n \in 0 .. Len(tFile'.records)
      BY <3>2, <3>3
    <3>5. Knows(tCache, tFile.records, n)'
      BY <3>4 DEF Knows
    <3> QED BY <3>3, <3>4, <3>5 DEF Covers
  <2> QED BY <1>2, <1>3, <1>4, <2>1 DEF KnownInv
<1> QED BY <1>5, <1>6, <1>7, <1>8 DEF TranscriptInv

\* The empty file.
LEMMA NoRecords ==
  ASSUME Reader!RecordAssumption
  PROVE  /\ <<>> \in Records /\ Len(<<>>) = 0 /\ Orderly(<<>>)
         /\ Reader!Closed \in Handles /\ ~Reader!Closed.open /\ Reader!Closed.records = <<>>
BY DEF Records, Orderly, Handles, Reader!Closed, Reader!RecordAssumption

\* Initially nothing is written and nothing known.
LEMMA TranscriptInit == Reader!RecordAssumption /\ Reader!Init => TranscriptInv
<1> SUFFICES ASSUME Reader!RecordAssumption, Reader!Init PROVE TranscriptInv
  OBVIOUS
<1>1. /\ <<>> \in Records /\ Len(<<>>) = 0 /\ Orderly(<<>>)
      /\ tHandle \in Handles /\ ~tHandle.open /\ tHandle.records = <<>>
  BY NoRecords DEF Reader!Init
<1>2. tMaxTime \in Nat \ {0} /\ tMaxRecords \in Nat \ {0} /\ tMaxFiles \in Nat \ {0}
  BY DEF Reader!RecordAssumption
<1>3. /\ tNow = 1 /\ tFile = [identity |-> 1, modified |-> 1, records |-> <<>>, torn |-> FALSE]
      /\ tCache = [offset |-> 0, modified |-> 0, identity |-> 0, uncertain |-> FALSE,
                   updated |-> 0]
  BY DEF Reader!Init
<1>4. TranscriptTypes
  BY <1>1, <1>2, <1>3 DEF TranscriptTypes, Handles, Entries
<1>5. DatesInv /\ HandleInv /\ KnownInv
  BY <1>1, <1>2, <1>3 DEF DatesInv, HandleInv, KnownInv
<1> QED BY <1>4, <1>5 DEF TranscriptInv

\* The clock goes on, or a part of a record is written.
LEMMA FileStays ==
  ASSUME Reader!RecordAssumption, TranscriptInv, Reader!Tick \/ Reader!Tear
  PROVE  TranscriptInv'
<1>1. /\ tNow' \in 1 .. tMaxTime /\ tNow' >= tNow /\ tCache' = tCache /\ tHandle' = tHandle
      /\ tFile' \in [identity : 1 .. tMaxFiles, modified : 1 .. tMaxTime, records : Records,
                     torn : BOOLEAN]
      /\ tFile'.records = tFile.records /\ tFile'.identity = tFile.identity
  <2>1. /\ tNow \in 1 .. tMaxTime /\ tMaxTime \in Nat
        /\ tFile \in [identity : 1 .. tMaxFiles, modified : 1 .. tMaxTime, records : Records,
                       torn : BOOLEAN]
    BY RecordNumbers DEF TranscriptInv, TranscriptTypes
  <2>2. CASE Reader!Tick
    BY <2>1, <2>2 DEF Reader!Tick
  <2>3. CASE Reader!Tear
    <3>1. /\ tFile' = [tFile EXCEPT !.torn = TRUE, !.modified = tNow]
          /\ tNow' = tNow /\ tCache' = tCache /\ tHandle' = tHandle
      BY <2>3 DEF Reader!Tear
    <3>2. /\ tFile' \in [identity : 1 .. tMaxFiles, modified : 1 .. tMaxTime,
                          records : Records, torn : BOOLEAN]
          /\ tFile'.records = tFile.records /\ tFile'.identity = tFile.identity
      BY <2>1, <3>1
    <3>3. tNow' >= tNow
      BY <2>1, <3>1
    <3> QED BY <2>1, <3>1, <3>2, <3>3
  <2> QED BY <2>2, <2>3
<1>2. TranscriptTypes'
  BY <1>1 DEF TranscriptInv, TranscriptTypes, Records, Entries, Handles
<1>3. /\ Len(tFile.records) \in Nat /\ tNow \in Nat /\ tMaxTime \in Nat
      /\ \A i \in 1 .. Len(tFile.records) : tFile.records[i] \in 0 .. Reader!Bad
      /\ Reader!Bad \in Nat
  BY RecordElements, RecordNumbers DEF TranscriptInv, TranscriptTypes
<1>4. DatesInv'
  <2>1. \A i \in 1 .. Len(tFile'.records) :
          tFile'.records[i] \notin Undated => tFile'.records[i] <= tNow'
    <3> SUFFICES ASSUME NEW i \in 1 .. Len(tFile.records), tFile.records[i] \notin Undated
                 PROVE  tFile.records[i] <= tNow'
      BY <1>1
    <3>1. tFile.records[i] <= tNow
      BY DEF TranscriptInv, DatesInv
    <3>2. tFile.records[i] \in Nat /\ tNow' \in Nat
      BY <1>1, <1>3
    <3> QED BY <1>1, <1>3, <3>1, <3>2
  <2> QED BY <1>1, <2>1 DEF TranscriptInv, DatesInv, Undated
<1>5. HandleInv'
  BY <1>1 DEF TranscriptInv, HandleInv
<1>6. KnownInv'
  <2>1. Reader!Content'.records = Reader!Content.records
    BY <1>1 DEF Reader!Content
  <2> QED BY <1>1, <2>1 DEF TranscriptInv, KnownInv, Covers, Knows
<1> QED BY <1>2, <1>4, <1>5, <1>6 DEF TranscriptInv

\* What covers a file covers it when more is written.
LEMMA CoversLonger ==
  ASSUME NEW records, NEW longer, Len(records) \in Nat, Len(longer) \in Nat,
         Len(records) <= Len(longer),
         \A i \in 1 .. Len(records) : longer[i] = records[i],
         Covers(records)
  PROVE  Covers(longer)
<1>1. PICK n \in 0 .. Len(records) : tCache.offset = 2 * n /\ Knows(tCache, records, n)
  BY DEF Covers
<1>2. \A i \in 1 .. n : longer[i] = records[i]
  BY <1>1
<1>3. Knows(tCache, longer, n)
  BY <1>1, <1>2, KnowsSame
<1> QED BY <1>1, <1>3 DEF Covers

\* A record is written: it is dated now, if at all.
LEMMA RecordWritten ==
  ASSUME Reader!RecordAssumption, TranscriptInv, NEW record \in {0, tNow, Reader!Bad},
         Reader!Write(record)
  PROVE  TranscriptInv'
<1> DEFINE new == Append(tFile.records, record)
<1>1. /\ tNow \in 1 .. tMaxTime /\ Len(tFile.records) < tMaxRecords
      /\ tNow' = tNow /\ tCache' = tCache /\ tHandle' = tHandle
      /\ tFile.records \in Records /\ tFile.identity \in 1 .. tMaxFiles
      /\ tFile' = [tFile EXCEPT !.records = new, !.torn = FALSE, !.modified = tNow]
      /\ tFile \in [identity : 1 .. tMaxFiles, modified : 1 .. tMaxTime, records : Records,
                    torn : BOOLEAN]
  BY DEF TranscriptInv, TranscriptTypes, Reader!Write
<1>2. /\ tMaxTime \in Nat /\ Reader!Bad \in Nat /\ tNow \in Nat /\ tMaxRecords \in Nat
      /\ record \in 0 .. Reader!Bad /\ (record \notin Undated => record = tNow)
      /\ Len(tFile.records) \in Nat
      /\ \A i \in 1 .. Len(tFile.records) : tFile.records[i] \in 0 .. Reader!Bad
  <2>1. tMaxTime \in Nat /\ Reader!Bad \in Nat /\ Reader!Bad = tMaxTime + 1
    BY RecordNumbers
  <2>2. /\ Len(tFile.records) \in Nat
        /\ \A i \in 1 .. Len(tFile.records) : tFile.records[i] \in 0 .. Reader!Bad
    BY <1>1, RecordElements
  <2> QED BY <1>1, <2>1, <2>2 DEF Undated, Reader!RecordAssumption
<1>3. /\ new \in Records /\ Len(new) = Len(tFile.records) + 1
      /\ new[Len(tFile.records) + 1] = record
      /\ \A i \in 1 .. Len(tFile.records) : new[i] = tFile.records[i]
  BY <1>1, <1>2, AppendProperties DEF Records
<1> HIDE DEF new
<1>4. /\ tFile' \in [identity : 1 .. tMaxFiles, modified : 1 .. tMaxTime, records : Records,
                     torn : BOOLEAN]
      /\ tFile'.records = new /\ tFile'.identity = tFile.identity
  BY <1>1, <1>2, <1>3
<1>5. TranscriptTypes'
  <2>1. Len(tFile'.records) <= tMaxRecords
    BY <1>1, <1>2, <1>3, <1>4
  <2> QED BY <1>1, <1>4, <2>1 DEF TranscriptInv, TranscriptTypes, Records, Entries, Handles
<1>6. DatesInv'
  <2>1. \A i \in 1 .. Len(new) : new[i] \notin Undated => new[i] <= tNow
    <3> SUFFICES ASSUME NEW i \in 1 .. Len(new), new[i] \notin Undated PROVE new[i] <= tNow
      OBVIOUS
    <3>1. CASE i = Len(tFile.records) + 1
      BY <1>2, <1>3, <3>1
    <3>2. CASE i # Len(tFile.records) + 1
      <4>1. i \in 1 .. Len(tFile.records)
        BY <1>2, <1>3, <3>2
      <4> QED BY <1>3, <4>1 DEF TranscriptInv, DatesInv
    <3> QED BY <3>1, <3>2
  <2>2. Orderly(new)
    <3> SUFFICES ASSUME NEW i \in 1 .. Len(new), NEW j \in 1 .. Len(new), i <= j,
                        new[i] \notin Undated, new[j] \notin Undated
                 PROVE  new[i] <= new[j]
      BY DEF Orderly
    <3>1. CASE j = Len(tFile.records) + 1
      <4>1. new[j] = tNow
        BY <1>2, <1>3, <3>1
      <4> QED BY <2>1, <4>1
    <3>2. CASE j # Len(tFile.records) + 1
      <4>1. i \in 1 .. Len(tFile.records) /\ j \in 1 .. Len(tFile.records)
        BY <1>2, <1>3, <3>2
      <4>2. new[i] = tFile.records[i] /\ new[j] = tFile.records[j]
        BY <1>3, <4>1
      <4>3. Orderly(tFile.records)
        BY DEF TranscriptInv, DatesInv
      <4> QED BY <4>1, <4>2, <4>3 DEF Orderly
    <3> QED BY <3>1, <3>2
  <2> QED BY <1>1, <1>4, <2>1, <2>2 DEF TranscriptInv, DatesInv, Orderly, Undated
<1>7. HandleInv'
  <2> SUFFICES ASSUME tHandle.open PROVE HandleInv'
    BY <1>1 DEF HandleInv
  <2>1. PICK n \in 0 .. Len(tHandle.records) :
         /\ tHandle.size = 2 * n \/ tHandle.size = 2 * n + 1
         /\ tHandle.identity = tFile.identity =>
              /\ n <= Len(tFile.records)
              /\ \A i \in 1 .. n : tFile.records[i] = tHandle.records[i]
    BY DEF TranscriptInv, HandleInv
  <2>2. n \in Nat
    BY <2>1
  <2>3. tHandle.identity = tFile.identity =>
              /\ n <= Len(new)
              /\ \A i \in 1 .. n : new[i] = tHandle.records[i]
    BY <1>2, <1>3, <2>1, <2>2
  <2> QED BY <1>1, <1>4, <2>1, <2>3 DEF TranscriptInv, HandleInv
<1>8. KnownInv'
  <2>1. Len(new) \in Nat /\ Len(tFile.records) <= Len(new)
    BY <1>2, <1>3
  <2>2. Covers(tFile.records) => Covers(new)
    BY <1>2, <1>3, <2>1, CoversLonger
  <2>3. /\ Reader!Content.records
             = (IF tHandle.identity = tFile.identity THEN tFile.records ELSE tHandle.records)
        /\ Reader!Content'.records
             = (IF tHandle.identity = tFile.identity THEN new ELSE tHandle.records)
    BY <1>1, <1>4 DEF Reader!Content
  <2>4. tHandle.open /\ tCache.identity = tHandle.identity
          => Covers(IF tHandle.identity = tFile.identity THEN new ELSE tHandle.records)
    BY <2>2, <2>3 DEF TranscriptInv, KnownInv
  <2> QED BY <1>1, <1>4, <2>2, <2>3, <2>4 DEF TranscriptInv, KnownInv, Covers, Knows
<1> QED BY <1>5, <1>6, <1>7, <1>8 DEF TranscriptInv

\* Another file takes the place of the one at the path: what was known is about the
\* old one, which whoever has it open reads to its end.
LEMMA FileReplaced ==
  ASSUME Reader!RecordAssumption, TranscriptInv, NEW records,
         records = <<>> \/ \E record \in {0, tNow, Reader!Bad} : records = <<record>>,
         Reader!Replace(records)
  PROVE  TranscriptInv'
<1>1. /\ tNow \in 1 .. tMaxTime /\ tNow' = tNow /\ tCache' = tCache
      /\ tFile.identity \in 1 .. tMaxFiles /\ tFile.identity < tMaxFiles
      /\ tFile.records \in Records /\ Len(tFile.records) <= tMaxRecords
      /\ tFile.torn \in BOOLEAN /\ tHandle \in Handles /\ Len(tHandle.records) <= tMaxRecords
      /\ Orderly(tFile.records) /\ Orderly(tHandle.records)
      /\ tFile' = [identity |-> tFile.identity + 1, modified |-> tNow, records |-> records,
                   torn |-> FALSE]
      /\ tHandle' = IF tHandle.open /\ tHandle.identity = tFile.identity
                    THEN [tHandle EXCEPT !.records = tFile.records, !.torn = tFile.torn]
                    ELSE tHandle
  BY DEF TranscriptInv, TranscriptTypes, DatesInv, Handles, Reader!Replace
<1>2. /\ tMaxTime \in Nat /\ Reader!Bad \in Nat /\ Reader!Bad = tMaxTime + 1
      /\ tMaxRecords \in Nat \ {0} /\ tMaxFiles \in Nat
  BY RecordNumbers DEF Reader!RecordAssumption
<1>3. /\ records \in Records /\ Len(records) \in {0, 1}
      /\ \A i \in 1 .. Len(records) : records[i] \notin Undated => records[i] = tNow
      /\ Orderly(records)
  <2>1. CASE records = <<>>
    BY <2>1, NoRecords
  <2>2. ASSUME NEW record \in {0, tNow, Reader!Bad}, records = <<record>>
        PROVE  <1>3
    <3>1. record \in 0 .. Reader!Bad /\ (record \notin Undated => record = tNow)
      BY <1>1, <1>2 DEF Undated
    <3>2. Len(records) = 1 /\ records[1] = record /\ records \in Records
      BY <2>2, <3>1 DEF Records
    <3>3. \A i \in 1 .. Len(records) : i = 1
      BY <3>2
    <3>4. tNow <= tNow
      BY <1>1
    <3> QED BY <3>1, <3>2, <3>3, <3>4 DEF Orderly
  <2> QED BY <2>1, <2>2
<1>4. /\ tHandle' \in Handles /\ tHandle'.open = tHandle.open
      /\ tHandle'.identity = tHandle.identity /\ tHandle'.size = tHandle.size
      /\ tHandle'.records = IF tHandle.open /\ tHandle.identity = tFile.identity
                            THEN tFile.records ELSE tHandle.records
  BY <1>1 DEF Handles
<1>5. TranscriptTypes'
  <2>1. tFile' \in [identity : 1 .. tMaxFiles, modified : 1 .. tMaxTime, records : Records,
                    torn : BOOLEAN]
    BY <1>1, <1>2, <1>3
  <2>2. Len(tFile'.records) <= tMaxRecords /\ Len(tHandle'.records) <= tMaxRecords
    <3>1. tFile'.records = records
      BY <1>1
    <3>3. Len(records) <= tMaxRecords
      <4>1. tMaxRecords \in Nat /\ tMaxRecords >= 1 /\ tMaxRecords >= 0
        BY <1>2
      <4>2. Len(records) = 0 \/ Len(records) = 1
        BY <1>3
      <4>3. CASE Len(records) = 0
        BY <4>1, <4>3
      <4>4. CASE Len(records) = 1
        BY <4>1, <4>4
      <4> QED BY <4>2, <4>3, <4>4
    <3>2. Len(tHandle'.records) <= tMaxRecords
      BY <1>1, <1>4
    <3> QED BY <3>1, <3>2, <3>3
  <2> QED BY <1>1, <1>4, <2>1, <2>2 DEF TranscriptInv, TranscriptTypes, Handles, Records, Entries
<1>6. DatesInv'
  <2>1. \A i \in 1 .. Len(records) : records[i] \notin Undated => records[i] <= tNow
    BY <1>1, <1>2, <1>3
  <2>2. Orderly(tHandle'.records)
    BY <1>1, <1>4
  <2> QED BY <1>1, <1>3, <2>1, <2>2 DEF DatesInv, Orderly, Undated
<1>7. HandleInv'
  <2> SUFFICES ASSUME tHandle.open PROVE HandleInv'
    BY <1>4 DEF HandleInv
  <2>1. /\ 1 <= tHandle.identity /\ tHandle.identity <= tFile.identity
        /\ tHandle.identity \in Nat /\ tFile.identity \in Nat
    BY <1>1, <1>2 DEF TranscriptInv, HandleInv, Handles
  <2>2. PICK n \in 0 .. Len(tHandle.records) :
         /\ tHandle.size = 2 * n \/ tHandle.size = 2 * n + 1
         /\ tHandle.identity = tFile.identity =>
              /\ n <= Len(tFile.records)
              /\ \A i \in 1 .. n : tFile.records[i] = tHandle.records[i]
    BY DEF TranscriptInv, HandleInv
  <2>3. n \in 0 .. Len(tHandle'.records)
    <3>1. Len(tFile.records) \in Nat
      BY <1>1, RecordElements
    <3> QED BY <1>4, <2>2, <3>1
  <2>4. tFile'.identity = tFile.identity + 1
    BY <1>1
  <2>5. tHandle'.identity # tFile'.identity /\ tHandle'.identity <= tFile'.identity
    BY <1>4, <2>1, <2>4
  <2> QED BY <1>4, <2>1, <2>2, <2>3, <2>5 DEF HandleInv
<1>8. KnownInv'
  <2>1. /\ tCache.identity <= tFile.identity /\ tCache.identity \in Nat
        /\ tFile.identity \in Nat /\ tFile'.identity = tFile.identity + 1
    BY <1>1, <1>2 DEF TranscriptInv, TranscriptTypes, KnownInv, Entries
  <2>2. tCache.identity <= tFile'.identity /\ tCache.identity # tFile'.identity
    BY <2>1
  <2>3. tHandle.open => Reader!Content'.records = Reader!Content.records
    <3>1. tHandle.open => tHandle'.identity # tFile'.identity
      BY <1>1, <1>2, <1>4, <2>1 DEF TranscriptInv, HandleInv, Handles
    <3> QED BY <1>4, <3>1 DEF Reader!Content
  <2> QED BY <1>1, <1>4, <2>2, <2>3 DEF TranscriptInv, KnownInv, Covers, Knows
<1> QED BY <1>5, <1>6, <1>7, <1>8 DEF TranscriptInv

\* The refresh opens the file at the path, and sees its size.
LEMMA FileLookedAt ==
  ASSUME Reader!RecordAssumption, TranscriptInv, Reader!Look
  PROVE  TranscriptInv'
<1>1. /\ tNow' = tNow /\ tFile' = tFile /\ tCache' = tCache
      /\ tHandle' = [open |-> TRUE, identity |-> tFile.identity, modified |-> tFile.modified,
                     size |-> Reader!Size(tFile), records |-> tFile.records, torn |-> tFile.torn]
      /\ tFile \in [identity : 1 .. tMaxFiles, modified : 1 .. tMaxTime, records : Records,
                    torn : BOOLEAN]
      /\ Len(tFile.records) <= tMaxRecords /\ Orderly(tFile.records)
      /\ tMaxTime \in Nat /\ tMaxFiles \in Nat
  BY DEF TranscriptInv, TranscriptTypes, DatesInv, Reader!Look, Reader!RecordAssumption
<1>2. Len(tFile.records) \in Nat
  BY <1>1, RecordElements
<1>3. /\ Reader!Size(tFile) \in Nat
      /\ \/ Reader!Size(tFile) = 2 * Len(tFile.records)
         \/ Reader!Size(tFile) = 2 * Len(tFile.records) + 1
  BY <1>1, <1>2 DEF Reader!Size
<1>4. /\ tHandle' \in Handles /\ tHandle'.records = tFile.records
      /\ tHandle'.identity = tFile.identity /\ tHandle'.size = Reader!Size(tFile)
  BY <1>1, <1>3 DEF Handles
<1>5. TranscriptTypes'
  BY <1>1, <1>4 DEF TranscriptInv, TranscriptTypes, Handles, Records, Entries
<1>6. DatesInv'
  BY <1>1, <1>4 DEF TranscriptInv, DatesInv, Orderly, Undated
<1>7. HandleInv'
  <2>1. Len(tFile.records) \in 0 .. Len(tFile.records) /\ Len(tFile.records) <= Len(tFile.records)
    BY <1>2
  <2>2. 1 <= tFile.identity /\ tFile.identity <= tFile.identity
    BY <1>1
  <2> QED BY <1>1, <1>3, <1>4, <2>1, <2>2 DEF HandleInv
<1>8. KnownInv'
  <2>1. Reader!Content'.records = tFile.records
    BY <1>1, <1>4 DEF Reader!Content
  <2> QED BY <1>1, <1>4, <2>1 DEF TranscriptInv, KnownInv, Covers, Knows
<1> QED BY <1>5, <1>6, <1>7, <1>8 DEF TranscriptInv

\* A read can go on to the end of what is in the file.
LEMMA WholeFileReadable ==
  ASSUME TranscriptInv, tHandle.open
  PROVE  Len(Reader!Content.records) \in Reader!From .. Len(Reader!Content.records)
<1>1. Len(Reader!Content.records) \in Nat
  BY ContentFacts, RecordElements
<1>2. CASE Reader!FromStart
  BY <1>1, <1>2 DEF Reader!From
<1>3. CASE ~Reader!FromStart
  <2>1. Covers(Reader!Content.records)
    BY <1>3 DEF TranscriptInv, KnownInv, Reader!FromStart
  <2>2. PICK k \in 0 .. Len(Reader!Content.records) : tCache.offset = 2 * k
    BY <2>1 DEF Covers
  <2>3. Reader!From = k
    BY <1>1, <1>3, <2>2 DEF Reader!From
  <2> QED BY <1>1, <2>2, <2>3
<1> QED BY <1>2, <1>3

\* refresh: the entry that a read leaves, whole or failed, and what it knows.
LEMMA RefreshKeeps ==
  ASSUME Reader!RecordAssumption, TranscriptInv, Reader!Read \/ Reader!ReadFails
  PROVE  TranscriptInv'
<1>1. /\ tHandle.open /\ tHandle' = Reader!Closed /\ UNCHANGED <<tNow, tFile>>
  BY DEF Reader!Read, Reader!ReadFails
<1>2. tCache \in Entries /\ tHandle.modified \in 0 .. tMaxTime /\ 0 \in 0 .. tMaxTime
  BY RecordNumbers DEF TranscriptInv, TranscriptTypes, Handles
<1>3. CASE tCache' = tCache
  BY <1>1, <1>2, <1>3, RefreshEnds
<1>4. ASSUME tCache' = [tCache EXCEPT !.uncertain = TRUE, !.modified = 0]
      PROVE  TranscriptInv'
  <2>1. /\ tCache' \in Entries /\ tCache'.offset = tCache.offset
        /\ tCache'.identity = tCache.identity /\ tCache'.updated = tCache.updated
        /\ tCache'.uncertain
    BY <1>2, <1>4 DEF Entries
  <2> QED BY <1>1, <1>2, <2>1, RefreshEnds
<1>5. ASSUME NEW n \in Reader!From .. Len(Reader!Content.records),
             \/ tCache' = [Reader!ReadTo(n) EXCEPT !.modified = tHandle.modified]
             \/ tCache' = [Reader!ReadTo(n) EXCEPT !.uncertain = TRUE, !.modified = 0]
      PROVE  TranscriptInv'
  <2> DEFINE entry == Reader!ReadTo(n)
  <2>1. /\ entry \in Entries /\ entry.offset = 2 * n /\ entry.identity = tHandle.identity
        /\ Knows(entry, Reader!Content.records, n)
        /\ n \in 0 .. Len(Reader!Content.records)
    BY <1>1, ReadKnows
  <2>2. \/ tCache' = [entry EXCEPT !.modified = tHandle.modified]
        \/ tCache' = [entry EXCEPT !.uncertain = TRUE, !.modified = 0]
    BY <1>5
  <2> HIDE DEF entry
  <2>3. /\ tCache' \in Entries /\ tCache'.offset = entry.offset
        /\ tCache'.identity = entry.identity /\ tCache'.updated = entry.updated
        /\ (entry.uncertain => tCache'.uncertain)
    BY <1>2, <2>1, <2>2 DEF Entries
  <2> QED BY <1>1, <2>1, <2>3, RefreshEnds
<1>6. Len(Reader!Content.records) \in Reader!From .. Len(Reader!Content.records)
  BY <1>1, WholeFileReadable
<1>7. CASE Reader!Read
  <2>1. CASE Reader!Unchanged
    BY <1>3, <1>7, <2>1 DEF Reader!Read
  <2>2. CASE ~Reader!Unchanged
    <3>1. tCache' = [Reader!ReadTo(Len(Reader!Content.records)) EXCEPT !.modified = tHandle.modified]
      BY <1>7, <2>2 DEF Reader!Read
    <3> QED BY <1>5, <1>6, <2>2, <3>1
  <2> QED BY <2>1, <2>2
<1>8. CASE Reader!ReadFails
  <2>1. PICK entry \in {tCache} \cup
           (IF Reader!Unchanged THEN {}
            ELSE {Reader!ReadTo(n) : n \in Reader!From .. Len(Reader!Content.records)}) :
          tCache' = [entry EXCEPT !.uncertain = TRUE, !.modified = 0]
    BY <1>8 DEF Reader!ReadFails
  <2>2. CASE entry = tCache
    BY <1>4, <2>1, <2>2
  <2>3. ASSUME NEW n \in Reader!From .. Len(Reader!Content.records), entry = Reader!ReadTo(n)
        PROVE  TranscriptInv'
    BY <1>5, <2>1, <2>3
  <2> QED BY <2>1, <2>2, <2>3
<1> QED BY <1>7, <1>8

\* Every step keeps the invariant.
LEMMA TranscriptStep ==
  Reader!RecordAssumption /\ TranscriptInv /\ [Reader!Next]_(Reader!vars) => TranscriptInv'
<1> SUFFICES ASSUME Reader!RecordAssumption, TranscriptInv, [Reader!Next]_(Reader!vars)
             PROVE  TranscriptInv'
  OBVIOUS
<1>1. CASE UNCHANGED Reader!vars
  <2>1. UNCHANGED <<tNow, tFile, tCache, tHandle>>
    BY <1>1 DEF Reader!vars
  <2>2. TranscriptTypes'
    BY <2>1 DEF TranscriptInv, TranscriptTypes, Entries, Records, Handles
  <2>3. DatesInv' /\ HandleInv'
    BY <2>1 DEF TranscriptInv, DatesInv, HandleInv, Orderly, Undated
  <2>4. KnownInv'
    BY <2>1 DEF TranscriptInv, KnownInv, Covers, Knows, Reader!Content
  <2> QED BY <2>2, <2>3, <2>4 DEF TranscriptInv
<1>2. CASE Reader!Tick \/ Reader!Tear
  BY <1>2, FileStays
<1>3. ASSUME NEW record \in Reader!Records, Reader!Write(record) PROVE TranscriptInv'
  <2>1. record \in {0, tNow, Reader!Bad}
    BY DEF Reader!Records
  <2> QED BY <1>3, <2>1, RecordWritten
<1>4. ASSUME NEW records, Reader!Replace(records),
             records = <<>> \/ \E record \in Reader!Records : records = <<record>>
      PROVE  TranscriptInv'
  <2>1. records = <<>> \/ \E record \in {0, tNow, Reader!Bad} : records = <<record>>
    BY <1>4 DEF Reader!Records
  <2> QED BY <1>4, <2>1, FileReplaced
<1>5. CASE Reader!Look
  BY <1>5, FileLookedAt
<1>6. CASE Reader!Read \/ Reader!ReadFails
  BY <1>6, RefreshKeeps
<1>7. \/ Reader!Tick \/ Reader!Tear
      \/ \E record \in Reader!Records : Reader!Write(record)
      \/ Reader!Replace(<<>>)
      \/ \E record \in Reader!Records : Reader!Replace(<<record>>)
      \/ Reader!Look \/ Reader!Read \/ Reader!ReadFails
      \/ UNCHANGED Reader!vars
  BY DEF Reader!Next
<1> QED BY <1>1, <1>2, <1>3, <1>4, <1>5, <1>6, <1>7

\* A step of MCParts is one of Transcript or none.
LEMMA ReaderSteps == [Next]_vars => [Reader!Next]_(Reader!vars)
BY DEF Next, vars, tVars, wVars, cVars, fVars, eVars, aVars, dVars, pVars, rVars,
       ReaderOnly, WatchOnly, ConfigOnly, FeedOnly, LogOnly, AuditOnly, DialogsOnly,
       RulesOnly, RetriesOnly, Reader!vars

\* The invariant of the transcripts holds in every reachable state.
LEMMA TranscriptInvariant == Spec => []TranscriptInv
<1>1. Init => TranscriptInv
  BY TranscriptInit, PartsAssumption DEF Init
<1>2. TranscriptInv /\ [Next]_vars => TranscriptInv'
  BY TranscriptStep, ReaderSteps, PartsAssumption
<1> QED BY <1>1, <1>2, PTL DEF Spec

\* The types of the transcripts.
LEMMA TranscriptTyped == TranscriptInv => Reader!TypeOK
BY DEF TranscriptInv, TranscriptTypes, Entries, Handles, Records, Reader!TypeOK

\* A refresh reports no activity that did not happen and none older than the last
\* one that was in the file when it was opened, and does not forget one that it
\* cannot date: for any number of records, files and instants.
THEOREM NoActivityMissed == Spec => ActivityNotMissed
<1>1. ASSUME TranscriptInv, [Reader!Next]_(Reader!vars), tHandle.open, ~tHandle'.open,
             Reader!Reported(tCache') # 0
      PROVE  /\ Reader!Reported(tCache') >= Reader!Latest(Reader!LookedAt)
             /\ Reader!Reported(tCache') \in Reader!Dates(Reader!Content.records)
             /\ Reader!UnreadableAtEnd
                  => Reader!Reported(tCache') \in Reader!Dates(Reader!Since)
  <2> DEFINE records == Reader!Content.records
  <2>1. Reader!RecordAssumption
    BY PartsAssumption
  <2>2. PICK s \in 0 .. Len(records) :
          /\ s = tHandle.size \div 2 /\ s <= Len(tHandle.records)
          /\ tHandle.size \in {2 * s, 2 * s + 1}
          /\ \A i \in 1 .. s : tHandle.records[i] = records[i]
    BY <1>1, ContentFacts
  <2>3. /\ records \in Records /\ Orderly(records) /\ Len(records) \in Nat
        /\ tHandle.records \in Records /\ Len(tHandle.records) \in Nat
    BY <1>1, ContentFacts, RecordElements DEF TranscriptInv, TranscriptTypes, Handles
  <2>4. /\ DOMAIN Reader!LookedAt = 1 .. s /\ Len(Reader!LookedAt) = s
        /\ \A i \in 1 .. s : Reader!LookedAt[i] = records[i]
    <3>1. 0 \in 0 .. Len(tHandle.records) /\ s \in 0 .. Len(tHandle.records) /\ s - 0 = s
      BY <2>2, <2>3
    <3>2. /\ Len(SubSeq(tHandle.records, 0 + 1, s)) = s - 0
          /\ DOMAIN SubSeq(tHandle.records, 0 + 1, s) = 1 .. s - 0
          /\ \A i \in 1 .. s - 0 : SubSeq(tHandle.records, 0 + 1, s)[i] = tHandle.records[0 + i]
      BY <2>3, <3>1, Sliced
    <3>3. Reader!LookedAt = SubSeq(tHandle.records, 0 + 1, s)
      BY <2>2 DEF Reader!LookedAt
    <3>4. \A i \in 1 .. s : Reader!LookedAt[i] = tHandle.records[i]
      BY <3>1, <3>2, <3>3
    <3> QED BY <2>2, <3>1, <3>2, <3>3, <3>4
  <2>5. /\ DOMAIN Reader!Since = 1 .. Len(records) - s
        /\ \A i \in 1 .. Len(records) - s : Reader!Since[i] = records[s + i]
    <3>1. Reader!Since = SubSeq(records, s + 1, Len(records))
      BY <2>2 DEF Reader!Since
    <3>2. Len(records) \in s .. Len(records)
      BY <2>2, <2>3
    <3> HIDE DEF records
    <3>3. /\ DOMAIN SubSeq(records, s + 1, Len(records)) = 1 .. Len(records) - s
          /\ \A i \in 1 .. Len(records) - s :
               SubSeq(records, s + 1, Len(records))[i] = records[s + i]
      BY <2>2, <2>3, <3>2, Sliced
    <3> QED BY <3>1, <3>3
  <2>6. ~tCache'.uncertain /\ Reader!Reported(tCache') = tCache'.updated
    BY <1>1 DEF Reader!Reported
  <2>7. \E n \in s .. Len(records) : Knows(tCache', records, n)
    <3>1. Reader!Read
      <4>1. ~Reader!ReadFails
        <5> SUFFICES ASSUME Reader!ReadFails PROVE FALSE
          OBVIOUS
        <5>1. PICK entry \in {tCache} \cup
                 (IF Reader!Unchanged THEN {}
                  ELSE {Reader!ReadTo(n) : n \in Reader!From .. Len(records)}) :
                tCache' = [entry EXCEPT !.uncertain = TRUE, !.modified = 0]
          BY DEF Reader!ReadFails
        <5>2. entry \in Entries
          BY <1>1, <2>1, ReadKnows DEF TranscriptInv, TranscriptTypes
        <5>3. tCache'.uncertain
          BY <5>1, <5>2 DEF Entries
        <5> QED BY <2>6, <5>3
      <4>2. tHandle'.open = tHandle.open \/ ~tHandle.open
              \/ Reader!Read \/ Reader!ReadFails
        <5>1. tHandle \in Handles
          BY <1>1 DEF TranscriptInv, TranscriptTypes, Handles
        <5>2. ASSUME NEW new, Reader!Replace(new) PROVE tHandle'.open = tHandle.open
          BY <5>1, <5>2 DEF Reader!Replace, Handles
        <5>3. ASSUME NEW record, Reader!Write(record) PROVE tHandle' = tHandle
          BY <5>3 DEF Reader!Write
        <5>4. Reader!Tick \/ Reader!Tear => tHandle' = tHandle
          BY DEF Reader!Tick, Reader!Tear
        <5>5. Reader!Look => ~tHandle.open
          BY DEF Reader!Look
        <5>6. (UNCHANGED Reader!vars) => tHandle' = tHandle
          BY DEF Reader!vars
        <5> QED BY <1>1, <5>2, <5>3, <5>4, <5>5, <5>6 DEF Reader!Next
      <4> QED BY <1>1, <4>1, <4>2
    <3>2. CASE Reader!Unchanged
      <4>1. /\ tCache' = tCache /\ tCache.identity = tHandle.identity
            /\ tCache.offset = tHandle.size
        BY <3>1, <3>2 DEF Reader!Read, Reader!Unchanged
      <4>2. PICK n \in 0 .. Len(records) : tCache.offset = 2 * n /\ Knows(tCache, records, n)
        BY <1>1, <4>1 DEF TranscriptInv, KnownInv, Covers
      <4>3. n = s
        BY <2>2, <2>3, <4>1, <4>2
      <4> QED BY <2>2, <2>3, <4>1, <4>2, <4>3
    <3>3. CASE ~Reader!Unchanged
      <4> DEFINE entry == Reader!ReadTo(Len(records))
      <4>1. Len(records) \in Reader!From .. Len(records)
        BY <1>1, <3>1, <3>3, WholeFileReadable
      <4>2. entry \in Entries /\ Knows(entry, records, Len(records))
        BY <1>1, <2>1, <4>1, ReadKnows
      <4>3. tCache' = [entry EXCEPT !.modified = tHandle.modified]
        BY <3>1, <3>3 DEF Reader!Read
      <4> HIDE DEF entry, records
      <4>4. tCache'.updated = entry.updated /\ tCache'.uncertain = entry.uncertain
        BY <4>2, <4>3 DEF Entries
      <4>5. Knows(tCache', records, Len(records))
        BY <4>2, <4>4, KnowsSame
      <4> QED BY <2>2, <2>3, <4>5
    <3> QED BY <3>2, <3>3
  <2> HIDE DEF records
  <2>8. PICK n \in s .. Len(records) : Knows(tCache', records, n)
    BY <2>7
  <2>9. /\ tCache'.updated >= Reader!Latest(Reader!LookedAt)
        /\ tCache'.updated \in Reader!Dates(records)
        /\ (\E b \in DOMAIN Reader!LookedAt :
              /\ Reader!LookedAt[b] = Reader!Bad
              /\ \A i \in b .. Len(Reader!LookedAt) : Reader!LookedAt[i] \in Undated)
             => tCache'.updated \in Reader!Dates(Reader!Since)
    BY <1>1, <2>1, <2>2, <2>3, <2>4, <2>5, <2>6, <2>8, NothingForgotten
  <2> QED BY <2>6, <2>9 DEF records, Reader!UnreadableAtEnd, Undated
<1>2. TranscriptInv /\ [Next]_vars => [Reader!NotMissed]_(Reader!vars)
  BY <1>1, ReaderSteps DEF Reader!NotMissed
<1> QED BY <1>2, TranscriptInvariant, PTL DEF Spec, ActivityNotMissed, Reader!ActivityNotMissed

-----------------------------------------------------------------------------
\* A dialog has a timer only while its click is not resolved, and an application
\* that is not observed has no dialogs.
LEMMA DialogTyped == DialogInv => Dialogs!TypeOK
BY DEF DialogInv, DialogTypes, Dialog, Dialogs!TypeOK

\* All parts have the types that their modules give them.
THEOREM PartsTyped == Spec => []TypeOK
<1>1. /\ Watch!ClockAssumption /\ Config!BoundAssumption /\ Feed!ChannelAssumption
      /\ Dialogs!RequestAssumption /\ Log!HistoryAssumption /\ Rules!DelayAssumption
      /\ aRetention \in Nat
  BY PartsAssumption DEF Audit!RetentionAssumption
<1>2. /\ Watch!Spec => []Watch!TypeOK
      /\ Config!Spec => []Config!TypeOK
      /\ Feed!Spec => []Feed!TypeOK
      /\ Dialogs!Spec => []DialogInv
  BY <1>1, Watch!TypeCorrect, Config!TypeCorrect, Feed!TypeCorrect, DialogInvariance
<1>3. /\ TranscriptInv => Reader!TypeOK
      /\ LogInv => Log!TypeOK
      /\ AuditInv => Audit!TypeOK
      /\ RulesInv => Rules!TypeOK
      /\ DialogInv => Dialogs!TypeOK
  BY <1>1, TranscriptTyped, LogTyped, AuditTyped, RulesTyped, DialogTyped
<1> QED BY <1>2, <1>3, PartsImplement, TranscriptInvariant, LogInvariant, AuditInvariant,
           RulesInvariant, PTL DEF TypeOK

=============================================================================
