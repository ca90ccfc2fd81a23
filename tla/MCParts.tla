------------------------------- MODULE MCParts -------------------------------
(***************************************************************************)
(* Small instances of the components that touch the recovery of a session  *)
(* only through what they hand on: the transcripts of Claude, membership   *)
(* of the watchlist, the configuration file, policies, subscriptions, the  *)
(* two logs, the dialog monitor and, for their progress, the retry         *)
(* operations.  A behaviour is of one of them, chosen in the beginning;    *)
(* the others stay as they are.                                            *)
(***************************************************************************)
EXTENDS Naturals

CONSTANTS
  Modules,  \* the modules whose behaviours are looked at
  tMaxTime, tMaxRecords, tMaxFiles,
  wMaxTime, wMaxChanges,
  cMaxWrites, cMaxRevision,
  fMaxRevision,
  eRetentions, eMaxBatch, eMaxEvents, eMaxFaults,
  aRetention, aMaxEvents, aMaxFaults,
  dWindows, dRequests, dMaxEvents,
  pLimit, pDelays, pAttempts

VARIABLE part  \* the one that the behaviour is of

VARIABLES tNow, tFile, tCache, tHandle
VARIABLES wNow, wSession, wTarget, wExcluded, wChanges, wPass
VARIABLES cFile, cSettings, cModified, cRevision, cUp, cOp, cWrites, cRestarts, cFailures,
          cRaced, cObserved
VARIABLES fRevision, fAnswers, fPass, fPublished, fSubscriber
VARIABLES eLines, eTail, eBatch, eRetention, eNext, eFaults
VARIABLES aLines, aTail, aLog, aWriting, aNext, aFaults, aAccepted
VARIABLES dWindow, dTrusted, dRule, dPermit, dMonitor, dRetries, dDialogs, dQueued, dMain,
          dEvents, dBlind, dPressed
VARIABLES pDefinition, pCustom, pRequest
VARIABLES rMem, rDisk, rDrawn, rConn, rTask, rStopping, rCall, rTold, rEvicted

tVars == <<tNow, tFile, tCache, tHandle>>
wVars == <<wNow, wSession, wTarget, wExcluded, wChanges, wPass>>
cVars == <<cFile, cSettings, cModified, cRevision, cUp, cOp, cWrites, cRestarts, cFailures,
           cRaced, cObserved>>
fVars == <<fRevision, fAnswers, fPass, fPublished, fSubscriber>>
eVars == <<eLines, eTail, eBatch, eRetention, eNext, eFaults>>
aVars == <<aLines, aTail, aLog, aWriting, aNext, aFaults, aAccepted>>
dVars == <<dWindow, dTrusted, dRule, dPermit, dMonitor, dRetries, dDialogs, dQueued, dMain,
           dEvents, dBlind, dPressed>>
pVars == <<pDefinition, pCustom, pRequest>>
rVars == <<rMem, rDisk, rDrawn, rConn, rTask, rStopping, rCall, rTold, rEvicted>>

\* A component is instantiated with its theorems where it has some.
Reader == INSTANCE Transcript
  WITH MaxTime <- tMaxTime, MaxRecords <- tMaxRecords, MaxFiles <- tMaxFiles, now <- tNow,
       file <- tFile, cache <- tCache, handle <- tHandle
Watch == INSTANCE LifecycleProofs
  WITH MaxTime <- wMaxTime, StaleAfter <- 1, MaxChanges <- wMaxChanges, now <- wNow,
       session <- wSession, target <- wTarget, excluded <- wExcluded, changes <- wChanges,
       pass <- wPass
Config == INSTANCE ConfigFileProofs
  WITH MaxWrites <- cMaxWrites, MaxRevision <- cMaxRevision, MaxRestarts <- 1,
       MaxFailures <- 1, file <- cFile, settings <- cSettings, modified <- cModified,
       revision <- cRevision, up <- cUp, op <- cOp, writes <- cWrites,
       restarts <- cRestarts, failures <- cFailures, raced <- cRaced, observed <- cObserved
Feed == INSTANCE SubscriptionsProofs
  WITH Subscribers <- {"s1", "s2"}, Capacity <- 1, Slots <- 1, MaxRevision <- fMaxRevision,
       revision <- fRevision, answers <- fAnswers, pass <- fPass, published <- fPublished,
       subscriber <- fSubscriber
Log == INSTANCE EventLog
  WITH Retentions <- eRetentions, MaxBatch <- eMaxBatch, MaxEvents <- eMaxEvents,
       MaxFaults <- eMaxFaults, lines <- eLines, tail <- eTail, batch <- eBatch,
       retention <- eRetention, next <- eNext, faults <- eFaults
Audit == INSTANCE DialogLog
  WITH Retention <- aRetention, MaxEvents <- aMaxEvents, MaxFaults <- aMaxFaults,
       lines <- aLines, tail <- aTail, log <- aLog, writing <- aWriting, next <- aNext,
       faults <- aFaults, accepted <- aAccepted
Dialogs == INSTANCE DialogMonitor
  WITH Windows <- dWindows, Requests <- dRequests, MaxEvents <- dMaxEvents,
       window <- dWindow, trusted <- dTrusted, rule <- dRule, permit <- dPermit,
       monitor <- dMonitor, retries <- dRetries, dialogs <- dDialogs, queued <- dQueued,
       main <- dMain, events <- dEvents, blind <- dBlind, pressed <- dPressed
Rules == INSTANCE Policies
  WITH Limit <- pLimit, Delays <- pDelays, Attempts <- pAttempts,
       definition <- pDefinition, custom <- pCustom, request <- pRequest
Retries == INSTANCE RetryOperations
  WITH Sessions <- {"session"}, Keys <- {"k1", "k2"}, Ids <- {"i1", "i2"},
       Conns <- {"conn"}, None <- "none", MaxPending <- 2, MaxOperations <- 3,
       Faults <- {"crash"}, mem <- rMem, disk <- rDisk, drawn <- rDrawn, conn <- rConn,
       task <- rTask, stopping <- rStopping, call <- rCall, told <- rTold,
       evicted <- rEvicted

\* What the proofs about these components assume of their constants.
ASSUME PartsAssumption ==
  /\ Reader!RecordAssumption /\ Watch!ClockAssumption /\ Config!BoundAssumption
  /\ Feed!ChannelAssumption /\ Dialogs!RequestAssumption
  /\ Log!HistoryAssumption /\ Audit!RetentionAssumption /\ Rules!DelayAssumption

Init ==
  /\ part \in Modules
  /\ Reader!Init
  /\ Watch!Init
  /\ Config!Init
  /\ Feed!Init
  /\ Log!Init
  /\ Audit!Init
  /\ Dialogs!Init
  /\ Rules!Init
  /\ Retries!Init
  /\ part # "EventLog" => \A n \in eRetentions : eRetention <= n
  /\ part # "Policies" => pDefinition = Rules!Skip

\* Only the part that was chosen takes a step.
ReaderOnly ==
  part = "Transcript" /\ UNCHANGED <<part, wVars, cVars, fVars, eVars, aVars, dVars, pVars, rVars>>
WatchOnly ==
  part = "Lifecycle" /\ UNCHANGED <<part, tVars, cVars, fVars, eVars, aVars, dVars, pVars, rVars>>
ConfigOnly ==
  part = "ConfigFile" /\ UNCHANGED <<part, tVars, wVars, fVars, eVars, aVars, dVars, pVars, rVars>>
FeedOnly ==
  part = "Subscriptions" /\ UNCHANGED <<part, tVars, wVars, cVars, eVars, aVars, dVars, pVars, rVars>>
LogOnly ==
  part = "EventLog" /\ UNCHANGED <<part, tVars, wVars, cVars, fVars, aVars, dVars, pVars, rVars>>
AuditOnly ==
  part = "DialogLog" /\ UNCHANGED <<part, tVars, wVars, cVars, fVars, eVars, dVars, pVars, rVars>>
DialogsOnly ==
  part = "DialogMonitor" /\ UNCHANGED <<part, tVars, wVars, cVars, fVars, eVars, aVars, pVars, rVars>>
RulesOnly ==
  part = "Policies" /\ UNCHANGED <<part, tVars, wVars, cVars, fVars, eVars, aVars, dVars, rVars>>
RetriesOnly ==
  part = "RetryOperations" /\ UNCHANGED <<part, tVars, wVars, cVars, fVars, eVars, aVars, dVars, pVars>>

Next ==
  \/ ReaderOnly /\ Reader!Next
  \/ WatchOnly /\ Watch!Next
  \/ ConfigOnly /\ Config!Next
  \/ FeedOnly /\ Feed!Next
  \/ LogOnly /\ Log!Next
  \/ AuditOnly /\ Audit!Next
  \/ DialogsOnly /\ Dialogs!Next
  \/ RulesOnly /\ Rules!Next
  \/ RetriesOnly /\ Retries!Next

vars == <<part, tVars, wVars, cVars, fVars, eVars, aVars, dVars, pVars, rVars>>
Spec == Init /\ [][Next]_vars

\* The fairness of each module.  As a behaviour is of one part, a formula can take
\* an action of each together.
FairSpec ==
  /\ Spec
  /\ WF_vars(\/ WatchOnly /\ Watch!Prepare
             \/ ConfigOnly /\ Config!Daemon
             \/ FeedOnly /\ Feed!Serve("s1")
             \/ DialogsOnly /\ Dialogs!Main
             \/ RetriesOnly /\ Retries!ConnStep("conn"))
  /\ WF_vars(\/ WatchOnly /\ (Watch!Commit \/ Watch!Drop)
             \/ FeedOnly /\ Feed!Serve("s2")
             \/ DialogsOnly /\ \E w \in dWindows : Dialogs!Deadline(w))
  /\ SF_vars(\/ WatchOnly /\ Watch!Discover(TRUE)
             \/ DialogsOnly /\ \E w \in dWindows : Dialogs!TimerFires(w)
             \/ RetriesOnly /\ Retries!TaskStep("i1"))
  /\ SF_vars(\/ WatchOnly /\ wPass.updated # 0 /\ Watch!Commit
             \/ RetriesOnly /\ Retries!TaskStep("i2"))

-----------------------------------------------------------------------------
(* The properties, which their modules explain.                            *)

TypeOK ==
  /\ Reader!TypeOK /\ Watch!TypeOK /\ Config!TypeOK /\ Feed!TypeOK
  /\ Log!TypeOK /\ Audit!TypeOK /\ Dialogs!TypeOK /\ Rules!TypeOK

ActivityNotMissed == Reader!ActivityNotMissed

OnlyInactiveExpire == Watch!OnlyInactiveExpire
EngineScansWhatStays == Watch!EngineScansWhatStays
MembershipFollowsActivity == part = "Lifecycle" => Watch!MembershipFollowsActivity

RevisionIsOneConfiguration == Config!RevisionIsOneConfiguration
SettingsNeverGoBack == Config!SettingsNeverGoBack
EditsTakeEffect == Config!EditsTakeEffect

DelaysSound == Rules!DelaysSound

NothingSkipped == Feed!NothingSkipped
EventuallyTold == Feed!EventuallyTold

HistoryKept == Log!HistoryKept
AcceptedIsRead == Audit!AcceptedIsRead

PressedOnce == Dialogs!PressedOnce
RequestsEnd == Dialogs!RequestsEnd

OperationsSettle == Retries!OperationsSettle

=============================================================================
