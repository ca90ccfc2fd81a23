----------------------------- MODULE ConfigFile -----------------------------
(***************************************************************************)
(* The configuration file and the settings that the daemon works with.     *)
(* Editors write the file when they like, the daemon polls its             *)
(* modification time, and a mutation of the control plane writes the whole *)
(* file from the settings in memory.  A reload, a mutation and a start run *)
(* under the control lock, but the file changes between any two of their   *)
(* steps, every step on the disk may fail, and the process may end.        *)
(*                                                                         *)
(* The settings are two parts that are changed one at a time; the value of *)
(* a part is the number of the write it comes from, and so is the time of  *)
(* the file.                                                               *)
(***************************************************************************)
EXTENDS Naturals

CONSTANTS
  MaxWrites,   \* bound: writes of the file, a save under way apart
  MaxRevision, \* bound: the revision at which no mutation is tried any more
  MaxRestarts, \* bound: times the process ends
  MaxFailures  \* bound: writes of the revision or of the file that fail

VARIABLES
  file,      \* the parts, whether they are valid, modified
  settings,  \* the daemon's settings
  modified,  \* config_modified
  revision,  \* the revision of the control state
  up,        \* the daemon has loaded
  op,        \* what holds the control lock
  writes,    \* writes of the file so far
  restarts,  \* ends of the process so far
  failures,  \* failed writes so far
  raced,     \* history: edits between a save and the look at its time
  observed   \* history: the settings that were observed under each revision

vars == <<file, settings, modified, revision, up, op, writes, restarts, failures, raced, observed>>

BoundAssumption == MaxWrites \in Nat

Parts == {"policies", "lifecycle"}
NoOp == [at |-> "idle"]

\* load: the file is read when the daemon starts.
Init ==
  /\ file = [parts |-> [p \in Parts |-> 0], valid |-> TRUE, modified |-> 0]
  /\ settings = file.parts
  /\ modified = 0 /\ revision = 1
  /\ up = TRUE
  /\ op = NoOp
  /\ writes = 0 /\ restarts = 0 /\ failures = 0
  /\ raced = {}
  /\ observed = {<<1, file.parts>>}

\* The lock is free again, and requests see the settings and the revision.
Unlock(newRevision, newSettings) ==
  /\ op' = NoOp
  /\ observed' = observed \cup {<<newRevision, newSettings>>}

Fails ==
  /\ failures < MaxFailures
  /\ failures' = failures + 1

Written(parts, valid) == [parts |-> parts, valid |-> valid, modified |-> writes + 1]

-----------------------------------------------------------------------------
(* Editors and the command line (external).                                *)

\* A part is edited, or the file becomes one that does not load.
Edit(part, valid) ==
  /\ writes < MaxWrites /\ writes' = writes + 1
  /\ file' = Written(IF valid THEN [file.parts EXCEPT ![part] = writes + 1] ELSE file.parts, valid)
  /\ raced' = IF op.at = "saved" THEN raced \cup {writes + 1} ELSE raced
  /\ UNCHANGED <<settings, modified, revision, up, op, restarts, failures, observed>>

-----------------------------------------------------------------------------
(* reload_external_config, at the start of every pass.                     *)

Look ==
  /\ up /\ op.at = "idle" /\ file.modified # modified
  /\ op' = [at |-> "reading", modified |-> file.modified]
  /\ UNCHANGED <<file, settings, modified, revision, up, writes, restarts, failures, raced, observed>>

\* Mutant: the revision stays.
ReloadSilently ==
  /\ op.at = "reading" /\ up /\ file.valid
  /\ settings' = file.parts /\ modified' = op.modified
  /\ Unlock(revision, file.parts)
  /\ UNCHANGED <<file, revision, up, writes, restarts, failures, raced>>
\* The settings of a valid file become a new revision.
Reload ==
  /\ op.at = "reading" /\ up /\ file.valid
  /\ revision' = revision + 1
  /\ settings' = file.parts /\ modified' = op.modified
  /\ Unlock(revision + 1, file.parts)
  /\ UNCHANGED <<file, up, writes, restarts, failures, raced>>

\* An invalid one is reported once.
ReloadInvalid ==
  /\ op.at = "reading" /\ up /\ ~file.valid
  /\ modified' = op.modified
  /\ Unlock(revision, settings)
  /\ UNCHANGED <<file, settings, revision, up, writes, restarts, failures, raced>>

\* Mutant: the file counts as read when the revision cannot be saved.
ReloadFailsForGood ==
  /\ op.at = "reading" /\ up /\ file.valid
  /\ Fails
  /\ modified' = op.modified
  /\ Unlock(revision, settings)
  /\ UNCHANGED <<file, settings, revision, up, writes, restarts, raced>>
\* The revision cannot be saved: the next pass looks again.
ReloadFails ==
  /\ op.at = "reading" /\ up /\ file.valid
  /\ Fails
  /\ Unlock(revision, settings)
  /\ UNCHANGED <<file, settings, modified, revision, up, writes, restarts, raced>>

-----------------------------------------------------------------------------
(* config.policies.set and reset, config.dialogs.set, config.set_lifecycle. *)

\* The settings are changed in a copy, and the revision is saved first; only the
\* policies may still be invalid then.
Set(part, valid) ==
  /\ up /\ op.at = "idle" /\ writes < MaxWrites /\ revision < MaxRevision
  /\ valid \/ part = "policies"
  /\ revision' = revision + 1
  /\ op' = [at |-> "saving", part |-> part, valid |-> valid]
  /\ UNCHANGED <<file, settings, modified, up, writes, restarts, failures, raced, observed>>

\* save_settings
Save ==
  /\ op.at = "saving" /\ op.valid
  /\ writes' = writes + 1
  /\ file' = Written([settings EXCEPT ![op.part] = writes + 1], TRUE)
  /\ op' = [at |-> "saved", parts |-> file'.parts]
  /\ UNCHANGED <<settings, modified, revision, up, restarts, failures, raced, observed>>

\* Mutant: the change stays in memory.
SaveFailsInMemory ==
  /\ op.at = "saving"
  /\ IF op.valid THEN Fails ELSE UNCHANGED failures
  /\ settings' = [settings EXCEPT ![op.part] = writes + 1]
  /\ Unlock(revision, settings')
  /\ UNCHANGED <<file, modified, revision, up, writes, restarts, raced>>
\* Invalid policies, or a file that cannot be written: the request fails.
SaveFails ==
  /\ op.at = "saving"
  /\ IF op.valid THEN Fails ELSE UNCHANGED failures
  /\ Unlock(revision, settings)
  /\ UNCHANGED <<file, settings, modified, revision, up, writes, restarts, raced>>

\* The time of the file is looked at, and the settings are replaced.
Adopt ==
  /\ op.at = "saved"
  /\ modified' = file.modified
  /\ settings' = op.parts
  /\ Unlock(revision, op.parts)
  /\ UNCHANGED <<file, revision, up, writes, restarts, failures, raced>>

-----------------------------------------------------------------------------
(* The process ends and starts again.                                      *)

Exit ==
  /\ restarts < MaxRestarts
  /\ up' = FALSE /\ op' = NoOp
  /\ restarts' = restarts + 1
  /\ UNCHANGED <<file, settings, modified, revision, writes, failures, raced, observed>>

StartLook ==
  /\ ~up /\ op.at = "idle"
  /\ op' = [at |-> "reading", modified |-> file.modified]
  /\ UNCHANGED <<file, settings, modified, revision, up, writes, restarts, failures, raced, observed>>

\* WatchcatDaemon::load and ControlStateStore::load: every start is a revision.
Start ==
  /\ ~up /\ op.at = "reading" /\ file.valid
  /\ up' = TRUE
  /\ revision' = revision + 1
  /\ settings' = file.parts /\ modified' = op.modified
  /\ Unlock(revision + 1, file.parts)
  /\ UNCHANGED <<file, writes, restarts, failures, raced>>

\* A daemon does not start with an invalid file; the service manager tries again.
StartFails ==
  /\ ~up /\ op.at = "reading" /\ ~file.valid
  /\ op' = NoOp
  /\ UNCHANGED <<file, settings, modified, revision, up, writes, restarts, failures, raced, observed>>

-----------------------------------------------------------------------------
Next ==
  \/ \E part \in Parts, valid \in BOOLEAN : Edit(part, valid) \/ Set(part, valid)
  \/ Look \/ Reload \/ ReloadInvalid \/ ReloadFails
  \/ Save \/ SaveFails \/ Adopt
  \/ Exit \/ StartLook \/ Start \/ StartFails

Spec == Init /\ [][Next]_vars

\* What holds the lock goes on, passes poll, the service manager restarts.
Daemon ==
  \/ Look \/ Reload \/ ReloadInvalid \/ ReloadFails \/ Save \/ SaveFails \/ Adopt
  \/ StartLook \/ Start \/ StartFails
FairSpec == Spec /\ WF_vars(Daemon)

-----------------------------------------------------------------------------
(* Properties.                                                             *)

\* Types of the file, the settings and the operation under the lock.
TypeOK ==
  /\ file.parts \in [Parts -> 0 .. MaxWrites + 1] /\ file.valid \in BOOLEAN
  /\ file.modified = writes
  /\ settings \in [Parts -> 0 .. MaxWrites + 1]
  /\ modified \in 0 .. writes
  /\ up \in BOOLEAN
  /\ op.at \in {"idle", "reading", "saving", "saved"}

\* A revision is one configuration: the settings seen under a revision, which a
\* client sends back as expected_revision and a plan is made for, are the same
\* whenever they are seen, across reloads, failed mutations and restarts.
RevisionIsOneConfiguration ==
  \A a, b \in observed : a[1] = b[1] => a[2] = b[2]

\* No setting that was in force is replaced by an earlier one: what a mutation has
\* acknowledged, or a reload adopted, survives failed writes, other mutations and
\* restarts until an edit or a mutation replaces it.
SettingsNeverGoBack ==
  [][\A p \in Parts : settings'[p] >= settings[p]]_vars

\* "Valid external edits are hot-reloaded" (README.md:219): a valid file that stays
\* is adopted in the end, also when it is edited while it is read, when the
\* revision cannot be saved at first, when the process restarts.  The code does
\* not see an edit that falls between its own save and the look at the time of
\* what it saved.
EditsTakeEffect ==
  \A n \in 1 .. MaxWrites :
    file.modified = n /\ file.valid /\ n \notin raced
      ~> (up /\ settings = file.parts) \/ file.modified # n

=============================================================================
