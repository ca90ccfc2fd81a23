----------------------------- MODULE DialogLog ------------------------------
(***************************************************************************)
(* The audit log of the dialog monitor (os_permissions/events.rs).  An     *)
(* event is written with its newline in one piece; a write that fails is   *)
(* taken back, and what a crash has left is removed at the next start.     *)
(* The command line reads the file itself at any moment.  A click is made  *)
(* only when its record was accepted.                                      *)
(***************************************************************************)
EXTENDS Naturals, SequencesExt, FiniteSetsExt

CONSTANTS
  Retention,  \* engine.log_retention
  MaxEvents,  \* bound: events
  MaxFaults   \* bound: failures and ends of the process

RetentionAssumption == Retention \in Nat

VARIABLES
  lines,    \* the lines of the file: the events that each was made of
  tail,     \* the events, or parts of events, after the last newline
  log,      \* Log of the daemon: up, count, repair_required
  writing,  \* the event that is being written, 0 if there is none
  next,     \* the next event
  faults,   \* faults so far
  accepted  \* history: the events that were accepted

vars == <<lines, tail, log, writing, next, faults, accepted>>

Fault == faults < MaxFaults /\ faults' = faults + 1
Whole(line) == Len(line) = 1

Init ==
  /\ lines = <<>> /\ tail = <<>>
  /\ log = [up |-> TRUE, count |-> 0, repair |-> FALSE]
  /\ writing = 0 /\ next = 1 /\ faults = 0
  /\ accepted = {}

-----------------------------------------------------------------------------
\* append: refused once a write could not be taken back.
Begin ==
  /\ log.up /\ ~log.repair /\ writing = 0
  /\ next <= MaxEvents /\ next' = next + 1
  /\ writing' = next
  /\ UNCHANGED <<lines, tail, log, faults, accepted>>

\* A part of the piece is in the file, as another process sees it.
WritePart ==
  /\ writing # 0 /\ writing \notin Range(tail)
  /\ tail' = Append(tail, writing)
  /\ UNCHANGED <<lines, log, writing, next, faults, accepted>>

\* What compaction keeps.
\* Mutant: the oldest are kept.
KeptOldest(all) == SubSeq(all, 1, Retention)
Kept(all) == SubSeq(all, Len(all) - Retention + 1, Len(all))

\* Mutant: the count starts again at zero.
CountAfterZero(kept) == 0
CountAfter(kept) == Len(kept)

\* All of it is written; a log that is too long is replaced by its last events.
Written(compacts) ==
  /\ writing # 0 /\ writing \in Range(tail)
  /\ LET all == Append(lines, tail)
         count == log.count + 1
     IN  /\ compacts <=> count > 2 * Retention
         /\ lines' = IF compacts THEN Kept(all) ELSE all
         /\ log' = [log EXCEPT !.count = IF compacts THEN CountAfter(Kept(all)) ELSE count]
  /\ tail' = <<>> /\ writing' = 0
  /\ accepted' = accepted \cup {writing}
  /\ UNCHANGED <<next, faults>>

\* The log cannot be replaced: the event is not accepted although it is written.
CompactFails ==
  /\ writing # 0 /\ writing \in Range(tail)
  /\ log.count + 1 > 2 * Retention
  /\ Fault
  /\ lines' = Append(lines, tail) /\ tail' = <<>>
  /\ log' = [log EXCEPT !.count = @ + 1]
  /\ writing' = 0
  /\ UNCHANGED <<next, accepted>>

\* The write fails; the file is cut to its former length if that succeeds.
WriteFails(repaired) ==
  /\ writing # 0 /\ Fault
  /\ tail' = IF repaired THEN <<>> ELSE tail
  /\ log' = [log EXCEPT !.repair = ~repaired]
  /\ writing' = 0
  /\ UNCHANGED <<lines, next, accepted>>

\* The process ends, perhaps just after all of an event was written.
Exit(written) ==
  /\ log.up /\ Fault
  /\ written => writing # 0 /\ writing \in Range(tail)
  /\ lines' = IF written THEN Append(lines, tail) ELSE lines
  /\ tail' = IF written THEN <<>> ELSE tail
  /\ log' = [log EXCEPT !.up = FALSE]
  /\ writing' = 0
  /\ UNCHANGED <<next, accepted>>

\* Mutant: the torn tail stays.
StartAsFound ==
  /\ ~log.up
  /\ log' = [up |-> TRUE, count |-> Len(lines), repair |-> FALSE]
  /\ UNCHANGED <<lines, tail, writing, next, faults, accepted>>
\* Log::new: what follows the last newline is removed, and the events counted.
Start ==
  /\ ~log.up
  /\ tail' = <<>>
  /\ log' = [up |-> TRUE, count |-> Len(lines), repair |-> FALSE]
  /\ UNCHANGED <<lines, writing, next, faults, accepted>>

Next ==
  \/ Begin \/ WritePart \/ \E compacts \in BOOLEAN : Written(compacts)
  \/ CompactFails \/ \E repaired \in BOOLEAN : WriteFails(repaired)
  \/ \E written \in BOOLEAN : Exit(written)
  \/ Start

Spec == Init /\ [][Next]_vars

-----------------------------------------------------------------------------
(* Properties.                                                             *)

Events == {lines[i][1] : i \in DOMAIN lines}

\* Types of the file and the log; the count is that of the file, so that its
\* length stays bounded across failures and restarts.
TypeOK ==
  /\ writing \in 0 .. next - 1 /\ accepted \subseteq 1 .. next - 1
  /\ log.repair \in BOOLEAN
  /\ log.up => log.count = Len(lines)
  /\ Len(lines) <= 2 * Retention + faults

\* read: whoever reads the file, while it is written, after a failed write or
\* after a crash, finds only whole events before the last newline, in their order;
\* and a record that was accepted, so that a click could be made on the strength
\* of it, is among them until enough later ones are there.
AcceptedIsRead ==
  /\ \A i \in DOMAIN lines : Whole(lines[i])
  /\ \A i, j \in DOMAIN lines : i < j => lines[i][1] < lines[j][1]
  /\ \A e \in accepted \ Events : Cardinality({k \in Events : k > e}) >= Retention

=============================================================================
