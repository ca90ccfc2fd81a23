------------------------------ MODULE EventLog ------------------------------
(***************************************************************************)
(* The JSONL history of the engine (EventLogStore).  The engine appends a  *)
(* batch of events with many small writes and compacts the file when it    *)
(* holds twice what it is to keep; other tasks read it while it is being   *)
(* written.  A write may fail, also in the middle of a character, and the  *)
(* process may end between any two writes.                                 *)
(***************************************************************************)
EXTENDS Naturals, SequencesExt, FiniteSetsExt

CONSTANTS
  Retentions, \* values of engine.log_retention
  MaxBatch,   \* bound: events of one append
  MaxEvents,  \* bound: events
  MaxFaults   \* bound: writes that fail, compactions that fail, ends of the process

HistoryAssumption ==
  Retentions \subseteq Nat /\ MaxBatch \in Nat /\ MaxFaults \in Nat

VARIABLES
  lines,     \* the lines of the file: what was written between two newlines
  tail,      \* what follows the last newline
  batch,     \* the events that the append under way has still to write
  retention, \* of the engine's store
  next,      \* the next event
  faults     \* faults so far

vars == <<lines, tail, batch, retention, next, faults>>

\* A piece is an event, whole or cut off at its end, there perhaps in the middle
\* of a character.
Piece(event, cut) == [event |-> event, cut |-> cut]
Cuts == {"no", "clean", "garbled"}

\* A line is read when it is one whole event.
Readable(line) == Len(line) = 1 /\ line[1].cut = "no"
\* BufReader::lines fails at what is not UTF-8.
Garbled(line) == \E i \in DOMAIN line : line[i].cut = "garbled"
File == IF tail = <<>> THEN lines ELSE Append(lines, tail)

Init ==
  /\ lines = <<>> /\ tail = <<>>
  /\ batch = <<>>
  /\ retention \in Retentions
  /\ next = 1 /\ faults = 0

Faulty ==
  /\ faults < MaxFaults
  /\ faults' = faults + 1
  /\ batch' = <<>>

-----------------------------------------------------------------------------
(* append, under the engine lock.                                          *)

Begin(n) ==
  /\ batch = <<>>
  /\ next + n <= MaxEvents + 1
  /\ batch' = [i \in 1 .. n |-> next + i - 1]
  /\ next' = next + n
  /\ UNCHANGED <<lines, tail, retention, faults>>

\* Some of the text of an event is written, then the rest.
WritePart ==
  /\ batch # <<>>
  /\ \A i \in DOMAIN tail : tail[i].event # Head(batch)
  /\ tail' = Append(tail, Piece(Head(batch), "clean"))
  /\ UNCHANGED <<lines, batch, retention, next, faults>>

WriteRest ==
  /\ batch # <<>> /\ tail # <<>>
  /\ Last(tail) = Piece(Head(batch), "clean")
  /\ tail' = Append(Front(tail), Piece(Head(batch), "no"))
  /\ UNCHANGED <<lines, batch, retention, next, faults>>

\* The last whole event is written but for its newline.
AtNewline == batch # <<>> /\ tail # <<>> /\ Last(tail) = Piece(Head(batch), "no")
TooMany(all) == Len(all) > 2 * retention

\* Mutant: the first lines are kept.
CompactedToOldest(all) == SubSeq(all, 1, retention)
Compacted(all) == SubSeq(all, Len(all) - retention + 1, Len(all))

EndLine ==
  /\ AtNewline /\ Len(batch) > 1
  /\ lines' = File /\ tail' = <<>>
  /\ batch' = Tail(batch)
  /\ UNCHANGED <<retention, next, faults>>

\* After the last newline the lines are counted; if they are too many they are
\* read, and the file is replaced by the last of them.
EndBatch ==
  /\ AtNewline /\ Len(batch) = 1
  /\ IF TooMany(File)
     THEN /\ ~\E i \in DOMAIN File : Garbled(File[i])
          /\ lines' = Compacted(File)
     ELSE lines' = File
  /\ tail' = <<>>
  /\ batch' = <<>>
  /\ UNCHANGED <<retention, next, faults>>

\* A garbled line cannot be read: the append fails although everything is written.
CannotCompact ==
  /\ AtNewline /\ Len(batch) = 1
  /\ TooMany(File) /\ \E i \in DOMAIN File : Garbled(File[i])
  /\ lines' = File /\ tail' = <<>>
  /\ batch' = <<>>
  /\ UNCHANGED <<retention, next, faults>>

\* The file cannot be replaced.
CompactFails ==
  /\ AtNewline /\ Len(batch) = 1
  /\ TooMany(File)
  /\ Faulty
  /\ lines' = File /\ tail' = <<>>
  /\ UNCHANGED <<retention, next>>

\* A write fails, or the process ends: what is not written is lost.
Break(cut) ==
  /\ batch # <<>>
  /\ Faulty
  /\ tail' = IF tail # <<>> /\ Last(tail).event = Head(batch) /\ ~AtNewline
             THEN Append(Front(tail), Piece(Head(batch), cut))
             ELSE tail
  /\ UNCHANGED <<lines, retention, next>>

\* replace_settings between two appends.
SetRetention(n) ==
  /\ batch = <<>> /\ n # retention
  /\ retention' = n
  /\ UNCHANGED <<lines, tail, batch, next, faults>>

-----------------------------------------------------------------------------
Next ==
  \/ \E n \in 1 .. MaxBatch : Begin(n)
  \/ WritePart \/ WriteRest \/ EndLine \/ EndBatch \/ CannotCompact \/ CompactFails
  \/ \E cut \in Cuts \ {"no"} : Break(cut)
  \/ \E n \in Retentions : SetRetention(n)

Spec == Init /\ [][Next]_vars

-----------------------------------------------------------------------------
(* Properties.                                                             *)

\* session_logs reads the file at any moment.
Unreadable == {i \in DOMAIN File : ~Readable(File[i])}
EventsIn(file) == UNION {{file[i][j].event : j \in DOMAIN file[i]} : i \in DOMAIN file}

\* Types of the file; events are in it in their order, each at most once.
TypeOK ==
  /\ retention \in Retentions /\ faults \in 0 .. MaxFaults
  /\ \A i \in DOMAIN File : \A j \in DOMAIN File[i] :
       File[i][j].event \in 1 .. next - 1 /\ File[i][j].cut \in Cuts
  /\ \A i, k \in DOMAIN File : \A j \in DOMAIN File[i], l \in DOMAIN File[k] :
       i < k \/ (i = k /\ j < l) => File[i][j].event < File[k][l].event

\* A step of the history.
Kept ==
  /\ \A gone \in EventsIn(File) \ EventsIn(File') :
       /\ \A kept \in EventsIn(File') : gone < kept
       /\ Len(File') >= retention
  /\ Cardinality({i \in DOMAIN lines' : ~Readable(lines'[i])}) <= faults'
  /\ batch' = <<>> => Cardinality(Unreadable') <= faults'

\* What leaves the history is older than everything that stays, and enough stays,
\* whatever else has failed; a torn event makes sessions.logs fail for as long as
\* its line is kept, but each fault spoils at most one line, and without faults
\* the history is readable whenever no append is under way.
HistoryKept == [][Kept]_vars

=============================================================================
