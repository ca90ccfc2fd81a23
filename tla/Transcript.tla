----------------------------- MODULE Transcript -----------------------------
(***************************************************************************)
(* How the Claude provider follows one transcript (providers/claude.rs):   *)
(* a file that another program appends to, record by record and not always *)
(* whole records, and that it may replace.  A refresh looks at the file    *)
(* once and reads it from where the last one stopped; what it reports as   *)
(* the latest activity decides whether the session stays on the watchlist. *)
(*                                                                         *)
(* Sizes are counted in half records, so that a record of which only a     *)
(* part is written has a size of its own.                                  *)
(***************************************************************************)
EXTENDS Naturals, SequencesExt, FiniteSetsExt

CONSTANTS
  MaxTime,     \* bound: the clock that records and modification times show
  MaxRecords,  \* bound: records in the file
  MaxFiles     \* bound: files that replace one another

RecordAssumption ==
  MaxTime \in Nat \ {0} /\ MaxRecords \in Nat \ {0} /\ MaxFiles \in Nat \ {0}

VARIABLES
  now,     \* the clock
  file,    \* the file at the path: identity, modified, records, torn
  cache,   \* Transcript of the provider
  handle   \* the file that a refresh has opened and looked at

vars == <<now, file, cache, handle>>

\* A record has the time it shows, 0 if it shows none, Bad if it is not JSON.
Bad == MaxTime + 1
Dates(records) == {records[i] : i \in DOMAIN records} \ {0, Bad}
Latest(records) == IF Dates(records) = {} THEN 0 ELSE Max(Dates(records))
Size(f) == 2 * Len(f.records) + (IF f.torn THEN 1 ELSE 0)

Closed == [open |-> FALSE, identity |-> 0, modified |-> 0, size |-> 0,
           records |-> <<>>, torn |-> FALSE]

Init ==
  /\ now = 1
  /\ file = [identity |-> 1, modified |-> 1, records |-> <<>>, torn |-> FALSE]
  /\ cache = [offset |-> 0, modified |-> 0, identity |-> 0, uncertain |-> FALSE, updated |-> 0]
  /\ handle = Closed

-----------------------------------------------------------------------------
(* The program that writes the transcript (external).                      *)

Tick ==
  /\ now < MaxTime
  /\ now' = now + 1
  /\ UNCHANGED <<file, cache, handle>>

\* A part of a record is written.
Tear ==
  /\ ~file.torn /\ Len(file.records) < MaxRecords
  /\ file' = [file EXCEPT !.torn = TRUE, !.modified = now]
  /\ UNCHANGED <<now, cache, handle>>

\* A record, or the rest of one, is written.
Write(record) ==
  /\ Len(file.records) < MaxRecords
  /\ file' = [file EXCEPT !.records = Append(@, record), !.torn = FALSE, !.modified = now]
  /\ UNCHANGED <<now, cache, handle>>

\* Another file takes its place; who has the old one open reads on in it.
Replace(records) ==
  /\ file.identity < MaxFiles
  /\ file' = [identity |-> file.identity + 1, modified |-> now, records |-> records,
              torn |-> FALSE]
  /\ handle' = IF handle.open /\ handle.identity = file.identity
               THEN [handle EXCEPT !.records = file.records, !.torn = file.torn]
               ELSE handle
  /\ UNCHANGED <<now, cache>>

-----------------------------------------------------------------------------
(* refresh.                                                                *)

\* The file is opened, and its metadata read from the handle.
Look ==
  /\ ~handle.open
  /\ handle' = [open |-> TRUE, identity |-> file.identity, modified |-> file.modified,
                size |-> Size(file), records |-> file.records, torn |-> file.torn]
  /\ UNCHANGED <<now, file, cache>>

Content == IF handle.identity = file.identity THEN file ELSE handle

Unchanged ==
  /\ cache.identity = handle.identity
  /\ cache.modified = handle.modified
  /\ cache.offset = handle.size

\* Mutant: a file that takes the place of another one is read from where the old
\* one ended.
FromStartIfShorter == handle.size <= cache.offset
\* A file that is another one or not longer than what was read is read anew.
FromStart == cache.identity # handle.identity \/ handle.size <= cache.offset
From == IF FromStart THEN 0 ELSE cache.offset \div 2

\* Mutant: the next record counts as read when a part of it is written.
OffsetAfterTorn(n) == IF Content.torn THEN 2 * n + 2 ELSE 2 * n
\* The offset after n whole records.
Offset(n) == 2 * n

\* What records say about the activity: the latest date, and doubt about a
\* record that is not readable until a dated one follows.
Parsed(entry, records) ==
  LET dated == {i \in DOMAIN records : records[i] \notin {0, Bad}}
  IN  [entry EXCEPT
         !.updated = Max({entry.updated} \cup {records[i] : i \in dated}),
         !.uncertain = \/ \E b \in DOMAIN records : records[b] = Bad /\ \A i \in dated : i < b
                       \/ @ /\ dated = {}]

\* The records up to the n-th one are read.
ReadTo(n) ==
  LET entry == [cache EXCEPT !.identity = handle.identity,
                             !.updated = IF FromStart THEN 0 ELSE @]
  IN  [Parsed(entry, SubSeq(Content.records, From + 1, n)) EXCEPT !.offset = Offset(n)]

Read ==
  /\ handle.open
  /\ cache' = IF Unchanged THEN cache
              ELSE [ReadTo(Len(Content.records)) EXCEPT !.modified = handle.modified]
  /\ handle' = Closed
  /\ UNCHANGED <<now, file>>

\* The file cannot be opened, or a read fails after some records.
ReadFails ==
  /\ handle.open
  /\ \E entry \in {cache} \cup
         (IF Unchanged THEN {} ELSE {ReadTo(n) : n \in From .. Len(Content.records)}) :
       cache' = [entry EXCEPT !.uncertain = TRUE, !.modified = 0]
  /\ handle' = Closed
  /\ UNCHANGED <<now, file>>

-----------------------------------------------------------------------------
Records == {0, now, Bad}

Next ==
  \/ Tick \/ Tear
  \/ \E record \in Records : Write(record)
  \/ Replace(<<>>)
  \/ \E record \in Records : Replace(<<record>>)
  \/ Look \/ Read \/ ReadFails

Spec == Init /\ [][Next]_vars

-----------------------------------------------------------------------------
(* Properties.                                                             *)

\* list_sessions: no date is reported for an activity that is not certain.
Reported(entry) == IF entry.uncertain THEN 0 ELSE entry.updated

\* The whole records that were there at the look, and those that came after it.
LookedAt == SubSeq(handle.records, 1, handle.size \div 2)
Since == SubSeq(Content.records, handle.size \div 2 + 1, Len(Content.records))

\* A record that cannot be read came after the last dated one.
UnreadableAtEnd ==
  \E b \in DOMAIN LookedAt :
    /\ LookedAt[b] = Bad
    /\ \A i \in b .. Len(LookedAt) : LookedAt[i] \in {0, Bad}

\* Types of the file, the handle and the entry of the provider; the offset is
\* the end of a record.
TypeOK ==
  /\ now \in 1 .. MaxTime
  /\ file.records \in Seq(0 .. Bad) /\ Len(file.records) <= MaxRecords
  /\ file.torn \in BOOLEAN /\ file.identity \in 1 .. MaxFiles
  /\ cache.offset \in {2 * n : n \in 0 .. MaxRecords} /\ cache.modified \in 0 .. MaxTime
  /\ cache.identity \in 0 .. MaxFiles
  /\ cache.uncertain \in BOOLEAN /\ cache.updated \in 0 .. MaxTime
  /\ handle.open \in BOOLEAN

\* What a refresh may report when it ends.
NotMissed ==
  handle.open /\ ~handle'.open /\ Reported(cache') # 0
    => /\ Reported(cache') >= Latest(LookedAt)
       /\ Reported(cache') \in Dates(Content.records)
       /\ UnreadableAtEnd => Reported(cache') \in Dates(Since)

\* A refresh reports no activity that did not happen, and none that is older
\* than the last dated record in the file when it was opened; an activity that
\* cannot be dated, in a record after the last dated one, is not forgotten, in
\* whichever refresh the record was met.  So it is although records are written
\* in parts, files are replaced and appended to between the look at the metadata
\* and the read, and refreshes fail: otherwise a session in use would expire.
ActivityNotMissed == [][NotMissed]_vars

=============================================================================
