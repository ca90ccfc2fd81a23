-------------------------- MODULE RetryOperations ---------------------------
(***************************************************************************)
(* The durable registry of manual retries (RetryOperationRegistry), the    *)
(* sessions.retry_now connections that accept operations and the tasks     *)
(* that run them (src/src/daemon.rs).                                      *)
(*                                                                         *)
(* The registry mutex makes each of its methods one step; everything else  *)
(* interleaves.  The document of retry-operations.json is replaced as a    *)
(* whole by atomic_write.  What the engine does for an operation is a call *)
(* of the provider with an outcome: module Recovery models it.             *)
(***************************************************************************)
EXTENDS Naturals, FiniteSets

CONSTANTS
  Sessions,       \* provider:session_id
  Keys,           \* request_key of a client request
  Ids,            \* bound: operation ids that may be drawn
  Conns,          \* connections
  None,           \* no session, no key, no operation
  MaxPending,     \* 32
  MaxOperations,  \* 256
  Faults          \* what may go wrong: a failed "save", a "crash"

ASSUME OperationsAssumption ==
  /\ None \notin Sessions \cup Keys \cup Ids
  /\ IsFiniteSet(Ids)
  /\ MaxPending \in Nat \ {0} /\ MaxOperations \in Nat /\ MaxPending < MaxOperations
  /\ Faults \subseteq {"save", "crash"}

VARIABLES
  mem,       \* operations, in memory
  disk,      \* operations, in retry-operations.json
  drawn,     \* history: the request key each id was drawn for, or None
  conn,      \* the connections that handle sessions.retry_now
  task,      \* the spawned operation tasks
  stopping,  \* shutting_down
  call,      \* what became of the provider call of each operation
  told,      \* history: operations that some client was told of
  evicted    \* history: request keys whose settled operation was dropped

vars == <<mem, disk, drawn, conn, task, stopping, call, told, evicted>>

Pending  == {"accepted", "running"}
Settled  == {"succeeded", "failed", "unknown"}
Absent   == [session |-> None, key |-> None, status |-> "absent"]
IdleConn == [pc |-> "idle", session |-> None, key |-> None, id |-> None, starts |-> FALSE]

Present(id)   == mem[id].status # "absent"
IsPending(id) == mem[id].status \in Pending

\* save, or on a failure the restore of previous.
Save(operations) == mem' = operations /\ disk' = operations
SaveFails == "save" \in Faults /\ UNCHANGED <<mem, disk>>

-----------------------------------------------------------------------------
(***************************************************************************)
(* sessions.retry_now.                                                     *)
(***************************************************************************)

\* find_request: a known key is answered with its operation, or refused when it
\* belongs to another session.
FindRequest(c, s, k) ==
  /\ conn[c].pc = "idle"
  /\ LET known == {id \in Ids : Present(id) /\ mem[id].key = k} IN
     \/ /\ known = {}
        /\ conn' = [conn EXCEPT ![c] = [IdleConn EXCEPT !.pc = "prepare", !.session = s,
                                                        !.key = k]]
     \/ \E id \in known :
          /\ mem[id].session = s
          /\ conn' = [conn EXCEPT ![c] = [IdleConn EXCEPT !.pc = "reply", !.id = id]]
  /\ UNCHANGED <<mem, disk, drawn, task, stopping, call, told, evicted>>

\* The shutdown flag, the daemon lock and check_revision.
Prepare(c) ==
  /\ conn[c].pc = "prepare" /\ ~stopping
  /\ conn' = [conn EXCEPT ![c].pc = "accept"]
  /\ UNCHANGED <<mem, disk, drawn, task, stopping, call, told, evicted>>

\* Shutting down, a revision conflict, too many pending operations, a key of
\* another session or a registry that cannot be saved.
Refuse(c) ==
  /\ \/ conn[c].pc = "prepare"
     \/ /\ conn[c].pc = "accept"
        /\ \/ "save" \in Faults
           \/ Cardinality({id \in Ids : IsPending(id)}) >= MaxPending
           \/ \E id \in Ids : mem[id].key = conn[c].key /\ mem[id].session # conn[c].session
  /\ conn' = [conn EXCEPT ![c] = IdleConn]
  /\ UNCHANGED <<mem, disk, drawn, task, stopping, call, told, evicted>>

\* Mutant: operations of the same session do not exclude one another.
NoneOfSession(c) == {}

SameKey(c) == {id \in Ids : Present(id) /\ mem[id].key = conn[c].key}
SameSession(c) == {id \in Ids : IsPending(id) /\ mem[id].session = conn[c].session}

\* accept, when the request joins an operation that exists.
AcceptExisting(c) ==
  /\ conn[c].pc = "accept"
  /\ \E id \in IF SameKey(c) # {} THEN SameKey(c) ELSE SameSession(c) :
       /\ mem[id].session = conn[c].session
       /\ conn' = [conn EXCEPT ![c] = [IdleConn EXCEPT !.pc = "reply", !.id = id]]
  /\ UNCHANGED <<mem, disk, drawn, task, stopping, call, told, evicted>>

\* A full registry drops the settled operation with the oldest wall clock time,
\* which may be any of them.
Evictable ==
  IF Cardinality({id \in Ids : Present(id)}) >= MaxOperations
  THEN {id \in Ids : mem[id].status \in Settled} ELSE {None}

\* accept, when a new operation is made.
AcceptNew(c, id) ==
  /\ conn[c].pc = "accept" /\ drawn[id] = None
  /\ SameKey(c) = {} /\ SameSession(c) = {}
  /\ Cardinality({o \in Ids : IsPending(o)}) < MaxPending
  /\ \E old \in Evictable :
       /\ Save([o \in Ids |->
            IF o = id THEN [session |-> conn[c].session, key |-> conn[c].key,
                            status |-> "accepted"]
            ELSE IF o = old THEN Absent ELSE mem[o]])
       /\ evicted' = IF old = None THEN evicted ELSE evicted \cup {mem[old].key}
  /\ drawn' = [drawn EXCEPT ![id] = conn[c].key]
  /\ conn' = [conn EXCEPT ![c] = [IdleConn EXCEPT !.pc = "reply", !.id = id, !.starts = TRUE]]
  /\ UNCHANGED <<task, stopping, call, told>>

\* write_frame reaches the client.
Reply(c) ==
  /\ conn[c].pc = "reply"
  /\ told' = told \cup {conn[c].id}
  /\ conn' = [conn EXCEPT ![c] =
                IF conn[c].starts THEN [@ EXCEPT !.pc = "spawn"] ELSE IdleConn]
  /\ UNCHANGED <<mem, disk, drawn, task, stopping, call, evicted>>

\* write_frame fails: the acceptance that this connection made is rolled back.
ReplyFails(c) ==
  /\ conn[c].pc = "reply"
  /\ IF conn[c].starts
     THEN Save([mem EXCEPT ![conn[c].id] = Absent]) \/ SaveFails
     ELSE UNCHANGED <<mem, disk>>
  /\ conn' = [conn EXCEPT ![c] = IdleConn]
  /\ UNCHANGED <<drawn, task, stopping, call, told, evicted>>

\* Mutant: the task of an accepted operation is not spawned.
SpawnForgotten(c) ==
  /\ conn[c].pc = "spawn"
  /\ conn' = [conn EXCEPT ![c] = IdleConn]
  /\ UNCHANGED <<mem, disk, drawn, task, stopping, call, told, evicted>>

Spawn(c) ==
  /\ conn[c].pc = "spawn"
  /\ task' = [task EXCEPT ![conn[c].id] = "queued"]
  /\ conn' = [conn EXCEPT ![c] = IdleConn]
  /\ UNCHANGED <<mem, disk, drawn, stopping, call, told, evicted>>

-----------------------------------------------------------------------------
(***************************************************************************)
(* The operation task.                                                     *)
(***************************************************************************)

SetStatus(id, status) == [mem EXCEPT ![id].status = status]

\* The engine lock, the shutdown flag and set_running.
SetRunning(id) ==
  /\ task[id] = "queued" /\ ~stopping
  /\ \A other \in Ids : task[other] \notin {"running", "calling"}
  /\ Save(SetStatus(id, "running"))
  /\ task' = [task EXCEPT ![id] = "running"]
  /\ UNCHANGED <<drawn, conn, stopping, call, told, evicted>>

\* retry_now reaches provider.resume.
CallProvider(id) ==
  /\ task[id] = "running"
  /\ task' = [task EXCEPT ![id] = "calling"]
  /\ call' = [call EXCEPT ![id] = "open"]
  /\ UNCHANGED <<mem, disk, drawn, conn, stopping, told, evicted>>

\* resume returns: a receipt, a definite error or an unknown acknowledgement.
CallReturns(id, outcome) ==
  /\ task[id] = "calling"
  /\ task' = [task EXCEPT ![id] = "returned"]
  /\ call' = [call EXCEPT ![id] = outcome]
  /\ UNCHANGED <<mem, disk, drawn, conn, stopping, told, evicted>>

\* Mutant: the status is the outcome as the provider names it.
FinishRawOutcome(id) ==
  /\ task[id] = "returned"
  /\ Save(SetStatus(id, call[id]))
  /\ task' = [task EXCEPT ![id] = "none"]
  /\ UNCHANGED <<drawn, conn, stopping, call, told, evicted>>

\* Mutant: a lost acknowledgement is an error like any other.
FinishLostAsFailed(id) ==
  /\ task[id] = "returned"
  /\ Save(SetStatus(id, IF call[id] = "done" THEN "succeeded" ELSE "failed"))
  /\ task' = [task EXCEPT ![id] = "none"]
  /\ UNCHANGED <<drawn, conn, stopping, call, told, evicted>>

\* finish, with the result of the task: the call's, or the error that kept it
\* from being made.
Finish(id) ==
  /\ \/ task[id] = "returned" \/ task[id] = "running"
     \/ task[id] = "queued" /\ (stopping \/ "save" \in Faults)
  /\ \/ Save(SetStatus(id, CASE call[id] = "done" -> "succeeded"
                             [] call[id] = "lost" -> "unknown"
                             [] OTHER -> "failed"))
     \/ SaveFails
  /\ task' = [task EXCEPT ![id] = "none"]
  /\ UNCHANGED <<drawn, conn, stopping, call, told, evicted>>

-----------------------------------------------------------------------------
(***************************************************************************)
(* Shutdown and restart.                                                   *)
(***************************************************************************)

StopSignal ==
  /\ ~stopping
  /\ stopping' = TRUE
  /\ UNCHANGED <<mem, disk, drawn, conn, task, call, told, evicted>>

\* retry_tasks.abort_all drops a task; its operation keeps the status it has.
AbortTask(id) ==
  /\ stopping /\ task[id] # "none"
  /\ task' = [task EXCEPT ![id] = "none"]
  /\ UNCHANGED <<mem, disk, drawn, conn, stopping, call, told, evicted>>

\* Mutant: pending operations do not survive a restart.
LoadedSettled == [id \in Ids |-> IF disk[id].status \in Pending THEN Absent ELSE disk[id]]

\* RetryOperationRegistry::load: what was pending has an unknown result.
Loaded == [id \in Ids |-> IF disk[id].status \in Pending
                          THEN [disk[id] EXCEPT !.status = "unknown"] ELSE disk[id]]

\* A new process, after a shutdown or a crash.
Restart ==
  /\ stopping \/ "crash" \in Faults
  /\ Save(Loaded)
  /\ conn' = [c \in Conns |-> IdleConn]
  /\ task' = [id \in Ids |-> "none"]
  /\ stopping' = FALSE
  /\ UNCHANGED <<drawn, call, told, evicted>>

-----------------------------------------------------------------------------
Init ==
  /\ mem = [id \in Ids |-> Absent] /\ disk = [id \in Ids |-> Absent]
  /\ drawn = [id \in Ids |-> None]
  /\ conn = [c \in Conns |-> IdleConn]
  /\ task = [id \in Ids |-> "none"]
  /\ stopping = FALSE
  /\ call = [id \in Ids |-> "none"]
  /\ told = {} /\ evicted = {}

ConnStep(c) ==
  \/ Prepare(c) \/ Refuse(c)
  \/ AcceptExisting(c) \/ \E id \in Ids : AcceptNew(c, id)
  \/ Reply(c) \/ ReplyFails(c) \/ Spawn(c)

TaskStep(id) ==
  \/ SetRunning(id) \/ CallProvider(id)
  \/ \E outcome \in {"done", "refused", "lost"} : CallReturns(id, outcome)
  \/ Finish(id)

Next ==
  \/ \E c \in Conns : ConnStep(c) \/ \E s \in Sessions, k \in Keys : FindRequest(c, s, k)
  \/ \E id \in Ids : TaskStep(id) \/ AbortTask(id)
  \/ StopSignal \/ Restart

Spec == Init /\ [][Next]_vars

(***************************************************************************)
(* Fairness.  Connections and tasks are polled; the engine mutex is FIFO,  *)
(* so a queued operation gets it in the end.  Nothing is assumed of the    *)
(* clients and of the stop signal.                                         *)
(***************************************************************************)
FairSpec ==
  /\ Spec
  /\ \A c \in Conns : WF_vars(ConnStep(c))
  /\ \A id \in Ids : SF_vars(TaskStep(id))

-----------------------------------------------------------------------------
(***************************************************************************)
(* Properties.                                                             *)
(***************************************************************************)

Statuses  == Pending \cup Settled \cup {"absent"}
Operation == [session : Sessions \cup {None}, key : Keys \cup {None}, status : Statuses]

\* The type of both copies of the registry, of connections, tasks and calls.
TypeOK ==
  /\ mem \in [Ids -> Operation] /\ disk \in [Ids -> Operation]
  /\ drawn \in [Ids -> Keys \cup {None}] /\ told \in SUBSET Ids /\ evicted \in SUBSET Keys
  /\ conn \in [Conns -> [pc : {"idle", "prepare", "accept", "reply", "spawn"},
                         session : Sessions \cup {None}, key : Keys \cup {None},
                         id : Ids \cup {None}, starts : BOOLEAN]]
  /\ task \in [Ids -> {"none", "queued", "running", "calling", "returned"}]
  /\ stopping \in BOOLEAN
  /\ call \in [Ids -> {"none", "open", "done", "refused", "lost"}]

\* "It never claims that an uncertain recovery was not sent" (README.md:239): an
\* operation reads failed only if its call was never made or definitely refused,
\* and succeeded only if the provider acknowledged it, across crashes, aborted
\* tasks and failed writes, in memory and in the file.
ResultsHonest ==
  \A id \in Ids : \A status \in {mem[id].status, disk[id].status} :
    /\ status = "failed" => call[id] \in {"none", "refused"}
    /\ status = "succeeded" => call[id] = "done"

\* "Repeating an unacknowledged request returns the existing operation": a request
\* key leads to at most one provider call, also when it is repeated after a crash
\* or on several connections, as long as its settled operation was not evicted.
OneCallPerKey ==
  \A a, b \in Ids :
    /\ call[a] # "none" /\ call[b] # "none"
    /\ drawn[a] = drawn[b] /\ drawn[a] \notin evicted
    => a = b

\* The registry stays within its bounds, and a session has at most one pending
\* operation, whatever is rolled back or restored.
RegistryBounded ==
  /\ Cardinality({id \in Ids : IsPending(id)}) <= MaxPending
  /\ Cardinality({id \in Ids : Present(id)}) <= MaxOperations
  /\ \A a, b \in Ids :
       IsPending(a) /\ IsPending(b) /\ mem[a].session = mem[b].session => a = b

\* "RPC callers can follow it to success, failure, or an explicit unknown result"
\* (README.md:237-238): an operation that is pending is settled, rolled back, or
\* left to a restart.
OperationsSettle ==
  \A id \in Ids : IsPending(id) ~> ~IsPending(id) \/ stopping

\* "Manual retry is accepted as a durable background operation and returns an
\* operation ID" (README.md:235): an operation a client was told of is not
\* forgotten while it is pending.
ToldIsDurable ==
  [][\A id \in told : IsPending(id) => mem'[id].status # "absent"]_vars

=============================================================================
