----------------------- MODULE RetryOperationsProofs ------------------------
(***************************************************************************)
(* Proofs about RetryOperations, for any sessions, request keys, operation *)
(* ids, connections and bounds, with failed saves and crashes: the results *)
(* of operations are honest, a request key leads to one call, and the      *)
(* registry stays within its bounds.                                       *)
(*                                                                         *)
(*   CopyInv     the file and the memory hold the same operations;         *)
(*   ConnInv     what a connection holds while it handles a request;       *)
(*   TaskInv     how the status of an operation, its task and its call go  *)
(*               together;                                                 *)
(*   UniqueInv   no two operations of a key, no two pending ones of a      *)
(*               session;                                                  *)
(*   BoundsInv   the sizes of the registry.                                *)
(***************************************************************************)
EXTENDS RetryOperations, FiniteSetTheorems, TLAPS

\* save restores what was there, so a file is never behind.
CopyInv == mem = disk

\* A connection that starts an operation is its only owner until it is spawned.
ConnInv ==
  /\ \A c \in Conns :
       /\ conn[c].pc \in {"prepare", "accept"}
            => conn[c].session \in Sessions /\ conn[c].key \in Keys
       /\ conn[c].pc \in {"reply", "spawn"} => conn[c].id \in Ids
       /\ conn[c].pc = "spawn" => conn[c].starts
       /\ conn[c].starts => /\ conn[c].pc \in {"reply", "spawn"}
                            /\ mem[conn[c].id].status = "accepted"
                            /\ task[conn[c].id] = "none"
  /\ \A c, d \in Conns : conn[c].starts /\ conn[d].starts /\ conn[c].id = conn[d].id => c = d

\* An operation is called for by its task only, and a call leaves its trace in the
\* registry until the operation is evicted.
TaskInv ==
  \A id \in Ids :
    /\ mem[id].status = "accepted" => call[id] = "none"
    /\ task[id] = "queued" => mem[id].status = "accepted"
    /\ task[id] \in {"running", "calling", "returned"} => mem[id].status = "running"
    /\ task[id] = "running" => call[id] = "none"
    /\ task[id] = "returned" => call[id] \in {"done", "refused", "lost"}
    /\ drawn[id] = None => ~Present(id) /\ call[id] = "none"
    /\ Present(id) => mem[id].session \in Sessions /\ mem[id].key = drawn[id]
    /\ call[id] # "none" /\ drawn[id] \notin evicted => Present(id)
    /\ mem[id].status = "failed" => call[id] \in {"none", "refused"}
    /\ mem[id].status = "succeeded" => call[id] = "done"

UniqueInv ==
  \A a, b \in Ids :
    /\ Present(a) /\ Present(b) /\ mem[a].key = mem[b].key => a = b
    /\ IsPending(a) /\ IsPending(b) /\ mem[a].session = mem[b].session => a = b

BoundsInv ==
  /\ Cardinality({id \in Ids : IsPending(id)}) <= MaxPending
  /\ Cardinality({id \in Ids : Present(id)}) <= MaxOperations

IInv == TypeOK /\ CopyInv /\ ConnInv /\ TaskInv /\ UniqueInv /\ BoundsInv

ConnType == [pc : {"idle", "prepare", "accept", "reply", "spawn"},
             session : Sessions \cup {None}, key : Keys \cup {None},
             id : Ids \cup {None}, starts : BOOLEAN]
PendingIds == {id \in Ids : IsPending(id)}
PresentIds == {id \in Ids : Present(id)}

USE OperationsAssumption DEF Pending, Settled, Statuses

-----------------------------------------------------------------------------
(* Helpers.                                                                *)

\* Initially the registry is empty and nothing is under way.
LEMMA InvInit == Init => IInv
<1> SUFFICES ASSUME Init PROVE IInv
  OBVIOUS
<1>1. TypeOK
  BY DEF Init, TypeOK, Absent, Operation, IdleConn
<1>2. CopyInv /\ ConnInv /\ TaskInv /\ UniqueInv
  BY DEF Init, Absent, IdleConn, CopyInv, ConnInv, TaskInv, UniqueInv, Present, IsPending
<1>3. BoundsInv
  <2>1. {id \in Ids : IsPending(id)} = {} /\ {id \in Ids : Present(id)} = {}
    BY DEF Init, Absent, IsPending, Present
  <2> QED
    BY <2>1, FS_EmptySet DEF BoundsInv
<1> QED
  BY <1>1, <1>2, <1>3 DEF IInv

\* A registry in which no operation appears, changes its key or its session, or
\* becomes pending again stays unique and within its bounds.
LEMMA ShrinkKeeps ==
  ASSUME UniqueInv, BoundsInv,
         \A id \in Ids :
           /\ Present(id)' => Present(id) /\ mem'[id].key = mem[id].key
                                /\ mem'[id].session = mem[id].session
           /\ IsPending(id)' => IsPending(id)
  PROVE  UniqueInv' /\ BoundsInv'
<1>1. UniqueInv'
  BY DEF UniqueInv, Present, IsPending
<1>2. /\ PendingIds' \subseteq PendingIds /\ IsFiniteSet(PendingIds)
      /\ PresentIds' \subseteq PresentIds /\ IsFiniteSet(PresentIds)
  <2>1. PendingIds \subseteq Ids /\ PresentIds \subseteq Ids
    BY DEF PendingIds, PresentIds
  <2> QED
    BY <2>1, FS_Subset DEF PendingIds, PresentIds
<1>3. /\ Cardinality(PendingIds') <= Cardinality(PendingIds)
      /\ Cardinality(PresentIds') <= Cardinality(PresentIds)
  BY <1>2, FS_Subset
<1>4. /\ Cardinality(PendingIds) \in Nat /\ Cardinality(PendingIds') \in Nat
      /\ Cardinality(PresentIds) \in Nat /\ Cardinality(PresentIds') \in Nat
  BY <1>2, FS_Subset, FS_CardinalityType
<1> QED
  BY <1>1, <1>3, <1>4 DEF BoundsInv, PendingIds, PresentIds

\* A step that leaves the registry alone.
LEMMA UnchangedKeeps ==
  ASSUME UniqueInv, BoundsInv, UNCHANGED mem
  PROVE  UniqueInv' /\ BoundsInv'
  BY DEF UniqueInv, BoundsInv, IsPending, Present

-----------------------------------------------------------------------------
(* Connections.                                                            *)

\* A connection that neither starts an operation nor changes the registry.
LEMMA ConnKeeps ==
  ASSUME IInv, NEW c \in Conns, NEW r \in ConnType, conn' = [conn EXCEPT ![c] = r],
         UNCHANGED <<mem, disk, drawn, task, stopping, call, evicted>>,
         told' \in SUBSET Ids,
         r.pc \in {"prepare", "accept"} => r.session \in Sessions /\ r.key \in Keys,
         r.pc \in {"reply", "spawn"} => r.id \in Ids,
         r.pc = "spawn" => r.starts,
         r.starts => conn[c].starts /\ r.id = conn[c].id /\ r.pc \in {"reply", "spawn"}
  PROVE  IInv'
<1> USE DEF IInv
<1>1. TypeOK'
  BY DEF TypeOK, ConnType
<1>2. CopyInv' /\ TaskInv'
  BY DEF CopyInv, TaskInv, Present
<1>3. ConnInv'
  BY DEF ConnInv, TypeOK
<1>4. UniqueInv' /\ BoundsInv'
  BY UnchangedKeeps
<1> QED
  BY <1>1, <1>2, <1>3, <1>4

\* find_request finds the operation of the key, or lets the request go on.
LEMMA FindRequestStep ==
  ASSUME IInv, NEW c \in Conns, NEW s \in Sessions, NEW k \in Keys, FindRequest(c, s, k)
  PROVE  IInv'
<1>0. told' \in SUBSET Ids /\ UNCHANGED <<mem, disk, drawn, task, stopping, call, evicted>>
  BY DEF FindRequest, IInv, TypeOK
<1>1. CASE conn' = [conn EXCEPT ![c] = [IdleConn EXCEPT !.pc = "prepare", !.session = s,
                                                        !.key = k]]
  BY <1>0, <1>1, ConnKeeps DEF IdleConn, ConnType
<1>2. CASE \E id \in Ids :
             conn' = [conn EXCEPT ![c] = [IdleConn EXCEPT !.pc = "reply", !.id = id]]
  BY <1>0, <1>2, ConnKeeps DEF IdleConn, ConnType
<1> QED
  BY <1>1, <1>2 DEF FindRequest

\* The steps before an operation is made, and those that make none.
LEMMA RequestStep ==
  ASSUME IInv, NEW c \in Conns, Prepare(c) \/ Refuse(c) \/ AcceptExisting(c)
  PROVE  IInv'
<1>0. told' \in SUBSET Ids /\ UNCHANGED <<mem, disk, drawn, task, stopping, call, evicted>>
  BY DEF Prepare, Refuse, AcceptExisting, IInv, TypeOK
<1>1. CASE Prepare(c)
  <2> DEFINE r == [conn[c] EXCEPT !.pc = "accept"]
  <2>1. r \in ConnType /\ conn' = [conn EXCEPT ![c] = r]
    BY <1>1 DEF Prepare, IInv, TypeOK, ConnType
  <2>2. r.pc = "accept" /\ r.session \in Sessions /\ r.key \in Keys /\ ~r.starts
    BY <1>1 DEF Prepare, IInv, TypeOK, ConnInv
  <2> QED
    BY <1>0, <2>1, <2>2, ConnKeeps
<1>2. CASE Refuse(c)
  BY <1>0, <1>2, ConnKeeps DEF Refuse, IdleConn, ConnType
<1>3. CASE AcceptExisting(c)
  <2>1. PICK id \in Ids :
          conn' = [conn EXCEPT ![c] = [IdleConn EXCEPT !.pc = "reply", !.id = id]]
    BY <1>3 DEF AcceptExisting, SameKey, SameSession
  <2> QED
    BY <1>0, <2>1, ConnKeeps DEF IdleConn, ConnType
<1> QED
  BY <1>1, <1>2, <1>3

\* write_frame: the client is told, and an operation that was made here is spawned
\* next.
LEMMA ReplyStep ==
  ASSUME IInv, NEW c \in Conns, Reply(c)
  PROVE  IInv'
<1>0. /\ conn[c].pc = "reply" /\ conn[c].id \in Ids
      /\ told' \in SUBSET Ids /\ UNCHANGED <<mem, disk, drawn, task, stopping, call, evicted>>
  BY DEF Reply, IInv, TypeOK, ConnInv
<1> DEFINE r == IF conn[c].starts THEN [conn[c] EXCEPT !.pc = "spawn"] ELSE IdleConn
<1>1. r \in ConnType /\ conn' = [conn EXCEPT ![c] = r]
  BY DEF Reply, IdleConn, IInv, TypeOK, ConnType
<1>2. /\ r.pc \in {"spawn", "idle"}
      /\ r.pc = "spawn" => r.id = conn[c].id /\ conn[c].starts
      /\ r.pc = "spawn" <=> r.starts
  BY DEF IdleConn, IInv, TypeOK
<1> QED
  BY <1>0, <1>1, <1>2, ConnKeeps

\* An acceptance whose answer is lost is taken back, unless that cannot be saved; its
\* operation was not called for.
LEMMA ReplyFailsStep ==
  ASSUME IInv, NEW c \in Conns, ReplyFails(c)
  PROVE  IInv'
<1> USE DEF IInv
<1>0. /\ conn' = [conn EXCEPT ![c] = IdleConn]
      /\ UNCHANGED <<drawn, task, stopping, call, told, evicted>>
  BY DEF ReplyFails
<1>1. CASE UNCHANGED <<mem, disk>>
  BY <1>0, <1>1, ConnKeeps DEF IdleConn, ConnType, TypeOK
<1>2. CASE conn[c].starts /\ Save([mem EXCEPT ![conn[c].id] = Absent])
  <2> DEFINE id == conn[c].id
  <2>1. /\ id \in Ids /\ mem[id].status = "accepted" /\ task[id] = "none" /\ call[id] = "none"
        /\ mem' = [mem EXCEPT ![id] = Absent] /\ disk' = mem'
    BY <1>2 DEF Save, ConnInv, TaskInv
  <2>2. TypeOK'
    BY <1>0, <2>1 DEF TypeOK, Absent, Operation, IdleConn
  <2>3. ConnInv'
    BY <1>0, <1>2, <2>1 DEF ConnInv, TypeOK, IdleConn
  <2>4. TaskInv'
    BY <1>0, <2>1 DEF TaskInv, TypeOK, Absent, Present
  <2>5. UniqueInv' /\ BoundsInv'
    BY <2>1, ShrinkKeeps DEF TypeOK, Absent, Present, IsPending
  <2> QED
    BY <2>1, <2>2, <2>3, <2>4, <2>5 DEF CopyInv
<1> QED
  BY <1>1, <1>2 DEF ReplyFails, SaveFails

\* The task of an operation is spawned by the connection that made it.
LEMMA SpawnStep ==
  ASSUME IInv, NEW c \in Conns, Spawn(c)
  PROVE  IInv'
<1> USE DEF IInv
<1> DEFINE id == conn[c].id
<1>0. /\ id \in Ids /\ conn[c].starts
      /\ mem[id].status = "accepted"
      /\ task' = [task EXCEPT ![id] = "queued"]
      /\ conn' = [conn EXCEPT ![c] = IdleConn]
      /\ UNCHANGED <<mem, disk, drawn, stopping, call, told, evicted>>
  BY DEF Spawn, ConnInv
<1>1. TypeOK'
  BY <1>0 DEF TypeOK, IdleConn
<1>2. ConnInv'
  BY <1>0 DEF ConnInv, TypeOK, IdleConn
<1>3. TaskInv'
  BY <1>0 DEF TaskInv, TypeOK, Present
<1>4. UniqueInv' /\ BoundsInv'
  BY <1>0, UnchangedKeeps
<1> QED
  BY <1>0, <1>1, <1>2, <1>3, <1>4 DEF CopyInv

\* accept makes an operation for a key and a session that have none, and a full
\* registry drops a settled one whose key is then known to be evicted.
LEMMA AcceptNewStep ==
  ASSUME IInv, NEW c \in Conns, NEW id \in Ids, AcceptNew(c, id)
  PROVE  IInv'
<1> USE DEF IInv
<1> DEFINE new == [session |-> conn[c].session, key |-> conn[c].key, status |-> "accepted"]
           r == [IdleConn EXCEPT !.pc = "reply", !.id = id, !.starts = TRUE]
<1>1. PICK old \in Evictable :
        /\ mem' = [o \in Ids |-> IF o = id THEN new ELSE IF o = old THEN Absent ELSE mem[o]]
        /\ disk' = mem'
        /\ evicted' = IF old = None THEN evicted ELSE evicted \cup {mem[old].key}
  BY DEF AcceptNew, Save
<1>2. /\ conn[c].session \in Sessions /\ conn[c].key \in Keys
      /\ drawn[id] = None /\ ~Present(id) /\ call[id] = "none" /\ task[id] = "none"
      /\ drawn' = [drawn EXCEPT ![id] = conn[c].key]
      /\ conn' = [conn EXCEPT ![c] = r]
      /\ UNCHANGED <<task, stopping, call, told>>
  BY DEF AcceptNew, ConnInv, TaskInv, TypeOK, Present
<1>3. \/ old = None /\ Cardinality({o \in Ids : Present(o)}) < MaxOperations
      \/ old \in Ids /\ mem[old].status \in Settled /\ old # id
  <2>1. Cardinality({o \in Ids : Present(o)}) \in Nat
    BY FS_Subset, FS_CardinalityType
  <2> QED
    BY <1>2, <2>1 DEF Evictable, Present
<1>4. old \in Ids => mem[old].key = drawn[old] /\ mem[old].key \in Keys
  BY <1>3 DEF TaskInv, TypeOK, Present
<1>5. TypeOK'
  <2>1. mem' \in [Ids -> Operation]
    BY <1>1, <1>2 DEF TypeOK, Operation, Absent
  <2>2. drawn' \in [Ids -> Keys \cup {None}] /\ evicted' \in SUBSET Keys
    BY <1>1, <1>2, <1>3, <1>4 DEF TypeOK
  <2>3. conn' \in [Conns -> ConnType]
    BY <1>2 DEF TypeOK, ConnType, IdleConn
  <2> QED
    BY <1>1, <1>2, <2>1, <2>2, <2>3 DEF TypeOK, ConnType
<1>6. \A o \in Ids : o # id /\ o # old => mem'[o] = mem[o]
  BY <1>1
<1>7. mem'[id] = new /\ (old \in Ids => mem'[old] = Absent)
  BY <1>1, <1>3
<1>8. ConnInv'
  <2>1. \A d \in Conns : conn[d].starts => conn[d].id \notin {id, old}
    BY <1>2, <1>3 DEF ConnInv, Present
  <2>2. conn'[c] = r /\ r.starts /\ r.id = id /\ r.pc = "reply" /\ new.status = "accepted"
    BY <1>2 DEF IdleConn, TypeOK
  <2>3. \A d \in Conns : d # c => conn'[d] = conn[d]
    BY <1>2 DEF TypeOK
  <2> QED
    BY <1>2, <1>6, <1>7, <2>1, <2>2, <2>3 DEF ConnInv
<1>9. TaskInv'
  <2>1. \A o \in Ids : o # id => drawn'[o] = drawn[o]
    BY <1>2 DEF TypeOK
  <2>2. drawn'[id] = conn[c].key
    BY <1>2 DEF TypeOK
  <2>3. old \in Ids => drawn[old] \in evicted' /\ task[old] = "none" /\ drawn[old] # None
    BY <1>1, <1>3, <1>4 DEF TaskInv, TypeOK
  <2>4. evicted \subseteq evicted'
    BY <1>1
  <2> QED
    BY <1>2, <1>3, <1>6, <1>7, <2>1, <2>2, <2>3, <2>4 DEF TaskInv, Present, Absent
<1>10. UniqueInv'
  BY <1>3, <1>6, <1>7 DEF AcceptNew, SameKey, SameSession, UniqueInv, Present, IsPending, Absent
<1>11. BoundsInv'
  <2>1. /\ PendingIds' = PendingIds \cup {id} /\ IsFiniteSet(PendingIds)
        /\ Cardinality(PendingIds) < MaxPending
    <3>1. PendingIds \subseteq Ids
      BY DEF PendingIds
    <3>2. PendingIds' = PendingIds \cup {id}
      BY <1>3, <1>6, <1>7 DEF PendingIds, IsPending, Absent
    <3> QED
      BY <3>1, <3>2, FS_Subset DEF AcceptNew, PendingIds
  <2>2. Cardinality(PendingIds') <= MaxPending
    <3>1. Cardinality(PendingIds) \in Nat
      BY <2>1, FS_CardinalityType
    <3>2. Cardinality(PendingIds') \in {Cardinality(PendingIds), Cardinality(PendingIds) + 1}
      BY <2>1, FS_AddElement
    <3> QED
      BY <2>1, <3>1, <3>2
  <2>3. IsFiniteSet(PresentIds) /\ id \notin PresentIds
    BY <1>2, FS_Subset DEF PresentIds
  <2>4. CASE old = None
    <3>1. PresentIds' = PresentIds \cup {id}
      BY <1>6, <1>7, <2>4 DEF PresentIds, Present
    <3>2. Cardinality(PresentIds') = Cardinality(PresentIds) + 1
      BY <2>3, <3>1, FS_AddElement
    <3>3. Cardinality(PresentIds) \in Nat /\ Cardinality(PresentIds) < MaxOperations
      BY <1>3, <2>3, <2>4, FS_CardinalityType DEF PresentIds
    <3> QED
      BY <2>2, <3>2, <3>3 DEF BoundsInv, PresentIds, PendingIds
  <2>5. CASE old \in Ids
    <3>1. PresentIds' = (PresentIds \ {old}) \cup {id} /\ old \in PresentIds
      BY <1>3, <1>6, <1>7, <2>5 DEF PresentIds, Present, Absent
    <3>2. Cardinality(PresentIds') = Cardinality(PresentIds)
      <4>1. /\ IsFiniteSet(PresentIds \ {old})
            /\ Cardinality(PresentIds \ {old}) = Cardinality(PresentIds) - 1
        BY <2>3, <3>1, FS_RemoveElement
      <4>2. Cardinality(PresentIds') = Cardinality(PresentIds \ {old}) + 1
        BY <2>3, <3>1, <4>1, FS_AddElement
      <4> QED
        BY <2>3, <4>1, <4>2, FS_CardinalityType
    <3> QED
      BY <2>2, <3>2 DEF BoundsInv, PresentIds, PendingIds
  <2> QED
    BY <1>3, <2>4, <2>5
<1> QED
  BY <1>1, <1>5, <1>8, <1>9, <1>10, <1>11 DEF CopyInv

-----------------------------------------------------------------------------
(* Tasks.                                                                  *)

\* An operation moves on: its status, its task and its call change together.
LEMMA OperationMoves ==
  ASSUME IInv, NEW id \in Ids, NEW status \in Pending \cup Settled,
         NEW at \in {"none", "queued", "running", "calling", "returned"},
         NEW made \in {"none", "open", "done", "refused", "lost"},
         task[id] # "none",
         mem' = [mem EXCEPT ![id].status = status] /\ disk' = mem',
         task' = [task EXCEPT ![id] = at], call' = [call EXCEPT ![id] = made],
         UNCHANGED <<drawn, conn, stopping, told, evicted>>,
         status = "accepted" => made = "none",
         at = "queued" => status = "accepted",
         at \in {"running", "calling", "returned"} => status = "running",
         at = "running" => made = "none",
         at = "returned" => made \in {"done", "refused", "lost"},
         status = "failed" => made \in {"none", "refused"},
         status = "succeeded" => made = "done"
  PROVE  IInv'
<1> USE DEF IInv
<1>1. IsPending(id)
  BY DEF TypeOK, TaskInv, IsPending
<1>0. /\ mem \in [Ids -> Operation]
      /\ task \in [Ids -> {"none", "queued", "running", "calling", "returned"}]
      /\ call \in [Ids -> {"none", "open", "done", "refused", "lost"}]
  BY DEF TypeOK
<1>2. TypeOK'
  <2>1. mem' \in [Ids -> Operation]
    BY <1>0 DEF Operation
  <2>2. /\ task' \in [Ids -> {"none", "queued", "running", "calling", "returned"}]
        /\ call' \in [Ids -> {"none", "open", "done", "refused", "lost"}]
    BY <1>0
  <2> QED
    BY <2>1, <2>2 DEF TypeOK
<1>3. \A o \in Ids : /\ mem'[o].key = mem[o].key /\ mem'[o].session = mem[o].session
                     /\ mem'[o].status = IF o = id THEN status ELSE mem[o].status
  BY DEF TypeOK, Operation
<1>4. \A o \in Ids : /\ task'[o] = IF o = id THEN at ELSE task[o]
                     /\ call'[o] = IF o = id THEN made ELSE call[o]
  BY <1>0
<1>5. ConnInv'
  BY <1>3, <1>4 DEF ConnInv
<1>6. TaskInv'
  <2>1. ASSUME NEW o \in Ids, o # id
        PROVE  /\ mem'[o].status = mem[o].status /\ mem'[o].key = mem[o].key
               /\ mem'[o].session = mem[o].session
               /\ task'[o] = task[o] /\ call'[o] = call[o] /\ drawn'[o] = drawn[o]
    BY <1>3, <1>4, <2>1
  <2>2. /\ mem'[id].status = status /\ task'[id] = at /\ call'[id] = made
        /\ mem'[id].key = mem[id].key /\ mem'[id].session = mem[id].session
    BY ONLY <1>3, <1>4, id \in Ids
  <2>3. Present(id) /\ status # "absent"
    BY <1>1 DEF Present, IsPending
  <2> QED
    BY <2>1, <2>2, <2>3 DEF TaskInv, Present
<1>7. UniqueInv' /\ BoundsInv'
  BY <1>1, <1>3, ShrinkKeeps DEF Present, IsPending
<1> QED
  BY <1>2, <1>5, <1>6, <1>7 DEF CopyInv

\* set_running, the call and its return.
LEMMA CallStep ==
  ASSUME IInv, NEW id \in Ids,
         \/ SetRunning(id) \/ CallProvider(id)
         \/ \E outcome \in {"done", "refused", "lost"} : CallReturns(id, outcome)
  PROVE  IInv'
<1> USE DEF IInv
<1>0. mem = [mem EXCEPT ![id].status = mem[id].status] /\ call = [call EXCEPT ![id] = call[id]]
  BY DEF TypeOK, Operation
<1>1. CASE SetRunning(id)
  BY <1>0, <1>1, OperationMoves DEF SetRunning, Save, SetStatus, TaskInv, TypeOK
<1>2. CASE CallProvider(id)
  BY <1>0, <1>2, OperationMoves DEF CallProvider, TaskInv, CopyInv
<1>3. ASSUME NEW outcome \in {"done", "refused", "lost"}, CallReturns(id, outcome)
      PROVE  IInv'
  BY <1>0, <1>3, OperationMoves DEF CallReturns, TaskInv, CopyInv
<1> QED
  BY <1>1, <1>2, <1>3

\* A task ends without its result in the registry: it is aborted, or the save of the
\* result fails.
LEMMA TaskEnds ==
  ASSUME IInv, NEW id \in Ids, task' = [task EXCEPT ![id] = "none"],
         UNCHANGED <<mem, disk, drawn, conn, stopping, call, told, evicted>>
  PROVE  IInv'
<1> USE DEF IInv
<1>1. TypeOK' /\ CopyInv' /\ ConnInv' /\ TaskInv'
  BY DEF TypeOK, CopyInv, ConnInv, TaskInv, Present
<1> QED
  BY <1>1, UnchangedKeeps

\* finish records what the call has returned, or a failure when none was made.
LEMMA FinishStep ==
  ASSUME IInv, NEW id \in Ids, Finish(id)
  PROVE  IInv'
<1> USE DEF IInv
<1> DEFINE status == CASE call[id] = "done" -> "succeeded"
                       [] call[id] = "lost" -> "unknown"
                       [] OTHER -> "failed"
<1>1. CASE SaveFails
  BY <1>1, TaskEnds DEF Finish, SaveFails
<1>2. CASE Save(SetStatus(id, status))
  <2>1. call = [call EXCEPT ![id] = call[id]] /\ task[id] # "none"
    BY DEF TypeOK, Finish
  <2>2. call[id] \in {"none", "done", "refused", "lost"}
    BY DEF Finish, TaskInv, TypeOK
  <2> QED
    BY <1>2, <2>1, <2>2, OperationMoves DEF Finish, Save, SetStatus, TypeOK
<1> QED
  BY <1>1, <1>2 DEF Finish

-----------------------------------------------------------------------------
(* Restart.                                                                *)

\* load settles what was pending as unknown; no connection and no task is left.
LEMMA RestartStep ==
  ASSUME IInv, Restart
  PROVE  IInv'
<1> USE DEF IInv
<1>0. /\ conn' = [c \in Conns |-> IdleConn] /\ task' = [id \in Ids |-> "none"]
      /\ stopping' = FALSE /\ mem' = Loaded /\ disk' = Loaded
      /\ UNCHANGED <<drawn, call, told, evicted>>
  BY DEF Restart, Save
<1>1. \A id \in Ids : /\ mem'[id].key = mem[id].key /\ mem'[id].session = mem[id].session
                      /\ mem'[id].status = IF mem[id].status \in Pending THEN "unknown"
                                            ELSE mem[id].status
  BY <1>0 DEF Loaded, CopyInv, TypeOK, Operation
<1>2. TypeOK'
  <2>1. ASSUME NEW id \in Ids PROVE Loaded[id] \in Operation
    <3>1. /\ disk[id] \in Operation
          /\ Loaded[id] \in {disk[id], [disk[id] EXCEPT !.status = "unknown"]}
      BY DEF Loaded, TypeOK
    <3> QED
      BY <3>1 DEF Operation
  <2>2. Loaded \in [Ids -> Operation]
    BY <2>1 DEF Loaded
  <2> QED
    BY <1>0, <2>2 DEF TypeOK, IdleConn
<1>3. ConnInv'
  BY <1>0 DEF ConnInv, IdleConn
<1>4. TaskInv'
  BY <1>0, <1>1 DEF TaskInv, Present
<1>5. UniqueInv' /\ BoundsInv'
  BY <1>1, ShrinkKeeps DEF Present, IsPending
<1> QED
  BY <1>0, <1>2, <1>3, <1>4, <1>5 DEF CopyInv

-----------------------------------------------------------------------------
(* The properties.                                                         *)

\* Every step keeps the invariant.
LEMMA InvStep == IInv /\ [Next]_vars => IInv'
<1> SUFFICES ASSUME IInv, [Next]_vars PROVE IInv'
  OBVIOUS
<1>1. ASSUME NEW c \in Conns, ConnStep(c) PROVE IInv'
  BY <1>1, RequestStep, AcceptNewStep, ReplyStep, ReplyFailsStep, SpawnStep DEF ConnStep
<1>2. ASSUME NEW id \in Ids, TaskStep(id) \/ AbortTask(id) PROVE IInv'
  BY <1>2, CallStep, FinishStep, TaskEnds DEF TaskStep, AbortTask
<1>3. CASE StopSignal
  BY <1>3, UnchangedKeeps DEF StopSignal, IInv, TypeOK, CopyInv, ConnInv, TaskInv, Present
<1>4. CASE UNCHANGED vars
  BY <1>4, UnchangedKeeps DEF vars, IInv, TypeOK, CopyInv, ConnInv, TaskInv, Present
<1> QED
  BY <1>1, <1>2, <1>3, <1>4, FindRequestStep, RestartStep DEF Next

\* The invariant holds in every reachable state.
LEMMA Invariant == Spec => []IInv
  BY InvInit, InvStep, PTL DEF Spec

\* TypeOK: the type of the registry, of its file, and of those that work on it.
THEOREM TypeCorrect == Spec => []TypeOK
<1>1. IInv => TypeOK
  BY DEF IInv
<1> QED
  BY <1>1, Invariant, PTL

\* ResultsHonest: in memory and in the file an operation reads failed only if its call
\* was never made or refused, and succeeded only if it was acknowledged, whatever
\* crashes, aborts and failed saves come between the call and the record.
THEOREM ResultsAreHonest == Spec => []ResultsHonest
<1>1. IInv => ResultsHonest
  BY DEF IInv, CopyInv, TaskInv, ResultsHonest
<1> QED
  BY <1>1, Invariant, PTL

\* OneCallPerKey: a request key that is repeated, at any time and on any connection,
\* makes no second call while its operation is not evicted.
THEOREM KeysCallOnce == Spec => []OneCallPerKey
<1>1. IInv => OneCallPerKey
  BY DEF IInv, TaskInv, UniqueInv, OneCallPerKey
<1> QED
  BY <1>1, Invariant, PTL

\* RegistryBounded: at most MaxPending operations are pending and MaxOperations kept,
\* and no session has two pending ones.
THEOREM RegistryStaysBounded == Spec => []RegistryBounded
<1>1. IInv => RegistryBounded
  BY DEF IInv, UniqueInv, BoundsInv, RegistryBounded
<1> QED
  BY <1>1, Invariant, PTL

=============================================================================
