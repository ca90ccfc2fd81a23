--------------------------- MODULE RecoveryProofs ---------------------------
(***************************************************************************)
(* Theorems about module Recovery, for every number of turns, every policy *)
(* and every way in which acknowledgements, saves and processes may fail.  *)
(*                                                                         *)
(* IInv is the inductive invariant: the types, what the job stands for,    *)
(* which failures a state has seen, what its outcomes count (OutcomeInv)   *)
(* and how long it remembers the latest call (SpaceInv).  The theorems     *)
(* that no failed turn is sent for twice add the calls which must not be   *)
(* repeated (CallInv, ApartInv).  They need that a mark which was made is  *)
(* not lost, MarksPersist: a process that could not save a mark and then   *)
(* crashes has forgotten the call.  The theorem that retries are bounded   *)
(* adds the attempts that a state holds for the recoveries in a row        *)
(* (BoundInv), under WindowAssumption.                                     *)
(***************************************************************************)
EXTENDS Recovery, FiniteSetTheorems, SequenceTheorems, TLAPS

-----------------------------------------------------------------------------
(***************************************************************************)
(* What the operators of module Recovery return: the filters of            *)
(* RuntimeState, mark_handled, the inspection of a failure and the end of  *)
(* a pass.                                                                 *)
(***************************************************************************)

\* The places that a retain keeps, counted from the first.
RankOf(kept) == [j \in kept |-> Cardinality({k \in kept : k <= j})]

\* Every number up to the length of the result is the rank of one kept place.
LEMMA Ranks ==
  ASSUME NEW n \in Nat, NEW kept \in SUBSET (1..n)
  PROVE  /\ IsFiniteSet(kept) /\ Cardinality(kept) \in Nat
         /\ \A i \in 1..Cardinality(kept) : \E j \in kept : RankOf(kept)[j] = i
         /\ RankOf(kept) \in [kept -> 1..Cardinality(kept)]
         /\ \A j, k \in kept : RankOf(kept)[j] = RankOf(kept)[k] => j = k
         /\ n \in kept => RankOf(kept)[n] = Cardinality(kept) /\ Cardinality(kept) > 0
<1> DEFINE Upto(j) == {k \in kept : k <= j}
           c == Cardinality(kept)
<1>0. \A j \in kept : j \in Nat /\ j <= n
  OBVIOUS
<1>1. IsFiniteSet(1..n)
  BY FS_Interval
<1>2. IsFiniteSet(kept)
  BY <1>1, FS_Subset
<1>3. c \in Nat
  BY <1>2, FS_CardinalityType
<1>4. ASSUME NEW j \in kept
      PROVE  /\ IsFiniteSet(Upto(j)) /\ Cardinality(Upto(j)) \in 1..c
             /\ RankOf(kept)[j] = Cardinality(Upto(j))
  <2>1. IsFiniteSet(Upto(j)) /\ Cardinality(Upto(j)) <= c
    BY <1>2, FS_Subset
  <2>2. Cardinality(Upto(j)) \in Nat
    BY <2>1, FS_CardinalityType
  <2>3. j \in Upto(j)
    OBVIOUS
  <2>4. Cardinality(Upto(j)) # 0
    BY <2>1, <2>3, FS_EmptySet
  <2> QED BY <1>3, <2>1, <2>2, <2>4 DEF RankOf
<1>5. ASSUME NEW j \in kept, NEW k \in kept, j < k
      PROVE  RankOf(kept)[j] # RankOf(kept)[k]
  <2>0. k \in Upto(k) /\ k \notin Upto(j)
    BY <1>0, <1>5
  <2>1. Upto(j) \subseteq Upto(k)
    <3> SUFFICES ASSUME NEW x \in kept, x <= j PROVE x <= k
      OBVIOUS
    <3> QED BY <1>0, <1>5
  <2>2. Cardinality(Upto(j)) # Cardinality(Upto(k))
    BY <2>0, <2>1, <1>4, FS_Subset
  <2> QED BY <2>2, <1>4
<1>6. \A j, k \in kept : RankOf(kept)[j] = RankOf(kept)[k] => j = k
  <2> SUFFICES ASSUME NEW j \in kept, NEW k \in kept, j # k
               PROVE  RankOf(kept)[j] # RankOf(kept)[k]
    OBVIOUS
  <2>1. j < k \/ k < j
    OBVIOUS
  <2> QED BY <2>1, <1>5
<1>7. RankOf(kept) \in [kept -> 1..c]
  BY <1>4 DEF RankOf
<1>8. RankOf(kept) \in Injection(kept, 1..c)
  BY <1>6, <1>7 DEF Injection, IsInjective
<1>9. IsFiniteSet(1..c) /\ Cardinality(1..c) = c
  BY <1>3, FS_Interval
<1>10. RankOf(kept) \in Surjection(kept, 1..c)
  BY <1>8, <1>9, FS_Injection
<1>11. \A i \in 1..c : \E j \in kept : RankOf(kept)[j] = i
  BY <1>10 DEF Surjection
<1>12. ASSUME n \in kept PROVE RankOf(kept)[n] = c /\ c > 0
  <2>1. Upto(n) = kept
    BY <1>0
  <2> QED BY <2>1, <1>3, <1>4, <1>12
<1> QED BY <1>2, <1>3, <1>6, <1>7, <1>11, <1>12

\* Some of the elements of a list, each from a place of its own.
SomeOf(after, before) ==
  \E place \in [DOMAIN after -> DOMAIN before] :
    /\ \A i \in DOMAIN after : after[i] = before[place[i]]
    /\ \A i, j \in DOMAIN after : place[i] = place[j] => i = j

\* What retain leaves: elements of the list, each from a place of its own, the last
\* one if it is kept.
LEMMA RetainKeeps ==
  ASSUME NEW T, NEW s \in Seq(T), NEW kept \in SUBSET (DOMAIN s)
  PROVE  /\ Retain(s, kept) \in Seq(T)
         /\ kept = {} <=> Retain(s, kept) = <<>>
         /\ SomeOf(Retain(s, kept), s)
         /\ Len(s) \in kept => Last(Retain(s, kept)) = Last(s)
<1> DEFINE c == Cardinality(kept)
           place == [i \in 1..c |-> CHOOSE j \in kept : Cardinality({k \in kept : k <= j}) = i]
<1>1. Len(s) \in Nat /\ kept \in SUBSET (1..Len(s))
  OBVIOUS
<1>2. /\ IsFiniteSet(kept) /\ c \in Nat
      /\ \A i \in 1..c : \E j \in kept : RankOf(kept)[j] = i
      /\ \A j, k \in kept : RankOf(kept)[j] = RankOf(kept)[k] => j = k
      /\ Len(s) \in kept => RankOf(kept)[Len(s)] = c /\ c > 0
  BY <1>1, Ranks
<1>3. \A i \in 1..c : place[i] \in kept /\ RankOf(kept)[place[i]] = i
  BY <1>2 DEF RankOf
<1>4. Retain(s, kept) = [i \in 1..c |-> s[place[i]]]
  BY DEF Retain
<1>5. place \in [1..c -> kept]
  BY <1>3
<1> HIDE DEF place
<1>6. Retain(s, kept) \in [1..c -> T]
  BY <1>4, <1>5
<1>7. Retain(s, kept) \in Seq(T) /\ Len(Retain(s, kept)) = c /\ DOMAIN Retain(s, kept) = 1..c
  BY <1>2, <1>6
<1>8. \A i, j \in 1..c : place[i] = place[j] => i = j
  BY <1>3
<1>9. kept = {} <=> c = 0
  BY <1>2, FS_EmptySet
<1>10. ASSUME Len(s) \in kept PROVE Last(Retain(s, kept)) = Last(s)
  <2>1. c \in 1..c /\ place[c] = Len(s)
    BY <1>2, <1>3, <1>10
  <2> QED BY <2>1, <1>4, <1>7 DEF Last
<1>11. kept = {} <=> Retain(s, kept) = <<>>
  BY <1>2, <1>7, <1>9
<1>12. \A i \in 1..c : Retain(s, kept)[i] = s[place[i]]
  BY <1>4
<1>13. place \in [1..c -> DOMAIN s]
  BY <1>5
<1>14. SomeOf(Retain(s, kept), s)
  BY <1>7, <1>8, <1>12, <1>13 DEF SomeOf
<1> QED BY <1>7, <1>10, <1>11, <1>14

\* No kept element is lost: each has a place of its own in the result.
LEMMA RetainAll ==
  ASSUME NEW T, NEW s \in Seq(T), NEW kept \in SUBSET (DOMAIN s)
  PROVE  \E rank \in [kept -> DOMAIN Retain(s, kept)] :
           /\ \A k \in kept : Retain(s, kept)[rank[k]] = s[k]
           /\ \A j, k \in kept : rank[j] = rank[k] => j = k
<1> DEFINE c == Cardinality(kept)
           place == [i \in 1..c |-> CHOOSE j \in kept : Cardinality({k \in kept : k <= j}) = i]
<1>1. Len(s) \in Nat /\ kept \in SUBSET (1..Len(s))
  OBVIOUS
<1>2. /\ RankOf(kept) \in [kept -> 1..c]
      /\ \A i \in 1..c : \E j \in kept : RankOf(kept)[j] = i
      /\ \A j, k \in kept : RankOf(kept)[j] = RankOf(kept)[k] => j = k
  BY <1>1, Ranks
<1>3. \A i \in 1..c : place[i] \in kept /\ RankOf(kept)[place[i]] = i
  BY <1>2 DEF RankOf
<1>4. Retain(s, kept) = [i \in 1..c |-> s[place[i]]]
  BY DEF Retain
<1> HIDE DEF place
<1>5. \A k \in kept : place[RankOf(kept)[k]] = k
  BY <1>2, <1>3
<1>6. DOMAIN Retain(s, kept) = 1..c
  BY <1>4
<1>7. \A k \in kept : Retain(s, kept)[RankOf(kept)[k]] = s[k]
  BY <1>2, <1>4, <1>5
<1> QED BY <1>2, <1>6, <1>7

-----------------------------------------------------------------------------
(***************************************************************************)
(* What the operations of RuntimeState return.                             *)
(***************************************************************************)

\* The last attempt stays the last one or is older than the cutoff.
LastKept(before, after, age, at) ==
  \/ before = <<>> /\ after = <<>>
  \/ before # <<>> /\ after # <<>> /\ Last(after) = Last(before)
  \/ before # <<>> /\ Last(before) + age < at

\* A filter by age keeps the type, and the last entry unless it is too old.
LEMMA KeepsLast ==
  ASSUME NEW s \in Seq(Times), NEW age \in Nat, NEW at \in Times,
         NEW kept, kept = {i \in DOMAIN s : ~(s[i] + age < at)}
  PROVE  /\ Retain(s, kept) \in Seq(Times)
         /\ LastKept(s, Retain(s, kept), age, at)
<1>0. kept \in SUBSET (DOMAIN s)
  OBVIOUS
<1>1. /\ Retain(s, kept) \in Seq(Times)
      /\ kept = {} <=> Retain(s, kept) = <<>>
      /\ Len(s) \in kept => Last(Retain(s, kept)) = Last(s)
  BY <1>0, RetainKeeps
<1>2. CASE s = <<>>
  BY <1>1, <1>2 DEF LastKept
<1>3. CASE s # <<>>
  <2>1. Len(s) \in DOMAIN s /\ Last(s) = s[Len(s)]
    BY <1>3 DEF Last
  <2> QED BY <1>1, <1>3, <2>1 DEF LastKept
<1> QED BY <1>1, <1>2, <1>3

\* recent_attempts.
LEMMA RecentKeeps ==
  ASSUME NEW state \in RuntimeStates, NEW at \in Times
  PROVE  /\ RecentAttempts(state, at) \in Seq(Times)
         /\ LastKept(state.attempts, RecentAttempts(state, at), Window, at)
<1> DEFINE kept == {i \in DOMAIN state.attempts : ~(state.attempts[i] + Window < at)}
<1>1. state.attempts \in Seq(Times)
  BY DEF RuntimeStates
<1>2. \A i \in DOMAIN state.attempts : state.attempts[i] \in Nat
  <2>1. \A i \in DOMAIN state.attempts : state.attempts[i] \in Times
    BY <1>1
  <2> QED BY <2>1, RecoveryAssumption DEF Times
<1>3. at \in Nat /\ Window \in Nat
  BY RecoveryAssumption DEF Times
<1>4. \A i \in DOMAIN state.attempts :
        state.attempts[i] + Window >= at <=> ~(state.attempts[i] + Window < at)
  BY <1>2, <1>3
<1>5. RecentAttempts(state, at) = Retain(state.attempts, kept)
  BY <1>4 DEF RecentAttempts
<1> QED BY <1>1, <1>3, <1>5, KeepsLast

\* prune.
LEMMA PruneKeeps ==
  ASSUME NEW state \in RuntimeStates, NEW at \in Times
  PROVE  /\ Prune(state, at) \in RuntimeStates
         /\ Prune(state, at).pending = state.pending
         /\ \A t \in Turns :
              /\ \/ Prune(state, at).handled[t] = state.handled[t]
                 \/ state.handled[t].at + PruneAge < at
              /\ Prune(state, at).observed[t] \in {0, state.observed[t]}
         /\ LastKept(state.attempts, Prune(state, at).attempts, PruneAge, at)
         /\ SomeOf(Prune(state, at).outcomes, state.outcomes)
<1> DEFINE handled == [t \in Turns |-> IF state.handled[t].at + PruneAge < at
                                       THEN NotHandled ELSE state.handled[t]]
           observed == [t \in Turns |-> IF state.observed[t] + PruneAge < at
                                        THEN 0 ELSE state.observed[t]]
           recent == {i \in DOMAIN state.attempts : ~(state.attempts[i] + PruneAge < at)}
           young == {i \in DOMAIN state.outcomes : ~(state.outcomes[i].at + PruneAge < at)}
           attempts == Retain(state.attempts, recent)
           outcomes == Retain(state.outcomes, young)
<1>1. Prune(state, at) = [state EXCEPT !.handled = handled, !.observed = observed,
                                       !.attempts = attempts, !.outcomes = outcomes]
  BY DEF Prune
<1>2. handled \in [Turns -> HandledMark]
  BY RecoveryAssumption DEF NotHandled, HandledMark, Actions, Times, RuntimeStates
<1>3. observed \in [Turns -> Times]
  BY RecoveryAssumption DEF Times, RuntimeStates
<1>4. attempts \in Seq(Times) /\ LastKept(state.attempts, attempts, PruneAge, at)
  BY RecoveryAssumption, KeepsLast DEF RuntimeStates
<1>5. outcomes \in Seq(RecoveryOutcome) /\ SomeOf(outcomes, state.outcomes)
  <2>1. state.outcomes \in Seq(RecoveryOutcome) /\ young \in SUBSET (DOMAIN state.outcomes)
    BY DEF RuntimeStates
  <2> QED BY <2>1, RetainKeeps
<1>6. /\ Prune(state, at) \in RuntimeStates
      /\ Prune(state, at).handled = handled /\ Prune(state, at).observed = observed
      /\ Prune(state, at).attempts = attempts /\ Prune(state, at).outcomes = outcomes
      /\ Prune(state, at).pending = state.pending
  <2> HIDE DEF handled, observed, attempts, outcomes
  <2> QED BY <1>1, <1>2, <1>3, <1>4, <1>5 DEF RuntimeStates
<1> QED BY <1>4, <1>5, <1>6

\* Replacing the attempts, the pending recoveries or the outcomes of a state.
LEMMA StatesTyped ==
  ASSUME NEW state \in RuntimeStates, NEW attempts \in Seq(Times),
         NEW pending \in SUBSET PendingRecovery, NEW outcomes \in Seq(RecoveryOutcome)
  PROVE  /\ [state EXCEPT !.attempts = attempts] \in RuntimeStates
         /\ [state EXCEPT !.pending = pending] \in RuntimeStates
         /\ [state EXCEPT !.pending = pending, !.outcomes = outcomes] \in RuntimeStates
  BY DEF RuntimeStates

\* mark_handled.
LEMMA MarkKeeps ==
  ASSUME NEW state \in RuntimeStates, NEW t \in Turns, NEW action \in Actions, NEW at \in Times
  PROVE  /\ MarkHandled(state, t, action, at) \in RuntimeStates
         /\ MarkHandled(state, t, action, at).handled[t].action = action
         /\ MarkHandled(state, t, action, at).handled[t].at = at
         /\ \A u \in Turns :
              u # t => MarkHandled(state, t, action, at).handled[u] = state.handled[u]
         /\ MarkHandled(state, t, action, at).observed = state.observed
         /\ MarkHandled(state, t, action, at).attempts = state.attempts
         /\ MarkHandled(state, t, action, at).pending = state.pending
         /\ MarkHandled(state, t, action, at).outcomes = state.outcomes
  BY DEF MarkHandled, RuntimeStates, HandledMark

\* The time of now is a time, and the latest failure is the last turn.
LEMMA Latest ==
  ASSUME TypeOK
  PROVE  /\ Len(turns) \in DOMAIN turns /\ DOMAIN turns \subseteq Turns
         /\ LastTurn = turns[Len(turns)]
         /\ LatestFailure # 0 => /\ LatestFailure = Len(turns)
                                 /\ LatestFailure \in Turns
                                 /\ turns[Len(turns)].status = "failed"
         /\ LatestFailure = 0 => turns[Len(turns)].status # "failed"
<1>1. turns \in Seq(TurnType) /\ Len(turns) \in 1..MaxTurns /\ DOMAIN turns = 1..Len(turns)
  BY DEF TypeOK, Turns
<1>2. Len(turns) \in DOMAIN turns /\ DOMAIN turns \subseteq Turns
  BY <1>1, RecoveryAssumption DEF Turns
<1>3. Len(turns) # 0
  BY <1>1, RecoveryAssumption
<1> QED BY <1>2, <1>3 DEF LatestFailure, LastTurn, Last

\* What inspecting a failure does to the state.
LEMMA InspectKeeps ==
  ASSUME TypeOK, NEW t \in Turns
  PROVE  /\ Inspected(t) \in RuntimeStates
         /\ Inspected(t).handled = mem.handled /\ Inspected(t).pending = mem.pending
         /\ Inspected(t).outcomes = mem.outcomes
         /\ Inspected(t).observed[t] = FirstSeen(mem, t, job.at)
         /\ \A u \in Turns : u # t => Inspected(t).observed[u] = mem.observed[u]
         /\ Inspected(t).attempts = RecentAttempts(mem, job.at)
<1>1. mem \in RuntimeStates /\ job.at \in Times
  BY DEF TypeOK, JobType
<1>2. RecentAttempts(mem, job.at) \in Seq(Times)
  BY <1>1, RecentKeeps
<1>3. FirstSeen(mem, t, job.at) \in Times
  BY <1>1 DEF FirstSeen, RuntimeStates
<1> QED BY <1>1, <1>2, <1>3 DEF Inspected, RuntimeStates

-----------------------------------------------------------------------------
(***************************************************************************)
(* Types.                                                                  *)
(***************************************************************************)

\* Zero is a time that is none, and the idle job and the empty state are typed.
LEMMA InitialTyped ==
  /\ 0 \in Times /\ 1 \in Times /\ 1 \in Turns
  /\ Idle \in JobType
  /\ EmptyState \in RuntimeStates
<1>1. 0 \in Times /\ 1 \in Times /\ 1 \in Turns
  BY RecoveryAssumption DEF Times, Turns
<1>2. NotHandled \in HandledMark
  BY <1>1 DEF NotHandled, HandledMark, Actions
<1> QED BY <1>1, <1>2 DEF Idle, JobType, EmptyState, RuntimeStates

\* The end of a pass leaves a typed state in memory and on disk, and no job.
LEMMA EndPassTyped ==
  ASSUME TypeOK, NEW state \in RuntimeStates, EndPass(state)
  PROVE  /\ mem' = state /\ disk' \in {state, disk} /\ job' = Idle
         /\ mem' \in RuntimeStates /\ disk' \in RuntimeStates /\ job' \in JobType
  BY InitialTyped DEF EndPass, Save, TypeOK

\* What is said of a turn stays said, and its status once it has ended.
TurnsKept ==
  /\ Len(turns) <= Len(turns') /\ DOMAIN turns \subseteq DOMAIN turns'
  /\ \A t \in DOMAIN turns :
       /\ turns'[t].answers = turns[t].answers
       /\ turns'[t].at = turns[t].at
       /\ turns'[t].automatic = turns[t].automatic
       /\ turns[t].status # "active" => turns'[t].status = turns[t].status

\* The end of a turn changes its status only.
LEMMA EndTyped ==
  ASSUME TypeOK, NEW status \in {"completed", "failed"}, TurnEnds(status)
  PROVE  /\ turns' \in Seq(TurnType) /\ Len(turns') = Len(turns)
         /\ TurnsKept
<1>1. turns \in Seq(TurnType) /\ Len(turns) \in 1..Len(turns) /\ LastTurn = turns[Len(turns)]
  BY Latest DEF TypeOK
<1> DEFINE ended == [turns[Len(turns)] EXCEPT !.status = status]
<1>2. ended \in TurnType /\ ended.answers = turns[Len(turns)].answers
      /\ ended.at = turns[Len(turns)].at /\ ended.automatic = turns[Len(turns)].automatic
  <2>1. turns[Len(turns)] \in TurnType
    BY <1>1
  <2> QED BY <2>1 DEF TurnType
<1>3. turns' = [turns EXCEPT ![Len(turns)] = ended] /\ turns[Len(turns)].status = "active"
  BY <1>1 DEF TurnEnds
<1> HIDE DEF ended
<1>4. /\ turns' \in Seq(TurnType) /\ Len(turns') = Len(turns)
      /\ \A j \in 1..Len(turns) : turns'[j] = IF j = Len(turns) THEN ended ELSE turns[j]
  BY <1>1, <1>2, <1>3, ExceptSeq
<1> QED BY <1>1, <1>2, <1>3, <1>4 DEF TurnsKept

\* A started turn is typed, and it is the last one.
LEMMA StartTyped ==
  ASSUME TypeOK, NEW answers \in {0} \cup Turns, NEW at \in Times, NEW automatic \in BOOLEAN,
         StartTurn(answers, at, automatic)
  PROVE  /\ turns' \in Seq(TurnType) /\ Len(turns') = Len(turns) + 1 /\ Len(turns') \in Turns
         /\ TurnsKept
         /\ turns'[Len(turns')] = [status |-> "active", answers |-> answers, at |-> at,
                                   automatic |-> automatic]
         /\ \A t \in DOMAIN turns : turns'[t] = turns[t]
         /\ DOMAIN turns' = DOMAIN turns \cup {Len(turns) + 1}
<1> DEFINE started == [status |-> "active", answers |-> answers, at |-> at,
                       automatic |-> automatic]
<1>1. turns \in Seq(TurnType) /\ Len(turns) \in 1..MaxTurns
  BY DEF TypeOK, Turns
<1>2. started \in TurnType
  BY DEF TurnType
<1>3. Len(turns) < MaxTurns /\ turns' = Append(turns, started)
  BY DEF StartTurn
<1> HIDE DEF started
<1>4. turns' \in Seq(TurnType) /\ Len(turns') = Len(turns) + 1 /\ Len(turns') \in Turns
  BY <1>1, <1>2, <1>3, RecoveryAssumption DEF Turns
<1>5. /\ turns'[Len(turns')] = started
      /\ \A t \in DOMAIN turns : turns'[t] = turns[t]
      /\ DOMAIN turns' = DOMAIN turns \cup {Len(turns) + 1}
      /\ Len(turns) <= Len(turns')
  BY <1>1, <1>2, <1>3, RecoveryAssumption
<1> QED BY <1>4, <1>5 DEF TurnsKept, started

\* Only the provider's steps and the delivery of a call change the session.
LEMMA SessionStep ==
  ASSUME TypeOK, [Next]_vars
  PROVE  \/ turns' = turns
         \/ \E status \in {"completed", "failed"} : TurnEnds(status)
         \/ UserTurn
         \/ \E request \in late : LateDelivery(request)
         \/ Deliver
  BY DEF Next, vars, session, PreparePass, BeginPass, ObserveNothing, ObserveOutcome, PassOver,
         NoFailure, FailureSkipped, FailureWaits, FailureDue, RecheckSame, Cancelled, GivenUp,
         RetryNow, Attempt, Receipt, Unconfirmed, SendFailed, Crash, Tick

\* Every step keeps what is said of the turns.
LEMMA TurnsStep ==
  ASSUME TypeOK, [Next]_vars
  PROVE  TurnsKept
<1>1. CASE turns' = turns
  BY <1>1 DEF TurnsKept, TypeOK, Turns
<1>2. CASE \E status \in {"completed", "failed"} : TurnEnds(status)
  BY <1>2, EndTyped
<1>3. CASE UserTurn
  BY <1>3, StartTyped, InitialTyped DEF UserTurn
<1>4. ASSUME NEW request \in late, LateDelivery(request) PROVE TurnsKept
  <2>1. request.failed \in Turns /\ request.at \in Times /\ request.automatic \in BOOLEAN
    BY DEF LateRequest, TypeOK
  <2> QED BY <1>4, <2>1, StartTyped DEF LateDelivery
<1>5. CASE Deliver
  <2>1. job.failed \in {0} \cup Turns /\ job.at \in Times /\ job.automatic \in BOOLEAN
    BY DEF TypeOK, JobType
  <2> QED BY <1>5, <2>1, StartTyped DEF Deliver
<1> QED BY <1>1, <1>2, <1>3, <1>4, <1>5, SessionStep

\* The recovery that a receipt begins.
Begun == [failed |-> job.failed, recovery |-> job.started, started |-> job.at,
          automatic |-> job.automatic, failures |-> 0]

\* The receipt of a recovery turn.
LEMMA ReceiptKeeps ==
  ASSUME TypeOK, job.failed \in Turns, job.started \in Turns, Receipt
  PROVE  /\ mem' \in RuntimeStates
         /\ mem'.handled[job.failed].action = "resumed"
         /\ mem'.handled[job.failed].at = job.at
         /\ \A t \in Turns : t # job.failed => mem'.handled[t] = mem.handled[t]
         /\ mem'.observed = mem.observed /\ mem'.attempts = mem.attempts
         /\ mem'.pending = {p \in mem.pending : p.failed # job.failed} \cup {Begun}
         /\ mem'.outcomes = mem.outcomes
         /\ Begun \in PendingRecovery
<1>0. mem \in RuntimeStates /\ job.at \in Times /\ job.automatic \in BOOLEAN
  BY DEF TypeOK, JobType
<1> DEFINE begun == [mem EXCEPT !.pending = {p \in @ : p.failed # job.failed} \cup {Begun}]
<1>1. Begun \in PendingRecovery
  BY <1>0, RecoveryAssumption DEF PendingRecovery, Begun
<1>2. /\ begun \in RuntimeStates
      /\ begun.handled = mem.handled /\ begun.observed = mem.observed
      /\ begun.attempts = mem.attempts /\ begun.outcomes = mem.outcomes
      /\ begun.pending = {p \in mem.pending : p.failed # job.failed} \cup {Begun}
  BY <1>0, <1>1 DEF RuntimeStates
<1>3. mem' = MarkHandled(begun, job.failed, "resumed", job.at)
  BY DEF Receipt, EndPass, Begun
<1> HIDE DEF begun
<1>4. "resumed" \in Actions
  BY DEF Actions
<1> QED BY <1>0, <1>1, <1>2, <1>3, <1>4, MarkKeeps

\* A lost acknowledgement.
LEMMA UnconfirmedKeeps ==
  ASSUME TypeOK, job.failed \in Turns, Unconfirmed
  PROVE  /\ mem' \in RuntimeStates
         /\ mem'.handled[job.failed].action = "unconfirmed"
         /\ mem'.handled[job.failed].at = job.at
         /\ \A t \in Turns : t # job.failed => mem'.handled[t] = mem.handled[t]
         /\ mem'.observed = mem.observed /\ mem'.attempts = mem.attempts
         /\ mem'.pending = mem.pending /\ mem'.outcomes = mem.outcomes
<1>0. mem \in RuntimeStates /\ job.at \in Times /\ "unconfirmed" \in Actions
  BY DEF TypeOK, JobType, Actions
<1>1. mem' = MarkHandled(mem, job.failed, "unconfirmed", job.at)
  BY DEF Unconfirmed, EndPass
<1> QED BY <1>0, <1>1, MarkKeeps

\* A failure that the policy skips.
LEMMA SkippedKeeps ==
  ASSUME TypeOK, FailureSkipped
  PROVE  /\ mem' \in RuntimeStates
         /\ LatestFailure \in Turns /\ LatestFailure = Len(turns)
         /\ mem.handled[LatestFailure].action \notin {"resumed", "unconfirmed"}
         /\ \A t \in Turns : t # LatestFailure => mem'.handled[t] = mem.handled[t]
         /\ mem'.observed = mem.observed /\ mem'.attempts = mem.attempts
         /\ mem'.pending = mem.pending /\ mem'.outcomes = mem.outcomes
<1>0. mem \in RuntimeStates /\ job.at \in Times /\ "skipped" \in Actions
  BY DEF TypeOK, JobType, Actions
<1>1. LatestFailure \in Turns /\ LatestFailure = Len(turns)
  BY Latest DEF FailureSkipped
<1>2. mem.handled[LatestFailure].action \notin {"resumed", "unconfirmed"}
  BY DEF FailureSkipped, HandledFailure
<1>3. mem' = MarkHandled(mem, LatestFailure, "skipped", job.at)
  BY DEF FailureSkipped, EndPass
<1> QED BY <1>0, <1>1, <1>2, <1>3, MarkKeeps

-----------------------------------------------------------------------------
(***************************************************************************)
(* The job and the failures that a state has seen.                         *)
(***************************************************************************)
\* What is known of the failed turns that a state names.
Known(observed) ==
  \A t \in Turns : observed[t] # 0 => t \in DOMAIN turns /\ turns[t].status = "failed"

\* The job works on a failed turn, and a delivered call has started a turn.
JobInv ==
  /\ plan <= now /\ job.at <= now /\ latest <= now
  /\ job.pc \in {"pending", "recheck"} => job.automatic
  /\ job.pc = "idle" => ~job.automatic
  /\ job.pc \in {"recheck", "boundary", "resume", "delivered"} =>
       job.failed \in DOMAIN turns /\ turns[job.failed].status = "failed"
  /\ job.pc = "pending" => job.todo \subseteq mem.pending
  /\ job.pc = "delivered" =>
       /\ job.started \in DOMAIN turns
       /\ turns[job.started].answers = job.failed
       /\ job.failed < Len(turns)

-----------------------------------------------------------------------------
(***************************************************************************)
(* Types.                                                                  *)
(***************************************************************************)

\* The types hold in the initial state, and there is no job.
LEMMA TypeInit == Init => TypeOK /\ JobInv
<1> SUFFICES ASSUME Init PROVE TypeOK /\ JobInv
  OBVIOUS
<1> DEFINE first == [status |-> "active", answers |-> 0, at |-> 0, automatic |-> FALSE]
<1>1. first \in TurnType
  BY InitialTyped DEF TurnType
<1>2. turns = <<first>>
  BY DEF Init
<1> HIDE DEF first
<1>3. turns \in Seq(TurnType) /\ Len(turns) = 1
  BY <1>1, <1>2
<1> QED BY <1>3, InitialTyped DEF Init, TypeOK, JobInv, Idle

\* Every step keeps the types.
LEMMA TypeStep == TypeOK /\ JobInv /\ [Next]_vars => TypeOK'
<1> SUFFICES ASSUME TypeOK, JobInv, [Next]_vars PROVE TypeOK'
  OBVIOUS
<1>0. /\ now \in Times /\ plan \in Times /\ latest \in Times
      /\ turns \in Seq(TurnType) /\ Len(turns) \in Turns
      /\ late \in SUBSET LateRequest /\ unknown \in SUBSET UncertainCall
      /\ mem \in RuntimeStates /\ disk \in RuntimeStates /\ job \in JobType
  BY DEF TypeOK
<1>a. /\ job.at \in Times /\ job.automatic \in BOOLEAN /\ job.failed \in {0} \cup Turns
      /\ job.started \in {0} \cup Turns /\ job.todo \in SUBSET PendingRecovery
  BY <1>0 DEF JobType
<1>b. mem.pending \in SUBSET PendingRecovery /\ mem.outcomes \in Seq(RecoveryOutcome)
      /\ mem.attempts \in Seq(Times)
  BY <1>0 DEF RuntimeStates
<1> USE <1>0, <1>a, <1>b, InitialTyped DEF session, history
<1>1. ASSUME NEW status \in {"completed", "failed"}, TurnEnds(status) PROVE TypeOK'
  BY <1>1, EndTyped DEF TurnEnds, TypeOK
<1>2. CASE UserTurn
  BY <1>2, StartTyped DEF UserTurn, TypeOK
<1>3. CASE Tick
  <2>1. now' \in Times
    BY <1>3, RecoveryAssumption DEF Tick, Times
  <2> QED BY <1>3, <2>1 DEF Tick, TypeOK
<1>4. ASSUME NEW request \in late, LateDelivery(request) PROVE TypeOK'
  <2>1. request.failed \in Turns /\ request.at \in Times /\ request.automatic \in BOOLEAN
    BY DEF LateRequest
  <2>2. turns' \in Seq(TurnType) /\ Len(turns') \in Turns
    BY <1>4, <2>1, StartTyped DEF LateDelivery
  <2> QED BY <1>4, <2>2 DEF LateDelivery, TypeOK
<1>5. CASE PreparePass
  BY <1>5 DEF PreparePass, TypeOK
<1>6. ASSUME NEW watched \in BOOLEAN, NEW policy \in Policies, BeginPass(watched, policy)
      PROVE  TypeOK'
  <2>1. mem' \in RuntimeStates
    BY <1>6, PruneKeeps DEF BeginPass
  <2>2. job' \in JobType
    BY <1>6, RecoveryAssumption DEF BeginPass, Idle, JobType
  <2> QED BY <1>6, <2>1, <2>2 DEF BeginPass, TypeOK
<1>7. ASSUME NEW p \in job.todo, ObserveNothing(p) PROVE TypeOK'
  <2> DEFINE q == [p EXCEPT !.failures =
                     IF @ < MaxObservationFailures THEN @ + 1 ELSE @]
             rest == (mem.pending \ {p}) \cup (IF Expired(p, q.failures) THEN {} ELSE {q})
  <2>a. p \in PendingRecovery /\ MaxObservationFailures \in Nat
    BY RecoveryAssumption
  <2>b. (IF p.failures < MaxObservationFailures THEN p.failures + 1 ELSE p.failures)
          \in 0..MaxObservationFailures
    BY <2>a DEF PendingRecovery
  <2>1. q \in PendingRecovery
    BY <2>a, <2>b DEF PendingRecovery
  <2>2. rest \in SUBSET PendingRecovery
    BY <2>1
  <2>3. mem' = [mem EXCEPT !.pending = rest]
    BY <1>7 DEF ObserveNothing
  <2>4. mem' \in RuntimeStates
    BY <2>2, <2>3 DEF RuntimeStates
  <2>5. job' \in JobType
    BY <1>7 DEF ObserveNothing, JobType
  <2> QED BY <1>7, <2>4, <2>5 DEF ObserveNothing, TypeOK
<1>8. ASSUME NEW p \in job.todo, ObserveOutcome(p) PROVE TypeOK'
  <2> DEFINE status == turns[p.recovery].status
             o == [turn |-> p.recovery, automatic |-> p.automatic,
                   success |-> status = "completed", at |-> job.at]
  <2>1. o \in RecoveryOutcome
    BY DEF PendingRecovery, RecoveryOutcome
  <2>2. Append(mem.outcomes, o) \in Seq(RecoveryOutcome)
    BY <2>1
  <2>3. mem.pending \ {p} \in SUBSET PendingRecovery
    OBVIOUS
  <2>4. \/ mem' = [mem EXCEPT !.pending = @ \ {p}, !.outcomes = Append(@, o)]
        \/ mem' = [mem EXCEPT !.pending = @ \ {p}]
        \/ mem' = [mem EXCEPT !.pending = @]
    BY <1>8 DEF ObserveOutcome
  <2> HIDE DEF o
  <2>5. mem' \in RuntimeStates
    BY <2>2, <2>3, <2>4 DEF RuntimeStates
  <2>6. job' \in JobType
    BY <1>8 DEF ObserveOutcome, JobType
  <2> QED BY <1>8, <2>5, <2>6 DEF ObserveOutcome, TypeOK
<1>9. CASE PassOver \/ Cancelled
  BY <1>9, EndPassTyped DEF PassOver, Cancelled, TypeOK
<1>10. CASE NoFailure
  <2>a. <<>> \in Seq(Times)
    OBVIOUS
  <2>1. [mem EXCEPT !.attempts = <<>>] \in RuntimeStates
    BY <2>a DEF RuntimeStates
  <2> QED BY <1>10, <2>1, EndPassTyped DEF NoFailure, TypeOK
<1>11. CASE FailureSkipped
  <2>1. MarkHandled(mem, LatestFailure, "skipped", job.at) \in RuntimeStates
    BY <1>11, Latest, MarkKeeps DEF FailureSkipped, Actions
  <2> QED BY <1>11, <2>1, EndPassTyped DEF FailureSkipped, TypeOK
<1>12. CASE FailureWaits
  BY <1>12, Latest, InspectKeeps, EndPassTyped DEF FailureWaits, TypeOK
<1>13. CASE FailureDue
  <2>1. mem' \in RuntimeStates /\ LatestFailure \in Turns
    BY <1>13, Latest, InspectKeeps DEF FailureDue
  <2>2. job' \in JobType
    BY <1>13, <2>1 DEF FailureDue, Idle, JobType
  <2> QED BY <1>13, <2>1, <2>2 DEF FailureDue, TypeOK
<1>14. CASE RecheckSame
  <2>1. job' \in JobType
    BY <1>14 DEF RecheckSame, JobType
  <2> QED BY <1>14, <2>1 DEF RecheckSame, TypeOK
<1>15. CASE GivenUp
  BY <1>15 DEF GivenUp, TypeOK
<1>16. CASE RetryNow
  <2>1. RecentAttempts(mem, now) \in Seq(Times)
    BY RecentKeeps
  <2>2. mem' \in RuntimeStates
    BY <1>16, <2>1 DEF RetryNow, RuntimeStates
  <2>3. job' \in JobType
    <3>1. [Idle EXCEPT !.pc = "boundary", !.at = now, !.failed = LatestFailure] \in JobType
      BY <1>16, Latest DEF RetryNow, Idle, JobType
    <3> QED BY <1>16, <3>1 DEF RetryNow
  <2> QED BY <1>16, <2>2, <2>3 DEF RetryNow, TypeOK
<1>17. CASE Attempt
  <2> DEFINE recorded == [mem EXCEPT !.attempts = Append(@, job.at)]
  <2>a. Append(mem.attempts, job.at) \in Seq(Times)
    OBVIOUS
  <2>1. recorded \in RuntimeStates
    BY <2>a DEF RuntimeStates
  <2>2. job' \in JobType
    BY <1>17 DEF Attempt, JobType
  <2> HIDE DEF recorded
  <2>3. mem' = recorded /\ disk' \in {recorded, disk}
    BY <1>17 DEF Attempt, recorded
  <2>4. latest' \in Times
    BY <1>17 DEF Attempt
  <2> QED BY <1>17, <2>1, <2>2, <2>3, <2>4 DEF Attempt, TypeOK
<1>18. CASE Deliver
  <2>1. turns' \in Seq(TurnType) /\ Len(turns') \in Turns /\ Len(turns') = Len(turns) + 1
    BY <1>18, StartTyped DEF Deliver
  <2>2. job' \in JobType
    BY <1>18, <2>1 DEF Deliver, JobType
  <2> QED BY <1>18, <2>1, <2>2 DEF Deliver, TypeOK
<1>19. CASE Receipt
  <2>1. mem' \in RuntimeStates
    BY <1>19, ReceiptKeeps, Latest DEF Receipt, JobInv
  <2>2. job' = Idle /\ disk' \in {disk, mem'}
    BY <1>19 DEF Receipt, EndPass, Save
  <2> QED BY <1>19, <2>1, <2>2 DEF Receipt, TypeOK
<1>20. CASE Unconfirmed
  <2>1. job.failed \in Turns
    BY <1>20, Latest DEF Unconfirmed, JobInv
  <2>2. MarkHandled(mem, job.failed, "unconfirmed", job.at) \in RuntimeStates
    BY <2>1, MarkKeeps DEF Actions
  <2>3. late' \in SUBSET LateRequest /\ unknown' \in SUBSET UncertainCall
    BY <1>20, <2>1 DEF Unconfirmed, LateRequest, UncertainCall
  <2> QED BY <1>20, <2>2, <2>3, EndPassTyped DEF Unconfirmed, TypeOK
<1>21. CASE SendFailed
  BY <1>21, EndPassTyped DEF SendFailed, TypeOK
<1>22. CASE Crash
  BY <1>22 DEF Crash, TypeOK
<1>23. CASE UNCHANGED vars
  BY <1>23 DEF vars, TypeOK
<1> HIDE <1>0, <1>a, <1>b, InitialTyped
<1> QED BY <1>1, <1>2, <1>3, <1>4, <1>5, <1>6, <1>7, <1>8, <1>9, <1>10, <1>11, <1>12, <1>13,
     <1>14, <1>15, <1>16, <1>17, <1>18, <1>19, <1>20, <1>21, <1>22, <1>23 DEF Next

-----------------------------------------------------------------------------
(***************************************************************************)
(* The job.                                                                *)
(***************************************************************************)

\* The steps of the session, the clock and the service: the engine does nothing.
Aside ==
  \/ \E status \in {"completed", "failed"} : TurnEnds(status)
  \/ UserTurn \/ Tick
  \/ \E request \in late : LateDelivery(request)
  \/ PreparePass
  \/ UNCHANGED vars

\* What those steps leave alone.
LEMMA AsideKeeps ==
  ASSUME TypeOK, Aside
  PROVE  /\ mem' = mem /\ disk' = disk /\ job' = job
         /\ latest' = latest /\ unknown' = unknown
         /\ now <= now' /\ plan' \in {plan, now}
         /\ [Next]_vars
<1>1. now <= now /\ now <= now + 1
  BY RecoveryAssumption DEF TypeOK, Times
<1> QED BY <1>1 DEF Aside, TurnEnds, UserTurn, Tick, LateDelivery, PreparePass, vars, session,
              history, Next

\* The steps that give up the engine.
LetGo ==
  \/ PassOver \/ NoFailure \/ FailureSkipped \/ FailureWaits
  \/ Cancelled \/ GivenUp \/ Receipt \/ Unconfirmed \/ SendFailed \/ Crash
  \/ (RetryNow \/ Attempt) /\ job' = Idle

\* What they leave alone.
LEMMA LetGoKeeps ==
  ASSUME LetGo
  PROVE  /\ job' = Idle /\ plan' \in {plan, 0} /\ now' = now /\ latest' = latest
         /\ turns' = turns
  BY DEF LetGo, PassOver, NoFailure, FailureSkipped, FailureWaits, Cancelled, GivenUp, Receipt,
         Unconfirmed, SendFailed, Crash, RetryNow, Attempt, EndPass, session, history, Idle

\* Every step is one of these, or takes the job a step further.
LEMMA StepKinds ==
  ASSUME [Next]_vars
  PROVE  \/ Aside \/ LetGo
         \/ \E watched \in BOOLEAN, policy \in Policies : BeginPass(watched, policy)
         \/ \E p \in job.todo : ObserveNothing(p) \/ ObserveOutcome(p)
         \/ FailureDue \/ RecheckSame
         \/ (RetryNow \/ Attempt) /\ job' # Idle
         \/ Deliver
  BY DEF Next, Aside, LetGo

\* Every step keeps what the job stands for.
LEMMA JobStep == TypeOK /\ JobInv /\ [Next]_vars => JobInv'
<1> SUFFICES ASSUME TypeOK, JobInv, [Next]_vars PROVE JobInv'
  OBVIOUS
<1>0. /\ now \in Nat /\ plan \in Nat /\ latest \in Nat /\ job.at \in Nat
      /\ Len(turns) \in Nat /\ job \in JobType /\ turns \in Seq(TurnType)
      /\ DOMAIN turns = 1..Len(turns)
  BY RecoveryAssumption DEF TypeOK, JobType, Times, Turns
<1>1. CASE Aside
  <2>1. TurnsKept /\ Len(turns') \in Nat
    BY TurnsStep, TypeStep DEF TypeOK, Turns
  <2>2. job' = job /\ mem' = mem /\ latest' = latest /\ now <= now' /\ plan' \in {plan, now}
    BY <1>1, AsideKeeps
  <2>3. now' \in Nat
    BY TypeStep, RecoveryAssumption DEF TypeOK, Times
  <2> QED BY <1>0, <2>1, <2>2, <2>3 DEF JobInv, TurnsKept
<1>2. CASE LetGo
  BY <1>0, <1>2, LetGoKeeps DEF JobInv, Idle
<1>3. ASSUME NEW watched \in BOOLEAN, NEW policy \in Policies, BeginPass(watched, policy)
      PROVE  JobInv'
  <2>1. Prune(mem, plan).pending = mem.pending
    BY PruneKeeps DEF TypeOK
  <2> QED BY <1>0, <1>3, <2>1 DEF BeginPass, JobInv, Idle, history
<1>4. ASSUME NEW p \in job.todo, ObserveNothing(p) PROVE JobInv'
  BY <1>0, <1>4 DEF ObserveNothing, JobInv, JobType, TypeOK, RuntimeStates, history
<1>5. ASSUME NEW p \in job.todo, ObserveOutcome(p) PROVE JobInv'
  BY <1>0, <1>5 DEF ObserveOutcome, JobInv, JobType, TypeOK, RuntimeStates, history
<1>6. CASE FailureDue
  BY <1>0, <1>6, Latest DEF FailureDue, JobInv, Idle, session, history
<1>7. CASE RecheckSame
  BY <1>0, <1>7 DEF RecheckSame, JobInv, JobType, session, history
<1>8. CASE RetryNow /\ job' # Idle
  BY <1>0, <1>8, Latest DEF RetryNow, JobInv, Idle, session, history
<1>9. CASE Attempt /\ job' # Idle
  BY <1>0, <1>9 DEF Attempt, JobInv, JobType, session, history
<1>10. CASE Deliver
  <2>1. /\ TurnsKept /\ Len(turns') = Len(turns) + 1 /\ Len(turns') \in DOMAIN turns'
        /\ turns'[Len(turns')].answers = job.failed
    <3>1. job.failed \in {0} \cup Turns /\ job.at \in Times /\ job.automatic \in BOOLEAN
      BY <1>0 DEF JobType
    <3>2. StartTurn(job.failed, job.at, job.automatic)
      BY <1>10 DEF Deliver
    <3>3. /\ TurnsKept /\ Len(turns') = Len(turns) + 1
          /\ DOMAIN turns' = DOMAIN turns \cup {Len(turns) + 1}
          /\ turns'[Len(turns')] = [status |-> "active", answers |-> job.failed, at |-> job.at,
                                    automatic |-> job.automatic]
      BY <3>1, <3>2, StartTyped
    <3> QED BY <3>3
  <2> QED BY <1>0, <1>10, <2>1 DEF Deliver, JobInv, JobType, TurnsKept, history
<1> QED BY <1>1, <1>2, <1>3, <1>4, <1>5, <1>6, <1>7, <1>8, <1>9, <1>10, StepKinds

-----------------------------------------------------------------------------
(***************************************************************************)
(* The failures that a state has seen.                                     *)
(***************************************************************************)

\* What is saved is what is in memory then.
LEMMA DiskStep ==
  ASSUME [Next]_vars
  PROVE  disk' \in {disk, mem'}
  BY DEF Next, vars, EndPass, Save, TurnEnds, UserTurn, Tick, LateDelivery, PreparePass,
         BeginPass, ObserveNothing, ObserveOutcome, PassOver, NoFailure, FailureSkipped,
         FailureWaits, FailureDue, RecheckSame, Cancelled, GivenUp, RetryNow, Attempt, Deliver,
         Receipt, Unconfirmed, SendFailed, Crash, session

\* A failure is seen while the session's last turn is the failed one.
LEMMA ObservedStep ==
  ASSUME TypeOK, JobInv, [Next]_vars, NEW t \in Turns
  PROVE  \/ mem'.observed[t] \in {0, mem.observed[t], disk.observed[t]}
         \/ /\ (FailureWaits \/ FailureDue) /\ t = Len(turns) /\ LatestFailure = t
            /\ mem.observed[t] = 0 /\ mem'.observed[t] = job.at
<1>0. mem \in RuntimeStates /\ disk \in RuntimeStates /\ job.at \in Times /\ plan \in Times
  BY DEF TypeOK, JobType
<1>1. CASE \E watched \in BOOLEAN, policy \in Policies : BeginPass(watched, policy)
  BY <1>0, <1>1, PruneKeeps DEF BeginPass
<1>2. CASE \E p \in job.todo : ObserveNothing(p) \/ ObserveOutcome(p)
  BY <1>0, <1>2 DEF ObserveNothing, ObserveOutcome, RuntimeStates
<1>3. CASE FailureWaits \/ FailureDue
  <2>1. LatestFailure \in Turns /\ LatestFailure = Len(turns) /\ mem' = Inspected(LatestFailure)
    BY <1>3, Latest DEF FailureWaits, FailureDue, EndPass
  <2> QED BY <1>3, <2>1, InspectKeeps DEF FirstSeen
<1>4. CASE FailureSkipped
  BY <1>4, SkippedKeeps
<1>5. CASE Receipt
  BY <1>5, ReceiptKeeps, Latest DEF Receipt, JobInv
<1>6. CASE Unconfirmed
  BY <1>6, UnconfirmedKeeps, Latest DEF Unconfirmed, JobInv
<1>7. CASE RetryNow \/ Attempt \/ NoFailure
  BY <1>0, <1>7 DEF RetryNow, Attempt, NoFailure, EndPass, RuntimeStates
<1>8. CASE Crash
  BY <1>8 DEF Crash
<1>9. CASE PassOver \/ Cancelled \/ GivenUp \/ SendFailed \/ RecheckSame \/ Deliver
  BY <1>9 DEF PassOver, Cancelled, GivenUp, SendFailed, RecheckSame, Deliver, EndPass
<1>10. CASE Aside
  BY <1>10, AsideKeeps
<1> QED BY <1>1, <1>2, <1>3, <1>4, <1>5, <1>6, <1>7, <1>8, <1>9, <1>10, StepKinds DEF LetGo

\* Every step keeps what is known of the failures seen.
LEMMA KnownStep ==
  TypeOK /\ JobInv /\ Known(mem.observed) /\ Known(disk.observed) /\ [Next]_vars
    => Known(mem.observed)' /\ Known(disk.observed)'
<1> SUFFICES ASSUME TypeOK, JobInv, Known(mem.observed), Known(disk.observed), [Next]_vars
             PROVE  Known(mem.observed)' /\ Known(disk.observed)'
  OBVIOUS
<1>1. TurnsKept
  BY TurnsStep
<1>2. ASSUME NEW t \in Turns, mem'.observed[t] # 0
      PROVE  t \in DOMAIN turns' /\ turns'[t].status = "failed"
  <2>1. t \in DOMAIN turns /\ turns[t].status = "failed"
    BY <1>2, ObservedStep, Latest DEF Known
  <2> QED BY <1>1, <2>1 DEF TurnsKept
<1>3. Known(mem.observed)'
  BY <1>2 DEF Known
<1>4. ASSUME NEW t \in Turns, disk.observed[t] # 0
      PROVE  t \in DOMAIN turns' /\ turns'[t].status = "failed"
  BY <1>1, <1>4 DEF TurnsKept, Known
<1> QED BY <1>2, <1>3, <1>4, DiskStep DEF Known

-----------------------------------------------------------------------------
(***************************************************************************)
(* Outcomes.                                                               *)
(***************************************************************************)

\* The outcomes of a state tell what became of recovery turns, each once, and no
\* turn is counted that is still pending.
Counted(state, session_turns) ==
  /\ \A i \in DOMAIN state.outcomes :
       LET o == state.outcomes[i] IN
       /\ o.turn \in DOMAIN session_turns
       /\ session_turns[o.turn].answers # 0
       /\ session_turns[o.turn].status = IF o.success THEN "completed" ELSE "failed"
       /\ \A j \in DOMAIN state.outcomes : state.outcomes[j].turn = o.turn => i = j
       /\ \A p \in state.pending : p.recovery # o.turn
  /\ \A p \in state.pending :
       /\ p.recovery \in DOMAIN session_turns
       /\ session_turns[p.recovery].answers # 0
       /\ \A q \in state.pending : q.recovery = p.recovery => q = p

\* A turn that the job has started is in no state yet.
Unrecorded(state) ==
  job.pc = "delivered" =>
    /\ \A i \in DOMAIN state.outcomes : state.outcomes[i].turn # job.started
    /\ \A p \in state.pending : p.recovery # job.started

OutcomeInv ==
  /\ Counted(mem, turns) /\ Counted(disk, turns)
  /\ Unrecorded(mem) /\ Unrecorded(disk)

\* What has been counted stays counted.
LEMMA CountedKept ==
  ASSUME TurnsKept, NEW state, Counted(state, turns)
  PROVE  Counted(state, turns')
<1>1. \A i \in DOMAIN state.outcomes :
        LET o == state.outcomes[i] IN
        /\ o.turn \in DOMAIN turns'
        /\ turns'[o.turn].answers # 0
        /\ turns'[o.turn].status = IF o.success THEN "completed" ELSE "failed"
  BY DEF Counted, TurnsKept
<1> QED BY <1>1 DEF Counted, TurnsKept

\* A state that keeps some of the outcomes and some of the pending recoveries.
LEMMA CountedLess ==
  ASSUME NEW before, NEW after, NEW ts, Counted(before, ts),
         SomeOf(after.outcomes, before.outcomes), after.pending \subseteq before.pending
  PROVE  Counted(after, ts)
<1>1. PICK place \in [DOMAIN after.outcomes -> DOMAIN before.outcomes] :
        /\ \A i \in DOMAIN after.outcomes : after.outcomes[i] = before.outcomes[place[i]]
        /\ \A i, j \in DOMAIN after.outcomes : place[i] = place[j] => i = j
  BY DEF SomeOf
<1>2. ASSUME NEW i \in DOMAIN after.outcomes
      PROVE  LET o == after.outcomes[i] IN
             /\ o.turn \in DOMAIN ts
             /\ ts[o.turn].answers # 0
             /\ ts[o.turn].status = IF o.success THEN "completed" ELSE "failed"
             /\ \A p \in after.pending : p.recovery # o.turn
  BY <1>1 DEF Counted
<1>3. ASSUME NEW i \in DOMAIN after.outcomes, NEW j \in DOMAIN after.outcomes,
             after.outcomes[j].turn = after.outcomes[i].turn
      PROVE  i = j
  BY <1>1, <1>3 DEF Counted
<1> QED BY <1>2, <1>3 DEF Counted

\* Every list is some of itself.
LEMMA SomeOfSame ==
  ASSUME NEW s PROVE SomeOf(s, s)
<1> DEFINE place == [i \in DOMAIN s |-> i]
<1>1. place \in [DOMAIN s -> DOMAIN s] /\ \A i \in DOMAIN s : place[i] = i
  OBVIOUS
<1> HIDE DEF place
<1> QED BY <1>1 DEF SomeOf

\* A failed observation of a pending recovery.
LEMMA CountedObserveNothing ==
  ASSUME TypeOK, JobInv, Counted(mem, turns), NEW p \in job.todo, ObserveNothing(p)
  PROVE  Counted(mem', turns)
<1> DEFINE q == [p EXCEPT !.failures = IF @ < MaxObservationFailures THEN @ + 1 ELSE @]
<1>1. mem \in RuntimeStates /\ p \in PendingRecovery /\ p \in mem.pending
  BY DEF TypeOK, JobType, JobInv, ObserveNothing
<1>2. q.recovery = p.recovery
  BY <1>1 DEF PendingRecovery
<1>3. mem'.outcomes = mem.outcomes /\ mem'.pending \subseteq (mem.pending \ {p}) \cup {q}
  BY <1>1 DEF ObserveNothing, RuntimeStates
<1> HIDE DEF q
<1> QED BY <1>1, <1>2, <1>3 DEF Counted

\* The report of a recovery turn.
LEMMA CountedObserveOutcome ==
  ASSUME TypeOK, JobInv, Counted(mem, turns), NEW p \in job.todo, ObserveOutcome(p)
  PROVE  Counted(mem', turns)
<1> DEFINE status == turns[p.recovery].status
           o == [turn |-> p.recovery, automatic |-> p.automatic,
                 success |-> status = "completed", at |-> job.at]
<1>1. mem \in RuntimeStates /\ p \in PendingRecovery /\ p \in mem.pending
  BY DEF TypeOK, JobType, JobInv, ObserveOutcome
<1>2. p.recovery \in DOMAIN turns /\ turns[p.recovery].answers # 0
  BY <1>1 DEF Counted
<1>3. CASE status = "active"
  <2>1. mem'.outcomes = mem.outcomes /\ mem'.pending \subseteq mem.pending
    BY <1>1, <1>3 DEF ObserveOutcome, RuntimeStates
  <2> QED BY <2>1, CountedLess, SomeOfSame
<1>4. CASE status # "active"
  <2>1. turns[p.recovery] \in TurnType
    BY <1>2 DEF TypeOK
  <2>2. status = IF o.success THEN "completed" ELSE "failed"
    BY <1>4, <2>1 DEF TurnType
  <2>3. mem'.outcomes = Append(mem.outcomes, o) /\ mem'.pending = mem.pending \ {p}
    BY <1>1, <1>4 DEF ObserveOutcome, RuntimeStates
  <2>4. o.turn = p.recovery
    OBVIOUS
  <2>5. mem.outcomes \in Seq(RecoveryOutcome)
    BY <1>1 DEF RuntimeStates
  <2>6. o \in RecoveryOutcome
    BY <1>1 DEF RecoveryOutcome, PendingRecovery, TypeOK, JobType
  <2> HIDE DEF o
  <2>7. /\ DOMAIN mem'.outcomes = DOMAIN mem.outcomes \cup {Len(mem.outcomes) + 1}
        /\ Len(mem.outcomes) + 1 \notin DOMAIN mem.outcomes
        /\ mem'.outcomes[Len(mem.outcomes) + 1] = o
        /\ \A i \in DOMAIN mem.outcomes : mem'.outcomes[i] = mem.outcomes[i]
    BY <2>3, <2>5, <2>6
  <2>8. \A i \in DOMAIN mem.outcomes : mem.outcomes[i].turn # p.recovery
    BY <1>1 DEF Counted
  <2>9. ASSUME NEW i \in DOMAIN mem'.outcomes
        PROVE  /\ mem'.outcomes[i].turn \in DOMAIN turns
               /\ turns[mem'.outcomes[i].turn].answers # 0
               /\ turns[mem'.outcomes[i].turn].status =
                    IF mem'.outcomes[i].success THEN "completed" ELSE "failed"
               /\ \A r \in mem'.pending : r.recovery # mem'.outcomes[i].turn
    <3>1. CASE i \in DOMAIN mem.outcomes
      BY <2>3, <2>7, <3>1 DEF Counted
    <3>2. CASE i = Len(mem.outcomes) + 1
      BY <1>1, <1>2, <2>2, <2>3, <2>4, <2>7, <3>2 DEF Counted
    <3> QED BY <2>7, <3>1, <3>2
  <2>10. ASSUME NEW i \in DOMAIN mem'.outcomes, NEW j \in DOMAIN mem'.outcomes,
                mem'.outcomes[j].turn = mem'.outcomes[i].turn
         PROVE  i = j
    BY <2>4, <2>7, <2>8, <2>10 DEF Counted
  <2>11. \A r \in mem'.pending :
           /\ r.recovery \in DOMAIN turns
           /\ turns[r.recovery].answers # 0
           /\ \A s \in mem'.pending : s.recovery = r.recovery => s = r
    BY <2>3 DEF Counted
  <2> QED BY <2>9, <2>10, <2>11 DEF Counted
<1> QED BY <1>3, <1>4

\* The receipt makes the started turn a pending recovery.
LEMMA CountedReceipt ==
  ASSUME TypeOK, JobInv, Counted(mem, turns), Unrecorded(mem), Receipt
  PROVE  Counted(mem', turns)
<1>1. /\ job.failed \in Turns /\ job.started \in Turns /\ job.started \in DOMAIN turns
      /\ turns[job.started].answers # 0 /\ job.pc = "delivered"
  BY Latest, RecoveryAssumption DEF Receipt, JobInv, Turns
<1>2. /\ mem'.pending \subseteq mem.pending \cup {Begun}
      /\ mem'.outcomes = mem.outcomes /\ Begun.recovery = job.started
  BY <1>1, ReceiptKeeps DEF Begun
<1> QED BY <1>1, <1>2 DEF Counted, Unrecorded

\* The pending recoveries and the outcomes change by a prune, an observation, a
\* receipt and a crash only.
LEMMA RecordsStep ==
  ASSUME TypeOK, JobInv, [Next]_vars
  PROVE  \/ mem'.outcomes = mem.outcomes /\ mem'.pending = mem.pending
         \/ \E watched \in BOOLEAN, policy \in Policies : BeginPass(watched, policy)
         \/ \E p \in job.todo : ObserveNothing(p) \/ ObserveOutcome(p)
         \/ Receipt \/ Crash
<1>0. mem \in RuntimeStates
  BY DEF TypeOK
<1>1. CASE Aside
  BY <1>1, AsideKeeps
<1>2. CASE FailureWaits \/ FailureDue
  <2>1. LatestFailure \in Turns /\ mem' = Inspected(LatestFailure)
    BY <1>2, Latest DEF FailureWaits, FailureDue, EndPass
  <2> QED BY <2>1, InspectKeeps
<1>3. CASE FailureSkipped
  BY <1>3, SkippedKeeps
<1>4. CASE Unconfirmed
  BY <1>4, UnconfirmedKeeps, Latest DEF Unconfirmed, JobInv
<1>5. CASE RetryNow \/ Attempt \/ NoFailure
  BY <1>0, <1>5 DEF RetryNow, Attempt, NoFailure, EndPass, RuntimeStates
<1>6. CASE PassOver \/ Cancelled \/ GivenUp \/ SendFailed \/ RecheckSame \/ Deliver
  BY <1>6 DEF PassOver, Cancelled, GivenUp, SendFailed, RecheckSame, Deliver, EndPass
<1> QED BY <1>1, <1>2, <1>3, <1>4, <1>5, <1>6, StepKinds DEF LetGo

\* Every step keeps the outcomes true.
LEMMA OutcomeStep == TypeOK /\ JobInv /\ OutcomeInv /\ [Next]_vars => OutcomeInv'
<1> SUFFICES ASSUME TypeOK, JobInv, OutcomeInv, [Next]_vars PROVE OutcomeInv'
  OBVIOUS
<1>1. TurnsKept
  BY TurnsStep
<1>2. Counted(mem, turns) /\ Counted(disk, turns) /\ Unrecorded(mem) /\ Unrecorded(disk)
  BY DEF OutcomeInv
<1>3. Counted(mem', turns)
  <2>1. CASE mem'.outcomes = mem.outcomes /\ mem'.pending = mem.pending
    BY <1>2, <2>1 DEF Counted
  <2>2. CASE \E watched \in BOOLEAN, policy \in Policies : BeginPass(watched, policy)
    <3>1. mem' = Prune(mem, plan) /\ mem \in RuntimeStates /\ plan \in Times
      BY <2>2 DEF BeginPass, TypeOK
    <3>2. mem'.pending = mem.pending /\ SomeOf(mem'.outcomes, mem.outcomes)
      BY <3>1, PruneKeeps
    <3> QED BY <1>2, <3>2, CountedLess
  <2>3. CASE \E p \in job.todo : ObserveNothing(p) \/ ObserveOutcome(p)
    BY <1>2, <2>3, CountedObserveNothing, CountedObserveOutcome
  <2>4. CASE Receipt
    BY <1>2, <2>4, CountedReceipt
  <2>5. CASE Crash
    BY <1>2, <2>5 DEF Crash
  <2> QED BY <2>1, <2>2, <2>3, <2>4, <2>5, RecordsStep
<1>4. Counted(mem', turns') /\ Counted(disk, turns')
  BY <1>1, <1>2, <1>3, CountedKept
<1>5. Counted(disk', turns')
  BY <1>4, DiskStep
<1>6. ASSUME job'.pc = "delivered"
      PROVE  \/ mem' = mem /\ disk' = disk /\ job' = job
             \/ /\ mem' = mem /\ disk' = disk /\ job'.started = Len(turns) + 1
                /\ Len(turns) + 1 \notin DOMAIN turns
  <2>0. job \in JobType /\ Len(turns) + 1 \notin DOMAIN turns
    BY DEF TypeOK
  <2>1. CASE Aside
    BY <2>1, AsideKeeps
  <2>2. CASE LetGo
    BY <1>6, <2>2, LetGoKeeps DEF Idle
  <2>3. CASE Deliver
    BY <2>0, <2>3 DEF Deliver, JobType
  <2>4. CASE \E watched \in BOOLEAN, policy \in Policies : BeginPass(watched, policy)
    BY <1>6, <2>4 DEF BeginPass, Idle
  <2>5. CASE \E p \in job.todo : ObserveNothing(p) \/ ObserveOutcome(p)
    BY <1>6, <2>0, <2>5 DEF ObserveNothing, ObserveOutcome, JobType
  <2>6. CASE FailureDue \/ RecheckSame \/ ((RetryNow \/ Attempt) /\ job' # Idle)
    BY <1>6, <2>0, <2>6 DEF FailureDue, RecheckSame, RetryNow, Attempt, Idle, JobType
  <2> QED BY <2>1, <2>2, <2>3, <2>4, <2>5, <2>6, StepKinds
<1>7. Unrecorded(mem)'
  BY <1>2, <1>6 DEF Unrecorded, Counted
<1>8. Unrecorded(disk)'
  BY <1>2, <1>6 DEF Unrecorded, Counted
<1> QED BY <1>4, <1>5, <1>7, <1>8 DEF OutcomeInv

\* Nothing is counted or pending at first.
LEMMA OutcomeInit == Init => OutcomeInv
<1> SUFFICES ASSUME Init PROVE OutcomeInv
  OBVIOUS
<1>1. /\ mem.outcomes = <<>> /\ mem.pending = {} /\ disk.outcomes = <<>> /\ disk.pending = {}
      /\ job.pc # "delivered"
  BY DEF Init, EmptyState, Idle
<1> QED BY <1>1 DEF OutcomeInv, Counted, Unrecorded

-----------------------------------------------------------------------------
(***************************************************************************)
(* The distance between sends.                                             *)
(***************************************************************************)

\* A call made at this time has left the attempt window, or the state file.
Away(call, time) == call + Window < time \/ call + PruneAge < time

\* The attempts were forgotten after a turn without failure: no failure that was
\* seen before the latest call is the last turn.
Fresh(state, call, length) ==
  /\ state.attempts = <<>>
  /\ \A t \in Turns : state.observed[t] # 0 => t < length \/ call <= state.observed[t]

\* The state remembers the latest call as long as it has to.
Spaced(state, call, time, length) ==
  \/ call = 0
  \/ Away(call, time)
  \/ state.attempts # <<>> /\ call <= Last(state.attempts)
  \/ Fresh(state, call, length)

SpaceInv ==
  /\ Spaced(mem, latest, now, Len(turns)) /\ Spaced(disk, latest, now, Len(turns))
  /\ job.automatic => plan = 0 \/ (latest <= plan /\ job.at <= plan)
  /\ latest # 0 /\ ~Away(latest, now) /\ mem.attempts = <<>> =>
       (plan # 0 => latest <= plan) /\ (job.pc = "pending" => latest <= job.at)
  /\ job.pc = "boundary" /\ ~job.automatic => latest <= job.at
  /\ job.pc \in {"recheck", "boundary"} /\ job.automatic =>
       latest = 0 \/ Away(latest, now) \/ latest + InitialDelay <= job.at

\* The delay is never shorter than the initial one.
LEMMA DelayBound ==
  ASSUME NEW n \in Nat, n < MaxAttempts
  PROVE  RetryDelay(n) \in Nat /\ RetryDelay(n) >= InitialDelay
<1>1. n \in 0..MaxAttempts
  BY RecoveryAssumption
<1>2. 2^n \in Nat \ {0}
  BY <1>1, PowerAssumption
<1> DEFINE power == 2^n
<1>3. power \in Nat /\ power >= 1 /\ InitialDelay \in Nat
  BY <1>2, RecoveryAssumption
<1> HIDE DEF power
<1>4. InitialDelay * power \in Nat /\ InitialDelay * power >= InitialDelay
  BY <1>3
<1>5. RetryDelay(n) = IF InitialDelay * power < MaxDelay THEN InitialDelay * power ELSE MaxDelay
  BY DEF RetryDelay, power
<1> QED BY <1>4, <1>5, RecoveryAssumption

\* The last attempt is a time.
LEMMA LastTyped ==
  ASSUME NEW s \in Seq(Times), s # <<>>
  PROVE  Last(s) \in Nat /\ Last(s) = s[Len(s)] /\ Len(s) # 0
<1>1. Len(s) \in DOMAIN s /\ Len(s) # 0
  OBVIOUS
<1>2. s[Len(s)] \in Times
  BY <1>1
<1> QED BY <1>1, <1>2, RecoveryAssumption DEF Last, Times

\* Time and further turns keep a state's memory of the latest call.
LEMMA SpacedLater ==
  ASSUME NEW state, NEW call \in Nat,
         NEW time \in Nat, NEW later \in Nat, time <= later,
         NEW length \in Nat, NEW longer \in Nat, length <= longer,
         Spaced(state, call, time, length)
  PROVE  Spaced(state, call, later, longer)
<1>1. CASE Away(call, time)
  BY <1>1, RecoveryAssumption DEF Spaced, Away
<1>2. CASE Fresh(state, call, length)
  <2>1. Fresh(state, call, longer)
    BY <1>2 DEF Fresh, Turns
  <2> QED BY <2>1 DEF Spaced
<1> QED BY <1>1, <1>2 DEF Spaced

\* The steps that neither attempt nor forget an attempt nor see a failure.
Unattempted ==
  \/ Aside
  \/ \E p \in job.todo : ObserveNothing(p) \/ ObserveOutcome(p)
  \/ PassOver \/ Cancelled \/ GivenUp \/ SendFailed \/ FailureSkipped \/ Receipt \/ Unconfirmed
  \/ RecheckSame \/ Deliver

\* What they leave alone.
LEMMA UnattemptedKeeps ==
  ASSUME TypeOK, JobInv, Unattempted
  PROVE  mem'.attempts = mem.attempts /\ mem'.observed = mem.observed /\ latest' = latest
<1>0. mem \in RuntimeStates
  BY DEF TypeOK
<1>1. CASE Aside
  BY <1>1, AsideKeeps
<1>2. CASE \E p \in job.todo : ObserveNothing(p) \/ ObserveOutcome(p)
  BY <1>0, <1>2 DEF ObserveNothing, ObserveOutcome, RuntimeStates, history
<1>3. CASE PassOver \/ Cancelled \/ GivenUp \/ SendFailed \/ RecheckSame \/ Deliver
  BY <1>3 DEF PassOver, Cancelled, GivenUp, SendFailed, RecheckSame, Deliver, EndPass, history
<1>4. CASE FailureSkipped
  BY <1>4, SkippedKeeps DEF FailureSkipped, history
<1>5. CASE Receipt
  BY <1>5, ReceiptKeeps, Latest DEF Receipt, JobInv, history
<1>6. CASE Unconfirmed
  BY <1>6, UnconfirmedKeeps, Latest DEF Unconfirmed, JobInv
<1> QED BY <1>1, <1>2, <1>3, <1>4, <1>5, <1>6 DEF Unattempted

\* The numbers of two successive states.
LEMMA Numbers ==
  ASSUME TypeOK, JobInv, [Next]_vars
  PROVE  /\ now \in Nat /\ plan \in Nat /\ latest \in Nat /\ job.at \in Nat
         /\ now' \in Nat /\ plan' \in Nat /\ latest' \in Nat /\ now <= now'
         /\ Len(turns) \in Nat /\ Len(turns') \in Nat /\ Len(turns) <= Len(turns')
         /\ mem \in RuntimeStates /\ disk \in RuntimeStates
         /\ mem' \in RuntimeStates /\ disk' \in RuntimeStates
         /\ mem.attempts \in Seq(Times) /\ job \in JobType
         /\ Window \in Nat /\ PruneAge \in Nat /\ InitialDelay \in Nat \ {0}
         /\ plan <= now /\ job.at <= now /\ latest <= now
         /\ Times \subseteq Nat /\ job.at \in Times /\ now \in Times /\ plan \in Times
<1>1. TypeOK' /\ TurnsKept
  BY TypeStep, TurnsStep
<1>2. now <= now'
  <2>1. CASE Aside
    BY <2>1, AsideKeeps
  <2>2. CASE LetGo
    BY <2>2, LetGoKeeps, RecoveryAssumption DEF TypeOK, Times
  <2>3. CASE now' = now
    BY <2>3, RecoveryAssumption DEF TypeOK, Times
  <2> QED BY <2>1, <2>2, <2>3, StepKinds DEF BeginPass, ObserveNothing, ObserveOutcome,
               FailureDue, RecheckSame, RetryNow, Attempt, Deliver
<1>3. /\ Len(turns) \in Nat /\ Len(turns') \in Nat /\ Len(turns) <= Len(turns')
  BY <1>1, RecoveryAssumption DEF TypeOK, Turns, TurnsKept
<1>4. mem.attempts \in Seq(Times) /\ job \in JobType /\ job.at \in Times
  BY DEF TypeOK, JobType, RuntimeStates
<1>5. /\ now \in Times /\ plan \in Times /\ latest \in Times
      /\ now' \in Times /\ plan' \in Times /\ latest' \in Times
      /\ mem \in RuntimeStates /\ disk \in RuntimeStates
      /\ mem' \in RuntimeStates /\ disk' \in RuntimeStates
  BY <1>1 DEF TypeOK
<1>6. Times \subseteq Nat
  BY RecoveryAssumption DEF Times
<1>7. plan <= now /\ job.at <= now /\ latest <= now
  BY DEF JobInv
<1> QED BY <1>2, <1>3, <1>4, <1>5, <1>6, <1>7, RecoveryAssumption

\* A step without a call that filters the attempts by age keeps that memory.
LEMMA SpacedFilter ==
  ASSUME TypeOK, JobInv, SpaceInv, [Next]_vars, latest' = latest,
         NEW age, age = Window \/ age = PruneAge, NEW at \in Nat, at <= now,
         LastKept(mem.attempts, mem'.attempts, age, at),
         \/ mem'.observed = mem.observed
         \/ \A t \in Turns : mem'.observed[t] \in {0, mem.observed[t]}
         \/ \A t \in Turns : mem'.observed[t] \in {mem.observed[t], job.at}
            /\ job.pc = "pending"
  PROVE  Spaced(mem', latest', now', Len(turns'))
<1>0. /\ now \in Nat /\ latest \in Nat /\ now' \in Nat /\ now <= now'
      /\ Len(turns) \in Nat /\ Len(turns') \in Nat /\ Len(turns) <= Len(turns')
      /\ mem.attempts \in Seq(Times) /\ Window \in Nat /\ PruneAge \in Nat
      /\ \A t \in Turns : t \in Nat
  BY Numbers DEF Turns
<1>1. CASE latest = 0
  BY <1>1 DEF Spaced
<1>2. CASE Away(latest, now)
  BY <1>0, <1>2 DEF Spaced, Away
<1>3. CASE mem.attempts # <<>> /\ latest <= Last(mem.attempts)
  <2>1. Last(mem.attempts) \in Nat
    BY <1>0, <1>3, LastTyped
  <2>2. CASE mem'.attempts # <<>> /\ Last(mem'.attempts) = Last(mem.attempts)
    BY <1>3, <2>2 DEF Spaced
  <2>3. CASE Last(mem.attempts) + age < at
    <3>1. latest + age < now'
      BY <1>0, <1>3, <2>1, <2>3
    <3> QED BY <3>1 DEF Spaced, Away
  <2> QED BY <1>3, <2>2, <2>3 DEF LastKept
<1>4. CASE latest # 0 /\ ~Away(latest, now) /\ Fresh(mem, latest, Len(turns))
  <2>1. mem.attempts = <<>> /\ mem'.attempts = <<>>
    BY <1>4 DEF Fresh, LastKept
  <2>2. job.pc = "pending" => latest <= job.at
    BY <1>4, <2>1 DEF SpaceInv
  <2>3. \A t \in Turns :
          mem'.observed[t] # 0 => t < Len(turns') \/ latest <= mem'.observed[t]
    <3>1. \A t \in Turns :
            mem'.observed[t] # 0 => mem'.observed[t] = mem.observed[t] \/ latest <= mem'.observed[t]
      BY <2>2
    <3> QED BY <1>0, <1>4, <3>1 DEF Fresh
  <2> QED BY <2>1, <2>3 DEF Spaced, Fresh
<1> QED BY <1>1, <1>2, <1>3, <1>4 DEF Spaced, SpaceInv

\* Every step leaves a state in memory that remembers the latest call.
LEMMA MemorySpaced ==
  ASSUME TypeOK, JobInv, Known(mem.observed), SpaceInv, [Next]_vars
  PROVE  Spaced(mem', latest', now', Len(turns'))
<1>0. /\ now \in Nat /\ plan \in Nat /\ latest \in Nat /\ job.at \in Nat
      /\ now' \in Nat /\ latest' \in Nat /\ now <= now'
      /\ Len(turns) \in Nat /\ Len(turns') \in Nat /\ Len(turns) <= Len(turns')
      /\ mem \in RuntimeStates /\ mem' \in RuntimeStates /\ disk \in RuntimeStates
      /\ mem.attempts \in Seq(Times)
      /\ Window \in Nat /\ PruneAge \in Nat
      /\ plan <= now /\ job.at <= now
      /\ job.at \in Times /\ now \in Times /\ plan \in Times
  BY Numbers
<1>a. Spaced(mem, latest, now, Len(turns)) /\ Spaced(disk, latest, now, Len(turns))
  BY DEF SpaceInv
<1>b. \A s, age, at : LastKept(s, s, age, at)
  BY DEF LastKept
<1>1. CASE Unattempted
  <2>1. mem'.attempts = mem.attempts /\ mem'.observed = mem.observed /\ latest' = latest
    BY <1>1, UnattemptedKeeps
  <2>2. LastKept(mem.attempts, mem'.attempts, Window, now)
    BY <1>b, <2>1
  <2> QED BY <1>0, <2>1, <2>2, SpacedFilter
<1>2. ASSUME NEW watched \in BOOLEAN, NEW policy \in Policies, BeginPass(watched, policy)
      PROVE  Spaced(mem', latest', now', Len(turns'))
  <2>1. mem' = Prune(mem, plan) /\ latest' = latest
    BY <1>2 DEF BeginPass, history
  <2>2. /\ LastKept(mem.attempts, mem'.attempts, PruneAge, plan)
        /\ \A t \in Turns : mem'.observed[t] \in {0, mem.observed[t]}
    BY <1>0, <2>1, PruneKeeps
  <2> QED BY <1>0, <2>1, <2>2, SpacedFilter
<1>3. CASE FailureWaits \/ FailureDue
  <2>1. LatestFailure \in Turns /\ mem' = Inspected(LatestFailure) /\ latest' = latest
        /\ job.pc = "pending"
    BY <1>3, Latest DEF FailureWaits, FailureDue, EndPass, history
  <2>2. LastKept(mem.attempts, mem'.attempts, Window, job.at)
    BY <1>0, <2>1, InspectKeeps, RecentKeeps
  <2>3. \A t \in Turns : mem'.observed[t] \in {mem.observed[t], job.at}
    BY <2>1, InspectKeeps DEF FirstSeen
  <2> QED BY <1>0, <2>1, <2>2, <2>3, SpacedFilter
<1>4. CASE RetryNow
  <2>1. /\ mem'.attempts = RecentAttempts(mem, now) /\ mem'.observed = mem.observed
        /\ latest' = latest
    BY <1>0, <1>4 DEF RetryNow, RuntimeStates, history
  <2>2. LastKept(mem.attempts, mem'.attempts, Window, now)
    BY <1>0, <2>1, RecentKeeps
  <2> QED BY <1>0, <2>1, <2>2, SpacedFilter
<1>5. CASE Attempt
  <2>1. /\ mem'.attempts = Append(mem.attempts, job.at) /\ job.pc = "boundary"
        /\ latest' = latest \/ (latest' = job.at /\ job.at > latest)
                            \/ (latest' = latest /\ ~(job.at > latest))
        /\ now' = now
    BY <1>0, <1>5 DEF Attempt, RuntimeStates
  <2>2. mem'.attempts # <<>> /\ Last(mem'.attempts) = job.at
    BY <1>0, <2>1 DEF Last
  <2>3. latest = 0 \/ Away(latest, now) \/ latest <= job.at
    BY <1>0, <2>1, RecoveryAssumption DEF SpaceInv
  <2> QED BY <1>0, <2>1, <2>2, <2>3 DEF Spaced
<1>6. CASE NoFailure
  <2>1. CASE mem.pending = {}
    <3>1. /\ mem'.attempts = <<>> /\ mem'.observed = mem.observed
          /\ turns' = turns
      BY <1>0, <1>6, <2>1 DEF NoFailure, EndPass, RuntimeStates, session
    <3>2. turns[Len(turns)].status # "failed"
      BY <1>6, Latest DEF NoFailure
    <3>3. \A t \in Turns : mem.observed[t] # 0 => t \in 1..Len(turns) /\ t # Len(turns)
      BY <3>2 DEF Known, TypeOK
    <3>4. \A t \in Turns : mem.observed[t] # 0 => t < Len(turns)
      BY <1>0, <3>3
    <3> QED BY <3>1, <3>4 DEF Spaced, Fresh
  <2>2. CASE mem.pending # {}
    <3>1. mem' = mem /\ latest' = latest /\ mem'.observed = mem.observed
      BY <1>6, <2>2 DEF NoFailure, EndPass, history
    <3>2. LastKept(mem.attempts, mem'.attempts, Window, now)
      BY <1>b, <3>1
    <3> QED BY <1>0, <3>1, <3>2, SpacedFilter
  <2> QED BY <2>1, <2>2
<1>7. CASE Crash
  <2>1. mem' = disk /\ latest' = latest /\ now' = now /\ turns' = turns
    BY <1>7 DEF Crash, history, session
  <2> QED BY <1>a, <2>1
<1> QED BY <1>1, <1>2, <1>3, <1>4, <1>5, <1>6, <1>7, StepKinds DEF LetGo, Unattempted

\* An automatic send that is due comes late enough after the latest call.
LEMMA DueSpaced ==
  ASSUME TypeOK, JobInv, SpaceInv, [Next]_vars, FailureDue
  PROVE  latest = 0 \/ Away(latest, now) \/ latest + InitialDelay <= job.at
<1>0. /\ now \in Nat /\ latest \in Nat /\ job.at \in Nat /\ job.at <= now
      /\ mem \in RuntimeStates /\ mem.attempts \in Seq(Times) /\ InitialDelay \in Nat \ {0}
      /\ Window \in Nat /\ PruneAge \in Nat /\ job.at \in Times
  BY Numbers
<1>1. /\ LatestFailure \in Turns /\ LatestFailure = Len(turns) /\ job.pc = "pending"
      /\ Due(LatestFailure)
  BY Latest DEF FailureDue
<1> DEFINE t == LatestFailure
           seen == Inspected(t)
           n == Len(seen.attempts)
           from == IF n = 0 THEN seen.observed[t] ELSE seen.attempts[n]
<1>2. /\ seen \in RuntimeStates /\ seen.attempts \in Seq(Times) /\ n \in Nat
      /\ LastKept(mem.attempts, seen.attempts, Window, job.at)
      /\ seen.observed[t] = FirstSeen(mem, t, job.at)
  <2>1. /\ seen \in RuntimeStates /\ seen.attempts = RecentAttempts(mem, job.at)
        /\ seen.observed[t] = FirstSeen(mem, t, job.at)
    BY <1>1, InspectKeeps
  <2>2. /\ RecentAttempts(mem, job.at) \in Seq(Times)
        /\ LastKept(mem.attempts, RecentAttempts(mem, job.at), Window, job.at)
    BY <1>0, RecentKeeps
  <2> HIDE DEF seen
  <2> QED BY <2>1, <2>2
<1>3. n < MaxAttempts /\ job.at >= from + RetryDelay(n)
  BY <1>1 DEF Due
<1>4. RetryDelay(n) \in Nat /\ RetryDelay(n) >= InitialDelay
  BY <1>2, <1>3, DelayBound
<1>5. from \in Nat
  <2>1. seen.observed[t] \in Times
    BY <1>1, <1>2 DEF RuntimeStates
  <2>2. n # 0 => seen.attempts[n] \in Times
    BY <1>2
  <2> QED BY <2>1, <2>2, RecoveryAssumption DEF Times
<1> SUFFICES ASSUME latest # 0, ~Away(latest, now)
             PROVE  latest + InitialDelay <= job.at
  OBVIOUS
<1>6. latest <= from
  <2>1. CASE mem.attempts # <<>> /\ latest <= Last(mem.attempts)
    <3>1. Last(mem.attempts) \in Nat
      BY <1>0, <2>1, LastTyped
    <3>2. ~(Last(mem.attempts) + Window < job.at)
      BY <1>0, <2>1, <3>1 DEF Away
    <3>3. seen.attempts # <<>> /\ Last(seen.attempts) = Last(mem.attempts)
      BY <1>2, <2>1, <3>2 DEF LastKept
    <3>4. from = Last(seen.attempts)
      BY <1>2, <3>3, LastTyped
    <3> QED BY <2>1, <3>3, <3>4
  <2>2. CASE Fresh(mem, latest, Len(turns))
    <3>1. seen.attempts = <<>> /\ mem.attempts = <<>>
      BY <1>2, <2>2 DEF Fresh, LastKept
    <3>2. from = FirstSeen(mem, t, job.at)
      BY <1>2, <3>1
    <3>3. CASE mem.observed[t] = 0
      BY <1>1, <3>1, <3>2, <3>3 DEF FirstSeen, SpaceInv
    <3>4. CASE mem.observed[t] # 0
      <4>1. ~(t < Len(turns))
        BY <1>1, Numbers
      <4> QED BY <1>1, <2>2, <3>2, <3>4, <4>1 DEF Fresh, FirstSeen
    <3> QED BY <3>3, <3>4
  <2> QED BY <2>1, <2>2 DEF SpaceInv, Spaced
<1> HIDE DEF from, n
<1> QED BY <1>0, <1>3, <1>4, <1>5, <1>6

\* A manual retry that forgets every attempt finds the latest call away.
LEMMA RetryForgets ==
  ASSUME TypeOK, JobInv, SpaceInv, [Next]_vars, RetryNow,
         latest # 0, ~Away(latest, now), mem'.attempts = <<>>
  PROVE  mem.attempts = <<>>
<1>0. /\ now \in Nat /\ latest \in Nat /\ mem \in RuntimeStates /\ now \in Times
      /\ mem.attempts \in Seq(Times) /\ Window \in Nat
  BY Numbers
<1>1. mem'.attempts = RecentAttempts(mem, now)
  BY <1>0 DEF RetryNow, RuntimeStates
<1>2. LastKept(mem.attempts, mem'.attempts, Window, now)
  BY <1>0, <1>1, RecentKeeps
<1>3. CASE mem.attempts # <<>>
  <2>1. Last(mem.attempts) \in Nat /\ Last(mem.attempts) + Window < now
    BY <1>0, <1>2, <1>3, LastTyped DEF LastKept
  <2>2. latest <= Last(mem.attempts)
    BY <1>3 DEF SpaceInv, Spaced, Fresh
  <2> QED BY <1>0, <2>1, <2>2 DEF Away
<1> QED BY <1>3

\* Every step keeps automatic sends apart from earlier calls.
LEMMA SpaceStep ==
  TypeOK /\ JobInv /\ Known(mem.observed) /\ SpaceInv /\ [Next]_vars => SpaceInv'
<1> SUFFICES ASSUME TypeOK, JobInv, Known(mem.observed), SpaceInv, [Next]_vars PROVE SpaceInv'
  OBVIOUS
<1>0. /\ now \in Nat /\ plan \in Nat /\ latest \in Nat /\ job.at \in Nat
      /\ now' \in Nat /\ plan' \in Nat /\ latest' \in Nat /\ now <= now'
      /\ Len(turns) \in Nat /\ Len(turns') \in Nat /\ Len(turns) <= Len(turns')
      /\ mem \in RuntimeStates /\ mem' \in RuntimeStates /\ disk \in RuntimeStates
      /\ mem.attempts \in Seq(Times) /\ job \in JobType
      /\ Window \in Nat /\ PruneAge \in Nat /\ InitialDelay \in Nat \ {0}
      /\ plan <= now /\ job.at <= now /\ latest <= now
      /\ job.at \in Times /\ now \in Times /\ plan \in Times
  BY Numbers
<1>1. Spaced(mem', latest', now', Len(turns'))
  BY MemorySpaced
<1>2. Spaced(disk', latest', now', Len(turns'))
  <2>1. CASE disk' = mem'
    BY <1>1, <2>1
  <2>2. CASE disk' = disk /\ latest' = latest
    <3>1. Spaced(disk, latest, now, Len(turns))
      BY DEF SpaceInv
    <3>2. Spaced(disk, latest, now', Len(turns'))
      BY <1>0, <3>1, SpacedLater
    <3> QED BY <2>2, <3>2
  <2>3. latest' = latest \/ disk' = mem'
    <3>1. CASE Attempt
      BY <3>1 DEF Attempt
    <3>2. CASE Aside
      BY <3>2, AsideKeeps
    <3>3. CASE LetGo
      BY <3>3, LetGoKeeps
    <3> QED BY <3>1, <3>2, <3>3, StepKinds DEF BeginPass, ObserveNothing, ObserveOutcome,
                 FailureDue, RecheckSame, RetryNow, Deliver, history
  <2> QED BY <2>1, <2>2, <2>3, DiskStep
<1> DEFINE Behind == job.automatic => plan = 0 \/ (latest <= plan /\ job.at <= plan)
           Empty == latest # 0 /\ ~Away(latest, now) /\ mem.attempts = <<>> =>
                      (plan # 0 => latest <= plan) /\ (job.pc = "pending" => latest <= job.at)
           ByHand == job.pc = "boundary" /\ ~job.automatic => latest <= job.at
           Waited == job.pc \in {"recheck", "boundary"} /\ job.automatic =>
                       latest = 0 \/ Away(latest, now) \/ latest + InitialDelay <= job.at
<1>3. Behind /\ Empty /\ ByHand /\ Waited
  BY DEF SpaceInv
<1>4. Away(latest, now) => Away(latest, now')
  BY <1>0 DEF Away
<1>5. CASE Aside
  <2>1. mem' = mem /\ job' = job /\ latest' = latest /\ plan' \in {plan, now}
    BY <1>5, AsideKeeps
  <2> QED BY <1>0, <1>1, <1>2, <1>3, <1>4, <2>1 DEF SpaceInv
<1>6. CASE LetGo
  <2>1. job' = Idle /\ plan' \in {plan, 0} /\ now' = now /\ latest' = latest
    BY <1>6, LetGoKeeps
  <2>2. Empty'
    <3>1. CASE Unattempted
      BY <1>3, <2>1, <3>1, UnattemptedKeeps DEF Idle
    <3>2. CASE NoFailure \/ FailureWaits
      <4>1. job.automatic
        BY <3>2 DEF JobInv, NoFailure, FailureWaits
      <4> QED BY <1>3, <2>1, <4>1 DEF Idle
    <3>3. CASE RetryNow
      BY <1>3, <2>1, <3>3, RetryForgets DEF Idle
    <3>4. CASE Attempt
      <4>1. mem'.attempts = Append(mem.attempts, job.at)
        BY <1>0, <3>4 DEF Attempt, RuntimeStates
      <4>2. mem'.attempts # <<>>
        BY <1>0, <4>1
      <4> QED BY <4>2
    <3>5. CASE Crash
      BY <3>5 DEF Crash, Idle
    <3> QED BY <1>6, <3>1, <3>2, <3>3, <3>4, <3>5 DEF LetGo, Unattempted
  <2> QED BY <1>1, <1>2, <2>1, <2>2 DEF SpaceInv, Idle
<1>7. ASSUME NEW watched \in BOOLEAN, NEW policy \in Policies, BeginPass(watched, policy)
      PROVE  SpaceInv'
  <2>1. /\ mem' = Prune(mem, plan) /\ latest' = latest /\ now' = now /\ plan' = 0 /\ plan # 0
        /\ job'.pc = "pending" /\ job'.at = plan
    BY <1>7 DEF BeginPass, history, Idle
  <2>2. LastKept(mem.attempts, mem'.attempts, PruneAge, plan)
    BY <1>0, <2>1, PruneKeeps
  <2>3. ASSUME latest # 0, ~Away(latest, now), mem'.attempts = <<>>
        PROVE  latest <= plan
    <3>1. CASE mem.attempts = <<>>
      BY <1>3, <2>1, <2>3, <3>1
    <3>2. CASE mem.attempts # <<>>
      <4>1. Last(mem.attempts) \in Nat /\ Last(mem.attempts) + PruneAge < plan
        BY <1>0, <2>2, <2>3, <3>2, LastTyped DEF LastKept
      <4>2. latest <= Last(mem.attempts)
        BY <2>3, <3>2 DEF SpaceInv, Spaced, Fresh
      <4> QED BY <1>0, <4>1, <4>2
    <3> QED BY <3>1, <3>2
  <2> QED BY <1>1, <1>2, <2>1, <2>3 DEF SpaceInv
<1>8. ASSUME NEW p \in job.todo, ObserveNothing(p) \/ ObserveOutcome(p)
      PROVE  SpaceInv'
  <2>1. mem'.attempts = mem.attempts /\ latest' = latest
    BY <1>8, UnattemptedKeeps DEF Unattempted
  <2>2. /\ now' = now /\ plan' = plan /\ job'.at = job.at /\ job'.automatic = job.automatic
        /\ job'.pc = "pending" /\ job.pc = "pending"
    BY <1>0, <1>8 DEF ObserveNothing, ObserveOutcome, JobType
  <2> QED BY <1>1, <1>2, <1>3, <2>1, <2>2 DEF SpaceInv
<1>9. CASE FailureDue
  <2>1. /\ latest' = latest /\ now' = now /\ plan' = plan /\ job'.at = job.at
        /\ job'.pc = "recheck" /\ job.automatic
    BY <1>9 DEF FailureDue, history, Idle, JobInv
  <2>2. latest = 0 \/ Away(latest, now) \/ latest + InitialDelay <= job.at
    BY <1>9, DueSpaced
  <2> QED BY <1>1, <1>2, <1>3, <2>1, <2>2 DEF SpaceInv
<1>10. CASE RecheckSame
  <2>1. /\ latest' = latest /\ now' = now /\ plan' = plan /\ job'.at = job.at /\ mem' = mem
        /\ job'.pc = "boundary" /\ job'.automatic = job.automatic /\ job.pc = "recheck"
        /\ job.automatic
    BY <1>0, <1>10 DEF RecheckSame, history, JobType, JobInv
  <2> QED BY <1>1, <1>2, <1>3, <2>1 DEF SpaceInv
<1>11. CASE RetryNow /\ job' # Idle
  <2>1. /\ latest' = latest /\ now' = now /\ plan' = plan /\ job'.at = now
        /\ job'.pc = "boundary" /\ job'.automatic = FALSE
        /\ mem'.attempts = RecentAttempts(mem, now)
    BY <1>0, <1>11 DEF RetryNow, history, Idle, RuntimeStates
  <2>2. latest # 0 /\ ~Away(latest, now) /\ mem'.attempts = <<>> => mem.attempts = <<>>
    BY <1>11, RetryForgets
  <2> QED BY <1>0, <1>1, <1>2, <1>3, <2>1, <2>2 DEF SpaceInv
<1>12. CASE Attempt /\ job' # Idle
  <2>1. /\ now' = now /\ plan' = plan /\ job'.at = job.at /\ job'.pc = "resume"
        /\ job'.automatic = job.automatic /\ job.pc = "boundary"
        /\ mem'.attempts # <<>> /\ latest' \in {latest, job.at}
    BY <1>0, <1>12 DEF Attempt, JobType, RuntimeStates
  <2> QED BY <1>0, <1>1, <1>2, <1>3, <2>1 DEF SpaceInv
<1>13. CASE Deliver
  <2>1. /\ latest' = latest /\ now' = now /\ plan' = plan /\ job'.at = job.at /\ mem' = mem
        /\ job'.pc = "delivered" /\ job'.automatic = job.automatic
    BY <1>0, <1>13 DEF Deliver, history, JobType
  <2> QED BY <1>1, <1>2, <1>3, <2>1 DEF SpaceInv
<1> QED BY <1>5, <1>6, <1>7, <1>8, <1>9, <1>10, <1>11, <1>12, <1>13, StepKinds

\* There is no call at first.
LEMMA SpaceInit == Init => SpaceInv
  BY DEF Init, SpaceInv, Spaced, Idle

-----------------------------------------------------------------------------
(***************************************************************************)
(* Calls that are not repeated.                                            *)
(***************************************************************************)

\* The calls that an automatic send may not repeat: automatic turns, automatic
\* requests that may still take effect, and calls without acknowledgement.
AutomaticTurns == {t \in DOMAIN turns : turns[t].automatic}
AutomaticLate == {r \in late : r.automatic}
Calls ==
  {[failed |-> turns[t].answers, at |-> turns[t].at] : t \in AutomaticTurns}
    \cup {[failed |-> r.failed, at |-> r.at] : r \in AutomaticLate}
    \cup unknown

\* The marks say that the failed turn of the call was sent for.
Marked(handled, c) ==
  /\ handled[c.failed].action \in {"resumed", "unconfirmed"}
  /\ c.at <= handled[c.failed].at

\* Whatever prunes or sends from now on does so after the mark has aged out.
Aged(c) ==
  /\ c.at + PruneAge < now
  /\ plan # 0 => c.at + PruneAge < plan
  /\ job.automatic => c.at + PruneAge < job.at

\* The failed turn of a call is never sent for again, or its mark has aged out.
Remembered(handled) ==
  \A c \in Calls : c.failed < Len(turns) \/ Marked(handled, c) \/ Aged(c)

CallInv ==
  /\ \A c \in Calls : c.at <= now /\ c.failed \in DOMAIN turns
  /\ Remembered(mem.handled)
  /\ "crash" \in Faults => Remembered(disk.handled)
  /\ job.pc \in {"boundary", "resume", "delivered"} =>
       \A c \in Calls : c.failed = job.failed => c.at <= job.at
  /\ job.automatic /\ job.pc \in {"recheck", "boundary", "resume"} =>
       \A c \in Calls : c.failed = job.failed => c.at + PruneAge < job.at

\* The process does not crash, or it never fails to save before it does.
MarksPersist == ~({"crash", "save"} \subseteq Faults)

\* The call of the job.
JobCall == [failed |-> job.failed, at |-> job.at]

\* The calls are typed.
LEMMA CallsTyped ==
  ASSUME TypeOK
  PROVE  \A c \in Calls : c.at \in Nat
<1>1. Times \subseteq Nat
  BY RecoveryAssumption DEF Times
<1>2. \A t \in AutomaticTurns : turns[t].at \in Times
  <2>1. \A t \in DOMAIN turns : turns[t] \in TurnType
    BY DEF TypeOK
  <2> QED BY <2>1 DEF AutomaticTurns, TurnType
<1>3. \A r \in late \cup unknown : r.at \in Times
  BY DEF TypeOK, LateRequest, UncertainCall
<1>4. \A c \in Calls :
        \/ \E t \in AutomaticTurns : c = [failed |-> turns[t].answers, at |-> turns[t].at]
        \/ \E r \in late : c = [failed |-> r.failed, at |-> r.at]
        \/ c \in unknown
  BY DEF Calls, AutomaticLate
<1>5. \A c \in Calls : c.at \in Times
  BY <1>2, <1>3, <1>4
<1> QED BY <1>1, <1>5

\* The engine's steps touch the session and the calls only by a delivery or by a
\* lost acknowledgement.
LEMMA SessionKept ==
  ASSUME [Next]_vars
  PROVE  \/ turns' = turns /\ late' = late /\ unknown' = unknown
         \/ \E status \in {"completed", "failed"} : TurnEnds(status)
         \/ UserTurn
         \/ \E request \in late : LateDelivery(request)
         \/ Deliver \/ Unconfirmed
  BY DEF Next, vars, session, history, PreparePass, BeginPass, ObserveNothing, ObserveOutcome,
         PassOver, NoFailure, FailureSkipped, FailureWaits, FailureDue, RecheckSame, Cancelled,
         GivenUp, RetryNow, Attempt, Receipt, SendFailed, Crash, Tick

\* The step adds at most one turn to the automatic ones.
AddsAutomatic(answers, at, automatic) ==
  \A t \in AutomaticTurns' :
    \/ t \in AutomaticTurns /\ turns'[t] = turns[t]
    \/ /\ automatic = TRUE /\ t = Len(turns) + 1 /\ t \notin DOMAIN turns
       /\ turns'[t].answers = answers /\ turns'[t].at = at

\* A started turn adds at most itself to the automatic ones.
LEMMA StartedAutomatic ==
  ASSUME TypeOK, NEW answers \in {0} \cup Turns, NEW at \in Times, NEW automatic \in BOOLEAN,
         StartTurn(answers, at, automatic)
  PROVE  AddsAutomatic(answers, at, automatic)
<1> SUFFICES ASSUME NEW t \in AutomaticTurns'
             PROVE  \/ t \in AutomaticTurns /\ turns'[t] = turns[t]
                    \/ /\ automatic = TRUE /\ t = Len(turns) + 1 /\ t \notin DOMAIN turns
                       /\ turns'[t].answers = answers /\ turns'[t].at = at
  BY DEF AddsAutomatic
<1>1. /\ Len(turns') = Len(turns) + 1
      /\ turns'[Len(turns')] = [status |-> "active", answers |-> answers, at |-> at,
                                automatic |-> automatic]
      /\ \A u \in DOMAIN turns : turns'[u] = turns[u]
      /\ DOMAIN turns' = DOMAIN turns \cup {Len(turns) + 1}
  BY StartTyped
<1>2. t \in DOMAIN turns' /\ turns'[t].automatic
  BY DEF AutomaticTurns
<1>3. Len(turns) + 1 \notin DOMAIN turns
  BY DEF TypeOK
<1> QED BY <1>1, <1>2, <1>3 DEF AutomaticTurns

\* A late delivery adds at most the turn of the request.
LEMMA LateAutomatic ==
  ASSUME TypeOK, NEW request \in late, LateDelivery(request)
  PROVE  AddsAutomatic(request.failed, request.at, request.automatic)
<1>1. /\ request.failed \in {0} \cup Turns /\ request.at \in Times
      /\ request.automatic \in BOOLEAN
      /\ StartTurn(request.failed, request.at, request.automatic)
  BY DEF TypeOK, LateRequest, LateDelivery
<1> QED BY <1>1, StartedAutomatic

\* A delivery adds at most the turn of the job.
LEMMA DeliverAutomatic ==
  ASSUME TypeOK, Deliver
  PROVE  AddsAutomatic(job.failed, job.at, job.automatic)
<1>1. /\ job.failed \in {0} \cup Turns /\ job.at \in Times /\ job.automatic \in BOOLEAN
      /\ StartTurn(job.failed, job.at, job.automatic)
  BY DEF TypeOK, JobType, Deliver
<1> QED BY <1>1, StartedAutomatic

\* The end of a turn leaves the automatic ones as they are.
LEMMA EndedAutomatic ==
  ASSUME TypeOK, NEW status \in {"completed", "failed"}, TurnEnds(status)
  PROVE  /\ AutomaticTurns' = AutomaticTurns
         /\ \A t \in AutomaticTurns : turns'[t].answers = turns[t].answers
                                      /\ turns'[t].at = turns[t].at
<1>1. /\ turns' \in Seq(TurnType) /\ Len(turns') = Len(turns) /\ TurnsKept
  BY EndTyped
<1>2. DOMAIN turns' = DOMAIN turns
  BY <1>1 DEF TypeOK
<1> QED BY <1>1, <1>2 DEF AutomaticTurns, TurnsKept

\* A step adds at most the call of the job.
LEMMA CallsStep ==
  ASSUME TypeOK, JobInv, [Next]_vars, NEW c \in Calls'
  PROVE  c \in Calls \/ (c = JobCall /\ (Deliver \/ Unconfirmed))
<1>1. CASE turns' = turns /\ late' = late /\ unknown' = unknown
  BY <1>1 DEF Calls, AutomaticTurns, AutomaticLate
<1>2. ASSUME NEW status \in {"completed", "failed"}, TurnEnds(status) PROVE c \in Calls
  BY <1>2, EndedAutomatic DEF TurnEnds, Calls, AutomaticLate, history
<1>3. CASE UserTurn
  <2>1. StartTurn(0, 0, FALSE) /\ late' = late /\ unknown' = unknown
    BY <1>3 DEF UserTurn, history
  <2>2. \A t \in AutomaticTurns' : t \in AutomaticTurns /\ turns'[t] = turns[t]
    BY <2>1, StartedAutomatic, InitialTyped DEF AddsAutomatic
  <2> QED BY <2>1, <2>2 DEF Calls, AutomaticLate
<1>4. ASSUME NEW request \in late, LateDelivery(request) PROVE c \in Calls
  <2>1. /\ StartTurn(request.failed, request.at, request.automatic)
        /\ late' = late \ {request} /\ unknown' = unknown
    BY <1>4 DEF LateDelivery, history
  <2>3. \A t \in AutomaticTurns' :
          \/ t \in AutomaticTurns /\ turns'[t] = turns[t]
          \/ request.automatic /\ turns'[t].answers = request.failed /\ turns'[t].at = request.at
    BY <1>4, LateAutomatic DEF AddsAutomatic
  <2> QED BY <2>1, <2>3 DEF Calls, AutomaticLate
<1>5. CASE Deliver
  <2>1. StartTurn(job.failed, job.at, job.automatic) /\ late' = late /\ unknown' = unknown
    BY <1>5 DEF Deliver, history
  <2>2. \A t \in AutomaticTurns' :
          \/ t \in AutomaticTurns /\ turns'[t] = turns[t]
          \/ turns'[t].answers = job.failed /\ turns'[t].at = job.at
    BY <1>5, DeliverAutomatic DEF AddsAutomatic
  <2> QED BY <1>5, <2>1, <2>2 DEF Calls, AutomaticLate, JobCall
<1>6. CASE Unconfirmed
  BY <1>6 DEF Unconfirmed, Calls, AutomaticTurns, AutomaticLate, JobCall
<1> QED BY <1>1, <1>2, <1>3, <1>4, <1>5, <1>6, SessionKept

\* Handled marks change by a prune, a mark and a crash only.
LEMMA HandledStep ==
  ASSUME TypeOK, JobInv, [Next]_vars
  PROVE  \/ mem'.handled = mem.handled
         \/ \E watched \in BOOLEAN, policy \in Policies : BeginPass(watched, policy)
         \/ FailureSkipped \/ Receipt \/ Unconfirmed \/ Crash
<1>0. mem \in RuntimeStates
  BY DEF TypeOK
<1>1. CASE Aside
  BY <1>1, AsideKeeps
<1>2. CASE FailureWaits \/ FailureDue
  <2>1. LatestFailure \in Turns /\ mem' = Inspected(LatestFailure)
    BY <1>2, Latest DEF FailureWaits, FailureDue, EndPass
  <2> QED BY <2>1, InspectKeeps
<1>3. CASE RetryNow \/ Attempt \/ NoFailure
  BY <1>0, <1>3 DEF RetryNow, Attempt, NoFailure, EndPass, RuntimeStates
<1>4. CASE PassOver \/ Cancelled \/ GivenUp \/ SendFailed \/ RecheckSame \/ Deliver
  BY <1>4 DEF PassOver, Cancelled, GivenUp, SendFailed, RecheckSame, Deliver, EndPass
<1>5. CASE \E p \in job.todo : ObserveNothing(p) \/ ObserveOutcome(p)
  BY <1>0, <1>5 DEF ObserveNothing, ObserveOutcome, RuntimeStates
<1> QED BY <1>1, <1>2, <1>3, <1>4, <1>5, StepKinds DEF LetGo

\* Where the clocks of the job come from.
LEMMA ClockStep ==
  ASSUME TypeOK, JobInv, [Next]_vars
  PROVE  /\ plan' \in {0, plan, now}
         /\ job'.automatic => \/ job.automatic /\ job'.at = job.at
                              \/ plan # 0 /\ job'.at = plan
<1>0. job \in JobType
  BY DEF TypeOK
<1>1. CASE Aside
  BY <1>1, AsideKeeps
<1>2. CASE LetGo
  BY <1>2, LetGoKeeps DEF Idle
<1>3. CASE \E watched \in BOOLEAN, policy \in Policies : BeginPass(watched, policy)
  BY <1>3 DEF BeginPass, Idle
<1>4. CASE \E p \in job.todo : ObserveNothing(p) \/ ObserveOutcome(p)
  BY <1>0, <1>4 DEF ObserveNothing, ObserveOutcome, JobType
<1>5. CASE FailureDue \/ RecheckSame \/ Deliver
  BY <1>0, <1>5 DEF FailureDue, RecheckSame, Deliver, JobType, JobInv, Idle
<1>6. CASE (RetryNow \/ Attempt) /\ job' # Idle
  BY <1>0, <1>6 DEF RetryNow, Attempt, JobType, Idle
<1> QED BY <1>1, <1>2, <1>3, <1>4, <1>5, <1>6, StepKinds

\* What has aged stays aged.
LEMMA AgedStep ==
  ASSUME TypeOK, JobInv, [Next]_vars, NEW c \in Calls, Aged(c)
  PROVE  Aged(c)'
<1>1. /\ now \in Nat /\ plan \in Nat /\ job.at \in Nat /\ now' \in Nat /\ now <= now'
      /\ PruneAge \in Nat
  BY Numbers
<1>2. c.at \in Nat
  BY CallsTyped
<1>3. c.at + PruneAge < now'
  BY <1>1, <1>2 DEF Aged
<1> QED BY <1>1, <1>2, <1>3, ClockStep DEF Aged

\* A mark of a call stays until it has aged out.
LEMMA MarkedStep ==
  ASSUME TypeOK, JobInv, CallInv, [Next]_vars, NEW c \in Calls, ~(c.failed < Len(turns)),
         Marked(mem.handled, c)
  PROVE  Marked(mem'.handled, c) \/ Aged(c)' \/ Crash
<1>0. /\ now \in Nat /\ plan \in Nat /\ job.at \in Nat /\ now' \in Nat /\ now <= now'
      /\ PruneAge \in Nat /\ mem \in RuntimeStates /\ plan \in Times /\ plan <= now
      /\ Times \subseteq Nat
  BY Numbers
<1>1. c.at \in Nat /\ c.failed \in Turns /\ c.failed = Len(turns)
  <2>1. c.failed \in DOMAIN turns
    BY DEF CallInv
  <2> QED BY <2>1, CallsTyped, Latest DEF TypeOK, Turns
<1>2. CASE mem'.handled = mem.handled
  BY <1>2 DEF Marked
<1>3. ASSUME NEW watched \in BOOLEAN, NEW policy \in Policies, BeginPass(watched, policy)
      PROVE  Marked(mem'.handled, c) \/ Aged(c)'
  <2>1. /\ mem' = Prune(mem, plan) /\ now' = now /\ plan' = 0 /\ job'.at = plan
    BY <1>3 DEF BeginPass, Idle
  <2>2. \/ mem'.handled[c.failed] = mem.handled[c.failed]
        \/ mem.handled[c.failed].at + PruneAge < plan
    BY <1>0, <1>1, <2>1, PruneKeeps
  <2>3. mem.handled[c.failed].at \in Nat
    BY <1>0, <1>1 DEF RuntimeStates, HandledMark
  <2>4. CASE mem.handled[c.failed].at + PruneAge < plan
    <3>1. c.at + PruneAge < plan /\ c.at + PruneAge < now
      BY <1>0, <1>1, <2>3, <2>4 DEF Marked
    <3> QED BY <2>1, <3>1 DEF Aged
  <2> QED BY <2>2, <2>4 DEF Marked
<1>4. CASE FailureSkipped
  BY <1>1, <1>4, SkippedKeeps DEF Marked
<1>5. CASE Receipt
  <2>1. job.failed \in Turns /\ job.started \in Turns /\ job.pc = "delivered"
    BY <1>5, Latest DEF Receipt, JobInv
  <2>2. c.failed = job.failed => c.at <= job.at
    BY <2>1 DEF CallInv
  <2> QED BY <1>1, <1>5, <2>1, <2>2, ReceiptKeeps DEF Marked
<1>6. CASE Unconfirmed
  <2>1. job.failed \in Turns /\ job.pc \in {"resume", "delivered"}
    BY <1>6, Latest DEF Unconfirmed, JobInv
  <2>2. c.failed = job.failed => c.at <= job.at
    BY <2>1 DEF CallInv
  <2> QED BY <1>1, <1>6, <2>1, <2>2, UnconfirmedKeeps DEF Marked
<1> QED BY <1>2, <1>3, <1>4, <1>5, <1>6, HandledStep

\* Every step remembers the calls.
LEMMA RememberedStep ==
  ASSUME MarksPersist, TypeOK, JobInv, CallInv, [Next]_vars
  PROVE  /\ Remembered(mem.handled)'
         /\ "crash" \in Faults => Remembered(disk.handled)'
<1>0. /\ Len(turns) \in Nat /\ Len(turns') \in Nat /\ Len(turns) <= Len(turns')
      /\ job.at \in Nat
  BY Numbers
<1>1. ASSUME NEW c \in Calls, c.failed < Len(turns) PROVE c.failed < Len(turns')
  <2>1. c.failed \in Nat
    BY DEF CallInv, TypeOK
  <2> QED BY <1>0, <1>1, <2>1
<1>2. ASSUME NEW c \in Calls
      PROVE  c.failed < Len(turns') \/ Marked(mem'.handled, c) \/ Aged(c)' \/ Crash
  BY <1>1, AgedStep, MarkedStep DEF CallInv, Remembered
<1>3. ASSUME NEW c \in Calls, "crash" \in Faults
      PROVE  c.failed < Len(turns') \/ Marked(disk.handled, c) \/ Aged(c)'
  BY <1>1, <1>3, AgedStep DEF CallInv, Remembered
<1>4. ASSUME NEW c \in Calls
      PROVE  c.failed < Len(turns') \/ Marked(mem'.handled, c) \/ Aged(c)'
  <2>1. CASE Crash
    BY <1>3, <2>1 DEF Crash
  <2> QED BY <1>2, <2>1
<1>5. ASSUME Deliver \/ Unconfirmed
      PROVE  JobCall.failed < Len(turns') \/ Marked(mem'.handled, JobCall)
  <2>1. CASE Deliver
    <3>1. job.failed \in DOMAIN turns /\ Len(turns') = Len(turns) + 1
      BY <2>1 DEF Deliver, StartTurn, JobInv, TypeOK
    <3>2. job.failed < Len(turns')
      BY <1>0, <3>1 DEF TypeOK
    <3> QED BY <3>2 DEF JobCall
  <2>2. CASE Unconfirmed
    <3>1. job.failed \in Turns
      BY <2>2, Latest DEF Unconfirmed, JobInv
    <3> QED BY <1>0, <2>2, <3>1, UnconfirmedKeeps DEF Marked, JobCall
  <2> QED BY <1>5, <2>1, <2>2
<1>6. \A c \in Calls' :
        c.failed < Len(turns') \/ Marked(mem'.handled, c) \/ Aged(c)'
  BY <1>4, <1>5, CallsStep
<1>7. ASSUME "crash" \in Faults
      PROVE  \A c \in Calls' :
               c.failed < Len(turns') \/ Marked(disk'.handled, c) \/ Aged(c)'
  <2>1. CASE disk' = mem'
    BY <1>6, <2>1
  <2>2. CASE disk' = disk /\ ~(disk' = mem')
    <3>1. ~Unconfirmed
      BY <1>7, <2>2 DEF Unconfirmed, EndPass, Save, MarksPersist
    <3>2. CASE Deliver
      <4>1. mem' = mem
        BY <3>2 DEF Deliver
      <4>2. JobCall.failed < Len(turns')
        <5>1. job.failed \in DOMAIN turns /\ Len(turns') = Len(turns) + 1
          BY <3>2 DEF Deliver, StartTurn, JobInv, TypeOK
        <5> QED BY <1>0, <5>1 DEF TypeOK, JobCall
      <4> QED BY <1>3, <1>7, <2>2, <4>2, CallsStep
    <3>3. CASE ~Deliver
      BY <1>3, <1>7, <2>2, <3>1, <3>3, CallsStep
    <3> QED BY <3>2, <3>3
  <2> QED BY <2>1, <2>2, DiskStep
<1> QED BY <1>6, <1>7 DEF Remembered

\* The job sends after every call for its failed turn; if it is automatic, so long
\* after that no mark is left.
LEMMA JobCalls ==
  ASSUME TypeOK, JobInv, CallInv, [Next]_vars
  PROVE  /\ job'.pc \in {"boundary", "resume", "delivered"} =>
              \A c \in Calls' : c.failed = job'.failed => c.at <= job'.at
         /\ job'.automatic /\ job'.pc \in {"recheck", "boundary", "resume"} =>
              \A c \in Calls' : c.failed = job'.failed => c.at + PruneAge < job'.at
<1>0. /\ job \in JobType /\ job.at \in Nat /\ now \in Nat /\ PruneAge \in Nat
      /\ \A c \in Calls : c.at \in Nat /\ c.at <= now
  BY Numbers, CallsTyped DEF CallInv
<1>1. CASE Aside
  <2>1. job' = job
    BY <1>1, AsideKeeps
  <2>2. Calls' \subseteq Calls
    <3>1. ~Deliver
      BY <1>0, <2>1 DEF Deliver, JobType
    <3>2. ~Unconfirmed
      BY <1>0, <2>1 DEF Unconfirmed, EndPass, Idle
    <3> QED BY <3>1, <3>2, CallsStep
  <2> QED BY <2>1, <2>2 DEF CallInv
<1>2. CASE LetGo
  BY <1>2, LetGoKeeps DEF Idle
<1>3. CASE \E watched \in BOOLEAN, policy \in Policies : BeginPass(watched, policy)
  BY <1>3 DEF BeginPass, Idle
<1>4. CASE \E p \in job.todo : ObserveNothing(p) \/ ObserveOutcome(p)
  BY <1>0, <1>4 DEF ObserveNothing, ObserveOutcome, JobType
<1>5. CASE FailureDue
  <2>1. /\ LatestFailure = Len(turns) /\ LatestFailure \in Turns /\ job.automatic
        /\ mem.handled[LatestFailure].action \notin {"resumed", "unconfirmed"}
    BY <1>5, Latest DEF FailureDue, JobInv, HandledFailure
  <2>2. /\ job'.pc = "recheck" /\ job'.at = job.at /\ job'.failed = LatestFailure
    BY <1>5 DEF FailureDue, Idle
  <2>3. Calls' \subseteq Calls
    BY <1>5, CallsStep DEF FailureDue, Deliver, Unconfirmed
  <2>4. ASSUME NEW c \in Calls, c.failed = LatestFailure PROVE c.at + PruneAge < job.at
    <3>1. ~(c.failed < Len(turns))
      BY <2>1, <2>4, Numbers
    <3>2. Aged(c)
      BY <2>1, <2>4, <3>1 DEF CallInv, Remembered, Marked
    <3> QED BY <2>1, <3>2 DEF Aged
  <2> QED BY <2>2, <2>3, <2>4
<1>6. CASE RecheckSame
  <2>1. /\ job.pc = "recheck" /\ job'.pc = "boundary" /\ job'.at = job.at
        /\ job'.failed = job.failed /\ job.automatic
    BY <1>0, <1>6 DEF RecheckSame, JobType, JobInv
  <2>2. Calls' \subseteq Calls
    BY <1>6, CallsStep DEF RecheckSame, Deliver, Unconfirmed
  <2>3. \A c \in Calls : c.failed = job.failed => c.at + PruneAge < job.at
    BY <2>1 DEF CallInv
  <2>4. \A c \in Calls : c.failed = job.failed => c.at <= job.at
    BY <1>0, <2>3
  <2> QED BY <2>1, <2>2, <2>3, <2>4
<1>7. CASE RetryNow /\ job' # Idle
  <2>1. job'.pc = "boundary" /\ job'.at = now /\ job'.automatic = FALSE
    BY <1>7 DEF RetryNow, Idle
  <2>2. Calls' \subseteq Calls
    BY <1>7, CallsStep DEF RetryNow, Deliver, Unconfirmed
  <2> QED BY <1>0, <2>1, <2>2
<1>8. CASE Attempt /\ job' # Idle
  <2>1. /\ job.pc = "boundary" /\ job'.pc = "resume" /\ job'.at = job.at
        /\ job'.failed = job.failed /\ job'.automatic = job.automatic
    BY <1>0, <1>8 DEF Attempt, JobType
  <2>2. Calls' \subseteq Calls
    BY <1>8, CallsStep DEF Attempt, Deliver, Unconfirmed
  <2> QED BY <2>1, <2>2 DEF CallInv
<1>9. CASE Deliver
  <2>1. /\ job.pc = "resume" /\ job'.pc = "delivered" /\ job'.at = job.at
        /\ job'.failed = job.failed
    BY <1>0, <1>9 DEF Deliver, JobType
  <2>2. \A c \in Calls' : c \in Calls \/ c = JobCall
    BY CallsStep
  <2>3. JobCall.at <= job.at
    BY <1>0 DEF JobCall
  <2> QED BY <2>1, <2>2, <2>3 DEF CallInv
<1> QED BY <1>1, <1>2, <1>3, <1>4, <1>5, <1>6, <1>7, <1>8, <1>9, StepKinds

\* Every step keeps what is known of the calls.
LEMMA CallStep ==
  MarksPersist /\ TypeOK /\ JobInv /\ CallInv /\ [Next]_vars => CallInv'
<1> SUFFICES ASSUME MarksPersist, TypeOK, JobInv, CallInv, [Next]_vars PROVE CallInv'
  OBVIOUS
<1>1. ASSUME NEW c \in Calls' PROVE c.at <= now' /\ c.failed \in DOMAIN turns'
  <2>0. /\ now \in Nat /\ now' \in Nat /\ now <= now' /\ job.at \in Nat /\ job.at <= now
        /\ DOMAIN turns \subseteq DOMAIN turns'
    BY Numbers, TurnsStep DEF TurnsKept
  <2>1. CASE c \in Calls
    BY <2>0, <2>1, CallsTyped DEF CallInv
  <2>2. CASE c = JobCall /\ (Deliver \/ Unconfirmed)
    <3>1. job.failed \in DOMAIN turns
      BY <2>2 DEF Deliver, Unconfirmed, JobInv
    <3> QED BY <2>0, <2>2, <3>1 DEF JobCall
  <2> QED BY <2>1, <2>2, CallsStep
<1> QED BY <1>1, RememberedStep, JobCalls DEF CallInv

-----------------------------------------------------------------------------
(***************************************************************************)
(* Automatic sends for the same failed turn.                               *)
(***************************************************************************)

\* Two sends with so much time between them that no mark lasts.
Apart(a, b) == a + PruneAge < b \/ b + PruneAge < a

ApartInv ==
  /\ \A t, u \in AutomaticTurns :
       t # u /\ turns[t].answers = turns[u].answers => Apart(turns[t].at, turns[u].at)
  /\ \A t \in AutomaticTurns, r \in AutomaticLate :
       turns[t].answers = r.failed => Apart(turns[t].at, r.at)
  /\ \A r, s \in AutomaticLate : r # s /\ r.failed = s.failed => Apart(r.at, s.at)

\* An automatic job sends apart from every automatic turn and request.
LEMMA JobApart ==
  ASSUME TypeOK, JobInv, CallInv, job.automatic, job.pc = "resume"
  PROVE  /\ \A t \in AutomaticTurns : turns[t].answers = job.failed =>
              Apart(turns[t].at, job.at) /\ Apart(job.at, turns[t].at)
         /\ \A r \in AutomaticLate : r.failed = job.failed =>
              Apart(r.at, job.at) /\ Apart(job.at, r.at)
<1>1. \A c \in Calls : c.failed = job.failed => c.at + PruneAge < job.at
  BY DEF CallInv
<1>2. \A t \in AutomaticTurns : [failed |-> turns[t].answers, at |-> turns[t].at] \in Calls
  BY DEF Calls
<1>3. \A r \in AutomaticLate : [failed |-> r.failed, at |-> r.at] \in Calls
  BY DEF Calls
<1>4. \A t \in AutomaticTurns : turns[t].answers = job.failed => turns[t].at + PruneAge < job.at
  BY <1>1, <1>2
<1>5. \A r \in AutomaticLate : r.failed = job.failed => r.at + PruneAge < job.at
  BY <1>1, <1>3
<1> QED BY <1>4, <1>5 DEF Apart

\* Every step keeps automatic sends for one failed turn apart.
LEMMA ApartStep ==
  TypeOK /\ JobInv /\ CallInv /\ ApartInv /\ [Next]_vars => ApartInv'
<1> SUFFICES ASSUME TypeOK, JobInv, CallInv, ApartInv, [Next]_vars PROVE ApartInv'
  OBVIOUS
<1>1. CASE turns' = turns /\ late' = late
  BY <1>1 DEF ApartInv, AutomaticTurns, AutomaticLate
<1>2. ASSUME NEW status \in {"completed", "failed"}, TurnEnds(status) PROVE ApartInv'
  <2>1. late' = late
    BY <1>2 DEF TurnEnds
  <2> QED BY <1>2, <2>1, EndedAutomatic DEF ApartInv, AutomaticLate
<1>3. CASE UserTurn
  <2>1. StartTurn(0, 0, FALSE) /\ late' = late
    BY <1>3 DEF UserTurn
  <2>2. \A t \in AutomaticTurns' : t \in AutomaticTurns /\ turns'[t] = turns[t]
    BY <2>1, StartedAutomatic, InitialTyped DEF AddsAutomatic
  <2> QED BY <2>1, <2>2 DEF ApartInv, AutomaticLate
<1>4. ASSUME NEW request \in late, LateDelivery(request) PROVE ApartInv'
  <2>1. late' = late \ {request}
    BY <1>4 DEF LateDelivery
  <2>2. AutomaticLate' = AutomaticLate \ {request}
    BY <2>1 DEF AutomaticLate
  <2>3. \A t \in AutomaticTurns' :
          \/ t \in AutomaticTurns /\ turns'[t] = turns[t]
          \/ /\ request \in AutomaticLate /\ t = Len(turns) + 1
             /\ turns'[t].answers = request.failed /\ turns'[t].at = request.at
    BY <1>4, LateAutomatic DEF AddsAutomatic, AutomaticLate
  <2>4. \A a, b : Apart(a, b) => Apart(b, a)
    BY DEF Apart
  <2> QED BY <2>2, <2>3, <2>4 DEF ApartInv
<1>5. CASE Deliver
  <2>1. late' = late /\ job.pc = "resume" /\ AutomaticLate' = AutomaticLate
    BY <1>5 DEF Deliver, AutomaticLate
  <2>2. \A t \in AutomaticTurns' :
          \/ t \in AutomaticTurns /\ turns'[t] = turns[t]
          \/ /\ job.automatic /\ t = Len(turns) + 1
             /\ turns'[t].answers = job.failed /\ turns'[t].at = job.at
    BY <1>5, DeliverAutomatic DEF AddsAutomatic
  <2> QED BY <2>1, <2>2, JobApart DEF ApartInv
<1>6. CASE Unconfirmed
  <2>1. /\ turns' = turns /\ AutomaticTurns' = AutomaticTurns
        /\ \/ late' = late
           \/ /\ job.pc = "resume"
              /\ late' = late \cup {[failed |-> job.failed, at |-> job.at,
                                     automatic |-> job.automatic]}
    BY <1>6 DEF Unconfirmed, AutomaticTurns
  <2>2. \A r \in AutomaticLate' :
          \/ r \in AutomaticLate
          \/ job.pc = "resume" /\ job.automatic /\ r = [failed |-> job.failed, at |-> job.at,
                                                       automatic |-> job.automatic]
    BY <2>1 DEF AutomaticLate
  <2>3. \A r \in AutomaticLate' :
          \/ r \in AutomaticLate
          \/ job.pc = "resume" /\ job.automatic /\ r.failed = job.failed /\ r.at = job.at
    BY <2>2
  <2>4. \A r, s \in AutomaticLate' : r \notin AutomaticLate /\ s \notin AutomaticLate => r = s
    BY <2>2
  <2>5. \A t \in AutomaticTurns', u \in AutomaticTurns' :
          t # u /\ turns'[t].answers = turns'[u].answers => Apart(turns'[t].at, turns'[u].at)
    BY <2>1 DEF ApartInv
  <2>6. \A t \in AutomaticTurns', r \in AutomaticLate' :
          turns'[t].answers = r.failed => Apart(turns'[t].at, r.at)
    BY <2>1, <2>3, JobApart DEF ApartInv
  <2>7. \A r \in AutomaticLate', s \in AutomaticLate' :
          r # s /\ r.failed = s.failed => Apart(r.at, s.at)
    BY <2>3, <2>4, JobApart DEF ApartInv
  <2> QED BY <2>5, <2>6, <2>7 DEF ApartInv
<1> QED BY <1>1, <1>2, <1>3, <1>4, <1>5, <1>6, SessionKept

\* There are no calls at first.
LEMMA CallInit == Init => CallInv /\ ApartInv
<1> SUFFICES ASSUME Init PROVE CallInv /\ ApartInv
  OBVIOUS
<1> DEFINE first == [status |-> "active", answers |-> 0, at |-> 0, automatic |-> FALSE]
<1>1. turns = <<first>> /\ first.automatic = FALSE
  BY DEF Init
<1> HIDE DEF first
<1>2. AutomaticTurns = {}
  BY <1>1 DEF AutomaticTurns
<1>3. Calls = {} /\ AutomaticLate = {}
  BY <1>2 DEF Calls, AutomaticLate, Init
<1> QED BY <1>2, <1>3 DEF CallInv, ApartInv, Remembered

-----------------------------------------------------------------------------
(***************************************************************************)
(* The number of retries.  Each recovery in a row that is still in the     *)
(* attempt window has an attempt of its own in the state, as long as no    *)
(* acknowledgement is lost, no process dies and no pending recovery is     *)
(* given up within the window.                                             *)
(***************************************************************************)

\* Within an attempt window no pending recovery is given up and nothing is pruned.
WindowAssumption ==
  /\ Faults \subseteq {"save"}
  /\ Window < PendingMaxAge /\ Window < OrphanMaxAge /\ Window <= PruneAge

InWindow == {t \in Streak : turns[t].at + Window >= now}

\* The recoveries have attempts of their own among those at these places.
Recorded(attempts, places) ==
  \E place \in [InWindow -> places] :
    /\ \A t \in InWindow : attempts[place[t]] = turns[t].at
    /\ \A t, u \in InWindow : place[t] = place[u] => t = u

\* The attempts without the one whose turn is still to start.
Started == IF job.pc = "resume" THEN DOMAIN mem.attempts \ {Len(mem.attempts)}
           ELSE DOMAIN mem.attempts

\* No attempt is later than the last one, nor than this time.
Ordered(attempts, time) ==
  \A i \in DOMAIN attempts : attempts[i] <= attempts[Len(attempts)] /\ attempts[i] <= time

OrderInv ==
  /\ Ordered(mem.attempts, now)
  /\ job.pc \in {"recheck", "boundary"} => Ordered(mem.attempts, job.at)
  /\ \A t \in InWindow : turns[t].at <= turns[Len(turns)].at

LimitInv ==
  /\ job.pc \in {"recheck", "boundary"} => Len(mem.attempts) < MaxAttempts
  /\ job.pc = "resume" =>
       /\ Len(mem.attempts) \in 1..MaxAttempts
       /\ mem.attempts[Len(mem.attempts)] = job.at

\* A recovery turn that goes on is pending as long as it is in the window.
AwaitedInv ==
  /\ Len(turns) \in InWindow /\ turns[Len(turns)].status = "active" =>
       \/ \E p \in mem.pending :
            p.recovery = Len(turns) /\ p.started = turns[Len(turns)].at
       \/ job.pc = "delivered" /\ job.started = Len(turns)
  /\ job.pc = "delivered" =>
       /\ turns[job.started].at = job.at
       /\ \A p \in mem.pending : p.recovery < job.started

BoundInv ==
  late = {} /\ Recorded(mem.attempts, Started) /\ OrderInv /\ LimitInv /\ AwaitedInv

\* What the recoveries in the window are.
LEMMA Windows ==
  ASSUME TypeOK, NEW t \in InWindow
  PROVE  /\ t \in DOMAIN turns /\ t \in Nat /\ t <= Len(turns) /\ Len(turns) \in DOMAIN turns
         /\ turns[t].at \in Nat /\ turns[t].at + Window >= now
         /\ turns[t].answers # 0 /\ turns[t].status # "completed"
         /\ Len(turns) \in Streak
<1>1. turns \in Seq(TurnType) /\ DOMAIN turns = 1..Len(turns) /\ Len(turns) \in Nat
  BY RecoveryAssumption DEF TypeOK, Turns
<1>2. t \in 1..Len(turns) /\ turns[t].at + Window >= now
      /\ \A u \in t..Len(turns) : turns[u].answers # 0 /\ turns[u].status # "completed"
  BY <1>1 DEF InWindow, Streak
<1>3. t \in t..Len(turns) /\ Len(turns) \in t..Len(turns)
  BY <1>1, <1>2
<1>4. turns[t] \in TurnType
  BY <1>1, <1>2
<1>5. turns[t].at \in Nat
  BY <1>4, RecoveryAssumption DEF TurnType, Times
<1>6. Len(turns) \in Streak
  <2>1. \A u \in Len(turns)..Len(turns) : u = Len(turns)
    <3>1. \A n \in Nat : \A u \in n..n : u = n
      OBVIOUS
    <3> QED BY <1>1, <3>1
  <2> QED BY <1>1, <1>2, <1>3, <2>1 DEF Streak
<1> QED BY <1>1, <1>2, <1>3, <1>5, <1>6

\* Without a new recovery turn, no recovery comes into the window.
LEMMA WindowShrinks ==
  ASSUME TypeOK, JobInv, [Next]_vars, late = {}, ~Deliver
  PROVE  /\ InWindow' \subseteq InWindow
         /\ \A t \in InWindow' : t \in DOMAIN turns /\ turns'[t].at = turns[t].at
         /\ InWindow' # {} => Len(turns') = Len(turns)
<1>0. /\ TypeOK' /\ TurnsKept /\ now \in Nat /\ now' \in Nat /\ now <= now' /\ Window \in Nat
      /\ Len(turns) \in Nat /\ Len(turns') \in Nat /\ turns' \in Seq(TurnType)
      /\ DOMAIN turns = 1..Len(turns) /\ DOMAIN turns' = 1..Len(turns')
  BY Numbers, TypeStep, TurnsStep DEF TypeOK
<1>1. CASE Len(turns') = Len(turns) /\ \A t \in DOMAIN turns :
             turns[t].status = "completed" => turns'[t].status = "completed"
  <2>1. Streak' \subseteq Streak
    BY <1>0, <1>1 DEF Streak, TurnsKept
  <2>2. \A t \in Streak' : t \in DOMAIN turns /\ turns'[t].at = turns[t].at
                           /\ turns[t].at \in Nat
    <3>1. \A t \in Streak' : t \in DOMAIN turns /\ turns'[t].at = turns[t].at
      BY <1>0, <1>1 DEF Streak, TurnsKept
    <3>2. \A t \in DOMAIN turns : turns[t] \in TurnType
      BY DEF TypeOK
    <3> QED BY <3>1, <3>2, RecoveryAssumption DEF TurnType, Times
  <2> QED BY <1>0, <1>1, <2>1, <2>2 DEF InWindow
<1>2. CASE UserTurn
  <2>1. /\ Len(turns') = Len(turns) + 1 /\ turns'[Len(turns')].answers = 0
    <3>1. StartTurn(0, 0, FALSE) /\ 0 \in Times
      BY <1>2, InitialTyped DEF UserTurn
    <3>2. /\ Len(turns') = Len(turns) + 1
          /\ turns'[Len(turns')] = [status |-> "active", answers |-> 0, at |-> 0,
                                    automatic |-> FALSE]
      BY <3>1, StartTyped
    <3> QED BY <3>2
  <2>2. Streak' = {}
    <3> SUFFICES ASSUME NEW t \in Streak' PROVE FALSE
      OBVIOUS
    <3>1. t \in 1..Len(turns') /\ \A u \in t..Len(turns') : turns'[u].answers # 0
      BY <1>0 DEF Streak
    <3>2. Len(turns') \in t..Len(turns')
      BY <1>0, <3>1
    <3> QED BY <2>1, <3>1, <3>2
  <2> QED BY <2>2 DEF InWindow
<1>3. CASE turns' = turns
  BY <1>1, <1>3
<1>4. CASE \E status \in {"completed", "failed"} : TurnEnds(status)
  BY <1>0, <1>1, <1>4, EndTyped DEF TurnsKept
<1> QED BY <1>2, <1>3, <1>4, SessionStep

\* The recoveries keep their attempts if the attempts that are in the window stay.
LEMMA RecordedKept ==
  ASSUME InWindow' \subseteq InWindow, \A t \in InWindow' : turns'[t].at = turns[t].at,
         NEW places, Recorded(mem.attempts, places),
         NEW rank \in [places -> Started'], \A i, j \in places : rank[i] = rank[j] => i = j,
         \A i \in places : mem'.attempts[rank[i]] = mem.attempts[i]
  PROVE  Recorded(mem.attempts, Started)'
<1>1. PICK place \in [InWindow -> places] :
        /\ \A t \in InWindow : mem.attempts[place[t]] = turns[t].at
        /\ \A t, u \in InWindow : place[t] = place[u] => t = u
  BY DEF Recorded
<1> DEFINE moved == [t \in InWindow' |-> rank[place[t]]]
<1>2. \A t \in InWindow' : /\ t \in InWindow /\ place[t] \in places
                           /\ rank[place[t]] \in Started'
  BY <1>1
<1>3. moved \in [InWindow' -> Started'] /\ \A t \in InWindow' : moved[t] = rank[place[t]]
  BY <1>2
<1> HIDE DEF moved
<1>4. \A t \in InWindow' : mem'.attempts[moved[t]] = turns'[t].at
  BY <1>1, <1>2, <1>3
<1>5. \A t, u \in InWindow' : moved[t] = moved[u] => t = u
  BY <1>1, <1>2, <1>3
<1> QED BY <1>3, <1>4, <1>5 DEF Recorded

\* What a filter by age keeps.
Kept(attempts, age, at) == {i \in DOMAIN attempts : ~(attempts[i] + age < at)}

\* recent_attempts and prune are such filters.
LEMMA Filters ==
  ASSUME NEW state \in RuntimeStates, NEW at \in Times
  PROVE  /\ RecentAttempts(state, at) = Retain(state.attempts, Kept(state.attempts, Window, at))
         /\ Prune(state, at).attempts =
              Retain(state.attempts, Kept(state.attempts, PruneAge, at))
<1>1. \A i \in DOMAIN state.attempts : state.attempts[i] \in Nat
  <2>1. state.attempts \in Seq(Times)
    BY DEF RuntimeStates
  <2>2. \A i \in DOMAIN state.attempts : state.attempts[i] \in Times
    BY <2>1
  <2> QED BY <2>2, RecoveryAssumption DEF Times
<1>2. at \in Nat /\ Window \in Nat
  BY RecoveryAssumption DEF Times
<1>3. {i \in DOMAIN state.attempts : state.attempts[i] + Window >= at}
        = Kept(state.attempts, Window, at)
  BY <1>1, <1>2 DEF Kept
<1>4. RecentAttempts(state, at) = Retain(state.attempts, Kept(state.attempts, Window, at))
  BY <1>3 DEF RecentAttempts
<1> DEFINE pruned == Retain(state.attempts, Kept(state.attempts, PruneAge, at))
           handled == [t \in Turns |-> IF state.handled[t].at + PruneAge < at
                                       THEN NotHandled ELSE state.handled[t]]
           observed == [t \in Turns |-> IF state.observed[t] + PruneAge < at
                                        THEN 0 ELSE state.observed[t]]
           outcomes == Retain(state.outcomes,
                         {i \in DOMAIN state.outcomes : ~(state.outcomes[i].at + PruneAge < at)})
<1>5. Prune(state, at) = [state EXCEPT !.handled = handled, !.observed = observed,
                                       !.attempts = pruned, !.outcomes = outcomes]
  BY DEF Prune, Kept
<1>6. Prune(state, at).attempts = pruned
  <2> HIDE DEF pruned, handled, observed, outcomes
  <2> QED BY <1>5 DEF RuntimeStates
<1> QED BY <1>4, <1>6

\* A filter keeps the order of the attempts.
LEMMA OrderedFilter ==
  ASSUME NEW s \in Seq(Times), NEW age \in Nat, NEW at \in Times, NEW time,
         Ordered(s, time)
  PROVE  Ordered(Retain(s, Kept(s, age, at)), time)
<1> DEFINE kept == Kept(s, age, at)
           after == Retain(s, kept)
<1>0. kept \in SUBSET (DOMAIN s)
  BY DEF Kept
<1>1. /\ kept = {} <=> after = <<>>
      /\ SomeOf(after, s)
      /\ Len(s) \in kept => Last(after) = Last(s)
      /\ after \in Seq(Times)
  BY <1>0, RetainKeeps
<1> SUFFICES Ordered(after, time)
  OBVIOUS
<1> HIDE DEF after
<1>2. CASE kept = {}
  BY <1>1, <1>2 DEF Ordered
<1>3. CASE Len(s) \in kept
  <2>1. after # <<>> /\ Last(after) = Last(s)
    BY <1>1, <1>3
  <2>2. Len(after) \in DOMAIN after /\ after[Len(after)] = s[Len(s)]
    BY <1>1, <2>1 DEF Last
  <2>3. \A i \in DOMAIN after : \E j \in DOMAIN s : after[i] = s[j]
    BY <1>1 DEF SomeOf
  <2> QED BY <2>2, <2>3 DEF Ordered
<1>4. ASSUME kept # {}, Len(s) \notin kept PROVE FALSE
  <2>1. PICK i \in DOMAIN s : ~(s[i] + age < at)
    BY <1>4 DEF Kept
  <2>2. Len(s) \in DOMAIN s
    BY <2>1
  <2>3. s[Len(s)] + age < at
    BY <1>4, <2>2 DEF Kept
  <2>4. s[i] \in Nat /\ s[Len(s)] \in Nat /\ at \in Nat
    <3>1. s[i] \in Times /\ s[Len(s)] \in Times
      BY <2>1, <2>2
    <3> QED BY <3>1, RecoveryAssumption DEF Times
  <2>5. s[i] <= s[Len(s)]
    BY <2>1 DEF Ordered
  <2> QED BY <2>1, <2>3, <2>4, <2>5
<1> QED BY <1>2, <1>3, <1>4

\* A filter of what is older than the window keeps the attempts of the recoveries.
LEMMA RecordedFilter ==
  ASSUME TypeOK, WindowAssumption,
         InWindow' \subseteq InWindow, \A t \in InWindow' : turns'[t].at = turns[t].at,
         NEW age, age = Window \/ age = PruneAge, NEW at \in Times, at <= now,
         mem'.attempts = Retain(mem.attempts, Kept(mem.attempts, age, at)),
         Recorded(mem.attempts, DOMAIN mem.attempts), job'.pc # "resume"
  PROVE  Recorded(mem.attempts, Started)'
<1> DEFINE kept == Kept(mem.attempts, age, at)
<1>0. mem.attempts \in Seq(Times) /\ kept \in SUBSET (DOMAIN mem.attempts)
  BY DEF TypeOK, RuntimeStates, Kept
<1>1. /\ at \in Nat /\ now \in Nat /\ age \in Nat /\ Window \in Nat /\ Window <= age
  BY RecoveryAssumption DEF WindowAssumption, TypeOK, Times
<1>2. Recorded(mem.attempts, kept)
  <2>1. PICK place \in [InWindow -> DOMAIN mem.attempts] :
          /\ \A t \in InWindow : mem.attempts[place[t]] = turns[t].at
          /\ \A t, u \in InWindow : place[t] = place[u] => t = u
    BY DEF Recorded
  <2>2. \A t \in InWindow : place[t] \in kept
    <3> SUFFICES ASSUME NEW t \in InWindow, mem.attempts[place[t]] + age < at PROVE FALSE
      BY <2>1 DEF Kept
    <3>1. turns[t].at \in Nat /\ turns[t].at + Window >= now
      BY Windows
    <3> QED BY <1>1, <2>1, <3>1
  <2> HIDE DEF kept
  <2>3. place \in [InWindow -> kept]
    BY <2>1, <2>2
  <2> QED BY <2>1, <2>3 DEF Recorded
<1>3. PICK rank \in [kept -> DOMAIN mem'.attempts] :
        /\ \A k \in kept : mem'.attempts[rank[k]] = mem.attempts[k]
        /\ \A j, k \in kept : rank[j] = rank[k] => j = k
  BY <1>0, RetainAll
<1>4. Started' = DOMAIN mem'.attempts
  BY DEF Started
<1> HIDE DEF kept
<1> QED BY <1>2, <1>3, <1>4, RecordedKept

\* The attempts stay, or others are added.
LEMMA RecordedMore ==
  ASSUME InWindow' \subseteq InWindow, \A t \in InWindow' : turns'[t].at = turns[t].at,
         Started \subseteq Started',
         \A i \in Started : mem'.attempts[i] = mem.attempts[i],
         Recorded(mem.attempts, Started)
  PROVE  Recorded(mem.attempts, Started)'
<1> DEFINE rank == [i \in Started |-> i]
<1>1. rank \in [Started -> Started'] /\ \A i \in Started : rank[i] = i
  OBVIOUS
<1> HIDE DEF rank
<1> QED BY <1>1, RecordedKept

\* The steps of an engine that loses no acknowledgement and does not die.
LEMMA BoundedKinds ==
  ASSUME TypeOK, JobInv, [Next]_vars, WindowAssumption, late = {}
  PROVE  /\ late' = {}
         /\ ~Unconfirmed /\ ~Crash
         /\ \/ /\ mem'.attempts = mem.attempts
               /\ job'.pc \in {"recheck", "boundary"} => \/ job.pc = "recheck" /\ job'.at = job.at
                                                         \/ job' = job
               /\ job'.pc = "resume" => job' = job
               /\ ~Deliver
            \/ Deliver
            \/ \E watched \in BOOLEAN, policy \in Policies : BeginPass(watched, policy)
            \/ FailureWaits \/ FailureDue \/ RetryNow \/ Attempt
            \/ NoFailure /\ mem.pending = {}
<1>0. ~Unconfirmed /\ ~Crash
  BY DEF WindowAssumption, Unconfirmed, Crash
<1>1. late' = {}
  BY <1>0 DEF Next, vars, session, TurnEnds, UserTurn, Tick, LateDelivery, PreparePass,
       BeginPass, ObserveNothing, ObserveOutcome, PassOver, NoFailure, FailureSkipped,
       FailureWaits, FailureDue, RecheckSame, Cancelled, GivenUp, RetryNow, Attempt, Deliver,
       Receipt, SendFailed
<1>2. job \in JobType
  BY DEF TypeOK
<1>3. CASE Unattempted /\ ~Deliver
  <2>1. mem'.attempts = mem.attempts
    BY <1>3, UnattemptedKeeps
  <2>2. \/ job' = job \/ job' = Idle \/ job'.pc = "pending"
        \/ RecheckSame
    <3>1. CASE Aside
      BY <3>1, AsideKeeps
    <3>2. CASE \E p \in job.todo : ObserveNothing(p) \/ ObserveOutcome(p)
      BY <1>2, <3>2 DEF ObserveNothing, ObserveOutcome, JobType
    <3>3. CASE PassOver \/ Cancelled \/ GivenUp \/ SendFailed \/ FailureSkipped \/ Receipt
      BY <3>3 DEF PassOver, Cancelled, GivenUp, SendFailed, FailureSkipped, Receipt, EndPass
    <3> QED BY <1>0, <1>3, <3>1, <3>2, <3>3 DEF Unattempted
  <2>3. RecheckSame => job.pc = "recheck" /\ job'.at = job.at /\ job'.pc = "boundary"
    BY <1>2 DEF RecheckSame, JobType
  <2>4. Idle.pc = "idle"
    BY DEF Idle
  <2>5. /\ job'.pc \in {"recheck", "boundary"} => \/ job.pc = "recheck" /\ job'.at = job.at
                                                  \/ job' = job
        /\ job'.pc = "resume" => job' = job
    BY <2>2, <2>3, <2>4
  <2> QED BY <1>0, <1>1, <1>3, <2>1, <2>5
<1>4. CASE NoFailure /\ mem.pending # {}
  <2>1. mem' = mem /\ job' = Idle /\ ~Deliver
    BY <1>4 DEF NoFailure, EndPass, Deliver
  <2> QED BY <1>0, <1>1, <2>1 DEF Idle
<1> QED BY <1>0, <1>1, <1>3, <1>4, StepKinds DEF LetGo, Unattempted

\* The recovery turn that a call starts.
LEMMA Delivered ==
  ASSUME TypeOK, JobInv, Deliver
  PROVE  /\ InWindow' \subseteq InWindow \cup {Len(turns')}
         /\ Len(turns') = Len(turns) + 1 /\ Len(turns) \in Nat /\ Len(turns') \in DOMAIN turns'
         /\ turns'[Len(turns')].at = job.at
         /\ \A t \in InWindow : t # Len(turns') /\ turns'[t].at = turns[t].at
         /\ mem' = mem /\ now' = now /\ job'.pc = "delivered" /\ job'.at = job.at
         /\ job'.started = Len(turns')
<1>1. job.failed \in {0} \cup Turns /\ job.at \in Times /\ job.automatic \in BOOLEAN
      /\ job \in JobType
  BY DEF TypeOK, JobType
<1>2. StartTurn(job.failed, job.at, job.automatic)
  BY DEF Deliver
<1>3. /\ turns' \in Seq(TurnType) /\ Len(turns') = Len(turns) + 1
      /\ turns'[Len(turns')] = [status |-> "active", answers |-> job.failed, at |-> job.at,
                                automatic |-> job.automatic]
      /\ \A t \in DOMAIN turns : turns'[t] = turns[t]
      /\ DOMAIN turns' = DOMAIN turns \cup {Len(turns) + 1}
  BY <1>1, <1>2, StartTyped
<1>4. Len(turns) \in Nat /\ DOMAIN turns = 1..Len(turns)
  BY RecoveryAssumption DEF TypeOK, Turns
<1>5. mem' = mem /\ now' = now /\ job'.pc = "delivered" /\ job'.at = job.at
      /\ job'.started = Len(turns')
  BY <1>1, <1>3 DEF Deliver, JobType
<1>6. ASSUME NEW t \in Streak', t # Len(turns') PROVE t \in Streak
  <2>1. t \in DOMAIN turns /\ \A u \in t..Len(turns') :
                                turns'[u].answers # 0 /\ turns'[u].status # "completed"
    BY <1>3, <1>6 DEF Streak
  <2>2. \A u \in t..Len(turns) : u \in t..Len(turns') /\ u \in DOMAIN turns
    BY <1>3, <1>4, <2>1
  <2> QED BY <1>3, <2>1, <2>2 DEF Streak
<1>7. ASSUME NEW t \in InWindow', t # Len(turns') PROVE t \in InWindow
  <2>1. t \in Streak
    BY <1>6, <1>7 DEF InWindow
  <2>2. turns'[t] = turns[t]
    BY <1>3, <2>1 DEF Streak
  <2> QED BY <1>5, <1>7, <2>1, <2>2 DEF InWindow
<1>8. \A t \in InWindow : t # Len(turns') /\ turns'[t].at = turns[t].at
  BY <1>3, <1>4 DEF InWindow, Streak
<1> QED BY <1>3, <1>4, <1>5, <1>7, <1>8

\* The new recovery has the attempt that was made for it.
LEMMA RecordedDeliver ==
  ASSUME TypeOK, JobInv, BoundInv, Deliver
  PROVE  Recorded(mem.attempts, Started)'
<1>0. job.pc = "resume"
  BY DEF Deliver
<1> DEFINE n == Len(mem.attempts)
<1>1. PICK place \in [InWindow -> DOMAIN mem.attempts \ {n}] :
        /\ \A t \in InWindow : mem.attempts[place[t]] = turns[t].at
        /\ \A t, u \in InWindow : place[t] = place[u] => t = u
  BY <1>0 DEF BoundInv, Recorded, Started
<1>2. n \in DOMAIN mem.attempts /\ mem.attempts[n] = job.at
  <2>1. mem.attempts \in Seq(Times) /\ n \in 1..MaxAttempts
    BY <1>0 DEF TypeOK, RuntimeStates, BoundInv, LimitInv
  <2>2. n \in DOMAIN mem.attempts
    BY <2>1, RecoveryAssumption
  <2> QED BY <1>0, <2>2 DEF BoundInv, LimitInv
<1> HIDE DEF n
<1> DEFINE all == [t \in InWindow' |-> IF t = Len(turns') THEN n ELSE place[t]]
<1>3. \A t \in InWindow' : t = Len(turns') \/ t \in InWindow
  BY Delivered
<1>4. Started' = DOMAIN mem.attempts /\ mem'.attempts = mem.attempts
  BY Delivered DEF Started
<1>5. all \in [InWindow' -> DOMAIN mem.attempts]
  BY <1>1, <1>2, <1>3
<1>6. \A t \in InWindow' : /\ t = Len(turns') => all[t] = n
                           /\ t # Len(turns') => all[t] = place[t] /\ t \in InWindow
  BY <1>3
<1> HIDE DEF all
<1>7. \A t \in InWindow' : mem.attempts[all[t]] = turns'[t].at
  BY <1>1, <1>2, <1>6, Delivered
<1>8. \A t, u \in InWindow' : all[t] = all[u] => t = u
  BY <1>1, <1>6
<1> QED BY <1>4, <1>5, <1>7, <1>8 DEF Recorded

\* No recovery is in the window when the attempts are forgotten (clear_attempts).
LEMMA NothingForgotten ==
  ASSUME TypeOK, JobInv, BoundInv, NoFailure, mem.pending = {}
  PROVE  InWindow = {}
<1> SUFFICES ASSUME NEW t \in InWindow PROVE FALSE
  OBVIOUS
<1>1. /\ Len(turns) \in DOMAIN turns /\ Len(turns) \in Streak /\ turns[t].at \in Nat
      /\ turns[t].at + Window >= now
  BY Windows
<1>2. turns[Len(turns)] \in TurnType /\ now \in Nat /\ Window \in Nat
  BY <1>1, RecoveryAssumption DEF TypeOK, Times
<1>3. turns[Len(turns)].at \in Nat
  BY <1>2, RecoveryAssumption DEF TurnType, Times
<1>4. turns[Len(turns)].status # "completed"
  <2>1. Len(turns) \in Len(turns)..Len(turns)
    BY RecoveryAssumption DEF TypeOK, Turns
  <2> QED BY <1>1, <2>1 DEF Streak
<1>5. turns[Len(turns)].status = "active"
  BY <1>2, <1>4, Latest DEF NoFailure, TurnType
<1>6. turns[t].at <= turns[Len(turns)].at
  BY DEF BoundInv, OrderInv
<1>7. Len(turns) \in InWindow
  BY <1>1, <1>2, <1>3, <1>6 DEF InWindow
<1> QED BY <1>5, <1>7 DEF BoundInv, AwaitedInv, NoFailure

\* Every step keeps an attempt for each recovery.
LEMMA RecordStep ==
  ASSUME TypeOK, JobInv, [Next]_vars, WindowAssumption, BoundInv
  PROVE  Recorded(mem.attempts, Started)'
<1>0. /\ Recorded(mem.attempts, Started) /\ late = {}
      /\ job.pc # "resume" => Started = DOMAIN mem.attempts
      /\ Started \subseteq DOMAIN mem.attempts
      /\ job'.pc # "resume" => Started' = DOMAIN mem'.attempts
  BY DEF BoundInv, Started
<1>1. CASE Deliver
  BY <1>1, RecordedDeliver
<1>2. ASSUME ~Deliver
      PROVE  InWindow' \subseteq InWindow /\ \A t \in InWindow' : turns'[t].at = turns[t].at
  BY <1>0, <1>2, WindowShrinks
<1>3. ASSUME mem'.attempts = mem.attempts, ~Deliver, job'.pc = "resume" => job' = job
      PROVE  Recorded(mem.attempts, Started)'
  <2>1. Started \subseteq Started'
    BY <1>0, <1>3 DEF Started
  <2> QED BY <1>0, <1>2, <1>3, <2>1, RecordedMore
<1>4. ASSUME NEW watched \in BOOLEAN, NEW policy \in Policies, BeginPass(watched, policy)
      PROVE  Recorded(mem.attempts, Started)'
  <2>1. /\ mem'.attempts = Retain(mem.attempts, Kept(mem.attempts, PruneAge, plan))
        /\ job.pc # "resume" /\ job'.pc # "resume" /\ ~Deliver
    BY <1>4, Numbers, Filters DEF BeginPass, Deliver, Idle
  <2> QED BY <1>0, <1>2, <2>1, Numbers, RecordedFilter
<1>5. CASE FailureWaits \/ FailureDue
  <2>0. job.pc = "pending" /\ job'.pc \in {"idle", "recheck"}
    <3>1. CASE FailureWaits
      BY <3>1 DEF FailureWaits, EndPass, Idle
    <3>2. CASE FailureDue
      BY <3>2 DEF FailureDue, Idle
    <3> QED BY <1>5, <3>1, <3>2
  <2>1. /\ job.pc # "resume" /\ job'.pc # "resume" /\ ~Deliver
        /\ LatestFailure \in Turns /\ mem' = Inspected(LatestFailure)
    BY <1>5, <2>0, Latest DEF FailureWaits, FailureDue, EndPass, Deliver
  <2>2. mem'.attempts = Retain(mem.attempts, Kept(mem.attempts, Window, job.at))
    BY <2>1, Numbers, InspectKeeps, Filters
  <2> QED BY <1>0, <1>2, <2>1, <2>2, Numbers, RecordedFilter
<1>6. CASE RetryNow
  <2>1. /\ job.pc # "resume" /\ job'.pc # "resume" /\ ~Deliver
        /\ mem'.attempts = RecentAttempts(mem, now)
    BY <1>6, Numbers DEF RetryNow, Deliver, Idle, RuntimeStates
  <2>2. mem'.attempts = Retain(mem.attempts, Kept(mem.attempts, Window, now))
    BY <2>1, Numbers, Filters
  <2>3. now <= now
    BY Numbers
  <2> QED BY <1>0, <1>2, <2>1, <2>2, <2>3, Numbers, RecordedFilter
<1>7. CASE Attempt
  <2>0. mem.attempts \in Seq(Times) /\ job.at \in Times /\ mem \in RuntimeStates
    BY Numbers
  <2>1. /\ job.pc # "resume" /\ ~Deliver
        /\ mem'.attempts = Append(mem.attempts, job.at)
    BY <1>7, <2>0 DEF Attempt, Deliver, RuntimeStates
  <2>2. /\ DOMAIN mem'.attempts = DOMAIN mem.attempts \cup {Len(mem'.attempts)}
        /\ Len(mem'.attempts) \notin DOMAIN mem.attempts
        /\ \A i \in DOMAIN mem.attempts : mem'.attempts[i] = mem.attempts[i]
    BY <2>0, <2>1
  <2>3. Started \subseteq Started'
    BY <1>0, <2>1, <2>2 DEF Started
  <2> QED BY <1>0, <1>2, <2>1, <2>2, <2>3, RecordedMore
<1>8. CASE NoFailure /\ mem.pending = {}
  <2>1. InWindow' = {}
    BY <1>2, <1>8, NothingForgotten DEF NoFailure, Deliver
  <2> DEFINE none == [t \in {} |-> 0]
  <2>2. none \in [{} -> Started']
    OBVIOUS
  <2> QED BY <2>1, <2>2 DEF Recorded
<1> QED BY <1>0, <1>1, <1>3, <1>4, <1>5, <1>6, <1>7, <1>8, BoundedKinds

\* Every step keeps the order of the attempts.
LEMMA AttemptsOrdered ==
  ASSUME TypeOK, JobInv, [Next]_vars, WindowAssumption, BoundInv
  PROVE  /\ Ordered(mem.attempts, now)'
         /\ job'.pc \in {"recheck", "boundary"} => Ordered(mem.attempts, job.at)'
<1>0. /\ Ordered(mem.attempts, now) /\ late = {}
      /\ job.pc \in {"recheck", "boundary"} => Ordered(mem.attempts, job.at)
      /\ mem.attempts \in Seq(Times) /\ job.at \in Nat /\ now \in Nat /\ now' \in Nat
      /\ now <= now' /\ job.at <= now /\ job.at \in Times /\ now \in Times /\ plan \in Times
      /\ Window \in Nat /\ PruneAge \in Nat /\ mem \in RuntimeStates
      /\ mem' \in RuntimeStates
  BY Numbers DEF BoundInv, OrderInv
<1>a. \A s \in Seq(Times) : Ordered(s, now) => Ordered(s, now')
  <2> SUFFICES ASSUME NEW s \in Seq(Times), NEW i \in DOMAIN s, s[i] <= now PROVE s[i] <= now'
    BY DEF Ordered
  <2>1. s[i] \in Times
    OBVIOUS
  <2>2. s[i] \in Nat
    BY <2>1, RecoveryAssumption DEF Times
  <2> QED BY <1>0, <2>2
<1>b. mem'.attempts \in Seq(Times)
  BY <1>0 DEF RuntimeStates
<1>1. CASE mem'.attempts = mem.attempts
           /\ (job'.pc \in {"recheck", "boundary"} =>
                 \/ job.pc = "recheck" /\ job'.at = job.at
                 \/ job' = job)
  BY <1>0, <1>a, <1>1
<1>2. CASE Deliver
  BY <1>0, <1>a, <1>2, Delivered
<1>3. ASSUME NEW watched \in BOOLEAN, NEW policy \in Policies, BeginPass(watched, policy)
      PROVE  Ordered(mem.attempts, now)' /\ job'.pc = "pending"
  <2>1. /\ mem'.attempts = Retain(mem.attempts, Kept(mem.attempts, PruneAge, plan))
        /\ job'.pc = "pending"
    BY <1>0, <1>3, Filters DEF BeginPass, Idle
  <2>2. Ordered(mem'.attempts, now)
    BY <1>0, <2>1, OrderedFilter
  <2> QED BY <1>a, <1>b, <2>1, <2>2
<1>4. CASE FailureWaits \/ FailureDue
  <2>1. LatestFailure \in Turns /\ mem' = Inspected(LatestFailure)
    BY <1>4, Latest DEF FailureWaits, FailureDue, EndPass
  <2>2. mem'.attempts = Retain(mem.attempts, Kept(mem.attempts, Window, job.at))
    BY <1>0, <2>1, InspectKeeps, Filters
  <2>3. Ordered(mem'.attempts, now)
    BY <1>0, <2>2, OrderedFilter
  <2>4. ASSUME FailureDue PROVE Ordered(mem'.attempts, job.at) /\ job'.at = job.at
    <3> DEFINE n == Len(mem'.attempts)
    <3>1. /\ n < MaxAttempts /\ job'.at = job.at
          /\ n # 0 => job.at >= mem'.attempts[n] + RetryDelay(n)
      BY <2>1, <2>4 DEF FailureDue, Due, Idle
    <3>2. n \in Nat
      BY <1>b
    <3>3. RetryDelay(n) \in Nat
      BY <3>1, <3>2, DelayBound
    <3>4. \A i \in DOMAIN mem'.attempts : mem'.attempts[i] \in Nat /\ mem'.attempts[n] \in Nat
                                         /\ n # 0
      <4> SUFFICES ASSUME NEW i \in DOMAIN mem'.attempts
                   PROVE  mem'.attempts[i] \in Nat /\ mem'.attempts[n] \in Nat /\ n # 0
        OBVIOUS
      <4>1. mem'.attempts[i] \in Times /\ mem'.attempts[n] \in Times /\ n # 0
        BY <1>b
      <4> QED BY <4>1, RecoveryAssumption DEF Times
    <3>5. \A i \in DOMAIN mem'.attempts : mem'.attempts[i] <= mem'.attempts[n]
      BY <2>3 DEF Ordered
    <3>6. \A i \in DOMAIN mem'.attempts : mem'.attempts[i] <= job.at
      <4> SUFFICES ASSUME NEW i \in DOMAIN mem'.attempts PROVE mem'.attempts[i] <= job.at
        OBVIOUS
      <4> HIDE DEF n
      <4> QED BY <1>0, <3>1, <3>3, <3>4, <3>5
    <3> QED BY <3>1, <3>5, <3>6 DEF Ordered
  <2>5. FailureWaits => job'.pc = "idle"
    BY DEF FailureWaits, EndPass, Idle
  <2> QED BY <1>4, <1>a, <1>b, <2>3, <2>4, <2>5
<1>5. CASE RetryNow
  <2>1. /\ mem'.attempts = RecentAttempts(mem, now)
        /\ job'.at = now \/ job'.pc = "idle"
        /\ now' = now
    BY <1>0, <1>5 DEF RetryNow, Idle, RuntimeStates
  <2>2. mem'.attempts = Retain(mem.attempts, Kept(mem.attempts, Window, now))
    BY <1>0, <2>1, Filters
  <2>3. Ordered(mem'.attempts, now)
    BY <1>0, <2>2, OrderedFilter
  <2> QED BY <2>1, <2>3
<1>6. CASE Attempt
  <2>1. /\ mem'.attempts = Append(mem.attempts, job.at) /\ now' = now
        /\ job'.pc \in {"resume", "idle"} /\ job.pc = "boundary"
    BY <1>0, <1>6 DEF Attempt, RuntimeStates, Idle, TypeOK, JobType
  <2>2. /\ DOMAIN mem'.attempts = DOMAIN mem.attempts \cup {Len(mem'.attempts)}
        /\ Len(mem'.attempts) \notin DOMAIN mem.attempts
        /\ \A i \in DOMAIN mem.attempts : mem'.attempts[i] = mem.attempts[i]
        /\ mem'.attempts[Len(mem'.attempts)] = job.at
    BY <1>0, <2>1
  <2>3. Ordered(mem.attempts, job.at)
    BY <1>0, <2>1
  <2> QED BY <1>0, <2>1, <2>2, <2>3 DEF Ordered
<1>7. CASE NoFailure /\ mem.pending = {}
  <2>1. mem'.attempts = <<>> /\ job'.pc = "idle"
    BY <1>0, <1>7 DEF NoFailure, EndPass, Idle, RuntimeStates
  <2> QED BY <2>1 DEF Ordered
<1> QED BY <1>0, <1>1, <1>2, <1>3, <1>4, <1>5, <1>6, <1>7, BoundedKinds, Delivered

\* Every step keeps the latest recovery the latest in time.
LEMMA OrderStep ==
  ASSUME TypeOK, JobInv, [Next]_vars, WindowAssumption, BoundInv
  PROVE  OrderInv'
<1>1. \A t \in InWindow' : turns'[t].at <= turns'[Len(turns')].at
  <2>1. CASE Deliver
    <3> DEFINE n == Len(mem.attempts)
    <3>0. /\ mem.attempts \in Seq(Times) /\ job.at \in Nat /\ job.pc = "resume"
          /\ turns'[Len(turns')].at = job.at
      BY <2>1, Numbers, Delivered DEF Deliver
    <3>1. mem.attempts[n] = job.at
      BY <3>0 DEF BoundInv, LimitInv
    <3>2. \A i \in DOMAIN mem.attempts : mem.attempts[i] <= job.at
      BY <3>1 DEF BoundInv, OrderInv, Ordered
    <3>3. \A t \in InWindow : turns[t].at <= job.at
      <4>1. PICK place \in [InWindow -> Started] :
              \A t \in InWindow : mem.attempts[place[t]] = turns[t].at
        BY DEF BoundInv, Recorded
      <4>2. Started \subseteq DOMAIN mem.attempts
        BY DEF Started
      <4> QED BY <3>2, <4>1, <4>2
    <3>4. \A t \in InWindow' : t = Len(turns') \/ t \in InWindow
      BY <2>1, Delivered
    <3> QED BY <2>1, <3>0, <3>3, <3>4, Delivered
  <2>2. CASE ~Deliver
    <3>1. /\ InWindow' \subseteq InWindow
          /\ \A t \in InWindow' : t \in DOMAIN turns /\ turns'[t].at = turns[t].at
          /\ InWindow' # {} => Len(turns') = Len(turns)
      BY <2>2, WindowShrinks DEF BoundInv
    <3> SUFFICES ASSUME NEW t \in InWindow' PROVE turns'[t].at <= turns'[Len(turns')].at
      OBVIOUS
    <3>2. turns'[Len(turns)].at = turns[Len(turns)].at
      BY TurnsStep, Latest DEF TurnsKept
    <3> QED BY <3>1, <3>2 DEF BoundInv, OrderInv
  <2> QED BY <2>1, <2>2
<1> QED BY <1>1, AttemptsOrdered DEF OrderInv

\* Every step keeps the number of attempts under the limit.
LEMMA LimitStep ==
  ASSUME TypeOK, JobInv, [Next]_vars, WindowAssumption, BoundInv
  PROVE  LimitInv'
<1>0. /\ LimitInv /\ late = {} /\ mem.attempts \in Seq(Times) /\ mem \in RuntimeStates
      /\ job \in JobType /\ job.at \in Times
  BY Numbers DEF BoundInv
<1>1. CASE /\ mem'.attempts = mem.attempts
           /\ job'.pc \in {"recheck", "boundary"} => \/ job.pc = "recheck" /\ job'.at = job.at
                                                     \/ job' = job
           /\ job'.pc = "resume" => job' = job
  BY <1>0, <1>1 DEF LimitInv
<1>2. CASE Deliver
  BY <1>2, Delivered DEF LimitInv
<1>3. CASE \E watched \in BOOLEAN, policy \in Policies : BeginPass(watched, policy)
  <2>1. job'.pc = "pending"
    BY <1>3 DEF BeginPass, Idle
  <2> QED BY <2>1 DEF LimitInv
<1>4. CASE FailureDue
  <2>1. /\ mem' = Inspected(LatestFailure) /\ job'.pc = "recheck"
        /\ Len(Inspected(LatestFailure).attempts) < MaxAttempts
    BY <1>4 DEF FailureDue, Due, Idle
  <2> QED BY <2>1 DEF LimitInv
<1>5. CASE FailureWaits \/ NoFailure
  <2>1. job'.pc = "idle"
    BY <1>5 DEF FailureWaits, NoFailure, EndPass, Idle
  <2> QED BY <2>1 DEF LimitInv
<1>6. CASE RetryNow
  <2>1. mem'.attempts = RecentAttempts(mem, now)
    BY <1>0, <1>6 DEF RetryNow, RuntimeStates
  <2>2. job'.pc = "idle" \/ (job'.pc = "boundary" /\ Len(RecentAttempts(mem, now)) < MaxAttempts)
    BY <1>6 DEF RetryNow, Idle
  <2> QED BY <2>1, <2>2 DEF LimitInv
<1>7. CASE Attempt
  <2>1. /\ mem'.attempts = Append(mem.attempts, job.at)
        /\ job'.pc = "idle" \/ (job'.pc = "resume" /\ job'.at = job.at)
        /\ Len(mem.attempts) < MaxAttempts
    BY <1>0, <1>7 DEF Attempt, Idle, RuntimeStates, JobType, LimitInv
  <2>2. /\ Len(mem.attempts) \in Nat /\ Len(mem'.attempts) = Len(mem.attempts) + 1
        /\ mem'.attempts[Len(mem'.attempts)] = job.at
    BY <1>0, <2>1
  <2> QED BY <2>1, <2>2, RecoveryAssumption DEF LimitInv
<1> QED BY <1>0, <1>1, <1>2, <1>3, <1>4, <1>5, <1>6, <1>7, BoundedKinds

\* A pending recovery that is given up has left the window.
LEMMA GivenUpLate ==
  ASSUME TypeOK, JobInv, WindowAssumption, NEW p \in PendingRecovery,
         \/ job.at >= p.started + PendingMaxAge
         \/ \E failures : Expired(p, failures)
  PROVE  p.started + Window < now
<1>1. /\ p.started \in Nat /\ job.at \in Nat /\ now \in Nat /\ job.at <= now
      /\ PendingMaxAge \in Nat /\ OrphanMaxAge \in Nat /\ Window \in Nat
      /\ Window < PendingMaxAge /\ Window < OrphanMaxAge
  BY RecoveryAssumption
     DEF PendingRecovery, Times, TypeOK, JobType, JobInv, WindowAssumption
<1>2. job.at >= p.started + PendingMaxAge \/ job.at >= p.started + OrphanMaxAge
  BY DEF Expired
<1> QED BY <1>1, <1>2

\* A recovery turn that was pending stays so until it ends or leaves the window.
LEMMA AwaitedStep ==
  ASSUME TypeOK, JobInv, OutcomeInv, [Next]_vars, WindowAssumption, BoundInv
  PROVE  AwaitedInv'
<1>0. /\ AwaitedInv /\ late = {} /\ job \in JobType /\ mem \in RuntimeStates
      /\ TurnsKept /\ now \in Nat /\ Window \in Nat /\ now <= now' /\ now' \in Nat
      /\ ~Crash
  BY Numbers, TurnsStep, BoundedKinds DEF BoundInv
<1>a. mem.pending \in SUBSET PendingRecovery
  BY <1>0 DEF RuntimeStates
<1>b. ASSUME ~Deliver, Len(turns') \in InWindow', turns'[Len(turns')].status = "active"
      PROVE  /\ Len(turns') = Len(turns) /\ Len(turns) \in InWindow
             /\ turns[Len(turns)].status = "active"
             /\ turns'[Len(turns')].at = turns[Len(turns)].at
             /\ turns[Len(turns)].at \in Nat /\ turns[Len(turns)].at + Window >= now
             /\ turns[Len(turns)].at + Window >= now'
  <2>1. Len(turns') = Len(turns) /\ Len(turns) \in InWindow
    BY <1>0, <1>b, WindowShrinks
  <2>2. /\ turns'[Len(turns)].at = turns[Len(turns)].at
        /\ turns[Len(turns)].status = "active"
    BY <1>0, <1>b, <2>1, Latest DEF TurnsKept
  <2>3. turns[Len(turns)].at \in Nat /\ turns[Len(turns)].at + Window >= now
    BY <2>1, Windows
  <2>4. turns'[Len(turns)].at + Window >= now'
    BY <1>b, <2>1 DEF InWindow
  <2> QED BY <2>1, <2>2, <2>3, <2>4
<1>1. CASE Deliver
  <2>1. /\ mem' = mem /\ job'.pc = "delivered" /\ job'.at = job.at
        /\ job'.started = Len(turns') /\ turns'[Len(turns')].at = job.at
        /\ Len(turns') = Len(turns) + 1 /\ Len(turns) \in Nat
    BY <1>1, Delivered
  <2>2. \A p \in mem.pending : p.recovery < Len(turns')
    <3>1. \A p \in mem.pending : p.recovery \in 1..Len(turns)
      BY RecoveryAssumption DEF OutcomeInv, Counted, TypeOK, Turns
    <3> QED BY <2>1, <3>1
  <2> QED BY <2>1, <2>2 DEF AwaitedInv
<1>2. CASE Receipt
  <2>1. /\ job.pc = "delivered" /\ job.failed \in Turns /\ job.started \in Turns
        /\ ~Deliver /\ turns' = turns /\ job'.pc = "idle"
    BY <1>2, Latest, RecoveryAssumption
       DEF Receipt, JobInv, Deliver, EndPass, Idle, session, Turns
  <2>2. /\ mem'.pending = {p \in mem.pending : p.failed # job.failed} \cup {Begun}
        /\ Begun.recovery = job.started /\ Begun.started = job.at
    BY <1>2, <2>1, ReceiptKeeps DEF Begun
  <2>3. ASSUME Len(turns') \in InWindow', turns'[Len(turns')].status = "active"
        PROVE  \E p \in mem'.pending :
                 p.recovery = Len(turns') /\ p.started = turns'[Len(turns')].at
    <3>1. job.started = Len(turns)
      <4>1. CASE \E p \in mem.pending : p.recovery = Len(turns)
        <5>1. PICK p \in mem.pending : p.recovery = Len(turns)
          BY <4>1
        <5>2. Len(turns) < job.started
          BY <1>0, <2>1, <5>1 DEF AwaitedInv
        <5>3. job.started \in 1..Len(turns) /\ Len(turns) \in Nat
          BY <2>1, RecoveryAssumption DEF JobInv, TypeOK, Turns
        <5> QED BY <5>2, <5>3
      <4> QED BY <1>0, <1>b, <2>1, <2>3, <4>1 DEF AwaitedInv
    <3>2. turns[Len(turns)].at = job.at
      BY <1>0, <2>1, <3>1 DEF AwaitedInv
    <3> QED BY <2>1, <2>2, <3>1, <3>2
  <2> QED BY <2>1, <2>3 DEF AwaitedInv
<1>3. ASSUME NEW p \in job.todo, ObserveNothing(p) \/ ObserveOutcome(p) PROVE AwaitedInv'
  <2>1. /\ p \in mem.pending /\ p \in PendingRecovery /\ ~Deliver /\ turns' = turns
        /\ job.pc = "pending" /\ job'.pc = "pending" /\ now' = now
    BY <1>0, <1>3, <1>a DEF ObserveNothing, ObserveOutcome, JobInv, Deliver, session, JobType
  <2>2. ASSUME Len(turns') \in InWindow', turns'[Len(turns')].status = "active"
        PROVE  \E q \in mem'.pending :
                 q.recovery = Len(turns') /\ q.started = turns'[Len(turns')].at
    <3>1. PICK r \in mem.pending :
            r.recovery = Len(turns) /\ r.started = turns[Len(turns)].at
      BY <1>0, <1>b, <2>1, <2>2 DEF AwaitedInv
    <3>2. CASE r # p
      <4>1. r \in mem'.pending
        <5>1. CASE ObserveNothing(p)
          BY <1>0, <3>1, <3>2, <5>1 DEF ObserveNothing, RuntimeStates
        <5>2. CASE ObserveOutcome(p)
          BY <1>0, <3>1, <3>2, <5>2 DEF ObserveOutcome, RuntimeStates
        <5> QED BY <1>3, <5>1, <5>2
      <4> QED BY <2>1, <3>1, <4>1
    <3>3. CASE r = p
      <4>0. ~(p.started + Window < now)
        BY <1>0, <1>b, <2>1, <2>2, <3>1, <3>3
      <4>1. CASE ObserveNothing(p)
        <5> DEFINE q == [p EXCEPT !.failures =
                           IF @ < MaxObservationFailures THEN @ + 1 ELSE @]
        <5>1. q.recovery = p.recovery /\ q.started = p.started
          BY <2>1 DEF PendingRecovery
        <5>2. ~Expired(p, q.failures)
          BY <2>1, <4>0, GivenUpLate
        <5>3. q \in mem'.pending
          BY <1>0, <4>1, <5>2 DEF ObserveNothing, RuntimeStates
        <5> HIDE DEF q
        <5> QED BY <2>1, <3>1, <3>3, <5>1, <5>3
      <4>2. CASE ObserveOutcome(p)
        <5>1. ~(job.at >= p.started + PendingMaxAge)
          BY <2>1, <4>0, GivenUpLate
        <5>2. turns[p.recovery].status = "active"
          BY <2>1, <2>2, <3>1, <3>3
        <5>3. p \in mem'.pending
          BY <1>0, <2>1, <4>2, <5>1, <5>2 DEF ObserveOutcome, RuntimeStates
        <5> QED BY <2>1, <3>1, <3>3, <5>3
      <4> QED BY <1>3, <4>1, <4>2
    <3> QED BY <3>2, <3>3
  <2> QED BY <2>1, <2>2 DEF AwaitedInv
<1>4. ASSUME mem'.pending = mem.pending, ~Deliver,
             job.pc = "delivered" => job' = job \/ turns'[Len(turns)].status # "active",
             job'.pc = "delivered" => job' = job
      PROVE  AwaitedInv'
  <2>1. ASSUME job'.pc = "delivered"
        PROVE  turns'[job'.started].at = job'.at /\ \A p \in mem'.pending : p.recovery < job'.started
    <3>1. job' = job /\ job.started \in DOMAIN turns
      BY <1>4, <2>1 DEF JobInv
    <3> QED BY <1>0, <1>4, <2>1, <3>1 DEF AwaitedInv, TurnsKept
  <2>2. ASSUME Len(turns') \in InWindow', turns'[Len(turns')].status = "active"
        PROVE  \/ \E p \in mem'.pending :
                    p.recovery = Len(turns') /\ p.started = turns'[Len(turns')].at
               \/ job'.pc = "delivered" /\ job'.started = Len(turns')
    BY <1>0, <1>4, <1>b, <2>2 DEF AwaitedInv
  <2> QED BY <2>1, <2>2 DEF AwaitedInv
<1>5. ASSUME NEW watched \in BOOLEAN, NEW policy \in Policies, BeginPass(watched, policy)
      PROVE  AwaitedInv'
  <2>1. /\ mem'.pending = mem.pending /\ ~Deliver
        /\ job.pc = "idle" /\ job'.pc = "pending"
    BY <1>0, <1>5, Numbers, PruneKeeps DEF BeginPass, Deliver, Idle
  <2> QED BY <1>4, <2>1
<1>6. CASE mem'.pending = mem.pending /\ ~Deliver /\ ~Receipt
  <2>1. CASE Aside
    BY <1>4, <1>6, <2>1, AsideKeeps
  <2>2. CASE job.pc # "delivered" /\ job'.pc # "delivered"
    BY <1>4, <1>6, <2>2
  <2>3. CASE LetGo
    <3>1. job.pc # "delivered" /\ job'.pc = "idle"
      BY <1>6, <2>3, <1>0, BoundedKinds, LetGoKeeps
         DEF LetGo, PassOver, NoFailure, FailureSkipped, FailureWaits, Cancelled, GivenUp,
             SendFailed, RetryNow, Attempt, Idle
    <3> QED BY <2>2, <3>1
  <2>4. CASE FailureDue \/ RecheckSame \/ ((RetryNow \/ Attempt) /\ job' # Idle)
    BY <1>0, <2>2, <2>4 DEF FailureDue, RecheckSame, RetryNow, Attempt, Idle, JobType
  <2> QED BY <1>3, <1>5, <1>6, <2>1, <2>3, <2>4, StepKinds
<1> QED BY <1>0, <1>1, <1>2, <1>3, <1>5, <1>6, RecordsStep

\* At first there is no recovery and no attempt.
LEMMA BoundInit == Init => BoundInv
<1> SUFFICES ASSUME Init PROVE BoundInv
  OBVIOUS
<1>1. /\ late = {} /\ mem.attempts = <<>> /\ job.pc = "idle"
      /\ Len(turns) = 1 /\ turns[1].answers = 0
  BY DEF Init, EmptyState, Idle
<1>2. InWindow = {}
  <2> SUFFICES ASSUME NEW t \in Streak PROVE FALSE
    BY DEF InWindow
  <2>1. t \in DOMAIN turns /\ \A u \in t..Len(turns) : turns[u].answers # 0
    BY DEF Streak
  <2>2. DOMAIN turns = {1}
    BY DEF Init
  <2>3. 1 \in t..Len(turns)
    BY <1>1, <2>1, <2>2
  <2> QED BY <1>1, <2>1, <2>3
<1>3. Recorded(mem.attempts, Started)
  <2> DEFINE none == [t \in {} |-> 0]
  <2>1. none \in [{} -> Started]
    OBVIOUS
  <2> QED BY <1>2, <2>1 DEF Recorded
<1> QED BY <1>1, <1>2, <1>3 DEF BoundInv, OrderInv, Ordered, LimitInv, AwaitedInv

-----------------------------------------------------------------------------
(***************************************************************************)
(* The theorems.                                                           *)
(***************************************************************************)

\* The inductive invariant, and what it is together with the calls.
IInv ==
  /\ TypeOK /\ JobInv
  /\ Known(mem.observed) /\ Known(disk.observed)
  /\ OutcomeInv
  /\ SpaceInv
CInv == IInv /\ CallInv /\ ApartInv

\* Nothing has been seen at first.
LEMMA KnownInit == Init => Known(mem.observed) /\ Known(disk.observed)
  BY DEF Init, EmptyState, Known

\* The inductive invariant holds in every reachable state.
LEMMA Inductive == Spec => []IInv
<1>1. Init => IInv
  BY TypeInit, KnownInit, OutcomeInit, SpaceInit DEF IInv
<1>2. IInv /\ [Next]_vars => IInv'
  BY TypeStep, JobStep, KnownStep, OutcomeStep, SpaceStep DEF IInv
<1> QED BY <1>1, <1>2, PTL DEF Spec

\* So does the one about calls, unless marks may be lost.
LEMMA CallsInductive == ASSUME MarksPersist PROVE Spec => []CInv
<1>1. Init => CInv
  BY TypeInit, KnownInit, OutcomeInit, SpaceInit, CallInit DEF IInv, CInv
<1>2. CInv /\ [Next]_vars => CInv'
  BY TypeStep, JobStep, KnownStep, OutcomeStep, SpaceStep, CallStep, ApartStep DEF IInv, CInv
<1> QED BY <1>1, <1>2, PTL DEF Spec

\* The invariant together with the limit holds in every reachable state.
LEMMA BoundInductive == ASSUME WindowAssumption PROVE Spec => [](IInv /\ BoundInv)
<1>1. Init => IInv /\ BoundInv
  BY TypeInit, KnownInit, OutcomeInit, SpaceInit, BoundInit DEF IInv
<1>2. ASSUME IInv, BoundInv, [Next]_vars PROVE BoundInv'
  BY <1>2, RecordStep, OrderStep, LimitStep, AwaitedStep, BoundedKinds DEF IInv, BoundInv
<1>3. IInv /\ BoundInv /\ [Next]_vars => IInv' /\ BoundInv'
  BY <1>2, TypeStep, JobStep, KnownStep, OutcomeStep, SpaceStep DEF IInv
<1> QED BY <1>1, <1>3, PTL DEF Spec

\* The clock, the session, both copies of the state and the job have their types.
THEOREM TypeCorrect == Spec => []TypeOK
<1>1. IInv => TypeOK
  BY DEF IInv
<1> QED BY <1>1, Inductive, PTL

\* An outcome is counted once, for a recovery turn, and as the session says that the
\* turn ended (finish_recovery).
THEOREM OutcomesAreTruthful == Spec => []OutcomesTruthful
<1>1. IInv => OutcomesTruthful
  BY DEF IInv, OutcomeInv, Counted, OutcomesTruthful
<1> QED BY <1>1, Inductive, PTL

\* An automatic send keeps the initial delay from every call that is still in the
\* attempt window (record_attempt, recent_attempts and clear_attempts).
THEOREM AutomaticSendsAreSpaced == Spec => AutomaticSendsSpaced
<1> DEFINE Step == job.pc = "boundary" /\ job'.pc = "resume" /\ job.automatic
                   /\ latest # 0 /\ now <= latest + Window /\ now <= latest + PruneAge
                   => job.at >= latest + InitialDelay
<1>1. IInv => Step
  <2> SUFFICES ASSUME TypeOK, SpaceInv, job.pc = "boundary", job.automatic,
                      latest # 0, now <= latest + Window, now <= latest + PruneAge
               PROVE  job.at >= latest + InitialDelay
    BY DEF IInv
  <2>1. /\ now \in Nat /\ latest \in Nat /\ job.at \in Nat /\ Window \in Nat
        /\ PruneAge \in Nat /\ InitialDelay \in Nat
    BY RecoveryAssumption DEF TypeOK, JobType, Times
  <2>2. ~Away(latest, now)
    BY <2>1 DEF Away
  <2>3. latest + InitialDelay <= job.at
    BY <2>2 DEF SpaceInv
  <2> QED BY <2>1, <2>3
<1>2. IInv /\ [Next]_vars => [Step]_vars
  BY <1>1
<1> QED BY <1>2, Inductive, PTL DEF Spec, AutomaticSendsSpaced

\* Two automatic turns for the same failed turn are so far apart that its mark has
\* aged out in between (mark_handled, handled_action and prune).
THEOREM RecoveredOnce ==
  ASSUME MarksPersist PROVE Spec => []RecoveredAtMostOnce
<1>1. CInv => RecoveredAtMostOnce
  <2> SUFFICES ASSUME TypeOK, ApartInv, NEW t \in DOMAIN turns, NEW u \in DOMAIN turns,
                      turns[t].automatic, turns[u].automatic,
                      turns[t].answers = turns[u].answers, turns[t].at <= turns[u].at, t # u
               PROVE  turns[t].at + PruneAge < turns[u].at
    BY DEF CInv, IInv, RecoveredAtMostOnce
  <2>1. turns[t] \in TurnType /\ turns[u] \in TurnType
    BY DEF TypeOK
  <2>2. turns[t].at \in Nat /\ turns[u].at \in Nat /\ PruneAge \in Nat
    BY <2>1, RecoveryAssumption DEF TurnType, Times
  <2>3. Apart(turns[t].at, turns[u].at)
    BY DEF ApartInv, AutomaticTurns
  <2> QED BY <2>2, <2>3 DEF Apart
<1> QED BY <1>1, CallsInductive, PTL

\* A failed turn with a call whose acknowledgement was lost is not sent for again
\* automatically before its mark has aged out.
THEOREM UncertainIsNotResent ==
  ASSUME MarksPersist PROVE Spec => UncertainNeverResent
<1> DEFINE Step == job.pc = "boundary" /\ job'.pc = "resume" /\ job.automatic
                   => \A r \in unknown : r.failed = job.failed => r.at + PruneAge < job.at
<1>1. CInv => Step
  BY DEF CInv, CallInv, Calls
<1>2. CInv /\ [Next]_vars => [Step]_vars
  BY <1>1
<1> QED BY <1>2, CallsInductive, PTL DEF Spec, UncertainNeverResent

\* "Every retry is delayed and bounded" (README.md:250): when a recovery starts, no
\* more than max_attempts in a row are in the attempt window (recent_attempts,
\* record_attempt and clear_attempts), unless an acknowledgement is lost or the
\* process dies, or the window is as long as a pending recovery is waited for.
THEOREM RetriesAreBounded ==
  ASSUME WindowAssumption PROVE Spec => RetriesBounded
<1> DEFINE Step == Len(turns') > Len(turns) =>
             Cardinality({t \in Streak' : turns'[t].at + Window >= now}) <= MaxAttempts
<1>1. ASSUME IInv, BoundInv, [Next]_vars, BoundInv' PROVE Step
  <2>0. TypeOK /\ JobInv /\ late = {} /\ Len(turns) \in Nat
    BY <1>1, RecoveryAssumption DEF IInv, BoundInv, TypeOK, Turns
  <2> SUFFICES ASSUME Len(turns') > Len(turns)
               PROVE  Cardinality({t \in Streak' : turns'[t].at + Window >= now})
                        <= MaxAttempts
    OBVIOUS
  <2>1. CASE Deliver
    <3>1. now' = now /\ mem' = mem /\ job'.pc = "delivered" /\ job.pc = "resume"
      BY <2>0, <2>1, Delivered DEF Deliver
    <3>2. InWindow' = {t \in Streak' : turns'[t].at + Window >= now}
      BY <3>1 DEF InWindow
    <3>3. Len(mem.attempts) \in 1..MaxAttempts /\ mem.attempts \in Seq(Times)
      BY <1>1, <2>0, <3>1 DEF BoundInv, LimitInv, TypeOK, RuntimeStates
    <3>4. PICK place \in [InWindow' -> DOMAIN mem.attempts] :
            \A t, u \in InWindow' : place[t] = place[u] => t = u
      BY <1>1, <3>1 DEF BoundInv, Recorded, Started
    <3> DEFINE n == Len(mem.attempts)
               S == InWindow'
    <3>5. n \in Nat /\ n <= MaxAttempts /\ DOMAIN mem.attempts = 1..n
      BY <3>3, RecoveryAssumption
    <3>6. place \in Injection(S, 1..n)
      BY <3>4, <3>5 DEF Injection, IsInjective
    <3> HIDE DEF n, S
    <3>7. IsFiniteSet(1..n) /\ Cardinality(1..n) = n
      BY <3>5, FS_Interval
    <3>8. IsFiniteSet(S) /\ Cardinality(S) <= n
      BY <3>6, <3>7, FS_Injection
    <3>9. Cardinality(S) \in Nat
      BY <3>8, FS_CardinalityType
    <3> QED BY <3>2, <3>5, <3>8, <3>9, RecoveryAssumption DEF S
  <2>2. CASE UserTurn /\ ~Deliver
    <3>1. InWindow' = {} /\ now' = now
      BY <1>1, <2>0, <2>2, WindowShrinks DEF UserTurn
    <3>2. {t \in Streak' : turns'[t].at + Window >= now} = {}
      BY <3>1 DEF InWindow
    <3>3. Cardinality({}) = 0 /\ MaxAttempts \in Nat
      BY FS_EmptySet, RecoveryAssumption
    <3>4. Cardinality({t \in Streak' : turns'[t].at + Window >= now}) = 0
      BY <3>2, <3>3
    <3> QED BY <3>3, <3>4
  <2>3. CASE turns' = turns
    BY <2>0, <2>3
  <2>4. CASE \E status \in {"completed", "failed"} : TurnEnds(status)
    BY <2>0, <2>4, EndTyped
  <2> QED BY <1>1, <2>0, <2>1, <2>2, <2>3, <2>4, SessionStep
<1>2. (IInv /\ BoundInv) /\ [Next]_vars /\ (IInv /\ BoundInv)' => [Step]_vars
  BY <1>1
<1> QED BY <1>2, BoundInductive, PTL DEF Spec, RetriesBounded

=============================================================================
