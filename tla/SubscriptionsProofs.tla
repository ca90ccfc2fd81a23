------------------------ MODULE SubscriptionsProofs -------------------------
(***************************************************************************)
(* Proofs about Subscriptions, for any number of subscribers and slots and *)
(* any capacity of the channel: the subscribers that are served fit the    *)
(* slots, and none is left behind what it has read past, in silence.       *)
(***************************************************************************)
EXTENDS Subscriptions, FiniteSetTheorems, SequenceTheorems, TLAPS

Connections == [state : {"away", "request", "connected", "lagged"},
                next : Nat, since : Nat, told : Nat]

\* No notification and no client is ahead of the revision of the daemon.
ConnectionOK(c) ==
  /\ c.told <= revision
  /\ 1 <= c.since /\ c.since <= c.next /\ c.next <= Len(published) + 1

TypeInv ==
  /\ revision \in 1 .. MaxRevision /\ pass \in 0 .. revision
  /\ answers \subseteq 1 .. revision
  /\ published \in Seq(Nat)
  /\ \A i \in 1 .. Len(published) : published[i] \in 1 .. revision
  /\ subscriber \in [Subscribers -> Connections]
  /\ \A s \in Subscribers : ConnectionOK(subscriber[s])
  /\ Cardinality(Holding) <= Slots

\* A subscriber was told of what it has read past; one that lags is told next.
UpToDate(c) ==
  c.state = "connected" => \A i \in c.since .. c.next - 1 : c.told >= published[i]

IInv == TypeInv /\ \A s \in Subscribers : UpToDate(subscriber[s])

-----------------------------------------------------------------------------
(* Operators of the model.                                                 *)

\* The greater of two numbers: what a subscriber was told only grows.
LEMMA MaxOfTwo ==
  ASSUME NEW a \in Nat, NEW b \in Nat
  PROVE  /\ Max({a, b}) \in {a, b}
         /\ Max({a, b}) >= a /\ Max({a, b}) >= b
<1>1. \E x \in {a, b} : \A y \in {a, b} : x >= y
  OBVIOUS
<1> QED BY <1>1 DEF Max

\* The oldest notification that the channel keeps is one of those published, or
\* the one that comes next.
LEMMA OldestBounds ==
  ASSUME ChannelAssumption, TypeInv
  PROVE  Oldest \in Nat /\ 1 <= Oldest /\ Oldest <= Len(published) + 1
<1>1. Len(published) \in Nat
  BY DEF TypeInv
<1> QED BY <1>1 DEF Oldest, ChannelAssumption

\* A step that publishes at most one more notification, of a revision that
\* exists, and moves no subscriber keeps the invariant.
LEMMA PublishKeeps ==
  ASSUME IInv, ChannelAssumption,
         revision' \in 1 .. MaxRevision, revision' >= revision,
         pass' \in 0 .. revision', answers' \subseteq 1 .. revision',
         UNCHANGED subscriber,
         \/ UNCHANGED published
         \/ \E r \in 1 .. revision' : Publish(r)
  PROVE  IInv'
<1> USE DEF ChannelAssumption
<1>1. /\ published \in Seq(Nat) /\ revision \in Nat /\ revision' \in Nat
      /\ \A i \in 1 .. Len(published) : published[i] \in 1 .. revision
      /\ subscriber \in [Subscribers -> Connections]
      /\ \A s \in Subscribers : ConnectionOK(subscriber[s])
      /\ Cardinality(Holding) <= Slots
  BY DEF IInv, TypeInv
<1>2. /\ published' \in Seq(Nat)
      /\ Len(published') >= Len(published)
      /\ \A i \in 1 .. Len(published) : published'[i] = published[i]
      /\ \A i \in 1 .. Len(published') : published'[i] \in 1 .. revision'
  <2>1. CASE UNCHANGED published
    BY <1>1, <2>1
  <2>2. ASSUME NEW r \in 1 .. revision', Publish(r)
        PROVE  <1>2
    <3>1. published' = Append(published, r)
      BY <2>2 DEF Publish
    <3>2. /\ published' \in Seq(Nat) /\ Len(published') = Len(published) + 1
          /\ \A i \in 1 .. Len(published) : published'[i] = published[i]
          /\ published'[Len(published) + 1] = r
      BY <1>1, <3>1
    <3>3. \A i \in 1 .. Len(published') : published'[i] \in 1 .. revision'
      <4> SUFFICES ASSUME NEW i \in 1 .. Len(published')
                   PROVE  published'[i] \in 1 .. revision'
        OBVIOUS
      <4>1. CASE i = Len(published) + 1
        BY <3>2, <4>1
      <4>2. CASE i # Len(published) + 1
        <5>1. i \in 1 .. Len(published)
          BY <1>1, <3>2, <4>2
        <5>2. published'[i] \in 1 .. revision
          BY <1>1, <3>2, <5>1
        <5> QED BY <1>1, <5>2
      <4> QED BY <4>1, <4>2
    <3>4. Len(published') >= Len(published)
      BY <1>1, <3>2
    <3> QED BY <3>2, <3>3, <3>4
  <2> QED BY <2>1, <2>2
<1>3. \A s \in Subscribers : ConnectionOK(subscriber[s])' /\ UpToDate(subscriber[s])'
  <2> SUFFICES ASSUME NEW s \in Subscribers
               PROVE  ConnectionOK(subscriber[s])' /\ UpToDate(subscriber[s])'
    OBVIOUS
  <2>1. /\ subscriber'[s] = subscriber[s] /\ subscriber[s] \in Connections
        /\ ConnectionOK(subscriber[s]) /\ UpToDate(subscriber[s])
    BY <1>1 DEF IInv
  <2>2. /\ subscriber[s].told \in Nat /\ subscriber[s].next \in Nat
        /\ subscriber[s].since \in Nat
        /\ Len(published) \in Nat /\ Len(published') \in Nat
    BY <1>1, <1>2, <2>1 DEF Connections
  <2>3. ConnectionOK(subscriber[s])'
    BY <1>1, <1>2, <2>1, <2>2 DEF ConnectionOK
  <2>4. ASSUME NEW i \in subscriber[s].since .. subscriber[s].next - 1
        PROVE  published'[i] = published[i]
    <3>1. i \in 1 .. Len(published)
      BY <2>1, <2>2 DEF ConnectionOK
    <3> QED BY <1>2, <3>1
  <2>5. UpToDate(subscriber[s])'
    BY <2>1, <2>4 DEF UpToDate
  <2> QED BY <2>3, <2>5
<1>4. Holding' = Holding
  BY DEF Holding
<1> QED BY <1>1, <1>2, <1>3, <1>4 DEF IInv, TypeInv

\* A step of one subscriber keeps the invariant if its new connection is sound
\* and, when it is served from now on, a slot was free.
LEMMA ConnectionKeeps ==
  ASSUME IInv, ChannelAssumption, NEW s \in Subscribers, NEW c \in Connections,
         To(s, c), ConnectionOK(c), UpToDate(c),
         c.state \in {"connected", "lagged"} => s \in Holding \/ Cardinality(Holding) < Slots
  PROVE  IInv'
<1> USE DEF ChannelAssumption
<1>1. /\ UNCHANGED <<revision, answers, pass, published>>
      /\ subscriber' = [subscriber EXCEPT ![s] = c]
  BY DEF To
<1>2. subscriber \in [Subscribers -> Connections]
  BY DEF IInv, TypeInv
<1>3. /\ subscriber' \in [Subscribers -> Connections]
      /\ subscriber'[s] = c
      /\ \A t \in Subscribers \ {s} : subscriber'[t] = subscriber[t]
  BY <1>1, <1>2
<1>4. \A t \in Subscribers : ConnectionOK(subscriber[t])' /\ UpToDate(subscriber[t])'
  BY <1>1, <1>3 DEF IInv, TypeInv, ConnectionOK, UpToDate
<1>5. Cardinality(Holding') <= Slots
  <2>1. Holding \in SUBSET Subscribers /\ IsFiniteSet(Holding)
    BY FS_Subset DEF Holding
  <2>2. Cardinality(Holding) \in Nat /\ Cardinality(Holding) <= Slots
    BY <2>1, FS_CardinalityType DEF IInv, TypeInv
  <2>3. CASE s \in Holding \/ c.state \notin {"connected", "lagged"}
    <3>1. Holding' \in SUBSET Holding
      BY <1>3, <2>3 DEF Holding
    <3>2. Cardinality(Holding') <= Cardinality(Holding) /\ Cardinality(Holding') \in Nat
      BY <2>1, <3>1, FS_Subset, FS_CardinalityType
    <3> QED BY <2>2, <3>2
  <2>4. CASE s \notin Holding /\ c.state \in {"connected", "lagged"}
    <3>1. Holding' = Holding \cup {s}
      BY <1>3, <2>4 DEF Holding
    <3>2. Cardinality(Holding') = Cardinality(Holding) + 1
      BY <2>1, <2>4, <3>1, FS_AddElement
    <3> QED BY <2>2, <2>4, <3>2
  <2> QED BY <2>3, <2>4
<1> QED BY <1>1, <1>3, <1>4, <1>5 DEF IInv, TypeInv

\* Being told of a revision that exists leaves nothing unread behind, if that
\* covers all notifications up to the next one to be read.
LEMMA TellKeeps ==
  ASSUME IInv, ChannelAssumption, NEW s \in Subscribers, s \in Holding,
         NEW r \in 1 .. revision, NEW next \in Nat,
         Tell(s, r, next),
         subscriber[s].since <= next, next <= Len(published) + 1,
         \A i \in subscriber[s].since .. next - 1 :
            r >= published[i] \/ subscriber[s].told >= published[i]
  PROVE  IInv'
<1> DEFINE told == Max({subscriber[s].told, r})
           c == [subscriber[s] EXCEPT !.state = "connected", !.next = next, !.told = told]
<1>1. /\ subscriber[s] \in Connections /\ ConnectionOK(subscriber[s])
      /\ revision \in Nat
      /\ published \in Seq(Nat)
  BY DEF IInv, TypeInv, ChannelAssumption
<1>2. /\ told \in Nat /\ told <= revision
      /\ told >= r /\ told >= subscriber[s].told
  <2>1. subscriber[s].told \in Nat /\ subscriber[s].told <= revision
    BY <1>1 DEF Connections, ConnectionOK
  <2>2. /\ told \in {subscriber[s].told, r}
        /\ told >= subscriber[s].told /\ told >= r
    BY <1>1, <2>1, MaxOfTwo
  <2> QED BY <1>1, <2>1, <2>2
<1>3. To(s, c)
  BY <1>1 DEF Tell, Connections
<1> HIDE DEF told
<1>4. /\ c \in Connections /\ c.state = "connected" /\ c.next = next
      /\ c.since = subscriber[s].since /\ c.told = told
  BY <1>1, <1>2 DEF Connections
<1> HIDE DEF c
<1>5. ConnectionOK(c)
  BY <1>1, <1>2, <1>4 DEF ConnectionOK
<1>6. UpToDate(c)
  <2> SUFFICES ASSUME NEW i \in c.since .. c.next - 1
               PROVE  c.told >= published[i]
    BY DEF UpToDate
  <2>1. i \in 1 .. Len(published) /\ i \in subscriber[s].since .. next - 1
    BY <1>1, <1>4 DEF Connections, ConnectionOK
  <2>2. published[i] \in Nat /\ subscriber[s].told \in Nat
    BY <1>1, <2>1 DEF Connections
  <2> QED BY <1>2, <1>4, <2>1, <2>2
<1> QED BY <1>3, <1>4, <1>5, <1>6, ConnectionKeeps

-----------------------------------------------------------------------------
(* The invariant.                                                          *)

\* Nobody is connected in the beginning.
LEMMA InitInv ==
  ASSUME ChannelAssumption, Init
  PROVE  IInv
<1>1. Away \in Connections /\ Away.state = "away" /\ Away.told = 0
      /\ Away.next = 1 /\ Away.since = 1
  BY DEF Away, Connections
<1>2. /\ \A s \in Subscribers : subscriber[s] = Away
      /\ subscriber \in [Subscribers -> Connections]
  BY <1>1 DEF Init
<1>3. published \in Seq(Nat) /\ Len(published) = 0 /\ revision = 1
  BY DEF Init
<1>4. Cardinality(Holding) <= Slots
  <2>1. Holding = {}
    BY <1>1, <1>2 DEF Holding
  <2> QED BY <2>1, FS_EmptySet DEF ChannelAssumption
<1>5. \A s \in Subscribers : ConnectionOK(subscriber[s]) /\ UpToDate(subscriber[s])
  BY <1>1, <1>2, <1>3 DEF ConnectionOK, UpToDate
<1> QED BY <1>2, <1>3, <1>4, <1>5 DEF Init, IInv, TypeInv, ChannelAssumption

\* Mutations, their answers and passes: whatever is published has a revision
\* that exists.
LEMMA PublishersKeepInv ==
  ASSUME ChannelAssumption, IInv,
         \/ Mutate
         \/ \E r \in answers : Answer(r) \/ AnswerFails(r)
         \/ \E changes \in BOOLEAN : BeginPass(changes) \/ EndPass(changes)
         \/ FailPass
  PROVE  IInv'
<1>1. /\ revision \in 1 .. MaxRevision /\ MaxRevision \in Nat
      /\ pass \in 0 .. revision /\ answers \subseteq 1 .. revision
  BY DEF ChannelAssumption, IInv, TypeInv
<1>2. CASE Mutate
  BY <1>1, <1>2, PublishKeeps DEF Mutate
<1>3. ASSUME NEW r \in answers, Answer(r)
      PROVE  IInv'
  <2>1. r \in 1 .. revision' /\ UNCHANGED <<revision, pass, subscriber>> /\ Publish(r)
        /\ answers' \subseteq 1 .. revision'
    BY <1>1, <1>3 DEF Answer
  <2> QED BY <1>1, <2>1, PublishKeeps
<1>4. ASSUME NEW r \in answers, AnswerFails(r)
      PROVE  IInv'
  BY <1>1, <1>4, PublishKeeps DEF AnswerFails
<1>5. ASSUME NEW reload \in BOOLEAN, BeginPass(reload)
      PROVE  IInv'
  <2>1. revision' \in 1 .. MaxRevision /\ revision' >= revision
    BY <1>1, <1>5 DEF BeginPass
  <2> QED BY <1>1, <1>5, <2>1, PublishKeeps DEF BeginPass
<1>6. ASSUME NEW changes \in BOOLEAN, EndPass(changes)
      PROVE  IInv'
  <2>1. revision' \in 1 .. MaxRevision /\ revision' >= revision
    BY <1>1, <1>6 DEF EndPass
  <2>2. UNCHANGED published \/ Publish(revision')
    BY <1>6 DEF EndPass
  <2>3. pass' \in 0 .. revision' /\ answers' \subseteq 1 .. revision' /\ UNCHANGED subscriber
    BY <1>1, <1>6, <2>1 DEF EndPass
  <2>4. UNCHANGED published \/ \E r \in 1 .. revision' : Publish(r)
    <3>1. revision' \in 1 .. revision'
      BY <2>1
    <3> QED BY <2>2, <3>1
  <2> QED BY <2>1, <2>3, <2>4, PublishKeeps
<1>7. CASE FailPass
  BY <1>1, <1>7, PublishKeeps DEF FailPass
<1> QED BY <1>2, <1>3, <1>4, <1>5, <1>6, <1>7

\* A subscription begins and ends.
LEMMA ConnectingKeepsInv ==
  ASSUME ChannelAssumption, IInv, NEW s \in Subscribers,
         Request(s) \/ Subscribe(s) \/ Refuse(s) \/ Disconnect(s)
  PROVE  IInv'
<1>1. /\ subscriber[s] \in Connections /\ ConnectionOK(subscriber[s])
      /\ revision \in Nat /\ published \in Seq(Nat) /\ Len(published) \in Nat
  BY DEF IInv, TypeInv, ChannelAssumption
<1>2. /\ Away \in Connections /\ ConnectionOK(Away)
      /\ Away.state = "away" /\ Away.next = 1 /\ Away.since = 1
  BY <1>1 DEF Away, Connections, ConnectionOK
<1>3. CASE Request(s)
  <2> DEFINE c == [Away EXCEPT !.state = "request", !.told = revision]
  <2>1. To(s, c)
    BY <1>3 DEF Request
  <2>2. /\ c \in Connections /\ c.state = "request" /\ c.told = revision
        /\ c.next = 1 /\ c.since = 1
    BY <1>1 DEF Away, Connections
  <2> HIDE DEF c
  <2>3. ConnectionOK(c)
    BY <1>1, <2>2 DEF ConnectionOK
  <2> QED BY <2>1, <2>2, <2>3, ConnectionKeeps DEF UpToDate
<1>4. CASE Subscribe(s)
  <2> DEFINE end == Len(published) + 1
             c == [subscriber[s] EXCEPT !.state = "connected", !.next = end, !.since = end]
  <2>1. To(s, c) /\ Cardinality(Holding) < Slots
    BY <1>4 DEF Subscribe
  <2>2. /\ c \in Connections /\ c.told = subscriber[s].told
        /\ c.next = end /\ c.since = end
    <3>1. end \in Nat
      BY <1>1
    <3> HIDE DEF end
    <3> QED BY <1>1, <3>1 DEF Connections
  <2> HIDE DEF c
  <2>3. ConnectionOK(c) /\ UpToDate(c)
    BY <1>1, <2>2 DEF ConnectionOK, UpToDate
  <2> QED BY <2>1, <2>2, <2>3, ConnectionKeeps
<1>5. CASE Refuse(s) \/ Disconnect(s)
  <2>1. To(s, Away)
    BY <1>5 DEF Refuse, Disconnect
  <2> QED BY <1>2, <2>1, ConnectionKeeps DEF UpToDate
<1> QED BY <1>3, <1>4, <1>5

\* What a subscriber that is served reads and is told.
LEMMA ServingKeepsInv ==
  ASSUME ChannelAssumption, IInv, NEW s \in Subscribers,
         Deliver(s) \/ Lag(s) \/ Resync(s) \/ Heartbeat(s)
  PROVE  IInv'
<1> DEFINE c == subscriber[s]
<1>1. /\ c \in Connections /\ ConnectionOK(c) /\ UpToDate(c)
      /\ revision \in 1 .. revision
      /\ published \in Seq(Nat) /\ Len(published) \in Nat
      /\ \A i \in 1 .. Len(published) : published[i] \in 1 .. revision
  BY DEF IInv, TypeInv, ChannelAssumption
<1>2. /\ c.next \in Nat /\ c.since \in Nat /\ c.told \in Nat
      /\ 1 <= c.since /\ c.since <= c.next /\ c.next <= Len(published) + 1
  BY <1>1 DEF Connections, ConnectionOK
<1>3. c.state \in {"connected", "lagged"} => s \in Holding
  BY DEF Holding
<1>4. Oldest \in Nat /\ 1 <= Oldest /\ Oldest <= Len(published) + 1
  BY OldestBounds DEF IInv
<1>5. CASE Deliver(s)
  <2>1. /\ c.state = "connected" /\ c.next \in Oldest .. Len(published)
        /\ Tell(s, published[c.next], c.next + 1)
    BY <1>5 DEF Deliver
  <2>2. c.next \in 1 .. Len(published) /\ published[c.next] \in 1 .. revision
    BY <1>1, <1>2, <1>4, <2>1
  <2>3. \A i \in c.since .. (c.next + 1) - 1 :
           published[c.next] >= published[i] \/ c.told >= published[i]
    <3>1. published[c.next] \in Nat
      BY <1>1, <2>2
    <3>2. \A i \in c.since .. c.next - 1 : c.told >= published[i]
      BY <1>1, <2>1 DEF UpToDate
    <3> QED BY <1>2, <3>1, <3>2
  <2>4. c.since <= c.next + 1 /\ c.next + 1 <= Len(published) + 1 /\ c.next + 1 \in Nat
    <3> HIDE DEF c
    <3> QED BY <1>2, <2>2
  <2> QED BY <1>3, <2>1, <2>2, <2>3, <2>4, TellKeeps
<1>6. CASE Lag(s)
  <2> DEFINE d == [c EXCEPT !.state = "lagged", !.next = Oldest]
  <2>1. To(s, d) /\ c.next < Oldest /\ s \in Holding
    BY <1>3, <1>6 DEF Lag
  <2>2. /\ d \in Connections /\ d.told = c.told /\ d.state = "lagged"
        /\ d.next = Oldest /\ d.since = c.since
    BY <1>1, <1>4 DEF Connections
  <2>3. ConnectionOK(d)
    BY <1>1, <1>2, <1>4, <2>1, <2>2 DEF ConnectionOK
  <2> HIDE DEF d
  <2> QED BY <2>1, <2>2, <2>3, ConnectionKeeps DEF UpToDate
<1>7. CASE Resync(s) \/ Heartbeat(s)
  <2>1. c.state \in {"connected", "lagged"} /\ Tell(s, revision, c.next)
    BY <1>7 DEF Resync, Heartbeat
  <2>2. \A i \in c.since .. c.next - 1 : revision >= published[i]
    <3>1. \A i \in c.since .. c.next - 1 : i \in 1 .. Len(published)
      BY <1>1, <1>2
    <3> QED BY <1>1, <3>1
  <2> QED BY <1>1, <1>2, <1>3, <2>1, <2>2, TellKeeps
<1> QED BY <1>5, <1>6, <1>7

\* Every step keeps the invariant.
LEMMA NextInv ==
  ASSUME ChannelAssumption, IInv, [Next]_vars
  PROVE  IInv'
<1>1. CASE UNCHANGED vars
  BY <1>1 DEF vars, IInv, TypeInv, ConnectionOK, UpToDate, Holding
<1>2. CASE Next
  BY <1>2, PublishersKeepInv, ConnectingKeepsInv, ServingKeepsInv DEF Next
<1> QED BY <1>1, <1>2

\* The invariant holds in every behaviour.
LEMMA Invariance ==
  ASSUME ChannelAssumption
  PROVE  Spec => []IInv
<1>1. Init => IInv
  BY InitInv
<1>2. IInv /\ [Next]_vars => IInv'
  BY NextInv
<1> QED BY <1>1, <1>2, PTL DEF Spec

-----------------------------------------------------------------------------
(* The theorems.                                                           *)

\* events.subscribe: connections are well typed, nobody is told of a revision that
\* the daemon does not have, and no more clients are served than there are slots.
THEOREM TypeCorrect ==
  ASSUME ChannelAssumption
  PROVE  Spec => []TypeOK
<1>1. IInv => TypeOK
  <2> SUFFICES ASSUME IInv PROVE TypeOK
    OBVIOUS
  <2>1. published \in Seq(1 .. revision)
    <3>1. /\ published \in Seq(Nat)
          /\ \A i \in 1 .. Len(published) : published[i] \in 1 .. revision
      BY DEF IInv, TypeInv
    <3>2. published \in [1 .. Len(published) -> 1 .. revision] /\ Len(published) \in Nat
      BY <3>1
    <3> QED BY <3>2, SeqDef
  <2>2. ASSUME NEW s \in Subscribers
        PROVE  /\ subscriber[s].state \in {"away", "request", "connected", "lagged"}
               /\ subscriber[s].told \in 0 .. revision
               /\ subscriber[s].next \in subscriber[s].since .. Len(published) + 1
               /\ subscriber[s].since >= 1
    BY <2>1 DEF IInv, TypeInv, ConnectionOK, Connections
  <2> QED BY <2>1, <2>2 DEF IInv, TypeInv, TypeOK
<1> QED BY <1>1, Invariance, PTL

\* Lag and resynchronisation, late, reordered and missing notifications: whatever
\* was published since the subscription and was read past, or dropped by the channel,
\* the subscriber was told that revision or a later one.
THEOREM NobodyIsSkipped ==
  ASSUME ChannelAssumption
  PROVE  Spec => []NothingSkipped
<1>1. IInv => NothingSkipped
  BY DEF IInv, UpToDate, NothingSkipped
<1> QED BY <1>1, Invariance, PTL

=============================================================================
