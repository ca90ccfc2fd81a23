--------------------------- MODULE Subscriptions ----------------------------
(***************************************************************************)
(* events.subscribe: how clients learn of a new revision.  Mutations and   *)
(* passes publish notifications on a channel that keeps the last few; each *)
(* subscriber reads them at its own pace and may fall behind the channel.  *)
(* A notification is not published under the lock that gave its revision,  *)
(* and not at all when the client that caused it is gone, so it may be     *)
(* late, out of order or missing; heartbeats carry the revision as well.   *)
(***************************************************************************)
EXTENDS Naturals, Sequences, FiniteSets, FiniteSetsExt

CONSTANTS
  Subscribers,  \* clients that subscribe
  Capacity,     \* what the channel keeps (256)
  Slots,        \* MAX_EVENT_SUBSCRIPTIONS
  MaxRevision   \* bound: revisions

VARIABLES
  revision,   \* the revision of the control state
  answers,    \* the revisions of mutations that are being answered
  pass,       \* the revision before the pass under way, 0 if there is none
  published,  \* the revisions of all notifications, in their order
  subscriber  \* the connection of each subscriber

vars == <<revision, answers, pass, published, subscriber>>

\* The channel is a queue with a fixed capacity, its slots are counted.
ChannelAssumption ==
  /\ Capacity \in Nat /\ Slots \in Nat /\ MaxRevision \in Nat \ {0}
  /\ IsFiniteSet(Subscribers)

\* state; next: the notification it reads next; since: the first one of its
\* subscription; told: the latest revision that it was told.
Away == [state |-> "away", next |-> 1, since |-> 1, told |-> 0]

Init ==
  /\ revision = 1
  /\ answers = {}
  /\ pass = 0
  /\ published = <<>>
  /\ subscriber = [s \in Subscribers |-> Away]

Oldest == IF Len(published) > Capacity THEN Len(published) - Capacity + 1 ELSE 1

Publish(r) == published' = Append(published, r)

-----------------------------------------------------------------------------
(* What publishes.                                                         *)

\* A mutation succeeds; its answer is written outside the control lock.
Mutate ==
  /\ revision < MaxRevision
  /\ revision' = revision + 1
  /\ answers' = answers \cup {revision + 1}
  /\ UNCHANGED <<pass, published, subscriber>>

\* The answer is written.
Answer(r) ==
  /\ answers' = answers \ {r}
  /\ Publish(r)
  /\ UNCHANGED <<revision, pass, subscriber>>

\* The client is gone: nobody is told.
AnswerFails(r) ==
  /\ answers' = answers \ {r}
  /\ UNCHANGED <<revision, pass, published, subscriber>>

\* A pass, which may reload the configuration.
BeginPass(reload) ==
  /\ pass = 0 /\ (reload => revision < MaxRevision)
  /\ pass' = revision
  /\ revision' = IF reload THEN revision + 1 ELSE revision
  /\ UNCHANGED <<answers, published, subscriber>>

\* The commit may change the watchlist; the notification is sent under the lock.
EndPass(changes) ==
  /\ pass # 0 /\ (changes => revision < MaxRevision)
  /\ revision' = IF changes THEN revision + 1 ELSE revision
  /\ IF revision' # pass THEN Publish(revision') ELSE UNCHANGED published
  /\ pass' = 0
  /\ UNCHANGED <<answers, subscriber>>

\* A pass that fails in the engine is silent about the reload.
FailPass ==
  /\ pass # 0
  /\ pass' = 0
  /\ UNCHANGED <<revision, answers, published, subscriber>>

-----------------------------------------------------------------------------
(* What subscribes.                                                        *)

To(s, entry) ==
  /\ subscriber' = [subscriber EXCEPT ![s] = entry]
  /\ UNCHANGED <<revision, answers, pass, published>>

Holding == {s \in Subscribers : subscriber[s].state \in {"connected", "lagged"}}

\* The revision of the answer is read before the channel is subscribed.
Request(s) ==
  /\ subscriber[s].state = "away"
  /\ To(s, [Away EXCEPT !.state = "request", !.told = revision])

Subscribe(s) ==
  /\ subscriber[s].state = "request" /\ Cardinality(Holding) < Slots
  /\ To(s, [subscriber[s] EXCEPT !.state = "connected", !.next = Len(published) + 1,
                                 !.since = Len(published) + 1])

Refuse(s) ==
  /\ subscriber[s].state = "request" /\ Cardinality(Holding) >= Slots
  /\ To(s, Away)

\* Every frame may find the client gone, and the client may go.
Disconnect(s) ==
  /\ subscriber[s].state # "away"
  /\ To(s, Away)

Tell(s, r, next) ==
  To(s, [subscriber[s] EXCEPT !.state = "connected", !.next = next, !.told = Max({@, r})])

Deliver(s) ==
  /\ subscriber[s].state = "connected"
  /\ subscriber[s].next \in Oldest .. Len(published)
  /\ Tell(s, published[subscriber[s].next], subscriber[s].next + 1)

\* Mutant: who has fallen behind goes on with the oldest that is kept.
LagSilently(s) ==
  /\ subscriber[s].state = "connected"
  /\ subscriber[s].next < Oldest
  /\ To(s, [subscriber[s] EXCEPT !.next = Oldest])
\* Lagged: the channel goes on with the oldest one that it keeps.
Lag(s) ==
  /\ subscriber[s].state = "connected"
  /\ subscriber[s].next < Oldest
  /\ To(s, [subscriber[s] EXCEPT !.state = "lagged", !.next = Oldest])

\* state.resync_required, with the revision at that moment.
Resync(s) ==
  /\ subscriber[s].state = "lagged"
  /\ Tell(s, revision, subscriber[s].next)

\* Mutant: the heartbeat has the revision of the last notification.
HeartbeatOfLast(s) ==
  /\ subscriber[s].state = "connected"
  /\ published # <<>>
  /\ Tell(s, published[Len(published)], subscriber[s].next)
\* service.heartbeat
Heartbeat(s) ==
  /\ subscriber[s].state = "connected"
  /\ Tell(s, revision, subscriber[s].next)

-----------------------------------------------------------------------------
Next ==
  \/ Mutate
  \/ \E r \in answers : Answer(r) \/ AnswerFails(r)
  \/ \E changes \in BOOLEAN : BeginPass(changes) \/ EndPass(changes)
  \/ FailPass
  \/ \E s \in Subscribers :
       \/ Request(s) \/ Subscribe(s) \/ Refuse(s) \/ Disconnect(s)
       \/ Deliver(s) \/ Lag(s) \/ Resync(s) \/ Heartbeat(s)

Spec == Init /\ [][Next]_vars

\* The task of a subscriber runs, and its select takes the heartbeat too.
Serve(s) == Resync(s) \/ Heartbeat(s)
FairSpec == Spec /\ \A s \in Subscribers : WF_vars(Serve(s))

-----------------------------------------------------------------------------
(* Properties.                                                             *)

\* Types of the connections; a subscriber is told no revision that the daemon
\* does not have, and no more of them are served than there are slots.
TypeOK ==
  /\ revision \in 1 .. MaxRevision /\ pass \in 0 .. revision
  /\ answers \subseteq 1 .. revision
  /\ published \in Seq(1 .. revision)
  /\ \A s \in Subscribers :
       /\ subscriber[s].state \in {"away", "request", "connected", "lagged"}
       /\ subscriber[s].told \in 0 .. revision
       /\ subscriber[s].next \in subscriber[s].since .. Len(published) + 1
       /\ subscriber[s].since >= 1
  /\ Cardinality(Holding) <= Slots

\* Nothing is skipped in silence: whatever was published since the subscription
\* and is not to come any more, the subscriber was told that revision or a later
\* one, also when the channel has dropped it and although notifications are not
\* published in the order of their revisions.
NothingSkipped ==
  \A s \in Subscribers :
    subscriber[s].state = "connected"
      => \A i \in subscriber[s].since .. subscriber[s].next - 1 :
           subscriber[s].told >= published[i]

\* Every revision reaches who stays, also one whose notification was never
\* published, was dropped by the channel, or was published between the two steps
\* of the subscription: the heartbeat or the resynchronisation brings it.
EventuallyTold ==
  \A s \in Subscribers, r \in 1 .. MaxRevision :
    subscriber[s].state = "connected" /\ revision = r
      ~> subscriber[s].state = "away" \/ subscriber[s].told >= r

=============================================================================
