----------------------------- MODULE RealtimeHub -----------------------------
(***************************************************************************)
(* The event hubs of several API processes: a publisher offers its event to  *)
(* every stream of its process and then gives it to Redis, whose listener in  *)
(* each other process offers it to the streams there.  A stream has a        *)
(* buffer; nobody ever waits for a stream, so a full buffer loses events      *)
(* (hub.go, eventsStream in httpapi/server.go).  Broadcasts of one process    *)
(* run at the same time, without a lock.                                     *)
(*                                                                          *)
(* An event is a number, in the order of publication.  Redis gives what it    *)
(* has been told to all subscribers in one order, or loses it.  The client    *)
(* repeats a PUBLISH that gets no answer, which Redis may have executed or    *)
(* may still execute.  Left out: what an event says, keepalives,              *)
(* reconnecting.                                                             *)
(***************************************************************************)
EXTENDS Integers, Sequences, SequencesExt

CONSTANTS
    Procs, Publishers, Streams,
    Home,        \* the process of a publisher or a stream
    Owner,       \* the user whose document a publisher's events are about
    Sees,        \* the users whose events a stream may show (eventVisible)
    Buffer,      \* 256 in eventsStream
    MaxEvents,   \* bound: events published in all
    MaxLost      \* bound: PUBLISHes without an answer in all (MaxRetries for each event)

Threads == Publishers \union Procs   \* the listener of a process has its name
Events == 1..MaxEvents
Idle == 0

ASSUME HubAssumption ==
    /\ Publishers \intersect Procs = {}
    /\ Home \in [Publishers \union Streams -> Procs]
    /\ Buffer \in Nat \ {0} /\ MaxEvents \in Nat /\ MaxLost \in Nat

VARIABLES
    subs,        \* Hub.subs of all processes
    closed,      \* streams that have ended
    chan, seen,  \* of a stream: its buffer, what it has written to the client
    by,          \* the publishers of the events so far
    event,       \* of a thread: what it broadcasts
    todo,        \* the streams it has not yet dealt with
    sending,     \* where sendLatest is: the stream, and the number of the select
    wire,        \* of a process: what Redis has not yet delivered
    unanswered,  \* PUBLISHes without an answer that Redis has not executed: event and number
    unsure,      \* events that had such a PUBLISH
    lost,        \* the number of such PUBLISHes
    owed         \* streams something was sent to since they last received

streams == <<subs, closed, chan, seen>>
thread == <<event, todo, sending>>
redis == <<wire, unanswered, unsure, lost>>
hubVars == <<streams, by, thread, redis, owed>>

None == <<>>
HomeOf(t) == IF t \in Procs THEN t ELSE Home[t]
StreamsAt(p) == {s \in Streams : Home[s] = p}
SendingTo(s) == {t \in Threads : sending[t] # None /\ sending[t][1] = s}

HubTypeOK ==
    /\ subs \subseteq Streams /\ closed \subseteq Streams \ subs
    /\ chan \in [Streams -> Seq(Events)] /\ seen \in [Streams -> Seq(Events)]
    /\ \A s \in Streams : Len(chan[s]) <= Buffer
    /\ by \in Seq(Publishers) /\ Len(by) <= MaxEvents
    /\ event \in [Threads -> Events \union {Idle}]
    /\ \A t \in Threads : /\ todo[t] \subseteq StreamsAt(HomeOf(t))
                          /\ sending[t] \in {None} \union (Streams \X {2, 3})
                          /\ event[t] = Idle => todo[t] = {} /\ sending[t] = None
    /\ wire \in [Procs -> Seq(Events)]
    /\ unsure \subseteq Events /\ lost \in 0..MaxLost
    /\ unanswered \subseteq unsure \X (1..lost)
    /\ owed \subseteq Streams

HubInit ==
    /\ subs = {} /\ closed = {}
    /\ chan = [s \in Streams |-> <<>>] /\ seen = [s \in Streams |-> <<>>]
    /\ by = <<>>
    /\ event = [t \in Threads |-> Idle]
    /\ todo = [t \in Threads |-> {}] /\ sending = [t \in Threads |-> None]
    /\ wire = [p \in Procs |-> <<>>]
    /\ unanswered = {} /\ unsure = {} /\ lost = 0
    /\ owed = {}

-----------------------------------------------------------------------------
(* Streams *)

Subscribe(s) ==
    /\ s \notin subs \union closed
    /\ subs' = subs \union {s}
    /\ UNCHANGED <<closed, chan, seen, by, thread, redis, owed>>

\* The channel is not closed: a broadcast may still send to it.
Unsubscribe(s) ==
    /\ s \in subs
    /\ subs' = subs \ {s}
    /\ closed' = closed \union {s}
    /\ UNCHANGED <<chan, seen, by, thread, redis, owed>>

Visible(s, e) == Owner[by[e]] \in Sees[s]

\* What the stream may not show has taken its place in the buffer all the same.
Receive(s) ==
    /\ s \in subs /\ chan[s] # <<>>
    /\ chan' = [chan EXCEPT ![s] = Tail(@)]
    /\ seen' = IF Visible(s, Head(chan[s])) THEN [seen EXCEPT ![s] = Append(@, Head(chan[s]))]
                                           ELSE seen
    /\ owed' = owed \ {s}
    /\ UNCHANGED <<subs, closed, by, thread, redis>>

-----------------------------------------------------------------------------
(* Broadcasts *)

\* broadcast copies the table of streams under its lock.
Broadcast(t, e) ==
    /\ event' = [event EXCEPT ![t] = e]
    /\ todo' = [todo EXCEPT ![t] = subs \intersect StreamsAt(HomeOf(t))]

Publish(t) ==
    /\ event[t] = Idle /\ Len(by) < MaxEvents
    /\ by' = Append(by, t)
    /\ Broadcast(t, Len(by) + 1)
    /\ UNCHANGED <<streams, sending, redis, owed>>

HasRoom(s) == Len(chan[s]) < Buffer
Put(t, s) == chan' = [chan EXCEPT ![s] = Append(@, event[t])]

Sent(t, s) ==
    /\ sending' = [sending EXCEPT ![t] = None]
    /\ owed' = owed \union {s}

Select(t, s) == UNCHANGED <<subs, closed, seen, by, event, redis>>

\* The first select of sendLatest.
TrySend_Waits(t, s) ==
    /\ s \in todo[t] /\ sending[t] = None /\ HasRoom(s) /\ Select(t, s)
    /\ todo' = [todo EXCEPT ![t] = @ \ {s}]
    /\ Put(t, s) /\ Sent(t, s)

TrySend(t, s) ==
    /\ s \in todo[t] /\ sending[t] = None /\ Select(t, s)
    /\ todo' = [todo EXCEPT ![t] = @ \ {s}]
    /\ IF HasRoom(s) THEN Put(t, s) /\ Sent(t, s)
                     ELSE sending' = [sending EXCEPT ![t] = <<s, 2>>] /\ UNCHANGED <<chan, owed>>

DropOldest_Done(t, s) ==
    /\ sending[t] = <<s, 2>> /\ Select(t, s)
    /\ chan' = IF chan[s] = <<>> THEN chan ELSE [chan EXCEPT ![s] = Tail(@)]
    /\ Sent(t, s)
    /\ UNCHANGED todo

\* The second select makes room, unless the stream or another thread just has.
DropOldest(t, s) ==
    /\ sending[t] = <<s, 2>> /\ Select(t, s)
    /\ chan' = IF chan[s] = <<>> THEN chan ELSE [chan EXCEPT ![s] = Tail(@)]
    /\ sending' = [sending EXCEPT ![t] = <<s, 3>>]
    /\ UNCHANGED <<todo, owed>>

\* The third gives up when another thread has taken the room.
SendOrLose(t, s) ==
    /\ sending[t] = <<s, 3>> /\ Select(t, s)
    /\ IF HasRoom(s) THEN Put(t, s) ELSE UNCHANGED chan
    /\ Sent(t, s)
    /\ UNCHANGED todo

Broadcasted(t) == event[t] # Idle /\ todo[t] = {} /\ sending[t] = None

OnAllWires(e) == wire' = [p \in Procs |-> Append(wire[p], e)]

\* Redis answers that it has the event.  Or there is no Redis, or the publisher gives up.
Finish(t) ==
    /\ Broadcasted(t)
    /\ event' = [event EXCEPT ![t] = Idle]
    /\ \/ t \in Publishers /\ OnAllWires(event[t])
       \/ UNCHANGED wire
    /\ UNCHANGED <<streams, by, todo, sending, unanswered, unsure, lost, owed>>

\* A PUBLISH gets no answer: the client tries again, or the publisher gives up.
LoseReply(t) ==
    /\ t \in Publishers /\ Broadcasted(t) /\ lost < MaxLost
    /\ lost' = lost + 1
    /\ unanswered' = unanswered \union {<<event[t], lost + 1>>}
    /\ unsure' = unsure \union {event[t]}
    /\ UNCHANGED <<streams, by, thread, wire, owed>>

\* It has reached Redis, before the client tried again or after.
Execute(c) ==
    /\ c \in unanswered
    /\ unanswered' = unanswered \ {c}
    /\ OnAllWires(c[1])
    /\ UNCHANGED <<streams, by, thread, unsure, lost, owed>>

Consume_All(p) ==
    /\ event[p] = Idle /\ wire[p] # <<>>
    /\ wire' = [wire EXCEPT ![p] = Tail(@)]
    /\ Broadcast(p, Head(wire[p]))
    /\ UNCHANGED <<streams, by, sending, unanswered, unsure, lost, owed>>

\* The listener skips what its own hub has published.
Consume(p) ==
    /\ event[p] = Idle /\ wire[p] # <<>>
    /\ wire' = [wire EXCEPT ![p] = Tail(@)]
    /\ IF Home[by[Head(wire[p])]] = p THEN UNCHANGED <<event, todo>>
                                      ELSE Broadcast(p, Head(wire[p]))
    /\ UNCHANGED <<streams, by, sending, unanswered, unsure, lost, owed>>

\* The subscription drops; what was on its way is lost.
Dropped(p) ==
    /\ wire[p] # <<>>
    /\ wire' = [wire EXCEPT ![p] = <<>>]
    /\ UNCHANGED <<streams, by, thread, unanswered, unsure, lost, owed>>

BroadcastStep(t) ==
    \/ \E s \in Streams : TrySend(t, s) \/ DropOldest(t, s) \/ SendOrLose(t, s)
    \/ Finish(t)

HubNext ==
    \/ \E s \in Streams : Subscribe(s) \/ Unsubscribe(s) \/ Receive(s)
    \/ \E t \in Publishers : Publish(t) \/ LoseReply(t)
    \/ \E c \in unanswered : Execute(c)
    \/ \E t \in Threads : BroadcastStep(t)
    \/ \E p \in Procs : Consume(p) \/ Dropped(p)

HubSpec == HubInit /\ [][HubNext]_hubVars

\* Goroutines run; no stream need ever receive.
FairHubSpec == HubSpec /\ \A t \in Threads : WF_hubVars(BroadcastStep(t))

-----------------------------------------------------------------------------
(* Properties *)

\* A stream gets the events of its own process without Redis.  Of the others count those
\* that never had a PUBLISH without an answer.
Counted(s) == {e \in 1..Len(by) : Home[by[e]] = Home[s] \/ e \notin unsure}

\* A client sees the events of one publisher at most once and in their order, although they
\* reach a process both directly and through Redis (hub.go:145-160).  Events of another
\* process whose PUBLISH got no answer are excepted: redisx/client.go:87 has it repeated, and
\* nothing recognises the copy.  They disturb no other event.
SeenInOrder ==
    \A s \in Streams : \A i, j \in DOMAIN seen[s] :
        i < j /\ {seen[s][i], seen[s][j]} \subseteq Counted(s) /\ by[seen[s][i]] = by[seen[s][j]]
            => seen[s][i] < seen[s][j]

\* What does not hold for the excepted ones: that a client sees an event once.
SeenOnce ==
    \A s \in Streams : \A i, j \in DOMAIN seen[s] : seen[s][i] = seen[s][j] => i = j

\* A stream that was sent something after it last received is not left with an empty
\* buffer: broadcasts that race for a full buffer never make each other lose everything
\* (hub.go:61-76).
NeverSilenced == \A s \in owed : SendingTo(s) = {} => chan[s] # <<>>

\* Publishing ends even if no stream ever receives: "broadcast" must not hold up the
\* request or the worker that publishes (hub.go:61-76, 164-174).
PublishingEnds == \A t \in Threads : event[t] # Idle ~> event[t] = Idle

\* TestBroadcastKeepsLatestWhenSubscriberIsSlow: a stream that receives nothing has "the
\* latest event" of its process in its buffer, once the broadcasts have ended
\* (hub_test.go:8-24).
LocalEvents(s) == {e \in 1..Len(by) : Home[by[e]] = Home[s]}
Delivered(s) == ToSet(chan[s] \o seen[s])

KeepsLatest ==
    \A s \in owed \intersect subs :
        SendingTo(s) = {} /\ (\A t \in Threads : s \notin todo[t])
            => \E e \in LocalEvents(s) : e \in Delivered(s) /\ \A f \in LocalEvents(s) : f <= e
=============================================================================
