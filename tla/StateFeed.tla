------------------------------ MODULE StateFeed ------------------------------
(***************************************************************************)
(* How a state a module pushes reaches the screen: StateSink::push         *)
(* (module.rs) into the bounded sink, the publisher of the hub             *)
(* (ipc/hub.rs) into the snapshots and the broadcast channel, the          *)
(* forwarder of a connection (ipc/server.rs) into its output queue, and    *)
(* the writer to the socket.  The reader of the connection subscribes and  *)
(* unsubscribes meanwhile, and sends snapshots into the same queue.        *)
(*                                                                         *)
(* One connection is enough: connections share nothing here but the        *)
(* snapshots, which they only read.  A state is the number of the push     *)
(* that made it, 0 meaning none.                                           *)
(***************************************************************************)
EXTENDS Naturals, Sequences

CONSTANTS Topics,
          SinkCapacity,       \* SINK_CAPACITY
          BroadcastCapacity,  \* BROADCAST_CAPACITY
          ClientQueue,        \* CLIENT_QUEUE
          MaxPushes           \* bound of the model: pushes per topic

ASSUME StateFeedAssumption ==
  /\ SinkCapacity \in Nat \ {0}
  /\ BroadcastCapacity \in Nat \ {0}
  /\ ClientQueue \in Nat \ {0}
  /\ MaxPushes \in Nat

VARIABLES
  pushed,    \* pushed[t]: the last state the module of t has pushed
  sink,      \* the states the publisher has not taken yet
  snapshot,  \* snapshot[t]: the hub's snapshot of t
  inbox,     \* the connection's unread part of the broadcast channel
  lagged,    \* the channel has overwritten events the connection had not read
  subs,      \* the subscription set of the connection
  reader,    \* the topic the reader is subscribing, and how far it got
  held,      \* the event the forwarder has received and not yet passed on
  resend,    \* the topics the forwarder has still to resend after a lag
  out,       \* the output queue of the connection
  closed,    \* the `closed` flag of the connection
  view       \* view[t]: what the client was last told of t

feedVars == <<pushed, sink, snapshot, inbox, lagged>>
connVars == <<subs, reader, held, resend, out, closed>>
vars     == <<feedVars, connVars, view>>

States == 0..MaxPushes
Events == [topic : Topics, state : States \ {0}]
Event(t, s) == [topic |-> t, state |-> s]

Idle == [pc |-> "idle"]

TypeOK ==
  /\ pushed \in [Topics -> States]
  /\ sink \in Seq(Events) /\ Len(sink) <= SinkCapacity
  /\ snapshot \in [Topics -> States]
  /\ inbox \in Seq(Events) /\ Len(inbox) <= BroadcastCapacity
  /\ lagged \in BOOLEAN
  /\ subs \in SUBSET Topics
  /\ reader \in {Idle} \cup [pc : {"insert", "snapshot"}, topic : Topics]
  /\ held \in Seq(Events) /\ Len(held) <= 1
  /\ resend \in SUBSET Topics
  /\ out \in Seq(Events) /\ Len(out) <= ClientQueue
  /\ closed \in BOOLEAN
  /\ view \in [Topics -> States]

Init ==
  /\ pushed = [t \in Topics |-> 0]
  /\ sink = << >>
  /\ snapshot = [t \in Topics |-> 0]
  /\ inbox = << >>
  /\ lagged = FALSE
  /\ subs = {}
  /\ reader = Idle
  /\ held = << >>
  /\ resend = {}
  /\ out = << >>
  /\ closed = FALSE
  /\ view = [t \in Topics |-> 0]

-----------------------------------------------------------------------------
(* Modules and the hub.                                                    *)

\* StateSink::push never waits: with a full sink the new state is dropped.
Push(t) ==
  /\ pushed[t] < MaxPushes
  /\ pushed' = [pushed EXCEPT ![t] = @ + 1]
  /\ sink' = IF Len(sink) < SinkCapacity
             THEN Append(sink, Event(t, pushed[t] + 1)) ELSE sink
  /\ UNCHANGED <<snapshot, inbox, lagged, connVars, view>>

\* Snapshot and event change together: there is no await between the two.  A full
\* broadcast channel overwrites the oldest event.
Publish ==
  /\ sink # << >>
  /\ sink' = Tail(sink)
  /\ LET e == Head(sink) IN
     /\ snapshot' = [snapshot EXCEPT ![e.topic] = e.state]
     /\ inbox' = Append(IF Len(inbox) < BroadcastCapacity THEN inbox ELSE Tail(inbox), e)
  /\ lagged' = (lagged \/ Len(inbox) = BroadcastCapacity)
  /\ UNCHANGED <<pushed, connVars, view>>

-----------------------------------------------------------------------------
(* The connection.                                                         *)

\* Mutant: a full queue loses the line and keeps the connection.
SendLossy(e) ==
  /\ out' = IF closed \/ Len(out) = ClientQueue THEN out ELSE Append(out, e)
  /\ UNCHANGED closed

\* ClientOut::send: a client whose queue is full is cut off.
Send(e) ==
  /\ out' = IF closed \/ Len(out) = ClientQueue THEN out ELSE Append(out, e)
  /\ closed' = (closed \/ Len(out) = ClientQueue)

Subscribe(t) ==
  /\ ~closed
  /\ reader = Idle
  /\ reader' = [pc |-> IF t \in subs THEN "snapshot" ELSE "insert", topic |-> t]
  /\ UNCHANGED <<feedVars, subs, held, resend, out, closed, view>>

SubscribeInsert ==
  /\ reader # Idle
  /\ reader.pc = "insert"
  /\ subs' = subs \cup {reader.topic}
  /\ reader' = [reader EXCEPT !.pc = "snapshot"]
  /\ UNCHANGED <<feedVars, held, resend, out, closed, view>>

SubscribeSnapshot ==
  /\ reader # Idle
  /\ reader.pc = "snapshot"
  /\ reader' = Idle
  /\ LET t == reader.topic IN
       IF snapshot[t] # 0 THEN Send(Event(t, snapshot[t])) ELSE UNCHANGED <<out, closed>>
  /\ UNCHANGED <<feedVars, subs, held, resend, view>>

Unsubscribe(t) ==
  /\ ~closed
  /\ reader = Idle
  /\ t \in subs
  /\ subs' = subs \ {t}
  /\ UNCHANGED <<feedVars, reader, held, resend, out, closed, view>>

ForwarderIdle == held = << >> /\ resend = {}

ForwardReceive ==
  /\ ~closed
  /\ ForwarderIdle
  /\ ~lagged
  /\ inbox # << >>
  /\ held' = << Head(inbox) >>
  /\ inbox' = Tail(inbox)
  /\ UNCHANGED <<pushed, sink, snapshot, lagged, subs, reader, resend, out, closed, view>>

\* The subscription set is looked up when the event is passed on.
ForwardPass ==
  /\ ~closed
  /\ held # << >>
  /\ held' = << >>
  /\ IF Head(held).topic \in subs THEN Send(Head(held)) ELSE UNCHANGED <<out, closed>>
  /\ UNCHANGED <<feedVars, subs, reader, resend, view>>

\* Mutant: a lag is noted and nothing is resent.
ForwardLagIgnored ==
  /\ ~closed
  /\ ForwarderIdle
  /\ lagged
  /\ lagged' = FALSE
  /\ UNCHANGED <<pushed, sink, snapshot, inbox, connVars, view>>

\* After an overwritten event the receiver goes on with the oldest one kept; the
\* forwarder first resends the snapshots of a copy of the subscription set.
ForwardLag ==
  /\ ~closed
  /\ ForwarderIdle
  /\ lagged
  /\ lagged' = FALSE
  /\ resend' = subs
  /\ UNCHANGED <<pushed, sink, snapshot, inbox, subs, reader, held, out, closed, view>>

ForwardResend ==
  /\ ~closed
  /\ \E t \in resend :
       /\ resend' = resend \ {t}
       /\ IF snapshot[t] # 0 THEN Send(Event(t, snapshot[t])) ELSE UNCHANGED <<out, closed>>
  /\ UNCHANGED <<feedVars, subs, reader, held, view>>

\* The writer puts the oldest line on the socket, where nothing overtakes it.
Write ==
  /\ ~closed
  /\ out # << >>
  /\ view' = [view EXCEPT ![Head(out).topic] = Head(out).state]
  /\ out' = Tail(out)
  /\ UNCHANGED <<feedVars, subs, reader, held, resend, closed>>

\* A client that was cut off connects again: a new receiver, nothing subscribed.
Reconnect ==
  /\ closed
  /\ reader = Idle
  /\ closed' = FALSE
  /\ inbox' = << >> /\ lagged' = FALSE
  /\ subs' = {} /\ held' = << >> /\ resend' = {} /\ out' = << >>
  /\ UNCHANGED <<pushed, sink, snapshot, reader, view>>

-----------------------------------------------------------------------------
Forward == ForwardReceive \/ ForwardPass \/ ForwardLag \/ ForwardResend
SubscribeStep == SubscribeInsert \/ SubscribeSnapshot

Next ==
  \/ \E t \in Topics : Push(t) \/ Subscribe(t) \/ Unsubscribe(t)
  \/ Publish \/ SubscribeStep \/ Forward \/ Write \/ Reconnect

Spec == Init /\ [][Next]_vars

\* The daemon's tasks are polled while they can run, and the client reads its
\* socket.  Nothing is assumed of the modules, of subscriptions or reconnections.
Fairness ==
  /\ WF_vars(Publish)
  /\ WF_vars(SubscribeStep)
  /\ WF_vars(Forward)
  /\ WF_vars(Write)

FairSpec == Spec /\ Fairness

-----------------------------------------------------------------------------
Mentions(t, s) == \E i \in DOMAIN s : s[i].topic = t

\* v is the last state of t in s.
LastIs(t, v, s) ==
  \E i \in DOMAIN s : s[i] = Event(t, v) /\ \A j \in DOMAIN s : j > i => s[j].topic # t

\* Once everything under way has arrived, v is what the client has been told of t.
WillShow(t, v) ==
  LET way == out \o held \o inbox
  IN  IF Mentions(t, way) THEN LastIs(t, v, way) ELSE view[t] = v

\* A client that is not cut off never ends up with an outdated state: for a topic
\* it is subscribed to, the hub's snapshot is the last thing on its way to it, or a
\* resend that will read the snapshot is still to come (server.rs:263-266 "egy modul
\* altal a subscribe kozben pusholt allapot sem veszhet el", 281-294).
LatestOnItsWay ==
  \A t \in subs :
    (~closed /\ snapshot[t] # 0 /\ reader # [pc |-> "snapshot", topic |-> t]) =>
      WillShow(t, snapshot[t]) \/ lagged \/ t \in resend

\* The buffers keep to their bounds, and the newest state is never lost on the way.
FeedInv == TypeOK /\ LatestOnItsWay

\* Whenever the hub and the client disagree about a subscribed topic they agree
\* again in the end, unless the subscription or the connection ends.
ClientCatchesUp ==
  \A t \in Topics :
    (t \in subs /\ snapshot[t] # 0) ~> (view[t] = snapshot[t] \/ t \notin subs \/ closed)

=============================================================================
