--------------------------- MODULE StateFeedProofs ---------------------------
(***************************************************************************)
(* What holds of StateFeed for every set of topics, every capacity and any *)
(* number of pushes.                                                       *)
(*                                                                         *)
(* A reader that has just subscribed puts the snapshot in front of what    *)
(* the forwarder holds and of what is unread in the broadcast channel, and *)
(* a resend does the same: neither can be overtaken by something older     *)
(* because the last event of a topic in the channel is the snapshot        *)
(* (InboxFresh), because what the forwarder holds is as new unless a newer *)
(* one follows it or was overwritten (HeldFresh), and because it holds     *)
(* nothing while it resends (ResendFirst).                                 *)
(***************************************************************************)
EXTENDS StateFeed, TLAPS

\* The newest unread event of a topic is what a new subscriber is told.
InboxFresh == \A t \in Topics : Mentions(t, inbox) => LastIs(t, snapshot[t], inbox)

\* So is the event the forwarder holds, when no other of its topic comes after it.
HeldFresh ==
  \A t \in Topics :
    ~lagged /\ Mentions(t, held) /\ ~Mentions(t, inbox) => LastIs(t, snapshot[t], held)

\* Everything is resent before the next event is received.
ResendFirst == resend # {} => held = << >>

IInv == FeedInv /\ InboxFresh /\ HeldFresh /\ ResendFirst

-----------------------------------------------------------------------------
(* The last event of a topic in a sequence.                                *)

\* An empty sequence mentions nothing.
LEMMA EmptyFacts ==
  ASSUME NEW t
  PROVE  ~Mentions(t, << >>)
BY DEF Mentions

\* After an Append the new event is the last one of its topic.
LEMMA AppendFacts ==
  ASSUME NEW S, NEW s \in Seq(S), NEW e \in S, NEW t, NEW v
  PROVE  /\ Mentions(t, Append(s, e)) <=> Mentions(t, s) \/ e.topic = t
         /\ e.topic = t => (LastIs(t, v, Append(s, e)) <=> e = Event(t, v))
         /\ e.topic # t => (LastIs(t, v, Append(s, e)) <=> LastIs(t, v, s))
<1>. DEFINE r == Append(s, e)
            n == Len(s) + 1
<1>1. /\ Len(s) \in Nat /\ DOMAIN r = 1..n /\ DOMAIN s = 1..Len(s)
      /\ \A i \in 1..Len(s) : r[i] = s[i]
      /\ r[n] = e
  OBVIOUS
<1>2. Event(t, v).topic = t
  BY DEF Event
<1>. HIDE DEF r
<1>3. Mentions(t, r) <=> Mentions(t, s) \/ e.topic = t
  BY <1>1 DEF Mentions
<1>4. e.topic = t => (LastIs(t, v, r) <=> e = Event(t, v))
  BY <1>1, <1>2 DEF LastIs
<1>5. e.topic # t => (LastIs(t, v, r) <=> LastIs(t, v, s))
  BY <1>1, <1>2 DEF LastIs
<1>. QED  BY <1>3, <1>4, <1>5 DEF r

\* The head of a sequence counts only while nothing of its topic follows.
LEMMA TailFacts ==
  ASSUME NEW S, NEW s \in Seq(S), s # << >>, NEW t, NEW v
  PROVE  /\ Head(s) \in S /\ Tail(s) \in Seq(S) /\ Len(Tail(s)) = Len(s) - 1
         /\ Mentions(t, s) <=> Head(s).topic = t \/ Mentions(t, Tail(s))
         /\ Mentions(t, Tail(s)) => (LastIs(t, v, s) <=> LastIs(t, v, Tail(s)))
         /\ ~Mentions(t, Tail(s)) => (LastIs(t, v, s) <=> Head(s) = Event(t, v))
<1>. DEFINE r == Tail(s)
<1>1. /\ Head(s) \in S /\ r \in Seq(S)
      /\ Len(s) \in Nat \ {0} /\ Len(r) = Len(s) - 1
      /\ DOMAIN s = 1..Len(s) /\ DOMAIN r = 1..(Len(s) - 1)
      /\ \A i \in 1..(Len(s) - 1) : r[i] = s[i + 1]
      /\ Head(s) = s[1]
  OBVIOUS
<1>2. Event(t, v).topic = t
  BY DEF Event
<1>. HIDE DEF r
<1>3. \A i \in 2..Len(s) : i - 1 \in DOMAIN r /\ r[i - 1] = s[i]
  BY <1>1
<1>4. Mentions(t, s) <=> Head(s).topic = t \/ Mentions(t, r)
  <2>1. \A i \in DOMAIN r : i + 1 \in DOMAIN s
    BY <1>1
  <2>2. Mentions(t, r) => Mentions(t, s)
    BY <1>1, <2>1 DEF Mentions
  <2>3. Head(s).topic = t => Mentions(t, s)
    BY <1>1 DEF Mentions
  <2>4. \A i \in DOMAIN s : i = 1 \/ i \in 2..Len(s)
    BY <1>1
  <2>5. Mentions(t, s) => Head(s).topic = t \/ Mentions(t, r)
    BY <1>1, <1>3, <2>4 DEF Mentions
  <2>. QED  BY <2>2, <2>3, <2>5
<1>5. LastIs(t, v, r) => LastIs(t, v, s)
  <2>. SUFFICES ASSUME NEW i \in DOMAIN r, r[i] = Event(t, v),
                       \A j \in DOMAIN r : j > i => r[j].topic # t
                PROVE  LastIs(t, v, s)
    BY DEF LastIs
  <2>1. i + 1 \in DOMAIN s /\ s[i + 1] = Event(t, v)
    BY <1>1
  <2>2. ASSUME NEW j \in DOMAIN s, j > i + 1
        PROVE  s[j].topic # t
    <3>1. j - 1 \in DOMAIN r /\ r[j - 1] = s[j] /\ j - 1 > i
      BY <1>1, <1>3, <2>2
    <3>. QED  BY <3>1
  <2>. QED  BY <2>1, <2>2 DEF LastIs
<1>6. ASSUME LastIs(t, v, s), Mentions(t, r)
      PROVE  LastIs(t, v, r)
  <2>1. PICK i \in DOMAIN s : s[i] = Event(t, v) /\ \A j \in DOMAIN s : j > i => s[j].topic # t
    BY <1>6 DEF LastIs
  <2>2. PICK k \in DOMAIN r : r[k].topic = t
    BY <1>6 DEF Mentions
  <2>3. k + 1 \in DOMAIN s /\ s[k + 1].topic = t
    BY <1>1, <2>2
  <2>4. i \in 2..Len(s)
    BY <1>1, <2>1, <2>3
  <2>5. i - 1 \in DOMAIN r /\ r[i - 1] = Event(t, v)
    BY <1>3, <2>1, <2>4
  <2>6. \A j \in DOMAIN r : j > i - 1 => r[j].topic # t
    BY <1>1, <2>1, <2>4
  <2>. QED  BY <2>5, <2>6 DEF LastIs
<1>7. ASSUME ~Mentions(t, r)
      PROVE  LastIs(t, v, s) <=> Head(s) = Event(t, v)
  <2>1. \A i \in 2..Len(s) : s[i].topic # t
    BY <1>3, <1>7 DEF Mentions
  <2>. QED  BY <1>1, <1>2, <2>1 DEF LastIs
<1>. QED  BY <1>1, <1>4, <1>5, <1>6, <1>7 DEF r

\* Of two sequences, one after the other, the later one decides if it mentions the topic.
LEMMA ConcatFacts ==
  ASSUME NEW S, NEW a \in Seq(S), NEW b \in Seq(S), NEW t, NEW v
  PROVE  /\ Mentions(t, a \o b) <=> Mentions(t, a) \/ Mentions(t, b)
         /\ Mentions(t, b) => (LastIs(t, v, a \o b) <=> LastIs(t, v, b))
         /\ ~Mentions(t, b) => (LastIs(t, v, a \o b) <=> LastIs(t, v, a))
<1>. DEFINE c == a \o b
            m == Len(a)
            n == Len(b)
<1>1. /\ m \in Nat /\ n \in Nat
      /\ DOMAIN a = 1..m /\ DOMAIN b = 1..n /\ DOMAIN c = 1..(m + n)
      /\ \A i \in 1..m : c[i] = a[i]
      /\ \A i \in 1..n : c[m + i] = b[i]
  OBVIOUS
<1>2. Event(t, v).topic = t
  BY DEF Event
<1>. HIDE DEF c, m, n
<1>3. \A i \in 1..(m + n) : i \in 1..m \/ (i - m \in 1..n /\ c[i] = b[i - m])
  <2>. SUFFICES ASSUME NEW i \in 1..(m + n), i \notin 1..m
                PROVE  i - m \in 1..n /\ c[i] = b[i - m]
    OBVIOUS
  <2>1. i - m \in 1..n /\ m + (i - m) = i
    BY <1>1
  <2>. QED  BY <1>1, <2>1
<1>4. \A i \in 1..n : m + i \in 1..(m + n)
  BY <1>1
<1>5. Mentions(t, c) <=> Mentions(t, a) \/ Mentions(t, b)
  <2>1. Mentions(t, c) => Mentions(t, a) \/ Mentions(t, b)
    BY <1>1, <1>3 DEF Mentions
  <2>2. Mentions(t, a) => Mentions(t, c)
    BY <1>1 DEF Mentions
  <2>3. Mentions(t, b) => Mentions(t, c)
    BY <1>1, <1>4 DEF Mentions
  <2>. QED  BY <2>1, <2>2, <2>3
<1>6. LastIs(t, v, b) => LastIs(t, v, c)
  <2>. SUFFICES ASSUME NEW i \in 1..n, b[i] = Event(t, v),
                       \A j \in 1..n : j > i => b[j].topic # t
                PROVE  LastIs(t, v, c)
    BY <1>1 DEF LastIs
  <2>1. m + i \in DOMAIN c /\ c[m + i] = Event(t, v)
    BY <1>1, <1>4
  <2>2. \A j \in DOMAIN c : j > m + i => c[j].topic # t
    BY <1>1, <1>3
  <2>. QED  BY <2>1, <2>2 DEF LastIs
<1>7. ASSUME LastIs(t, v, c), Mentions(t, b)
      PROVE  LastIs(t, v, b)
  <2>1. PICK i \in 1..(m + n) : c[i] = Event(t, v) /\ \A j \in 1..(m + n) : j > i => c[j].topic # t
    BY <1>1, <1>7 DEF LastIs
  <2>2. PICK k \in 1..n : b[k].topic = t
    BY <1>1, <1>7 DEF Mentions
  <2>3. m + k \in 1..(m + n) /\ c[m + k].topic = t
    BY <1>1, <1>4, <2>2
  <2>4. i \notin 1..m
    BY <1>1, <2>1, <2>3
  <2>5. i - m \in 1..n /\ b[i - m] = Event(t, v)
    BY <1>3, <2>1, <2>4
  <2>6. \A j \in 1..n : j > i - m => b[j].topic # t
    <3>. SUFFICES ASSUME NEW j \in 1..n, j > i - m PROVE b[j].topic # t
      OBVIOUS
    <3>1. m + j > i /\ m + j \in 1..(m + n) /\ c[m + j] = b[j]
      BY <1>1, <1>4
    <3>. QED  BY <2>1, <3>1
  <2>. QED  BY <1>1, <2>5, <2>6 DEF LastIs
<1>8. ASSUME ~Mentions(t, b)
      PROVE  LastIs(t, v, c) <=> LastIs(t, v, a)
  <2>1. \A i \in 1..(m + n) : i \notin 1..m => c[i].topic # t
    BY <1>1, <1>3, <1>8 DEF Mentions
  <2>2. LastIs(t, v, c) => LastIs(t, v, a)
    BY <1>1, <1>2, <2>1 DEF LastIs
  <2>3. LastIs(t, v, a) => LastIs(t, v, c)
    BY <1>1, <2>1 DEF LastIs
  <2>. QED  BY <2>2, <2>3
<1>. QED  BY <1>5, <1>6, <1>7, <1>8 DEF c

-----------------------------------------------------------------------------
(* Types, and what is on its way to the client.                            *)

\* The typing of the parts the steps below compute with.
LEMMA TypeParts ==
  TypeOK => /\ pushed \in [Topics -> States] /\ snapshot \in [Topics -> States]
            /\ sink \in Seq(Events) /\ inbox \in Seq(Events) /\ held \in Seq(Events)
            /\ out \in Seq(Events) /\ Len(out) <= ClientQueue /\ Len(held) <= 1
            /\ Len(sink) <= SinkCapacity /\ Len(inbox) <= BroadcastCapacity
            /\ lagged \in BOOLEAN /\ closed \in BOOLEAN
            /\ subs \in SUBSET Topics /\ resend \in SUBSET Topics
            /\ reader \in {Idle} \cup [pc : {"insert", "snapshot"}, topic : Topics]
            /\ view \in [Topics -> States]
BY DEF TypeOK

\* A reader that is subscribing has a topic, and is in one of two places.
LEMMA ReaderParts ==
  ASSUME TypeOK, reader # Idle
  PROVE  reader \in [pc : {"insert", "snapshot"}, topic : Topics] /\ reader.topic \in Topics
<1>1. reader \in [pc : {"insert", "snapshot"}, topic : Topics]
  BY TypeParts
<1>. QED  BY <1>1

\* An event is a topic and a state, and is known by the two.
LEMMA EventFacts ==
  /\ \A e \in Events : e.topic \in Topics /\ e.state \in States /\ e = Event(e.topic, e.state)
  /\ \A t, v : Event(t, v).topic = t /\ Event(t, v).state = v
  /\ \A t \in Topics : \A v \in States \ {0} : Event(t, v) \in Events
<1>1. \A e \in Events : e.topic \in Topics /\ e.state \in States /\ e = Event(e.topic, e.state)
  BY DEF Events, Event
<1>2. \A t, v : Event(t, v).topic = t /\ Event(t, v).state = v
  BY DEF Event
<1>3. \A t \in Topics : \A v \in States \ {0} : Event(t, v) \in Events
  BY DEF Events, Event
<1>. QED  BY <1>1, <1>2, <1>3

\* What the client will be shown is decided by the youngest buffer that mentions the topic.
YoungestDecides ==
  \A t, v :
    WillShow(t, v) <=>
      IF Mentions(t, inbox) THEN LastIs(t, v, inbox)
      ELSE IF Mentions(t, held) THEN LastIs(t, v, held)
      ELSE IF Mentions(t, out) THEN LastIs(t, v, out)
      ELSE view[t] = v

\* The order of the three buffers on the way to the socket.
LEMMA Way == TypeOK => YoungestDecides
<1>. SUFFICES ASSUME TypeOK, NEW t, NEW v
              PROVE  WillShow(t, v) <=>
                       IF Mentions(t, inbox) THEN LastIs(t, v, inbox)
                       ELSE IF Mentions(t, held) THEN LastIs(t, v, held)
                       ELSE IF Mentions(t, out) THEN LastIs(t, v, out)
                       ELSE view[t] = v
  BY DEF YoungestDecides
<1>1. out \in Seq(Events) /\ held \in Seq(Events) /\ inbox \in Seq(Events)
  BY TypeParts
<1>2. out \o held \in Seq(Events)
  BY <1>1
<1>3. /\ Mentions(t, out \o held) <=> Mentions(t, out) \/ Mentions(t, held)
      /\ Mentions(t, held) => (LastIs(t, v, out \o held) <=> LastIs(t, v, held))
      /\ ~Mentions(t, held) => (LastIs(t, v, out \o held) <=> LastIs(t, v, out))
  BY <1>1, ConcatFacts
<1>4. /\ Mentions(t, (out \o held) \o inbox) <=> Mentions(t, out \o held) \/ Mentions(t, inbox)
      /\ Mentions(t, inbox) =>
           (LastIs(t, v, (out \o held) \o inbox) <=> LastIs(t, v, inbox))
      /\ ~Mentions(t, inbox) =>
           (LastIs(t, v, (out \o held) \o inbox) <=> LastIs(t, v, out \o held))
  BY <1>1, <1>2, ConcatFacts
<1>5. WillShow(t, v) <=> IF Mentions(t, (out \o held) \o inbox)
                         THEN LastIs(t, v, (out \o held) \o inbox) ELSE view[t] = v
  BY DEF WillShow
<1>. QED  BY <1>3, <1>4, <1>5

\* The forwarder holds one event or none.
LEMMA HeldFacts ==
  ASSUME TypeOK, held # << >>
  PROVE  /\ Head(held) \in Events
         /\ \A t, v : /\ Mentions(t, held) <=> Head(held).topic = t
                      /\ LastIs(t, v, held) <=> Head(held) = Event(t, v)
<1>0. held \in Seq(Events) /\ Len(held) <= 1
  BY TypeParts
<1>n. Len(held) \in Nat \ {0}
  BY <1>0
<1>m. \A n \in Nat \ {0} : n <= 1 => n = 1
  OBVIOUS
<1>1. held \in Seq(Events) /\ Len(held) = 1
  BY <1>0, <1>n, <1>m
<1>2. DOMAIN held = {1} /\ held[1] = Head(held) /\ Head(held) \in Events
  BY <1>1
<1>3. \A t, v : Event(t, v).topic = t
  BY EventFacts
<1>. QED  BY <1>2, <1>3 DEF Mentions, LastIs

\* Send cuts a client off or queues its event, the youngest one then.
LEMMA SendResult ==
  ASSUME TypeOK, NEW e \in Events, Send(e)
  PROVE  /\ out' \in Seq(Events) /\ Len(out') <= ClientQueue
         /\ closed' \in BOOLEAN
         /\ \/ closed'
            \/ /\ ~closed' /\ ~closed
               /\ \A t, v : /\ Mentions(t, out') <=> Mentions(t, out) \/ e.topic = t
                            /\ e.topic = t => (LastIs(t, v, out') <=> e = Event(t, v))
                            /\ e.topic # t => (LastIs(t, v, out') <=> LastIs(t, v, out))
<1>1. out \in Seq(Events) /\ Len(out) <= ClientQueue /\ closed \in BOOLEAN
  BY TypeParts
<1>2. CASE closed \/ Len(out) = ClientQueue
  BY <1>1, <1>2 DEF Send
<1>3. CASE ~closed /\ Len(out) # ClientQueue
  <2>1. out' = Append(out, e) /\ ~closed'
    BY <1>3 DEF Send
  <2>2. out' \in Seq(Events) /\ Len(out') = Len(out) + 1
    BY <1>1, <2>1
  <2>3. Len(out') <= ClientQueue
    BY <1>1, <1>3, <2>2, StateFeedAssumption
  <2>4. \A t, v : /\ Mentions(t, out') <=> Mentions(t, out) \/ e.topic = t
                  /\ e.topic = t => (LastIs(t, v, out') <=> e = Event(t, v))
                  /\ e.topic # t => (LastIs(t, v, out') <=> LastIs(t, v, out))
    BY <1>1, <2>1, AppendFacts
  <2>5. closed' \in BOOLEAN
    BY <1>1, <1>3 DEF Send
  <2>. QED  BY <1>3, <2>1, <2>2, <2>3, <2>4, <2>5
<1>. QED  BY <1>2, <1>3

\* The snapshot of a topic, once there is one, can be sent.
LEMMA SnapshotIsEvent ==
  ASSUME TypeOK, NEW t \in Topics, snapshot[t] # 0
  PROVE  Event(t, snapshot[t]) \in Events
BY TypeParts, EventFacts

\* Types are kept by every step.
LEMMA TypeStep == TypeOK /\ [Next]_vars => TypeOK'
<1>. SUFFICES ASSUME TypeOK, [Next]_vars
              PROVE  TypeOK'
  OBVIOUS
<1>t. /\ pushed \in [Topics -> States] /\ snapshot \in [Topics -> States]
      /\ sink \in Seq(Events) /\ inbox \in Seq(Events) /\ held \in Seq(Events)
      /\ out \in Seq(Events) /\ Len(out) <= ClientQueue /\ Len(held) <= 1
      /\ Len(sink) <= SinkCapacity /\ Len(inbox) <= BroadcastCapacity
      /\ lagged \in BOOLEAN /\ closed \in BOOLEAN
      /\ subs \in SUBSET Topics /\ resend \in SUBSET Topics
      /\ reader \in {Idle} \cup [pc : {"insert", "snapshot"}, topic : Topics]
      /\ view \in [Topics -> States]
  BY TypeParts
<1>a. SinkCapacity \in Nat \ {0} /\ BroadcastCapacity \in Nat \ {0} /\ ClientQueue \in Nat \ {0}
      /\ MaxPushes \in Nat
  BY StateFeedAssumption
<1>1. ASSUME NEW t \in Topics, Push(t)
      PROVE  TypeOK'
  <2>1. pushed[t] + 1 \in States \ {0}
    BY <1>1, <1>t, <1>a DEF Push, States
  <2>2. Event(t, pushed[t] + 1) \in Events
    BY <2>1, EventFacts
  <2>3. sink' \in Seq(Events) /\ Len(sink') <= SinkCapacity
    BY <1>1, <1>t, <1>a, <2>2 DEF Push
  <2>4. pushed' \in [Topics -> States]
    BY <1>1, <1>t, <2>1 DEF Push
  <2>. QED  BY <1>1, <1>t, <2>3, <2>4 DEF Push, TypeOK, connVars
<1>2. CASE Publish
  <2>1. Head(sink) \in Events /\ sink' \in Seq(Events) /\ Len(sink') <= SinkCapacity
    BY <1>2, <1>t, <1>a DEF Publish
  <2>2. snapshot' \in [Topics -> States]
    BY <1>2, <1>t, <2>1, EventFacts DEF Publish
  <2>3. inbox' \in Seq(Events) /\ Len(inbox') <= BroadcastCapacity
    <3>1. CASE Len(inbox) < BroadcastCapacity
      <4>1. inbox' = Append(inbox, Head(sink))
        BY <1>2, <3>1 DEF Publish
      <4>. QED  BY <1>t, <1>a, <2>1, <3>1, <4>1
    <3>2. CASE ~(Len(inbox) < BroadcastCapacity)
      <4>1. inbox' = Append(Tail(inbox), Head(sink))
        BY <1>2, <3>2 DEF Publish
      <4>2. Tail(inbox) \in Seq(Events) /\ Len(Tail(inbox)) = Len(inbox) - 1
        BY <1>t, <1>a, <3>2
      <4>. QED  BY <1>t, <1>a, <2>1, <4>1, <4>2
    <3>. QED  BY <3>1, <3>2
  <2>4. lagged' \in BOOLEAN
    BY <1>2, <1>t DEF Publish
  <2>. QED  BY <1>2, <1>t, <2>1, <2>2, <2>3, <2>4 DEF Publish, TypeOK, connVars
<1>3. ASSUME NEW t \in Topics, Subscribe(t)
      PROVE  TypeOK'
  <2>1. reader' \in [pc : {"insert", "snapshot"}, topic : Topics]
    BY <1>3 DEF Subscribe
  <2>. QED  BY <1>3, <1>t, <2>1 DEF Subscribe, TypeOK, feedVars
<1>4. ASSUME NEW t \in Topics, Unsubscribe(t)
      PROVE  TypeOK'
  BY <1>4, <1>t DEF Unsubscribe, TypeOK, feedVars
<1>5. CASE SubscribeInsert
  <2>1. reader \in [pc : {"insert", "snapshot"}, topic : Topics] /\ reader.topic \in Topics
    BY <1>5, ReaderParts DEF SubscribeInsert
  <2>2. reader' \in [pc : {"insert", "snapshot"}, topic : Topics]
    BY <1>5, <2>1 DEF SubscribeInsert
  <2>3. subs' \in SUBSET Topics
    BY <1>5, <1>t, <2>1 DEF SubscribeInsert
  <2>. QED  BY <1>5, <1>t, <2>2, <2>3 DEF SubscribeInsert, TypeOK, feedVars
<1>6. CASE SubscribeSnapshot
  <2>1. reader.topic \in Topics
    BY <1>6, ReaderParts DEF SubscribeSnapshot
  <2>2. out' \in Seq(Events) /\ Len(out') <= ClientQueue /\ closed' \in BOOLEAN
    <3>1. CASE snapshot[reader.topic] # 0
      BY <1>6, <2>1, <3>1, SnapshotIsEvent, SendResult DEF SubscribeSnapshot
    <3>2. CASE snapshot[reader.topic] = 0
      BY <1>6, <1>t, <3>2 DEF SubscribeSnapshot
    <3>. QED  BY <3>1, <3>2
  <2>. QED  BY <1>6, <1>t, <2>2 DEF SubscribeSnapshot, TypeOK, feedVars
<1>7. CASE ForwardReceive
  <2>1. Head(inbox) \in Events /\ inbox' \in Seq(Events) /\ Len(inbox') <= BroadcastCapacity
    BY <1>7, <1>t, <1>a DEF ForwardReceive
  <2>2. held' \in Seq(Events) /\ Len(held') <= 1
    BY <1>7, <2>1 DEF ForwardReceive
  <2>. QED  BY <1>7, <1>t, <2>1, <2>2 DEF ForwardReceive, TypeOK
<1>8. CASE ForwardPass
  <2>1. Head(held) \in Events
    BY <1>8, HeldFacts DEF ForwardPass
  <2>2. out' \in Seq(Events) /\ Len(out') <= ClientQueue /\ closed' \in BOOLEAN
    <3>1. CASE Head(held).topic \in subs
      BY <1>8, <2>1, <3>1, SendResult DEF ForwardPass
    <3>2. CASE Head(held).topic \notin subs
      BY <1>8, <1>t, <3>2 DEF ForwardPass
    <3>. QED  BY <3>1, <3>2
  <2>3. held' \in Seq(Events) /\ Len(held') <= 1
    BY <1>8 DEF ForwardPass
  <2>. QED  BY <1>8, <1>t, <2>2, <2>3 DEF ForwardPass, TypeOK, feedVars
<1>9. CASE ForwardLag
  BY <1>9, <1>t DEF ForwardLag, TypeOK
<1>10. CASE ForwardResend
  <2>1. PICK t \in resend :
          /\ resend' = resend \ {t}
          /\ IF snapshot[t] # 0 THEN Send(Event(t, snapshot[t])) ELSE UNCHANGED <<out, closed>>
    BY <1>10 DEF ForwardResend
  <2>2. t \in Topics /\ resend' \in SUBSET Topics
    BY <1>t, <2>1
  <2>3. out' \in Seq(Events) /\ Len(out') <= ClientQueue /\ closed' \in BOOLEAN
    <3>1. CASE snapshot[t] # 0
      BY <2>1, <2>2, <3>1, SnapshotIsEvent, SendResult
    <3>2. CASE snapshot[t] = 0
      BY <1>t, <2>1, <3>2
    <3>. QED  BY <3>1, <3>2
  <2>. QED  BY <1>10, <1>t, <2>2, <2>3 DEF ForwardResend, TypeOK, feedVars
<1>11. CASE Write
  <2>1. Head(out) \in Events /\ out' \in Seq(Events) /\ Len(out') <= ClientQueue
    BY <1>11, <1>t, <1>a DEF Write
  <2>2. view' \in [Topics -> States]
    BY <1>11, <1>t, <2>1, EventFacts DEF Write
  <2>. QED  BY <1>11, <1>t, <2>1, <2>2 DEF Write, TypeOK, feedVars
<1>12. CASE Reconnect
  <2>1. /\ inbox' \in Seq(Events) /\ held' \in Seq(Events) /\ out' \in Seq(Events)
        /\ Len(inbox') <= BroadcastCapacity /\ Len(held') <= 1 /\ Len(out') <= ClientQueue
    BY <1>12, <1>a DEF Reconnect
  <2>2. subs' \in SUBSET Topics /\ resend' \in SUBSET Topics /\ lagged' \in BOOLEAN
        /\ closed' \in BOOLEAN
    BY <1>12 DEF Reconnect
  <2>. QED  BY <1>12, <1>t, <2>1, <2>2 DEF Reconnect, TypeOK
<1>13. CASE UNCHANGED vars
  BY <1>13, <1>t DEF vars, feedVars, connVars, TypeOK
<1>. QED
  BY <1>1, <1>2, <1>3, <1>4, <1>5, <1>6, <1>7, <1>8, <1>9, <1>10, <1>11, <1>12, <1>13
     DEF Next, SubscribeStep, Forward

-----------------------------------------------------------------------------
(* The channel is as new as the snapshots.                                 *)

\* Event e has become the newest of its topic, and one of another topic was overwritten
\* at most: the last one of a topic never changes but for e.
Published(e) ==
  /\ snapshot' = [snapshot EXCEPT ![e.topic] = e.state]
  /\ Mentions(e.topic, inbox')
  /\ \A v : LastIs(e.topic, v, inbox') <=> e.state = v
  /\ \A t \in Topics \ {e.topic} : \A v :
       /\ Mentions(t, inbox') => Mentions(t, inbox)
       /\ Mentions(t, inbox') => (LastIs(t, v, inbox') <=> LastIs(t, v, inbox))
  /\ ~lagged' => ~lagged
  /\ ~lagged' => \A t \in Topics \ {e.topic} : Mentions(t, inbox') <=> Mentions(t, inbox)

\* What Publish does to the channel and to the snapshots.
LEMMA PublishResult ==
  ASSUME TypeOK, Publish
  PROVE  \E e \in Events : Published(e)
<1>t. /\ sink \in Seq(Events) /\ inbox \in Seq(Events) /\ lagged \in BOOLEAN
      /\ Len(inbox) <= BroadcastCapacity /\ BroadcastCapacity \in Nat \ {0}
  BY TypeParts, StateFeedAssumption
<1>1. PICK e \in Events : e = Head(sink)
  BY <1>t DEF Publish
<1>2. /\ snapshot' = [snapshot EXCEPT ![e.topic] = e.state]
      /\ inbox' = Append(IF Len(inbox) < BroadcastCapacity THEN inbox ELSE Tail(inbox), e)
      /\ lagged' = (lagged \/ Len(inbox) = BroadcastCapacity)
  BY <1>1 DEF Publish
<1>3. \A v : e = Event(e.topic, v) <=> e.state = v
  BY EventFacts
<1>4. CASE Len(inbox) < BroadcastCapacity
  <2>1. \A t, v : /\ Mentions(t, inbox') <=> Mentions(t, inbox) \/ e.topic = t
                  /\ e.topic = t => (LastIs(t, v, inbox') <=> e = Event(t, v))
                  /\ e.topic # t => (LastIs(t, v, inbox') <=> LastIs(t, v, inbox))
    BY <1>t, <1>2, <1>4, AppendFacts
  <2>2. ~lagged' => ~lagged
    BY <1>2
  <2>. QED  BY <1>2, <1>3, <2>1, <2>2 DEF Published
<1>5. CASE ~(Len(inbox) < BroadcastCapacity)
  <2>1. inbox # << >> /\ Tail(inbox) \in Seq(Events) /\ Len(inbox) = BroadcastCapacity
    BY <1>t, <1>5
  <2>2. \A t, v : /\ Mentions(t, inbox) <=> Head(inbox).topic = t \/ Mentions(t, Tail(inbox))
                  /\ Mentions(t, Tail(inbox)) =>
                       (LastIs(t, v, inbox) <=> LastIs(t, v, Tail(inbox)))
    BY <1>t, <2>1, TailFacts
  <2>3. \A t, v : /\ Mentions(t, inbox') <=> Mentions(t, Tail(inbox)) \/ e.topic = t
                  /\ e.topic = t => (LastIs(t, v, inbox') <=> e = Event(t, v))
                  /\ e.topic # t => (LastIs(t, v, inbox') <=> LastIs(t, v, Tail(inbox)))
    <3>1. PICK r \in Seq(Events) : r = Tail(inbox)
      BY <2>1
    <3>2. inbox' = Append(r, e)
      BY <1>2, <1>5, <3>1
    <3>3. \A t, v : /\ Mentions(t, Append(r, e)) <=> Mentions(t, r) \/ e.topic = t
                    /\ e.topic = t => (LastIs(t, v, Append(r, e)) <=> e = Event(t, v))
                    /\ e.topic # t => (LastIs(t, v, Append(r, e)) <=> LastIs(t, v, r))
      BY AppendFacts
    <3>. QED  BY <3>1, <3>2, <3>3
  <2>4. lagged'
    BY <1>2, <2>1
  <2>. QED  BY <1>2, <1>3, <2>2, <2>3, <2>4 DEF Published
<1>. QED  BY <1>4, <1>5

\* One event is the last of its own topic.
LEMMA SingleFacts ==
  ASSUME NEW h
  PROVE  \A t, v : /\ Mentions(t, << h >>) <=> h.topic = t
                   /\ LastIs(t, v, << h >>) <=> h = Event(t, v)
BY EventFacts DEF Mentions, LastIs

\* A new subscriber, and a resend, never get an event after the snapshot that is older.
LEMMA FreshStep ==
  IInv /\ [Next]_vars => InboxFresh' /\ HeldFresh' /\ ResendFirst'
<1>. SUFFICES ASSUME IInv, [Next]_vars
              PROVE  InboxFresh' /\ HeldFresh' /\ ResendFirst'
  OBVIOUS
<1>i. TypeOK /\ InboxFresh /\ HeldFresh /\ ResendFirst
  BY DEF IInv, FeedInv
<1>t. inbox \in Seq(Events) /\ held \in Seq(Events) /\ lagged \in BOOLEAN
  BY <1>i, TypeParts
<1>f. ASSUME UNCHANGED <<snapshot, inbox, lagged, held>>, resend' \subseteq resend
      PROVE  InboxFresh' /\ HeldFresh' /\ ResendFirst'
  BY <1>f, <1>i DEF InboxFresh, HeldFresh, ResendFirst
<1>1. ASSUME NEW t \in Topics, Push(t) \/ Subscribe(t) \/ Unsubscribe(t)
      PROVE  InboxFresh' /\ HeldFresh' /\ ResendFirst'
  BY <1>1, <1>f DEF Push, Subscribe, Unsubscribe, feedVars, connVars
<1>2. CASE Publish
  <2>1. PICK e \in Events : Published(e)
    BY <1>2, <1>i, PublishResult
  <2>2. snapshot'[e.topic] = e.state /\ \A t \in Topics \ {e.topic} : snapshot'[t] = snapshot[t]
    BY <1>i, <2>1, TypeParts, EventFacts DEF Published
  <2>3. UNCHANGED <<held, resend>>
    BY <1>2 DEF Publish, connVars
  <2>4. InboxFresh'
    BY <1>i, <2>1, <2>2 DEF InboxFresh, Published
  <2>5. HeldFresh'
    <3>. SUFFICES ASSUME NEW t \in Topics, ~lagged', Mentions(t, held'), ~Mentions(t, inbox')
                  PROVE  LastIs(t, snapshot'[t], held')
      BY DEF HeldFresh
    <3>1. t # e.topic
      BY <2>1 DEF Published
    <3>2. ~lagged /\ Mentions(t, held) /\ ~Mentions(t, inbox)
      BY <2>1, <2>3, <3>1 DEF Published
    <3>. QED  BY <1>i, <2>2, <2>3, <3>1, <3>2 DEF HeldFresh
  <2>. QED  BY <1>i, <2>3, <2>4, <2>5 DEF ResendFirst
<1>3. CASE SubscribeStep
  BY <1>3, <1>f DEF SubscribeStep, SubscribeInsert, SubscribeSnapshot, feedVars
<1>4. CASE ForwardReceive
  <2>1. /\ held' = << Head(inbox) >> /\ inbox' = Tail(inbox) /\ inbox # << >>
        /\ resend' = {} /\ UNCHANGED snapshot
    BY <1>4 DEF ForwardReceive, ForwarderIdle
  <2>2. \A t, v : /\ Mentions(t, inbox) <=> Head(inbox).topic = t \/ Mentions(t, inbox')
                  /\ Mentions(t, inbox') => (LastIs(t, v, inbox) <=> LastIs(t, v, inbox'))
                  /\ ~Mentions(t, inbox') => (LastIs(t, v, inbox) <=> Head(inbox) = Event(t, v))
    BY <1>t, <2>1, TailFacts
  <2>3. \A t, v : /\ Mentions(t, held') <=> Head(inbox).topic = t
                  /\ LastIs(t, v, held') <=> Head(inbox) = Event(t, v)
    BY <2>1, SingleFacts
  <2>4. InboxFresh'
    BY <1>i, <2>1, <2>2 DEF InboxFresh
  <2>5. HeldFresh'
    BY <1>i, <2>1, <2>2, <2>3 DEF InboxFresh, HeldFresh
  <2>. QED  BY <2>1, <2>4, <2>5 DEF ResendFirst
<1>5. CASE ForwardPass \/ ForwardLag \/ Reconnect
  <2>1. held' = << >> /\ (inbox' = inbox \/ inbox' = << >>) /\ UNCHANGED snapshot
    BY <1>5 DEF ForwardPass, ForwardLag, ForwarderIdle, Reconnect, feedVars
  <2>. QED  BY <1>i, <2>1, EmptyFacts DEF InboxFresh, HeldFresh, ResendFirst
<1>6. CASE ForwardResend
  BY <1>6, <1>f DEF ForwardResend, feedVars
<1>7. CASE Write
  BY <1>7, <1>f DEF Write, feedVars
<1>8. CASE UNCHANGED vars
  BY <1>8, <1>f DEF vars, feedVars, connVars
<1>. QED
  BY <1>1, <1>2, <1>3, <1>4, <1>5, <1>6, <1>7, <1>8 DEF Next, Forward

-----------------------------------------------------------------------------
(* The newest state is on its way.                                         *)

\* Every step keeps what is on its way to a subscriber as new as the snapshot.
LEMMA LatestStep ==
  IInv /\ TypeOK' /\ [Next]_vars => LatestOnItsWay'
<1>. SUFFICES ASSUME IInv, TypeOK', [Next]_vars,
                     NEW t \in subs', ~closed', snapshot'[t] # 0,
                     reader' # [pc |-> "snapshot", topic |-> t], ~lagged', t \notin resend'
              PROVE  WillShow(t, snapshot[t])'
  BY DEF LatestOnItsWay
<1>i. TypeOK /\ LatestOnItsWay /\ InboxFresh /\ HeldFresh /\ ResendFirst
  BY DEF IInv, FeedInv
<1>t. /\ out \in Seq(Events) /\ inbox \in Seq(Events) /\ held \in Seq(Events)
      /\ lagged \in BOOLEAN /\ closed \in BOOLEAN
      /\ subs \in SUBSET Topics /\ resend \in SUBSET Topics /\ subs' \in SUBSET Topics
      /\ snapshot \in [Topics -> States] /\ view \in [Topics -> States]
  <2>1. (TypeOK => subs \in SUBSET Topics)'
    BY TypeParts, PTL
  <2>. QED  BY <1>i, <2>1, TypeParts
<1>u. t \in Topics
  BY <1>t
\* What is on the way before and after the step.
<1>w. \A v : WillShow(t, v) <=>
        IF Mentions(t, inbox) THEN LastIs(t, v, inbox)
        ELSE IF Mentions(t, held) THEN LastIs(t, v, held)
        ELSE IF Mentions(t, out) THEN LastIs(t, v, out)
        ELSE view[t] = v
  BY <1>i, Way DEF YoungestDecides
<1>v. WillShow(t, snapshot[t])' <=>
        IF Mentions(t, inbox') THEN LastIs(t, snapshot'[t], inbox')
        ELSE IF Mentions(t, held') THEN LastIs(t, snapshot'[t], held')
        ELSE IF Mentions(t, out') THEN LastIs(t, snapshot'[t], out')
        ELSE view'[t] = snapshot'[t]
  <2>1. (TypeOK => YoungestDecides)'
    BY Way, PTL
  <2>. QED  BY <2>1 DEF YoungestDecides
<1>o. ASSUME t \in subs, ~closed, snapshot[t] # 0,
             reader # [pc |-> "snapshot", topic |-> t], ~lagged, t \notin resend
      PROVE  WillShow(t, snapshot[t])
  BY <1>i, <1>o DEF LatestOnItsWay
\* Nothing of the topic moves.
<1>f. ASSUME UNCHANGED <<snapshot, inbox, lagged, subs, reader, held, resend, out, closed, view>>
      PROVE  WillShow(t, snapshot[t])'
  BY <1>f, <1>o, <1>v, <1>w
\* The newest state, just sent, is not overtaken by what was on the way before.
<1>s. ASSUME UNCHANGED <<snapshot, inbox, lagged, held>>, Send(Event(t, snapshot[t]))
      PROVE  WillShow(t, snapshot[t])'
  <2>1. Event(t, snapshot[t]) \in Events /\ Event(t, snapshot[t]).topic = t
    BY <1>i, <1>u, <1>s, SnapshotIsEvent, EventFacts
  <2>2. Mentions(t, out') /\ LastIs(t, snapshot[t], out')
    BY <1>i, <1>s, <2>1, SendResult
  <2>3. Mentions(t, inbox) => LastIs(t, snapshot[t], inbox)
    BY <1>i, <1>u DEF InboxFresh
  <2>4. Mentions(t, held) /\ ~Mentions(t, inbox) => LastIs(t, snapshot[t], held)
    BY <1>i, <1>u, <1>s DEF HeldFresh
  <2>. QED  BY <1>s, <1>v, <2>2, <2>3, <2>4
\* An event of another topic is sent.
<1>a. ASSUME UNCHANGED <<snapshot, inbox, held, view>>, NEW e \in Events, Send(e), e.topic # t,
             WillShow(t, snapshot[t])
      PROVE  WillShow(t, snapshot[t])'
  <2>1. /\ Mentions(t, out') <=> Mentions(t, out)
        /\ LastIs(t, snapshot[t], out') <=> LastIs(t, snapshot[t], out)
    BY <1>i, <1>a, SendResult
  <2>. QED  BY <1>a, <1>v, <1>w, <2>1
<1>c. ASSUME NEW e \in Events, Send(e)
      PROVE  ~closed
  BY <1>c, <1>i, SendResult
<1>1. ASSUME NEW x \in Topics, Push(x)
      PROVE  WillShow(t, snapshot[t])'
  BY <1>1, <1>f DEF Push, connVars
<1>2. CASE Publish
  <2>1. PICK e \in Events : Published(e)
    BY <1>2, <1>i, PublishResult
  <2>2. UNCHANGED <<subs, reader, held, resend, out, closed, view>>
    BY <1>2 DEF Publish, connVars
  <2>3. CASE t = e.topic
    <3>1. snapshot'[t] = e.state
      BY <1>t, <1>u, <2>1, <2>3 DEF Published
    <3>. QED  BY <1>v, <2>1, <2>3, <3>1 DEF Published
  <2>4. CASE t # e.topic
    <3>1. snapshot'[t] = snapshot[t]
      BY <1>t, <1>u, <2>1, <2>4 DEF Published
    <3>2. /\ Mentions(t, inbox') <=> Mentions(t, inbox)
          /\ Mentions(t, inbox') => (LastIs(t, snapshot[t], inbox') <=> LastIs(t, snapshot[t], inbox))
      BY <1>u, <2>1, <2>4 DEF Published
    <3>3. WillShow(t, snapshot[t])
      BY <1>o, <2>1, <2>2, <3>1 DEF Published
    <3>. QED  BY <1>v, <1>w, <2>2, <3>1, <3>2, <3>3
  <2>. QED  BY <2>3, <2>4
<1>3. ASSUME NEW x \in Topics, Subscribe(x)
      PROVE  WillShow(t, snapshot[t])'
  <2>1. UNCHANGED <<snapshot, inbox, lagged, subs, held, resend, out, closed, view>>
        /\ reader = Idle
    BY <1>3 DEF Subscribe, feedVars
  <2>2. reader # [pc |-> "snapshot", topic |-> t]
    BY <2>1 DEF Idle
  <2>. QED  BY <1>o, <1>v, <1>w, <2>1, <2>2
<1>4. ASSUME NEW x \in Topics, Unsubscribe(x)
      PROVE  WillShow(t, snapshot[t])'
  <2>1. UNCHANGED <<snapshot, inbox, lagged, reader, held, resend, out, closed, view>>
        /\ t \in subs
    BY <1>4 DEF Unsubscribe, feedVars
  <2>. QED  BY <1>o, <1>v, <1>w, <2>1
<1>5. CASE SubscribeInsert
  <2>1. /\ UNCHANGED <<snapshot, inbox, lagged, held, resend, out, closed, view>>
        /\ subs' = subs \cup {reader.topic}
        /\ reader' = [reader EXCEPT !.pc = "snapshot"]
        /\ reader.pc = "insert"
    BY <1>5 DEF SubscribeInsert, feedVars
  <2>2. reader \in [pc : {"insert", "snapshot"}, topic : Topics]
    BY <1>5, <1>i, ReaderParts DEF SubscribeInsert
  <2>3. reader' = [pc |-> "snapshot", topic |-> reader.topic]
    BY <2>1, <2>2
  <2>4. t # reader.topic
    BY <2>3
  <2>5. reader # [pc |-> "snapshot", topic |-> t]
    BY <2>1
  <2>. QED  BY <1>o, <1>v, <1>w, <2>1, <2>4, <2>5
<1>6. CASE SubscribeSnapshot
  <2>1. PICK x \in Topics : x = reader.topic
    BY <1>6, <1>i, ReaderParts DEF SubscribeSnapshot
  <2>2. /\ UNCHANGED <<snapshot, inbox, lagged, subs, held, resend, view>>
        /\ IF snapshot[x] # 0 THEN Send(Event(x, snapshot[x])) ELSE UNCHANGED <<out, closed>>
    BY <1>6, <2>1 DEF SubscribeSnapshot, feedVars
  <2>3. CASE x = t
    BY <1>s, <2>2, <2>3
  <2>4. CASE x # t
    <3>1. reader # [pc |-> "snapshot", topic |-> t]
      BY <2>1, <2>4
    <3>2. CASE snapshot[x] # 0
      <4>1. Event(x, snapshot[x]) \in Events /\ Event(x, snapshot[x]).topic = x
        BY <1>i, <3>2, SnapshotIsEvent, EventFacts
      <4>2. ~closed
        BY <1>c, <2>2, <3>2, <4>1
      <4>3. WillShow(t, snapshot[t])
        BY <1>o, <2>2, <3>1, <4>2
      <4>. QED  BY <1>a, <2>2, <2>4, <3>2, <4>1, <4>3
    <3>3. CASE snapshot[x] = 0
      BY <1>o, <1>v, <1>w, <2>2, <3>1, <3>3
    <3>. QED  BY <3>2, <3>3
  <2>. QED  BY <2>3, <2>4
<1>7. CASE ForwardReceive
  <2>1. /\ held = << >> /\ held' = << Head(inbox) >> /\ inbox' = Tail(inbox) /\ inbox # << >>
        /\ UNCHANGED <<snapshot, lagged, subs, reader, resend, out, closed, view>>
    BY <1>7 DEF ForwardReceive, ForwarderIdle
  <2>2. \A v : /\ Mentions(t, inbox) <=> Head(inbox).topic = t \/ Mentions(t, inbox')
               /\ Mentions(t, inbox') => (LastIs(t, v, inbox) <=> LastIs(t, v, inbox'))
               /\ ~Mentions(t, inbox') => (LastIs(t, v, inbox) <=> Head(inbox) = Event(t, v))
    BY <1>t, <2>1, TailFacts
  <2>3. \A v : /\ Mentions(t, held') <=> Head(inbox).topic = t
               /\ LastIs(t, v, held') <=> Head(inbox) = Event(t, v)
    BY <2>1, SingleFacts
  <2>4. ~Mentions(t, held)
    BY <2>1, EmptyFacts
  <2>5. WillShow(t, snapshot[t])
    BY <1>o, <2>1
  <2>. QED  BY <1>v, <1>w, <2>1, <2>2, <2>3, <2>4, <2>5
<1>8. CASE ForwardPass
  <2>1. /\ UNCHANGED <<snapshot, inbox, lagged, subs, reader, resend, view>>
        /\ held # << >> /\ held' = << >>
        /\ IF Head(held).topic \in subs THEN Send(Head(held)) ELSE UNCHANGED <<out, closed>>
    BY <1>8 DEF ForwardPass, feedVars
  <2>2. PICK e \in Events : e = Head(held)
    BY <1>i, <2>1, HeldFacts
  <2>3. \A v : /\ Mentions(t, held) <=> e.topic = t
               /\ LastIs(t, v, held) <=> e = Event(t, v)
    BY <1>i, <2>1, <2>2, HeldFacts
  <2>4. ~Mentions(t, held')
    BY <2>1, EmptyFacts
  <2>5. ~closed
    BY <1>8 DEF ForwardPass
  <2>6. WillShow(t, snapshot[t])
    BY <1>o, <2>1, <2>5
  <2>7. CASE e.topic \in subs
    <3>1. /\ Mentions(t, out') <=> Mentions(t, out) \/ e.topic = t
          /\ \A v : e.topic = t => (LastIs(t, v, out') <=> e = Event(t, v))
          /\ \A v : e.topic # t => (LastIs(t, v, out') <=> LastIs(t, v, out))
      BY <1>i, <2>1, <2>2, <2>7, SendResult
    <3>. QED  BY <1>v, <1>w, <2>1, <2>3, <2>4, <2>6, <3>1
  <2>8. CASE e.topic \notin subs
    <3>1. e.topic # t /\ out' = out
      BY <2>1, <2>2, <2>8
    <3>. QED  BY <1>v, <1>w, <2>1, <2>3, <2>4, <2>6, <3>1
  <2>. QED  BY <2>7, <2>8
<1>9. CASE ForwardLag
  BY <1>9 DEF ForwardLag
<1>10. CASE ForwardResend
  <2>1. PICK x \in resend :
          /\ resend' = resend \ {x}
          /\ IF snapshot[x] # 0 THEN Send(Event(x, snapshot[x])) ELSE UNCHANGED <<out, closed>>
    BY <1>10 DEF ForwardResend
  <2>2. x \in Topics /\ ~closed /\ UNCHANGED <<snapshot, inbox, lagged, subs, reader, held, view>>
    BY <1>10, <1>t DEF ForwardResend, feedVars
  <2>3. CASE x = t
    BY <1>s, <2>1, <2>2, <2>3
  <2>4. CASE x # t
    <3>1. WillShow(t, snapshot[t])
      BY <1>o, <2>1, <2>2, <2>4
    <3>2. CASE snapshot[x] # 0
      <4>1. Event(x, snapshot[x]) \in Events /\ Event(x, snapshot[x]).topic = x
        BY <1>i, <2>2, <3>2, SnapshotIsEvent, EventFacts
      <4>. QED  BY <1>a, <2>1, <2>2, <2>4, <3>1, <3>2, <4>1
    <3>3. CASE snapshot[x] = 0
      BY <1>v, <1>w, <2>1, <2>2, <3>1, <3>3
    <3>. QED  BY <3>2, <3>3
  <2>. QED  BY <2>3, <2>4
<1>11. CASE Write
  <2>1. /\ UNCHANGED <<snapshot, inbox, lagged, subs, reader, held, resend, closed>>
        /\ out # << >> /\ out' = Tail(out)
        /\ view' = [view EXCEPT ![Head(out).topic] = Head(out).state]
    BY <1>11 DEF Write, feedVars
  <2>2. \A v : /\ Mentions(t, out) <=> Head(out).topic = t \/ Mentions(t, out')
               /\ Mentions(t, out') => (LastIs(t, v, out) <=> LastIs(t, v, out'))
               /\ ~Mentions(t, out') => (LastIs(t, v, out) <=> Head(out) = Event(t, v))
    BY <1>t, <2>1, TailFacts
  <2>3. view'[t] = IF Head(out).topic = t THEN Head(out).state ELSE view[t]
    BY <1>t, <1>u, <2>1
  <2>4. Head(out) = Event(t, snapshot[t]) => Head(out).topic = t /\ Head(out).state = snapshot[t]
    BY EventFacts
  <2>5. WillShow(t, snapshot[t])
    BY <1>o, <2>1
  <2>. QED  BY <1>v, <1>w, <2>1, <2>2, <2>3, <2>4, <2>5
<1>12. CASE Reconnect
  BY <1>12 DEF Reconnect
<1>13. CASE UNCHANGED vars
  BY <1>13, <1>f DEF vars, feedVars, connVars
<1>. QED
  BY <1>1, <1>2, <1>3, <1>4, <1>5, <1>6, <1>7, <1>8, <1>9, <1>10, <1>11, <1>12, <1>13
     DEF Next, SubscribeStep, Forward

-----------------------------------------------------------------------------
(* The theorems.                                                           *)

\* At the start nothing is subscribed and nothing under way.
LEMMA InvInit == Init => IInv
<1>. SUFFICES ASSUME Init
              PROVE  IInv
  OBVIOUS
<1>a. SinkCapacity \in Nat /\ BroadcastCapacity \in Nat /\ ClientQueue \in Nat
      /\ 0 \in States
  BY StateFeedAssumption DEF States
<1>b. /\ sink \in Seq(Events) /\ inbox \in Seq(Events) /\ held \in Seq(Events)
      /\ out \in Seq(Events)
      /\ Len(sink) = 0 /\ Len(inbox) = 0 /\ Len(held) = 0 /\ Len(out) = 0
  BY DEF Init
<1>c. /\ pushed \in [Topics -> States] /\ snapshot \in [Topics -> States]
      /\ view \in [Topics -> States]
  BY <1>a DEF Init
<1>d. /\ lagged \in BOOLEAN /\ closed \in BOOLEAN /\ subs \in SUBSET Topics
      /\ resend \in SUBSET Topics /\ reader = Idle
  BY DEF Init
<1>1. TypeOK
  BY <1>a, <1>b, <1>c, <1>d DEF TypeOK
<1>2. LatestOnItsWay
  BY DEF Init, LatestOnItsWay
<1>3. InboxFresh /\ HeldFresh /\ ResendFirst
  BY EmptyFacts DEF Init, InboxFresh, HeldFresh, ResendFirst
<1>. QED  BY <1>1, <1>2, <1>3 DEF IInv, FeedInv

\* Every step keeps all of it.
LEMMA InvStep == IInv /\ [Next]_vars => IInv'
<1>. SUFFICES ASSUME IInv, [Next]_vars
              PROVE  IInv'
  OBVIOUS
<1>1. TypeOK'
  BY TypeStep DEF IInv, FeedInv
<1>2. LatestOnItsWay'
  BY <1>1, LatestStep
<1>. QED  BY <1>1, <1>2, FreshStep DEF IInv, FeedInv

\* The inductive invariant holds of every behaviour.
THEOREM Invariant == Spec => []IInv
BY InvInit, InvStep, PTL DEF Spec

\* Whatever the topics and the capacities, no interleaving of pushes, publication, lag,
\* resend, subscription and cut-off leaves a connected subscriber with an outdated state:
\* the hub's snapshot is the last thing on its way to it, or a resend is still to come
\* (Hub::spawn_publisher, subscribe and the forwarder of ipc/server.rs).
THEOREM NewestArrives == Spec => []FeedInv
<1>1. IInv => FeedInv
  BY DEF IInv
<1>. QED  BY <1>1, Invariant, PTL

=============================================================================
