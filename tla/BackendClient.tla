---------------------------- MODULE BackendClient ----------------------------
(***************************************************************************)
(* The shell's end of the socket (core/Backend.qml) talking to one         *)
(* connection of the daemon (ipc/server.rs): reference-counted             *)
(* subscriptions, calls with a callback, their time limit, and the         *)
(* reconnection that has to restore it all.                                *)
(*                                                                         *)
(* QML runs one handler at a time: a step is a handler with everything it  *)
(* calls.  The Quickshell Socket is external and modelled from its use: it *)
(* is built connecting, then connects or fails, and once it is lost it     *)
(* cannot be used again.  Of the daemon only the side of the protocol a    *)
(* client sees is kept; Hub and StateFeed have the rest.                   *)
(***************************************************************************)
EXTENDS Naturals, FiniteSets, Sequences

CONSTANTS Topics, Volatile,       \* topicNames, volatileTopics
          BackoffMin, BackoffMax, \* 250 and 10000 ms
          MaxRefs, MaxCalls,      \* bounds of the model: subscribers per topic,
          MaxWire                 \* calls, and lines on the way in one direction

ASSUME BackendAssumption ==
  /\ Volatile \subseteq Topics
  /\ BackoffMin \in Nat \ {0} /\ BackoffMax \in Nat /\ BackoffMin <= BackoffMax
  /\ MaxRefs \in Nat /\ MaxCalls \in Nat /\ MaxWire \in Nat

VARIABLES
  socket,    \* the Socket instance: "connecting", "connected" or "lost"
  timer,     \* reconnectTimer.running
  backoff,   \* _backoff
  refs,      \* _refcounts
  topics,    \* topics[t]: "null", "current" or "old" (of an earlier connection)
  nextId,    \* _nextId
  pending,   \* the keys of _pending and _deadlines
  overdue,   \* those of them whose deadline has passed
  sweep,     \* pendingSweep.running
  answers,   \* answers[i]: how often the callback of call i has run
  up, down,  \* the lines on the way to and from the daemon
  served,    \* the daemon's `subscriptions` set of this connection
  inflight,  \* the calls the daemon is executing for it
  daemon     \* the daemon is running

linkVars == <<socket, timer, backoff>>
callVars == <<nextId, pending, overdue, sweep, answers>>
wireVars == <<up, down, served, inflight, daemon>>
vars     == <<linkVars, refs, topics, callVars, wireVars>>

Ids == 1..MaxCalls
Wanted == {t \in Topics : refs[t] > 0}

Requests == [op : {"subscribe", "unsubscribe"}, topics : SUBSET Topics]
            \cup [op : {"call"}, id : Ids]
Lines    == [topic : Topics] \cup [id : Ids]

TypeOK ==
  /\ socket \in {"connecting", "connected", "lost"}
  /\ timer \in BOOLEAN
  /\ backoff \in BackoffMin..BackoffMax
  /\ refs \in [Topics -> 0..MaxRefs]
  /\ topics \in [Topics -> {"null", "current", "old"}]
  /\ nextId \in 1..(MaxCalls + 1)
  /\ pending \in SUBSET Ids /\ overdue \in SUBSET pending
  /\ sweep \in BOOLEAN
  /\ answers \in [Ids -> Nat]
  /\ up \in Seq(Requests) /\ down \in Seq(Lines)
  /\ served \in SUBSET Topics /\ inflight \in SUBSET Ids
  /\ daemon \in BOOLEAN

\* The Loader builds the first Socket with the shell.
Init ==
  /\ socket = "connecting" /\ timer = FALSE /\ backoff = BackoffMin
  /\ refs = [t \in Topics |-> 0]
  /\ topics = [t \in Topics |-> "null"]
  /\ nextId = 1 /\ pending = {} /\ overdue = {} /\ sweep = FALSE
  /\ answers = [i \in Ids |-> 0]
  /\ up = << >> /\ down = << >> /\ served = {} /\ inflight = {}
  /\ daemon \in BOOLEAN

-----------------------------------------------------------------------------
(* Requests of the controllers.                                            *)

Linked == socket = "connected"

\* _send: nothing is queued for later.
Post(message) == up' = IF Linked THEN Append(up, message) ELSE up

Subscribe(t) ==
  /\ refs[t] < MaxRefs /\ Len(up) < MaxWire
  /\ refs' = [refs EXCEPT ![t] = @ + 1]
  /\ IF refs[t] = 0 THEN Post([op |-> "subscribe", topics |-> {t}]) ELSE UNCHANGED up
  /\ UNCHANGED <<linkVars, topics, callVars, down, served, inflight, daemon>>

\* Mutant: every release of a topic is sent to the daemon.
UnsubscribeAlways(t) ==
  /\ refs[t] > 0 /\ Len(up) < MaxWire
  /\ refs' = [refs EXCEPT ![t] = @ - 1]
  /\ Post([op |-> "unsubscribe", topics |-> {t}])
  /\ UNCHANGED <<linkVars, topics, callVars, down, served, inflight, daemon>>

Unsubscribe(t) ==
  /\ refs[t] > 0 /\ Len(up) < MaxWire
  /\ refs' = [refs EXCEPT ![t] = @ - 1]
  /\ IF refs[t] = 1 THEN Post([op |-> "unsubscribe", topics |-> {t}]) ELSE UNCHANGED up
  /\ UNCHANGED <<linkVars, topics, callVars, down, served, inflight, daemon>>

Ran(ids) == [i \in Ids |-> answers[i] + (IF i \in ids THEN 1 ELSE 0)]

\* A callback that runs may make a new call: `done` callbacks run and `again` of them
\* call again, all over a link that is up.
AnswersLinked(done, again) ==
  LET new == nextId..(nextId + again - 1) IN
  /\ again <= Cardinality(done) /\ new \subseteq Ids
  /\ again = 0 \/ Len(up) < MaxWire
  /\ answers' = Ran(done)
  /\ nextId' = nextId + again
  /\ pending' = (pending \ done) \cup new
  /\ overdue' = overdue \ done
  /\ up' = up \o [k \in 1..again |-> [op |-> "call", id |-> nextId + k - 1]]

Call ==
  /\ nextId \in Ids /\ Len(up) < MaxWire
  /\ nextId' = nextId + 1
  /\ sweep' = TRUE
  /\ \/ /\ Linked
        /\ pending' = pending \cup {nextId}
        /\ Post([op |-> "call", id |-> nextId])
        /\ UNCHANGED answers
     \/ /\ ~Linked
        /\ answers' = Ran({nextId})
        /\ UNCHANGED <<pending, up>>
  /\ UNCHANGED <<linkVars, refs, topics, overdue, down, served, inflight, daemon>>

\* The deadline of a call passes.
Overdue(i) ==
  /\ i \in pending \ overdue
  /\ overdue' = overdue \cup {i}
  /\ UNCHANGED <<linkVars, refs, topics, nextId, pending, sweep, answers, wireVars>>

\* Mutant: the sweep stops after the callbacks and not before them.
SweepStopsLate(again) ==
  /\ sweep /\ (Linked \/ again = 0)
  /\ AnswersLinked(overdue, again)
  /\ sweep' = (pending \ overdue # {})
  /\ UNCHANGED <<linkVars, refs, topics, down, served, inflight, daemon>>

\* pendingSweep.onTriggered.  It stops itself before the callbacks, and a callback
\* that calls again starts it again.  Nothing is pending while the link is down.
Sweep(again) ==
  /\ sweep
  /\ Linked \/ again = 0
  /\ AnswersLinked(overdue, again)
  /\ sweep' = (pending \ overdue # {} \/ again > 0)
  /\ UNCHANGED <<linkVars, refs, topics, down, served, inflight, daemon>>

\* _onLine with a reply: the answer to a call that has timed out is ignored.
OnReply(again) ==
  /\ Linked /\ down # << >> /\ "id" \in DOMAIN Head(down)
  /\ AnswersLinked({Head(down).id} \cap pending, again)
  /\ sweep' = (sweep \/ again > 0)
  /\ down' = Tail(down)
  /\ UNCHANGED <<linkVars, refs, topics, served, inflight, daemon>>

\* _onLine with an event.
OnEvent ==
  /\ Linked /\ down # << >> /\ "topic" \in DOMAIN Head(down)
  /\ topics' = [topics EXCEPT ![Head(down).topic] = "current"]
  /\ down' = Tail(down)
  /\ UNCHANGED <<linkVars, refs, callVars, up, served, inflight, daemon>>

-----------------------------------------------------------------------------
(* The link.                                                               *)

Schedule == /\ timer' = TRUE
            /\ backoff' = IF timer THEN backoff
                          ELSE IF backoff * 2 <= BackoffMax THEN backoff * 2 ELSE BackoffMax

\* _onConnected: one request subscribes to everything that is wanted.
OnConnected ==
  /\ socket = "connecting" /\ daemon
  /\ socket' = "connected" /\ timer' = FALSE /\ backoff' = BackoffMin
  /\ up' = IF Wanted = {} THEN << >> ELSE << [op |-> "subscribe", topics |-> Wanted] >>
  /\ UNCHANGED <<refs, topics, callVars, down, served, inflight, daemon>>

\* onError of a Socket that could not connect.
OnError ==
  /\ socket = "connecting" /\ ~daemon
  /\ socket' = "lost"
  /\ Schedule
  /\ UNCHANGED <<refs, topics, callVars, wireVars>>

\* Mutant: the state of every topic survives the daemon.
OnDisconnectedKeeps(again) ==
  /\ Linked
  /\ again <= Cardinality(pending) /\ nextId + again <= MaxCalls + 1
  /\ socket' = "lost" /\ Schedule
  /\ answers' = Ran(pending \cup nextId..(nextId + again - 1))
  /\ nextId' = nextId + again
  /\ pending' = {} /\ overdue' = {} /\ sweep' = (sweep \/ again > 0)
  /\ topics' = [t \in Topics |-> IF topics[t] = "current" THEN "old" ELSE topics[t]]
  /\ up' = << >> /\ down' = << >> /\ served' = {} /\ inflight' = {}
  /\ UNCHANGED <<refs, daemon>>

\* _onDisconnected: every waiting callback runs with an error.  A call made by one of
\* them fails at once.  The lines on the way and the daemon's end of the connection
\* are gone.
OnDisconnected(again) ==
  /\ Linked
  /\ again <= Cardinality(pending) /\ nextId + again <= MaxCalls + 1
  /\ socket' = "lost" /\ Schedule
  /\ answers' = Ran(pending \cup nextId..(nextId + again - 1))
  /\ nextId' = nextId + again
  /\ pending' = {} /\ overdue' = {} /\ sweep' = (sweep \/ again > 0)
  /\ topics' = [t \in Topics |->
       IF t \in Volatile THEN "null" ELSE IF topics[t] = "current" THEN "old" ELSE topics[t]]
  /\ up' = << >> /\ down' = << >> /\ served' = {} /\ inflight' = {}
  /\ UNCHANGED <<refs, daemon>>

\* Mutant: the guard against the old Socket's last signal also swallows the error of
\* the new one.
RebuildSwallowsError ==
  /\ timer
  /\ timer' = FALSE
  /\ \/ socket' = "connecting"
     \/ ~daemon /\ socket' = "lost"
  /\ UNCHANGED <<backoff, refs, topics, callVars, wireVars>>

\* reconnectTimer.onTriggered builds a new Socket, which may fail on the spot; the end
\* of the old one is not taken for a new loss.
Rebuild ==
  /\ timer
  /\ \/ socket' = "connecting" /\ timer' = FALSE /\ UNCHANGED backoff
     \/ /\ ~daemon
        /\ socket' = "lost" /\ timer' = TRUE
        /\ backoff' = IF backoff * 2 <= BackoffMax THEN backoff * 2 ELSE BackoffMax
  /\ UNCHANGED <<refs, topics, callVars, wireVars>>

-----------------------------------------------------------------------------
(* The daemon's end.                                                       *)

\* handle_line: a subscription may bring a snapshot at once, and a topic that is
\* subscribed already is not counted again.
Serve ==
  /\ Linked /\ up # << >> /\ Len(down) < MaxWire
  /\ LET m == Head(up) IN
     \/ /\ m.op = "subscribe"
        /\ served' = served \cup m.topics
        /\ \E snap \in {<< >>} \cup {<< [topic |-> t] >> : t \in m.topics} : down' = down \o snap
        /\ UNCHANGED inflight
     \/ /\ m.op = "unsubscribe"
        /\ served' = served \ m.topics
        /\ UNCHANGED <<down, inflight>>
     \/ /\ m.op = "call"
        /\ inflight' = inflight \cup {m.id}
        /\ UNCHANGED <<down, served>>
  /\ up' = Tail(up)
  /\ UNCHANGED <<linkVars, refs, topics, callVars, daemon>>

\* The task of a call replies, in any order.
Reply(i) ==
  /\ i \in inflight /\ Len(down) < MaxWire
  /\ inflight' = inflight \ {i}
  /\ down' = Append(down, [id |-> i])
  /\ UNCHANGED <<linkVars, refs, topics, callVars, up, served, daemon>>

Stream(t) ==
  /\ t \in served /\ Len(down) < MaxWire
  /\ down' = Append(down, [topic |-> t])
  /\ UNCHANGED <<linkVars, refs, topics, callVars, up, served, inflight, daemon>>

\* The daemon starts or stops; the shell learns of a stop by OnDisconnected.
DaemonTurns ==
  /\ daemon' = ~daemon
  /\ UNCHANGED <<linkVars, refs, topics, callVars, up, down, served, inflight>>

-----------------------------------------------------------------------------
SweepStep == \E again \in 0..MaxCalls : Sweep(again)

Next ==
  \/ \E t \in Topics : Subscribe(t) \/ Unsubscribe(t) \/ Stream(t)
  \/ \E i \in Ids : Overdue(i) \/ Reply(i)
  \/ \E again \in 0..MaxCalls : OnReply(again) \/ OnDisconnected(again)
  \/ Call \/ SweepStep \/ OnEvent \/ OnConnected \/ OnError \/ Rebuild \/ Serve \/ DaemonTurns

Spec == Init /\ [][Next]_vars

\* Timers fire, time passes, and a Socket that is connecting learns its fate.  The
\* daemon need not read or answer anything.
Fairness ==
  /\ WF_vars(Rebuild)
  /\ WF_vars(OnConnected)
  /\ WF_vars(OnError)
  /\ WF_vars(SweepStep)
  /\ \A i \in Ids : WF_vars(Overdue(i))

FairSpec == Spec /\ Fairness

-----------------------------------------------------------------------------
\* The callback of a call that was made runs once and no more, or the call is still
\* waiting for it: an answer, a time-out and a lost connection exclude each other
\* (Backend.qml:102-118, 148-155, 175-185, 250-270).
AnsweredOnceOrPending ==
  \A i \in Ids : answers[i] = IF i < nextId /\ i \notin pending THEN 1 ELSE 0

TurnsOn(t, line)  == line.op = "subscribe" /\ t \in line.topics
TurnsOff(t, line) == line.op = "unsubscribe" /\ t \in line.topics

\* t is in the subscription set S once the lines have been handled: it was, or one of
\* them puts it there, and none takes it away after that.
ServedAfter(t, S, lines) ==
  \/ t \in S /\ \A i \in DOMAIN lines : ~TurnsOff(t, lines[i])
  \/ \E i \in DOMAIN lines :
       TurnsOn(t, lines[i]) /\ \A j \in DOMAIN lines : j > i => ~TurnsOff(t, lines[j])

\* The daemon's subscription set, once it has handled what is on the way, is exactly
\* what the controllers want, also when the connection has been replaced meanwhile
\* (Backend.qml:79-92, 162-173).
ServedWillBeWanted ==
  Linked => \A t \in Topics : t \in Wanted <=> ServedAfter(t, served, up)

\* Callbacks run once, and subscriptions survive every change of connection.
RequestsInv == TypeOK /\ AnsweredOnceOrPending /\ ServedWillBeWanted

\* Without the daemon no volatile state is shown, and with it none of an earlier
\* connection (Backend.qml:26-31, 189-200).
NoMemoryShownAsState ==
  \A t \in Volatile : topics[t] # "old" /\ (topics[t] = "current" => Linked)

\* Every call with a callback is answered, also by a daemon that never replies.
CallIsAnswered == \A i \in Ids : i \in pending ~> i \notin pending

\* A daemon that stays up is found again, and told what is wanted.
Reconnects == (<>[]daemon) => []<>Linked
=============================================================================
