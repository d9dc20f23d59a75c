--------------------------------- MODULE Hub ---------------------------------
(***************************************************************************)
(* The life of the streaming loops: how the connections of the daemon      *)
(* (ipc/server.rs, `serve_client` and `handle_line`) acquire and release   *)
(* topics of the hub (ipc/hub.rs), and how the hub supervises the loop of  *)
(* every topic somebody wants.                                             *)
(*                                                                         *)
(* The runtime is single threaded (main.rs builds a current_thread         *)
(* runtime), so a step is what a task does between two `await`s; every     *)
(* `lock().await` on the subscription set, the runtimes map or the         *)
(* snapshots is a point where another task may run.                        *)
(***************************************************************************)
EXTENDS Naturals, FiniteSets, Sequences

CONSTANTS Conns,      \* connection slots: the permits of MAX_CONNECTIONS
          Topics,     \* the topics of the registry
          AlwaysOn,   \* topics whose module says always_on()
          Fragile,    \* topics whose run() may panic instead of returning, in a
                      \* build that unwinds; a release build ends the daemon
          BadNames,   \* names a client may ask for that are no topics
          Requests,   \* the topic lists a client may send
          Daemon,     \* the holder of the always-on topics
          RestartMin, RestartMax   \* bounds of the restart delay, in seconds

ASSUME HubAssumption ==
  /\ IsFiniteSet(Conns)
  /\ AlwaysOn \subseteq Topics
  /\ Fragile \subseteq Topics
  /\ BadNames \cap Topics = {}
  /\ Requests \subseteq Seq(Topics \cup BadNames)
  /\ Daemon \notin Conns
  /\ RestartMin \in Nat \ {0}
  /\ RestartMax \in Nat
  /\ RestartMin <= RestartMax

Names == Topics \cup BadNames

VARIABLES
  phase,        \* phase[c]: where the reader task of connection c stands
  todo,         \* todo[c]: what is left of the topic list being handled
  subs,         \* subs[c]: the `subscriptions` set of the connection
  left,         \* left[c]: what the clean-up loop has still to release
  subscribers,  \* subscribers[t]: TopicRuntime::subscribers
  task,         \* task[t]: TopicRuntime::task and how far its loop got
  backoff,      \* backoff[t]: the supervisor's next restart delay
  health        \* health[t]: the module's entry in MODULE_HEALTH

connVars == <<phase, todo, subs, left>>
hubVars  == <<subscribers, task, backoff, health>>
vars     == <<connVars, hubVars>>

Phases == {"free", "ready", "check", "acquire", "insert",
           "remove", "release", "cleanup", "drain"}

\* "none": no JoinHandle.  Otherwise there is one, and its task is spawned but
\* not yet polled, inside run(), sleeping before a restart, has returned after
\* run() returned Ok, or has died of a panic in run().
TaskStates == {"none", "spawned", "running", "backoff", "finished", "panicked"}

TypeOK ==
  /\ phase \in [Conns -> Phases]
  /\ todo \in [Conns -> Seq(Names)]
  /\ \A c \in Conns :
       phase[c] \in {"acquire", "insert", "release"} => todo[c] # <<>>
  /\ subs \in [Conns -> SUBSET Topics]
  /\ left \in [Conns -> SUBSET Topics]
  /\ subscribers \in [Topics -> Nat]
  /\ task \in [Topics -> TaskStates]
  /\ backoff \in [Topics -> RestartMin..RestartMax]
  /\ health \in [Topics -> {"absent", "running", "idle", "restarting"}]

\* run_daemon acquires the always-on topics before it listens.
Init ==
  /\ phase = [c \in Conns |-> "free"]
  /\ todo = [c \in Conns |-> <<>>]
  /\ subs = [c \in Conns |-> {}]
  /\ left = [c \in Conns |-> {}]
  /\ subscribers = [t \in Topics |-> IF t \in AlwaysOn THEN 1 ELSE 0]
  /\ task = [t \in Topics |-> IF t \in AlwaysOn THEN "spawned" ELSE "none"]
  /\ backoff = [t \in Topics |-> RestartMin]
  /\ health = [t \in Topics |-> "absent"]

-----------------------------------------------------------------------------
(* Hub::acquire and Hub::release: each is one critical section of the      *)
(* runtimes mutex.                                                         *)

\* Mutant: the counter moves but the first interest starts nothing.
AcquiredNoSpawn(t) ==
  /\ subscribers' = [subscribers EXCEPT ![t] = @ + 1]
  /\ UNCHANGED <<task, backoff, health>>

Acquired(t) ==
  /\ subscribers' = [subscribers EXCEPT ![t] = @ + 1]
  /\ task' = IF subscribers[t] = 0 /\ task[t] = "none"
             THEN [task EXCEPT ![t] = "spawned"] ELSE task
  /\ UNCHANGED <<backoff, health>>

\* The subtraction saturates.  Aborting the task stops the loop; the entry in
\* the health map is left as it was.
Released(t) ==
  /\ subscribers' = [subscribers EXCEPT ![t] = IF @ = 0 THEN 0 ELSE @ - 1]
  /\ task' = IF subscribers[t] <= 1 THEN [task EXCEPT ![t] = "none"] ELSE task
  /\ UNCHANGED <<backoff, health>>

-----------------------------------------------------------------------------
(* One connection.                                                         *)

GoTo(c, p) == phase' = [phase EXCEPT ![c] = p]
Advance(c) == todo' = [todo EXCEPT ![c] = Tail(@)]

Accept(c) ==
  /\ phase[c] = "free"
  /\ GoTo(c, "ready")
  /\ UNCHANGED <<todo, subs, left, hubVars>>

Subscribe(c, list) ==
  /\ phase[c] = "ready"
  /\ todo' = [todo EXCEPT ![c] = list]
  /\ GoTo(c, "check")
  /\ UNCHANGED <<subs, left, hubVars>>

\* Mutant: a topic named twice is acquired twice.
SubscribeCheckNoDedup(c) ==
  /\ phase[c] = "check"
  /\ GoTo(c, IF todo[c] = <<>> THEN "ready" ELSE "acquire")
  /\ UNCHANGED <<todo, subs, left, hubVars>>

\* A topic the connection already holds is not acquired again.
SubscribeCheck(c) ==
  /\ phase[c] = "check"
  /\ \/ /\ todo[c] = <<>>
        /\ GoTo(c, "ready")
        /\ UNCHANGED todo
     \/ /\ todo[c] # <<>>
        /\ Head(todo[c]) \in subs[c]
        /\ Advance(c)
        /\ UNCHANGED phase
     \/ /\ todo[c] # <<>>
        /\ Head(todo[c]) \notin subs[c]
        /\ GoTo(c, "acquire")
        /\ UNCHANGED todo
  /\ UNCHANGED <<subs, left, hubVars>>

SubscribeAcquire(c) ==
  /\ phase[c] = "acquire"
  /\ LET t == Head(todo[c]) IN
     \/ /\ t \in Topics
        /\ Acquired(t)
        /\ GoTo(c, "insert")
        /\ UNCHANGED todo
     \/ /\ t \notin Topics
        /\ Advance(c)
        /\ GoTo(c, "check")
        /\ UNCHANGED hubVars
  /\ UNCHANGED <<subs, left>>

SubscribeInsert(c) ==
  /\ phase[c] = "insert"
  /\ subs' = [subs EXCEPT ![c] = @ \cup {Head(todo[c])}]
  /\ Advance(c)
  /\ GoTo(c, "check")
  /\ UNCHANGED <<left, hubVars>>

Unsubscribe(c, list) ==
  /\ phase[c] = "ready"
  /\ todo' = [todo EXCEPT ![c] = list]
  /\ GoTo(c, "remove")
  /\ UNCHANGED <<subs, left, hubVars>>

UnsubscribeRemove(c) ==
  /\ phase[c] = "remove"
  /\ \/ /\ todo[c] = <<>>
        /\ GoTo(c, "ready")
        /\ UNCHANGED <<todo, subs>>
     \/ /\ todo[c] # <<>>
        /\ Head(todo[c]) \in subs[c]
        /\ subs' = [subs EXCEPT ![c] = @ \ {Head(todo[c])}]
        /\ GoTo(c, "release")
        /\ UNCHANGED todo
     \/ /\ todo[c] # <<>>
        /\ Head(todo[c]) \notin subs[c]
        /\ Advance(c)
        /\ UNCHANGED <<phase, subs>>
  /\ UNCHANGED <<left, hubVars>>

UnsubscribeRelease(c) ==
  /\ phase[c] = "release"
  /\ Released(Head(todo[c]))
  /\ Advance(c)
  /\ GoTo(c, "remove")
  /\ UNCHANGED <<subs, left>>

\* The reader loop ends between two requests: end of file, a read error, a line
\* that is too long, or the overflow of the client's output queue.
Disconnect(c) ==
  /\ phase[c] = "ready"
  /\ left' = [left EXCEPT ![c] = subs[c]]
  /\ GoTo(c, "cleanup")
  /\ UNCHANGED <<todo, subs, hubVars>>

\* Mutant: the clean-up loop never gets past a topic.
CleanupReleaseHangs(c) ==
  /\ phase[c] = "cleanup"
  /\ \E t \in left[c] : Released(t)
  /\ UNCHANGED connVars

CleanupRelease(c) ==
  /\ phase[c] = "cleanup"
  /\ \E t \in left[c] :
       /\ Released(t)
       /\ left' = [left EXCEPT ![c] = @ \ {t}]
  /\ UNCHANGED <<phase, todo, subs>>

CleanupDone(c) ==
  /\ phase[c] = "cleanup"
  /\ left[c] = {}
  /\ GoTo(c, "drain")
  /\ UNCHANGED <<todo, subs, left, hubVars>>

\* serve_client returns and its slot is dropped.
FreeSlot(c) ==
  /\ phase[c] = "drain"
  /\ subs' = [subs EXCEPT ![c] = {}]
  /\ GoTo(c, "free")
  /\ UNCHANGED <<todo, left, hubVars>>

\* What the reader task does without waiting for its client.
Handle(c) ==
  \/ SubscribeCheck(c) \/ SubscribeAcquire(c) \/ SubscribeInsert(c)
  \/ UnsubscribeRemove(c) \/ UnsubscribeRelease(c)
  \/ CleanupRelease(c) \/ CleanupDone(c) \/ FreeSlot(c)

-----------------------------------------------------------------------------
(* Hub::supervise, one task per topic that is on.                          *)

SetHealth(t, h) == health' = [health EXCEPT ![t] = h]
SetTask(t, s)   == task' = [task EXCEPT ![t] = s]

LoopStart(t) ==
  /\ task[t] = "spawned"
  /\ SetTask(t, "running")
  /\ SetHealth(t, "running")
  /\ backoff' = [backoff EXCEPT ![t] = RestartMin]
  /\ UNCHANGED <<subscribers, connVars>>

LoopReturns(t) ==
  /\ task[t] = "running"
  /\ SetTask(t, "finished")
  /\ SetHealth(t, "idle")
  /\ UNCHANGED <<subscribers, backoff, connVars>>

\* Mutant: a failed loop stays dead while it has subscribers.
LoopFailsForGood(t) ==
  /\ task[t] = "running"
  /\ SetTask(t, "panicked")
  /\ SetHealth(t, "restarting")
  /\ UNCHANGED <<subscribers, backoff, connVars>>

LoopFails(t) ==
  /\ task[t] = "running"
  /\ SetTask(t, "backoff")
  /\ SetHealth(t, "restarting")
  /\ UNCHANGED <<subscribers, backoff, connVars>>

\* Nobody awaits the JoinHandle: a panic is not seen by the hub.
LoopPanics(t) ==
  /\ t \in Fragile
  /\ task[t] = "running"
  /\ SetTask(t, "panicked")
  /\ UNCHANGED <<subscribers, backoff, health, connVars>>

\* Mutant: the retry is a fresh start, so that the delay never grows.
LoopRestartFresh(t) ==
  /\ task[t] = "backoff"
  /\ SetTask(t, "running")
  /\ SetHealth(t, "running")
  /\ backoff' = [backoff EXCEPT ![t] = RestartMin]
  /\ UNCHANGED <<subscribers, connVars>>

LoopRestart(t) ==
  /\ task[t] = "backoff"
  /\ SetTask(t, "running")
  /\ SetHealth(t, "running")
  /\ backoff' = [backoff EXCEPT ![t] = IF @ * 2 <= RestartMax THEN @ * 2 ELSE RestartMax]
  /\ UNCHANGED <<subscribers, connVars>>

-----------------------------------------------------------------------------
ClientStep(c) ==
  \/ Accept(c)
  \/ \E list \in Requests : Subscribe(c, list) \/ Unsubscribe(c, list)
  \/ Disconnect(c)

LoopStep(t) ==
  \/ LoopStart(t) \/ LoopReturns(t) \/ LoopFails(t)
  \/ LoopPanics(t) \/ LoopRestart(t)

Next ==
  \/ \E c \in Conns : ClientStep(c) \/ Handle(c)
  \/ \E t \in Topics : LoopStep(t)

Spec == Init /\ [][Next]_vars

\* Every task that can run is polled in the end, and a sleep elapses.  Clients
\* and the outcome of run() are not under the daemon's control.
Fairness ==
  /\ \A c \in Conns : WF_vars(Handle(c))
  /\ \A t \in Topics : WF_vars(LoopStart(t) \/ LoopRestart(t))

FairSpec == Spec /\ Fairness

-----------------------------------------------------------------------------
(* Who is counted.  A topic is counted for a connection from the acquire   *)
(* to the matching release, which is one step longer than it is in the     *)
(* subscription set on either side, and up to its own release in clean-up. *)

Owes(c) ==
  CASE phase[c] \in {"insert", "release"} -> subs[c] \cup {Head(todo[c])}
    [] phase[c] = "cleanup"               -> left[c]
    [] phase[c] \in {"free", "drain"}     -> {}
    [] OTHER                              -> subs[c]

Holders(t) == {c \in Conns : t \in Owes(c)}

DaemonHold(t) == IF t \in AlwaysOn THEN 1 ELSE 0

\* The counter of a topic is the number of connections that still owe it a
\* release, plus the daemon's own hold (server.rs:381-384, "topiconkent csak
\* egyszer szamolunk feliratkozot"; main.rs:184-190): nothing is counted twice, lost,
\* or taken back twice, whatever the lists contain and whenever the client leaves.
CountIsHolders ==
  \A t \in Topics : subscribers[t] = Cardinality(Holders(t)) + DaemonHold(t)

\* A topic owns a loop exactly while it is counted (hub.rs:157-162, 245-249), and
\* in particular the always-on loops never lose theirs.
LoopIffCounted ==
  \A t \in Topics : (task[t] # "none") <=> (subscribers[t] > 0)

\* What the phase of the reader task says of the lists it is working on: between
\* acquire and insert, and between remove and release, the topic at hand is not in
\* the subscription set, and a slot nobody uses has no subscriptions.
Shape ==
  \A c \in Conns :
    /\ phase[c] = "acquire" => Head(todo[c]) \notin subs[c]
    /\ phase[c] \in {"insert", "release"} => Head(todo[c]) \in Topics \ subs[c]
    /\ phase[c] = "free" => subs[c] = {}

\* The bookkeeping of interest is exact at every await of every connection: all that
\* keeps it so is here, and every step preserves it (HubProofs).
IInv == TypeOK /\ Shape /\ CountIsHolders /\ LoopIffCounted

\* When the last client has left, the only loops are the daemon's own: the clean-up
\* after any kind of disconnection leaves none behind (server.rs:301-328).
NoOrphanLoop ==
  (\A c \in Conns : phase[c] = "free") =>
    \A t \in Topics \ AlwaysOn : task[t] = "none"

\* A loop is stopped only when nobody subscribed to it remains: one client leaving
\* never takes the stream from another (server.rs:577-589).
StopsOnlyForLast ==
  [][\A t \in Topics :
       (task[t] # "none" /\ task'[t] = "none") =>
         ~ \E c \in Conns : phase'[c] \notin {"cleanup", "drain"} /\ t \in subs'[c]]_vars

\* A subscribed topic gets a loop that streams, or whose module had nothing (more)
\* to stream, unless the subscription ends first: a failing module is restarted
\* again and again (hub.rs:167-212, test a_failing_module_is_restarted...).
Streams(c, t) == t \in subs[c] => task[t] \in {"running", "finished"}

SubscribedGetsStream == \A c \in Conns, t \in Topics \ Fragile : []<>Streams(c, t)

\* A loop that is never stopped and keeps failing is retried ever more slowly and in
\* the end at the longest delay for good (hub.rs:167-172, 182, 210): the delay neither
\* stays where it is nor starts over, whatever its subscribers do meanwhile.
Retrying(t) == task[t] \in {"running", "backoff"}
Sleeping(t) == task[t] = "backoff"
Slowest(t)  == backoff[t] = RestartMax

FailingLoopSlowsDown ==
  \A t \in Topics : <>[]Retrying(t) /\ []<>Sleeping(t) => <>[]Slowest(t)

\* A connection whose reader has stopped gives back everything it holds and its slot.
Cleaned(c) == phase[c] \notin {"cleanup", "drain"}

DisconnectFreesSlot == \A c \in Conns : []<>Cleaned(c)

-----------------------------------------------------------------------------
(* The promise the hub implements.                                         *)

Lazy == INSTANCE LazyTopics WITH
  Users   <- Conns \cup {Daemon},
  holders <- [t \in Topics |-> Holders(t) \cup (IF t \in AlwaysOn THEN {Daemon} ELSE {})],
  on      <- [t \in Topics |-> task[t] # "none"]

\* Counting interest implements knowing who is interested.
ImplementsLazyTopics == Lazy!Spec
=============================================================================
