------------------------------- MODULE Services -------------------------------
(* Parts of the daemon that share nothing: the connection, the hub, and the     *)
(* modules and helpers whose liveness is looked at.  A behaviour is of one of   *)
(* them, which is chosen at the start; all but the connection use as many of    *)
(* the variables s1 to s15 as they have.  Each keeps its own constants.         *)
EXTENDS Connection, Integers

CONSTANTS
  Conns, Topics, AlwaysOn, Fragile, BadNames, Requests, Daemon, RestartMin, RestartMax, \* hub
  Calls, Themes, Dynamic, First, Walls,               \* theme
  Feeds, Values, Absent, Never, MaxChanges, MaxCalls, \* devices
  Contents, Secrets, MaxUser,                         \* watcher
  PipeSize, MaxOutput                                 \* child

VARIABLES component, s1, s2, s3, s4, s5, s6, s7, s8, s9, s10, s11, s12, s13, s14, s15

slots == <<s1, s2, s3, s4, s5, s6, s7, s8, s9, s10, s11, s12, s13, s14, s15>>

-----------------------------------------------------------------------------
(* The instances.                                                            *)

Hubs == INSTANCE Hub WITH
  phase <- s1, todo <- s2, subs <- s3, left <- s4, subscribers <- s5, task <- s6,
  backoff <- s7, health <- s8

Theme == INSTANCE ThemeApply WITH
  record <- s1, conf <- s2, out <- s3, portrait <- s4, temp <- s5, turn <- s6, job <- s7,
  todo <- s8, failed <- s9, feed <- s10, behind <- s11

Devices == INSTANCE DeviceFeeds WITH
  feed <- s1, present <- s2, value <- s3, changes <- s4, watched <- s5, pending <- s6,
  step <- s7, got <- s8, last <- s9, shown <- s10, watcher <- s11, call <- s12, seen <- s13,
  calls <- s14, absorbed <- s15

Watcher == INSTANCE ClipboardWatcher WITH
  sel <- s1, wire <- s2, requests <- s3, source <- s4, had <- s5, reading <- s6,
  events <- s7, commands <- s8, history <- s9, sources <- s10, user <- s11

Child == INSTANCE ChildDeadline WITH
  caller <- s1, result <- s2, child <- s3, grand <- s4, holding <- s5, written <- s6,
  read <- s7, waiter <- s8, message <- s9, killed <- s10

ASSUME ServicesAssumption ==
  /\ Theme!ThemesAssumption /\ Theme!NoneAssumption
  /\ Devices!FeedsAssumption /\ Devices!AbsentAssumption /\ Devices!BoundsAssumption
  /\ Watcher!SecretsAssumption /\ Watcher!NoneAssumption /\ Watcher!BoundAssumption
  /\ Child!SizesAssumption

-----------------------------------------------------------------------------
(* One of them runs.                                                         *)

From13 == s13 = None /\ s14 = None /\ s15 = None
From11 == s11 = None /\ s12 = None /\ From13
From9  == s9 = None /\ s10 = None /\ From11
From5  == s5 = None /\ s6 = None /\ s7 = None /\ s8 = None /\ From9
From3  == s3 = None /\ s4 = None /\ From5

ServicesInit ==
  /\ Init
  /\ \/ component = "connection" /\ s1 = None /\ s2 = None /\ From3
     \/ component = "hub"     /\ Hubs!Init    /\ From9
     \/ component = "theme"   /\ Theme!Init   /\ s12 = None /\ From13
     \/ component = "devices" /\ Devices!Init
     \/ component = "watcher" /\ Watcher!Init /\ s12 = None /\ From13
     \/ component = "child"   /\ Child!Init   /\ From11

After8  == UNCHANGED <<s9, s10, s11, s12, s13, s14, s15>>
After10 == UNCHANGED <<s11, s12, s13, s14, s15>>
After11 == UNCHANGED <<s12, s13, s14, s15>>

One(c) == component = c /\ UNCHANGED component

ServicesNext ==
  \/ One("connection") /\ Next         /\ UNCHANGED slots
  \/ One("hub")        /\ Hubs!Next    /\ After8 /\ UNCHANGED vars
  \/ One("theme")      /\ Theme!Next   /\ After11 /\ UNCHANGED vars
  \/ One("devices")    /\ Devices!Next /\ UNCHANGED vars
  \/ One("watcher")    /\ Watcher!Next /\ After11 /\ UNCHANGED vars
  \/ One("child")      /\ Child!Next   /\ After10 /\ UNCHANGED vars

all == <<component, vars, slots>>

\* Each one's own fairness, where it is the one that runs.
ServicesFairness ==
  /\ WF_vars(ReaderStep) /\ WF_vars(DrainTimeout) /\ WF_vars(WriterStep)
  /\ \A c \in Conns : WF_(Hubs!vars)(component = "hub" /\ Hubs!Handle(c))
  /\ \A t \in Topics :
       WF_(Hubs!vars)(component = "hub" /\ (Hubs!LoopStart(t) \/ Hubs!LoopRestart(t)))
  /\ \A c \in Calls : SF_(Theme!vars)(component = "theme" /\ Theme!Work(c))
  /\ WF_(Devices!vars)(component = "devices" /\ Devices!Loop)
  /\ WF_(Devices!vars)(component = "devices" /\ Devices!Thread)
  /\ WF_(Devices!vars)(component = "devices" /\ Devices!Unheard /\ Devices!Backstop)
  /\ WF_(Devices!vars)(component = "devices" /\ (Devices!CallReads \/ Devices!CallPushes))
  /\ WF_(Watcher!vars)(component = "watcher" /\ Watcher!Compositor)
  /\ WF_(Watcher!vars)(component = "watcher" /\ Watcher!DaemonSteps)
  /\ WF_(Child!vars)(component = "child" /\ Child!Proc)
  /\ WF_(Child!vars)(component = "child" /\ Child!Deadline)
  /\ WF_(Child!vars)(component = "child" /\ (Child!spawn \/ Child!run_with_input))

ServicesSpec == ServicesInit /\ [][ServicesNext]_all /\ ServicesFairness

-----------------------------------------------------------------------------
(* Their properties.                                                         *)

\* See SubscribedGetsStream, DisconnectFreesSlot and FailingLoopSlowsDown in Hub.
HubSubscribedGetsStream ==
  \A c \in Conns, t \in Topics : []<>(component = "hub" => Hubs!Streams(c, t))
HubDisconnectFreesSlot == \A c \in Conns : []<>(component = "hub" => Hubs!Cleaned(c))
HubFailingLoopSlowsDown ==
  \A t \in Topics :
    <>[](component = "hub" /\ Hubs!Retrying(t)) /\ []<>(component = "hub" /\ Hubs!Sleeping(t))
      => <>[](component = "hub" /\ Hubs!Slowest(t))

\* See EveryCallEnds in ThemeApply.
ThemeEveryCallEnds == \A c \in Calls : []<>(component = "theme" => Theme!Ended(c))

\* See LoopsCatchUp in DeviceFeeds.
DeviceLoopsCatchUp == <>[](component = "devices" => Devices!CaughtUp)

\* See SelectionIsServed and ComesToRest in ClipboardWatcher.
WatcherSelectionIsServed == component = "watcher" => Watcher!SelectionIsServed
WatcherComesToRest       == <>[](component = "watcher" => Watcher!AtRest)

\* See OutputIsWhole and EveryRunEnds in ChildDeadline.
ChildOutputIsWhole == component = "child" => Child!OutputIsWhole
ChildEveryRunEnds  == <>[](component = "child" => Child!Over)
=============================================================================
