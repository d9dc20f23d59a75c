----------------------------- MODULE DeviceFeeds -----------------------------
(***************************************************************************)
(* The modules that follow something outside the daemon and publish it     *)
(* when it has changed: network.rs, removable.rs, privacy.rs (who uses the *)
(* camera), brightness.rs and weather.rs.                                  *)
(*                                                                         *)
(* Each is a loop that waits to be woken, lets the dust settle, reads and  *)
(* publishes what it has not published yet; a slow timer stands behind the *)
(* wake-ups.  They differ in what wakes them, and in that a call of        *)
(* removable and brightness publishes too.  The variable feed says which   *)
(* of them a behaviour is about.                                           *)
(***************************************************************************)
EXTENDS Naturals

CONSTANTS Feeds,      \* the modules looked at
          Values,     \* what there is to see (links, mounts, percents, places)
          Absent,     \* nothing there
          Never,      \* nothing read or published yet
          MaxChanges, \* bound: changes outside, failed readings included
          MaxCalls    \* bound: calls

FeedsAssumption ==
  Feeds \subseteq {"network", "removable", "privacy", "brightness", "weather"}
AbsentAssumption == Absent \notin Values \cup {Never} /\ Never \notin Values
BoundsAssumption == MaxChanges \in Nat /\ MaxCalls \in Nat

VARIABLES feed,    \* the module
          present, \* the device is there
          value,   \* what a reading would find
          changes, \* changes so far
          watched, \* the watch on the device itself: privacy's, brightness's file
          pending, \* a wake-up has not been taken yet
          step,    \* where the loop is
          got,     \* what it has read
          last,    \* what it published last
          shown,   \* what the subscribers have
          watcher, \* brightness: the watching thread; privacy: inotify, if there is
         absorbed, \* the thread has read away a change the loop has not seen
          call,    \* where the call is
          seen,    \* what the call has read
          calls    \* calls so far

outside == <<present, value, changes>>
caller == <<call, seen, calls>>
watching == <<watched, watcher, absorbed>>
vars == <<feed, outside, pending, step, got, last, shown, watching, caller>>

Is(f) == feed = f

\* The camera devices that are there get a watch, which may be refused; one that has
\* it keeps it.  The directory they come and go in is watched, or there is no inotify.
watch_devices ==
  CASE ~Is("privacy") -> {watched}
    [] ~present       -> {"no"}
    [] OTHER          -> IF watched = "yes" THEN {"yes"} ELSE {"yes", "refused"}

Init ==
  /\ feed \in Feeds
  /\ present \in (IF feed \in {"network", "weather"} THEN {TRUE} ELSE BOOLEAN)
  /\ value \in Values \cup {Absent}
  /\ (value = Absent) <=> (~present \/ feed = "privacy")
  /\ changes = 0
  /\ watcher \in (IF feed = "privacy" THEN {"inotify", "none"} ELSE {"none"})
  /\ watched \in (IF watcher = "inotify" /\ present THEN {"yes", "refused"} ELSE {"no"})
  /\ pending = FALSE /\ absorbed = FALSE
  /\ step = "read" /\ got = Absent
  /\ last = Never /\ shown = Never
  /\ call = "none" /\ seen = Absent /\ calls = 0

-----------------------------------------------------------------------------
(* Outside.                                                                 *)

\* A mount, an address or a place that changes is not signalled; a link is; the
\* camera is if its device is watched, the panel if the thread is polling.
Heard ==
  CASE Is("network") -> BOOLEAN
    [] Is("privacy") -> {watched = "yes"}
    [] OTHER         -> {FALSE}

Changed(v) ==
  /\ value' = v
  /\ \E heard \in Heard : pending' = (pending \/ heard)
  /\ watcher' = IF watcher = "poll" THEN "send" ELSE watcher
  /\ UNCHANGED <<watched, absorbed>>

Change ==
  /\ changes < MaxChanges /\ changes' = changes + 1
  /\ present
  /\ \E v \in (IF Is("privacy") THEN Values \cup {Absent} ELSE Values) \ {value} : Changed(v)
  /\ UNCHANGED <<feed, present, step, got, last, shown, caller>>

\* A device comes or goes, and with it the watch on it; a poll of a file that is gone
\* returns with an error or at its next tick.
Plug ==
  /\ Is("removable") \/ Is("privacy") \/ Is("brightness")
  /\ changes < MaxChanges /\ changes' = changes + 1
  /\ present' = ~present
  /\ value' \in IF present \/ Is("privacy") THEN {Absent} ELSE Values
  /\ watched' = "no"
  /\ pending' = (pending \/ Is("removable") \/ watcher = "inotify")
  /\ watcher' \in IF watcher = "poll" THEN {"read", "send"} ELSE {watcher}
  /\ UNCHANGED <<feed, step, got, last, shown, absorbed, caller>>

-----------------------------------------------------------------------------
(* The loops.                                                               *)

\* What is published already is not published again.
publish(v) ==
  /\ last' = v
  /\ shown' = IF last = v THEN shown ELSE v

Finds == got' = value /\ UNCHANGED changes

FailsWith(v) == changes < MaxChanges /\ changes' = changes + 1 /\ got' = v

\* NetworkManager or udisks that does not answer has nothing; /proc is always there.
read_state == Is("network") /\ (Finds \/ FailsWith(Absent))
read_devices == Is("removable") /\ (Finds \/ FailsWith(Absent))
camera_users == Is("privacy") /\ Finds

\* A reading takes time: what it found is published a step later.
Read ==
  /\ step = "read"
  /\ read_state \/ read_devices \/ camera_users
  /\ step' = "publish"
  /\ UNCHANGED <<feed, present, value, pending, last, shown, watching, caller>>

Publish ==
  /\ step = "publish"
  /\ publish(got)
  /\ step' = "wait"
  /\ UNCHANGED <<feed, outside, pending, got, watching, caller>>

Wake ==
  /\ step = "wait" /\ pending
  /\ pending' = FALSE
  /\ step' = IF Is("brightness") THEN "level" ELSE "settle"
  /\ UNCHANGED <<feed, outside, got, last, shown, watching, caller>>

\* A camera that cannot be watched at all is polled.
Polled == Is("weather") \/ (Is("privacy") /\ watcher = "none")

Backstop ==
  /\ step = "wait" /\ ~Is("brightness")
  /\ step' = IF Polled THEN "read" ELSE "settle"
  /\ UNCHANGED <<feed, outside, pending, got, last, shown, watching, caller>>

\* Mutant: the new devices are not watched.
SettleUnwatched ==
  /\ step = "settle"
  /\ pending' = (pending /\ ~Is("privacy"))
  /\ step' = "read"
  /\ UNCHANGED <<feed, outside, got, last, shown, watching, caller>>

\* The camera's events are thrown away, and what devices there are is watched, before
\* the reading that follows.
Settle ==
  /\ step = "settle"
  /\ pending' = (pending /\ ~Is("privacy"))
  /\ watched' \in watch_devices
  /\ step' = "read"
  /\ UNCHANGED <<feed, outside, got, last, shown, watcher, absorbed, caller>>

\* The place is found, and its weather, or a request fails and leaves what was known.
coordinates_for == Finds \/ FailsWith(last)

\* Weather: what was known is published once more.
Refresh ==
  /\ step = "read" /\ Is("weather")
  /\ coordinates_for
  /\ step' = IF got' = Never THEN "wait" ELSE "publish"
  /\ UNCHANGED <<feed, present, value, pending, last, shown, watching, caller>>

\* Brightness: the panel is looked for, its level published, and a thread set on it;
\* without a panel the search is repeated.
Find ==
  /\ step = "read" /\ Is("brightness")
  /\ publish(value) /\ absorbed' = FALSE
  /\ IF present THEN step' = "wait" /\ watcher' = "read" /\ watched' = "yes"
     ELSE UNCHANGED <<step, watcher, watched>>
  /\ UNCHANGED <<feed, outside, pending, got, caller>>

Level ==
  /\ step = "level"
  /\ publish(value) /\ absorbed' = FALSE
  /\ step' = "wait"
  /\ UNCHANGED <<feed, outside, watched, pending, got, watcher, caller>>

\* The thread reads the file, which arms its poll for the changes that are to come, and
\* only for them; if the panel has gone since it ends, and the loop, which
\* hears of it after all it was sent, looks for a panel again.
ThreadReads ==
  /\ watcher = "read"
  /\ \/ /\ watched = "yes"
        /\ watcher' = "poll"
        /\ absorbed' = (absorbed \/ (step = "wait" /\ ~pending /\ last # value))
        /\ UNCHANGED step
     \/ /\ watched = "no" /\ step = "wait" /\ ~pending
        /\ watcher' = "none" /\ step' = "read"
        /\ UNCHANGED absorbed
  /\ UNCHANGED <<feed, outside, watched, pending, got, last, shown, caller>>

\* Every second the poll returns with nothing, to see whether the loop has gone.
ThreadTicks ==
  /\ watcher = "poll"
  /\ watcher' = "read"
  /\ UNCHANGED <<feed, outside, watched, absorbed, pending, step, got, last, shown, caller>>

\* It wakes the loop, and only then reads again.
ThreadSends ==
  /\ watcher = "send"
  /\ pending' = TRUE
  /\ watcher' = "read"
  /\ UNCHANGED <<feed, outside, watched, absorbed, step, got, last, shown, caller>>

-----------------------------------------------------------------------------
(* The calls.                                                               *)

\* mount, unmount and power off; set and step.
Act ==
  /\ Is("removable") \/ Is("brightness")
  /\ call = "none" /\ present /\ calls < MaxCalls
  /\ calls' = calls + 1
  /\ \E v \in Values \ {value} : Changed(v)
  /\ call' = "read"
  /\ UNCHANGED <<feed, present, changes, step, got, last, shown, seen>>

\* removable awaits its reading, brightness has it at once.
CallReads ==
  /\ call = "read" /\ Is("removable")
  /\ seen' = value
  /\ call' = "push"
  /\ UNCHANGED <<feed, outside, pending, step, got, last, shown, watching, calls>>

CallPushes ==
  /\ call = IF Is("removable") THEN "push" ELSE "read"
  /\ shown' = IF Is("removable") THEN seen ELSE value
  /\ call' = "none"
  /\ UNCHANGED <<feed, outside, pending, step, got, last, watching, seen, calls>>

Loop == Read \/ Publish \/ Wake \/ Settle \/ Refresh \/ Find \/ Level

Thread == ThreadReads \/ ThreadSends

Next ==
  \/ Change \/ Plug \/ Loop \/ Backstop \/ Thread \/ ThreadTicks
  \/ Act \/ CallReads \/ CallPushes

\* Where only the slow timer can tell; a camera whose opening is heard is to be seen
\* without it.
Unheard == Is("privacy") => watcher = "none" \/ watched = "refused"

\* The timer is slow, but it comes.
Fairness ==
  /\ WF_vars(Loop)
  /\ WF_vars(Thread)
  /\ WF_vars(Unheard /\ Backstop)
  /\ WF_vars(CallReads \/ CallPushes)

Spec == Init /\ [][Next]_vars /\ Fairness

-----------------------------------------------------------------------------
(* Properties.                                                              *)

\* Whatever changes while a loop reads, settles, fails or sleeps: when things have
\* come to rest, what it published last is how they are, and what the subscribers have, unless
\* a call has pushed a reading of its own late (removable.rs:171).  No wake-up is lost between
\* a reading and the wait that follows; a camera that is plugged in and used at
\* once is seen without waiting for the slow timer (privacy.rs:125-141), and one that
\* cannot be watched with it (privacy.rs:71-76, 123-125).
\*
\* One change is lost by design of the code, and only that one is excepted: one of the
\* panel's level that falls after the loop's reading and before the thread's, which
\* arms the poll anew (brightness.rs:120-124, 232, 240).  The loop has no timer, so that
\* it shows the old level until the next change, against brightness.rs:8-11.
CaughtUp == absorbed \/ (last = value /\ (calls = 0 => shown = value))

LoopsCatchUp == <>[]CaughtUp
=============================================================================
