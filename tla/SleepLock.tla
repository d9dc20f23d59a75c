------------------------------ MODULE SleepLock ------------------------------
(***************************************************************************)
(* Locking before sleep: the session module (modules/session.rs) holds a   *)
(* logind delay inhibitor, publishes `sleeping` when logind announces a    *)
(* sleep, and lets the inhibitor go when the lock screen                   *)
(* (features/lock/LockRoot.qml) reports its surface secure, or after       *)
(* READY_TIMEOUT.  The lock screen also answers loginctl lock-session,     *)
(* idleness, `lock suspend`, and a restart after a crash while locked.     *)
(*                                                                         *)
(* External: logind, PAM, the compositor, scripts/shell-run.  Between the  *)
(* daemon and the shell lies StateFeed, of which only the order of the     *)
(* states and the loss of the older ones is kept, and the counting of Hub. *)
(* While the machine is asleep nothing runs.                               *)
(***************************************************************************)
EXTENDS Integers, Sequences, SequencesExt

CONSTANTS MaxSleeps,    \* bound of the model: sleeps announced
          MaxRequests,  \* bound of the model: lock-session signals
          MaxFaults,    \* bound of the model: crashes, disconnections, loop failures
          FeedCapacity  \* states on their way to the shell; an older one gives way

ASSUME SleepLockAssumption ==
  /\ MaxSleeps \in Nat /\ MaxRequests \in Nat /\ MaxFaults \in Nat
  /\ FeedCapacity \in Nat \ {0}

VARIABLES
  os,          \* logind: awake, announced (PrepareForSleep is out) or asleep
  announced,   \* the sleeps announced so far
  signals,     \* the PrepareForSleep signals the loop has not taken (TRUE: start)
  lockSignals, \* the Lock signals the loop has not taken
  loop,        \* the streaming loop: down, starting, acquiring or idle
  inhibitor,   \* SleepState::inhibitor
  sleeping,    \* SleepState::sleeping
  timers,      \* the cycles whose timeout task has not fired
  cycle,       \* SleepState::cycle
  requests,    \* SleepState::lock_requests
  published,   \* the snapshot of the topic, <<>> for none
  feed,        \* the states on their way to the shell
  lingering,   \* a dead connection still counts as a subscriber
  calls,       \* sleepReady calls on their way to the daemon
  shell,       \* dead, loading (the lock marker is not read yet) or up
  linked,      \* the shell's connection stands and is subscribed
  told,        \* systemSleeping
  seen,        \* seenLockRequests
  ui,          \* the state of LockRoot and its timers
  screen,      \* the compositor keeps the session locked
  marker,      \* the lock marker on disk
  markerDirty, \* a write of the marker is on its way
  faults,      \* the faults so far
  excused,     \* history: what the announced sleep need not wait for the lock for
  granted      \* history: a password was accepted since the last order to lock

logindVars == <<os, announced, excused>>
daemonVars == <<signals, lockSignals, loop, inhibitor, sleeping, timers, cycle, requests>>
feedVars   == <<published, feed>>
linkVars   == <<lingering, linked>>
viewVars   == <<told, seen>>
lockVars   == <<ui, screen, markerDirty, granted>>
vars == <<logindVars, daemonVars, feedVars, linkVars, viewVars, lockVars,
          calls, shell, marker, faults>>

State(s, n) == [sleeping |-> s, requests |-> n]
States      == [sleeping : BOOLEAN, requests : 0..MaxRequests]
Unlocked ==
  [active |-> FALSE, secure |-> FALSE, closing |-> FALSE, unlockTimer |-> FALSE,
   exitTimer |-> FALSE, sleepLockPending |-> FALSE, suspendPending |-> FALSE,
   suspending |-> FALSE, pam |-> FALSE]

\* State sets; no timer of a cycle that never was.
TypeOK ==
  /\ os \in {"awake", "announced", "asleep"}
  /\ announced \in 0..MaxSleeps
  /\ signals \in Seq(BOOLEAN) /\ lockSignals \in 0..MaxRequests
  /\ loop \in {"down", "starting", "acquiring", "idle"}
  /\ inhibitor \in BOOLEAN /\ sleeping \in BOOLEAN
  /\ cycle \in 0..MaxSleeps /\ timers \in SUBSET (1..cycle)
  /\ requests \in 0..MaxRequests
  /\ published \in Seq(States) /\ Len(published) <= 1
  /\ feed \in Seq(States) /\ Len(feed) <= FeedCapacity
  /\ lingering \in BOOLEAN /\ linked \in BOOLEAN /\ calls \in Nat
  /\ shell \in {"dead", "loading", "up"}
  /\ told \in BOOLEAN /\ seen \in -1..MaxRequests
  /\ ui \in [DOMAIN Unlocked -> BOOLEAN]
  /\ screen \in BOOLEAN /\ marker \in BOOLEAN /\ markerDirty \in BOOLEAN
  /\ faults \in 0..MaxFaults /\ excused \in BOOLEAN /\ granted \in BOOLEAN

Init ==
  /\ os = "awake" /\ announced = 0 /\ excused = FALSE
  /\ signals = << >> /\ lockSignals = 0 /\ loop = "down"
  /\ inhibitor = FALSE /\ sleeping = FALSE /\ timers = {} /\ cycle = 0 /\ requests = 0
  /\ published = << >> /\ feed = << >>
  /\ lingering = FALSE /\ linked = FALSE /\ calls = 0
  /\ shell = "loading" /\ told = FALSE /\ seen = -1
  /\ ui = Unlocked /\ screen = FALSE /\ marker = FALSE /\ markerDirty = FALSE
  /\ faults = 0 /\ granted = FALSE

-----------------------------------------------------------------------------
(* logind.                                                                 *)

Running   == os # "asleep"
Listening == loop \in {"acquiring", "idle"}

\* Messages take milliseconds, a person and the next sleep seconds: nobody types and no
\* further sleep is announced while one is under way.
Settled == signals = << >> /\ feed = << >> /\ calls = 0

\* A sleep is announced.  Without an inhibitor it waits for nobody.
Announcement ==
  /\ os = "awake" /\ announced < MaxSleeps /\ Settled
  /\ os' = "announced"
  /\ announced' = announced + 1
  /\ excused' = ~inhibitor
  /\ signals' = IF Listening THEN Append(signals, TRUE) ELSE signals

Announce ==
  /\ Announcement
  /\ UNCHANGED <<lockSignals, loop, inhibitor, sleeping, timers, cycle, requests, feedVars,
                 linkVars, viewVars, lockVars, calls, shell, marker, faults>>

\* The machine sleeps once no inhibitor delays it ...
Sleep ==
  /\ os = "announced" /\ ~inhibitor
  /\ os' = "asleep"
  /\ UNCHANGED <<announced, excused, daemonVars, feedVars, linkVars, viewVars, lockVars,
                 calls, shell, marker, faults>>

\* ... or after InhibitDelayMaxSec.
DelayEnds ==
  /\ os = "announced" /\ inhibitor
  /\ os' = "asleep"
  /\ excused' = TRUE
  /\ UNCHANGED <<announced, daemonVars, feedVars, linkVars, viewVars, lockVars, calls,
                 shell, marker, faults>>

Wake ==
  /\ os = "asleep"
  /\ os' = "awake"
  /\ signals' = IF Listening THEN Append(signals, FALSE) ELSE signals
  /\ UNCHANGED <<announced, excused, lockSignals, loop, inhibitor, sleeping, timers, cycle,
                 requests, feedVars, linkVars, viewVars, lockVars, calls, shell, marker,
                 faults>>

\* loginctl lock-session; nobody hears it while the loop does not listen.
LockSession ==
  /\ Running /\ Listening
  /\ requests + lockSignals < MaxRequests
  /\ lockSignals' = lockSignals + 1
  /\ UNCHANGED <<logindVars, signals, loop, inhibitor, sleeping, timers, cycle, requests,
                 feedVars, linkVars, viewVars, lockVars, calls, shell, marker, faults>>

-----------------------------------------------------------------------------
(* The session module.                                                     *)

Publish(state) ==
  /\ published' = <<state>>
  /\ feed' = IF ~linked THEN feed
             ELSE IF Len(feed) < FeedCapacity THEN Append(feed, state)
             ELSE Append(Tail(feed), state)

\* ReleaseOnDrop.  The snapshot stays with the hub.
Dropped(next) ==
  /\ loop' = next
  /\ inhibitor' = FALSE /\ sleeping' = FALSE
  /\ signals' = << >> /\ lockSignals' = 0
  /\ excused' = (excused \/ os = "announced")

\* The loop connects and listens to PrepareForSleep before it takes the inhibitor.
Listen ==
  /\ Running /\ loop = "starting"
  /\ loop' = "acquiring"
  /\ UNCHANGED <<logindVars, signals, lockSignals, inhibitor, sleeping, timers, cycle,
                 requests, feedVars, linkVars, viewVars, lockVars, calls, shell, marker,
                 faults>>

\* acquire, which only warns of a failure, then publish.  logind grants no inhibitor of
\* what it has already announced.
Acquire ==
  /\ Running /\ loop = "acquiring"
  /\ loop' = "idle"
  /\ \E given \in {FALSE, os = "awake"} : inhibitor' = (inhibitor \/ given)
  /\ Publish(State(sleeping, requests))
  /\ UNCHANGED <<logindVars, signals, lockSignals, sleeping, timers, cycle, requests,
                 linkVars, viewVars, lockVars, calls, shell, marker, faults>>

\* Mutant: the timeout is armed for the sleep before.
BeginSleepOldCycle ==
  /\ Running /\ loop = "idle" /\ signals # << >> /\ signals[1]
  /\ signals' = Tail(signals)
  /\ sleeping' = TRUE
  /\ cycle' = cycle + 1
  /\ timers' = timers \cup {cycle}
  /\ Publish(State(TRUE, requests))
  /\ UNCHANGED <<logindVars, lockSignals, loop, inhibitor, requests, linkVars, viewVars,
                 lockVars, calls, shell, marker, faults>>

BeginSleep ==
  /\ Running /\ loop = "idle" /\ signals # << >> /\ signals[1]
  /\ signals' = Tail(signals)
  /\ sleeping' = TRUE
  /\ cycle' = cycle + 1
  /\ timers' = timers \cup {cycle + 1}
  /\ Publish(State(TRUE, requests))
  /\ UNCHANGED <<logindVars, lockSignals, loop, inhibitor, requests, linkVars, viewVars,
                 lockVars, calls, shell, marker, faults>>

Resumed ==
  /\ Running /\ loop = "idle" /\ signals # << >> /\ ~signals[1]
  /\ signals' = Tail(signals)
  /\ sleeping' = FALSE
  /\ inhibitor' = FALSE
  /\ loop' = "acquiring"
  /\ UNCHANGED <<logindVars, lockSignals, timers, cycle, requests, feedVars, linkVars,
                 viewVars, lockVars, calls, shell, marker, faults>>

LockRequested ==
  /\ Running /\ loop = "idle" /\ lockSignals > 0
  /\ lockSignals' = lockSignals - 1
  /\ requests' = requests + 1
  /\ Publish(State(sleeping, requests + 1))
  /\ UNCHANGED <<logindVars, signals, loop, inhibitor, sleeping, timers, cycle, linkVars,
                 viewVars, lockVars, calls, shell, marker, faults>>

\* Mutant: the expired timer does not ask for its cycle.
TimedOutAny(c) ==
  /\ Running /\ c \in timers
  /\ timers' = timers \ {c}
  /\ inhibitor' = (inhibitor /\ ~sleeping)
  /\ excused' = (excused \/ (os = "announced" /\ sleeping /\ cycle = c))
  /\ UNCHANGED <<os, announced, signals, lockSignals, loop, sleeping, cycle, requests,
                 feedVars, linkVars, viewVars, lockVars, calls, shell, marker, faults>>

\* The timeout task of cycle c, which outlives the loop.  Once it is over, the sleep of
\* its own cycle may go on unlocked.
TimedOut(c) ==
  /\ Running /\ c \in timers
  /\ timers' = timers \ {c}
  /\ inhibitor' = (inhibitor /\ ~(sleeping /\ cycle = c))
  /\ excused' = (excused \/ (os = "announced" /\ sleeping /\ cycle = c))
  /\ UNCHANGED <<os, announced, signals, lockSignals, loop, sleeping, cycle, requests,
                 feedVars, linkVars, viewVars, lockVars, calls, shell, marker, faults>>

\* The call sleepReady.
Ready ==
  /\ Running /\ calls > 0
  /\ calls' = calls - 1
  /\ inhibitor' = (inhibitor /\ ~sleeping)
  /\ UNCHANGED <<logindVars, signals, lockSignals, loop, sleeping, timers, cycle, requests,
                 feedVars, linkVars, viewVars, lockVars, shell, marker, faults>>

\* A D-Bus error ends the loop, and the hub starts it again.
LoopFails ==
  /\ Running /\ loop # "down" /\ faults < MaxFaults
  /\ faults' = faults + 1
  /\ Dropped("starting")
  /\ UNCHANGED <<os, announced, timers, cycle, requests, feedVars, linkVars, viewVars,
                 lockVars, calls, shell, marker>>

\* The server cleans up after the dead connection: the last subscriber ends the loop.
Lingered ==
  /\ Running /\ lingering
  /\ lingering' = FALSE
  /\ IF linked
       THEN UNCHANGED <<loop, inhibitor, sleeping, signals, lockSignals, excused>>
       ELSE Dropped("down")
  /\ UNCHANGED <<os, announced, timers, cycle, requests, feedVars, linked, viewVars,
                 lockVars, calls, shell, marker, faults>>

-----------------------------------------------------------------------------
(* The lock screen.  Its functions map one state of it to the next.        *)

resetCycleState(u) ==
  [u EXCEPT !.closing = FALSE, !.unlockTimer = FALSE, !.exitTimer = FALSE]

lock(u) ==
  IF u.active \/ u.closing THEN u ELSE [resetCycleState(u) EXCEPT !.active = TRUE]

\* Mutant: the animation is turned round and its timer forgotten.
lockNowTimerRuns(u) ==
  IF u.closing /\ u.active
    THEN [u EXCEPT !.closing = FALSE]
    ELSE lock([u EXCEPT !.closing = FALSE, !.exitTimer = @ /\ ~u.closing])

\* The lock of an outside cause turns an unlocking round.
lockNow(u) ==
  IF u.closing /\ u.active
    THEN [u EXCEPT !.unlockTimer = FALSE, !.closing = FALSE]
    ELSE lock([u EXCEPT !.closing = FALSE, !.exitTimer = @ /\ ~u.closing])
suspendWhenSecure(u) ==
  IF u.suspendPending /\ u.secure /\ ~u.suspending
    THEN [u EXCEPT !.suspendPending = FALSE, !.suspending = TRUE] ELSE u

\* releaseSleepWhenSecure: the state of the lock screen and the calls it makes.
Releases(u) == u.sleepLockPending /\ u.secure
releaseSleepWhenSecure(u) ==
  IF Releases(u) THEN [u EXCEPT !.sleepLockPending = FALSE] ELSE u
Called(u) == calls + (IF Releases(u) /\ linked THEN 1 ELSE 0)

\* onSessionActiveChanged writes the marker.
Becomes(u) ==
  /\ ui' = u
  /\ markerDirty' = (markerDirty \/ u.active # ui.active)

\* onSystemSleepingChanged, before its call of releaseSleepWhenSecure.
SleepingChanged(u, now) ==
  IF now = told THEN u
  ELSE IF now THEN [lockNow(u) EXCEPT !.sleepLockPending = TRUE]
  ELSE [u EXCEPT !.sleepLockPending = FALSE]

\* onSessionLockRequestsChanged: the first value is only the base line.
Requested(n) == seen >= 0 /\ n > seen

\* A state arrives: both handlers, and the release the first one may lead to.
Deliver ==
  /\ Running /\ linked /\ feed # << >>
  /\ LET s == Head(feed)
         slept == SleepingChanged(ui, s.sleeping)
         released == releaseSleepWhenSecure(slept)
     IN  /\ calls' = Called(slept)
         /\ Becomes(IF Requested(s.requests) THEN lockNow(released) ELSE released)
         /\ granted' = (granted /\ ~(s.sleeping /\ ~told) /\ ~Requested(s.requests))
         /\ told' = s.sleeping
         /\ seen' = s.requests
  /\ feed' = Tail(feed)
  /\ UNCHANGED <<logindVars, daemonVars, published, linkVars, screen, shell, marker, faults>>

\* `lock lock` of the shell's IPC, and the idle monitor, which is off while locked.
LockAsked ==
  /\ Running /\ shell = "up" /\ ~ui.active
  /\ \E u \in {lock(ui), lockNow(ui)} :
       /\ u # ui
       /\ Becomes(u)
  /\ granted' = FALSE
  /\ UNCHANGED <<logindVars, daemonVars, feedVars, linkVars, viewVars, screen, calls, shell,
                 marker, faults>>

\* `lock suspend` of the shell's IPC.
suspend ==
  /\ Running /\ shell = "up" /\ announced < MaxSleeps
  /\ ~ui.closing /\ ~ui.suspendPending /\ ~ui.suspending
  /\ Becomes(suspendWhenSecure([lock(ui) EXCEPT !.suspendPending = TRUE]))
  /\ UNCHANGED <<logindVars, daemonVars, feedVars, linkVars, viewVars, screen, granted,
                 calls, shell, marker, faults>>

\* systemctl suspend: it announces a sleep, or fails.
Suspends ==
  /\ Running /\ ui.suspending
  /\ ui' = [ui EXCEPT !.suspending = FALSE]
  /\ \/ Announcement
     \/ UNCHANGED <<logindVars, signals>>
  /\ UNCHANGED <<lockSignals, loop, inhibitor, sleeping, timers, cycle, requests, feedVars,
                 linkVars, viewVars, screen, markerDirty, granted, calls, shell, marker,
                 faults>>

\* The compositor confirms the lock surfaces: onSecureChanged.
Secures ==
  /\ Running /\ ui.active /\ ~ui.secure
  /\ LET u == suspendWhenSecure([ui EXCEPT !.secure = TRUE])
     IN  /\ ui' = releaseSleepWhenSecure(u)
         /\ calls' = Called(u)
  /\ screen' = TRUE
  /\ UNCHANGED <<logindVars, daemonVars, feedVars, linkVars, viewVars, markerDirty, granted,
                 shell, marker, faults>>

\* tryUnlock.  The field takes input during the unlocking animation too.
tryUnlock ==
  /\ Running /\ Settled /\ ui.secure /\ ~ui.pam
  /\ ui' = [ui EXCEPT !.pam = TRUE]
  /\ UNCHANGED <<logindVars, daemonVars, feedVars, linkVars, viewVars, screen, markerDirty,
                 granted, calls, shell, marker, faults>>

\* PAM's answer.  reset() never stops a conversation that runs.
PamRefuses ==
  /\ Running /\ ui.pam
  /\ ui' = [ui EXCEPT !.pam = FALSE]
  /\ UNCHANGED <<logindVars, daemonVars, feedVars, linkVars, viewVars, screen, markerDirty,
                 granted, calls, shell, marker, faults>>

finishUnlock ==
  /\ Running /\ ui.pam
  /\ ui' = [ui EXCEPT !.pam = FALSE, !.closing = TRUE, !.unlockTimer = @ \/ ~ui.closing]
  /\ granted' = TRUE
  /\ excused' = (excused \/ os = "announced")
  /\ UNCHANGED <<os, announced, daemonVars, feedVars, linkVars, viewVars, screen, markerDirty,
                 calls, shell, marker, faults>>

\* unlockAnimationTimer: the lock ends, and with it `secure`; the timer, or
\* onSecureChanged, starts the last one.
UnlockAnimationEnds ==
  /\ Running /\ ui.unlockTimer
  /\ Becomes([ui EXCEPT !.unlockTimer = FALSE, !.active = FALSE, !.secure = FALSE,
                        !.exitTimer = TRUE])
  /\ screen' = (screen /\ ~ui.active)
  /\ UNCHANGED <<logindVars, daemonVars, feedVars, linkVars, viewVars, granted, calls, shell,
                 marker, faults>>
UnlockExits ==
  /\ Running /\ ui.exitTimer
  /\ ui' = resetCycleState(ui)
  /\ UNCHANGED <<logindVars, daemonVars, feedVars, linkVars, viewVars, screen, markerDirty,
                 granted, calls, shell, marker, faults>>

\* FileView writes the marker on its own time.
MarkerWritten ==
  /\ Running /\ markerDirty
  /\ marker' = ui.active
  /\ markerDirty' = FALSE
  /\ UNCHANGED <<logindVars, daemonVars, feedVars, linkVars, viewVars, ui, screen, granted,
                 calls, shell, faults>>

-----------------------------------------------------------------------------
(* Crashes and connections.                                                *)

\* What the shell loses with its connection: _onDisconnected drops the topic, so both
\* handlers see a session of which nothing is known.
Unlinked ==
  /\ linked' = FALSE
  /\ lingering' = (lingering \/ linked)
  /\ feed' = << >>
  /\ told' = FALSE
  /\ seen' = -1

Disconnects ==
  /\ Running /\ linked /\ ~lingering /\ faults < MaxFaults
  /\ faults' = faults + 1
  /\ Unlinked
  /\ ui' = [ui EXCEPT !.sleepLockPending = FALSE]
  /\ UNCHANGED <<logindVars, daemonVars, published, screen, markerDirty, granted, calls,
                 shell, marker>>

\* The compositor keeps a locked session locked.
Crashes ==
  /\ Running /\ shell # "dead" /\ ~lingering /\ faults < MaxFaults
  /\ faults' = faults + 1
  /\ shell' = "dead"
  /\ Unlinked
  /\ ui' = Unlocked
  /\ markerDirty' = FALSE
  /\ UNCHANGED <<logindVars, daemonVars, published, screen, granted, calls, marker>>

\* scripts/shell-run.
Restarts ==
  /\ Running /\ shell = "dead"
  /\ shell' = "loading"
  /\ UNCHANGED <<logindVars, daemonVars, feedVars, linkVars, viewVars, lockVars, calls,
                 marker, faults>>

\* lockMarker has been read.
MarkerRead ==
  /\ Running /\ shell = "loading"
  /\ shell' = "up"
  /\ Becomes(IF marker THEN lock(ui) ELSE ui)
  /\ UNCHANGED <<logindVars, daemonVars, feedVars, linkVars, viewVars, screen, granted,
                 calls, marker, faults>>

\* The socket connects, the subscription starts the loop and is sent the snapshot.
Connects ==
  /\ Running /\ shell # "dead" /\ ~linked
  /\ linked' = TRUE
  /\ loop' = IF loop = "down" THEN "starting" ELSE loop
  /\ feed' = published
  /\ UNCHANGED <<logindVars, signals, lockSignals, inhibitor, sleeping, timers, cycle,
                 requests, published, lingering, viewVars, lockVars, calls, shell, marker,
                 faults>>

-----------------------------------------------------------------------------
Logind == Announce \/ Sleep \/ DelayEnds \/ Wake \/ LockSession
Daemon ==
  \/ Listen \/ Acquire \/ BeginSleep \/ Resumed \/ LockRequested
  \/ Ready \/ LoopFails \/ Lingered
  \/ \E c \in 1..MaxSleeps : TimedOut(c)
Lock ==
  \/ Deliver \/ LockAsked \/ suspend \/ Suspends \/ Secures
  \/ tryUnlock \/ PamRefuses \/ finishUnlock \/ UnlockAnimationEnds \/ UnlockExits
  \/ MarkerWritten
Links == Disconnects \/ Crashes \/ Restarts \/ MarkerRead \/ Connects

Next == Logind \/ Daemon \/ Lock \/ Links
Spec == Init /\ [][Next]_vars

-----------------------------------------------------------------------------
(* Properties.                                                             *)

\* A machine whose sleep was delayed sleeps behind the lock screen: neither a timer nor a
\* report of another sleep, nor an unlocking that was under way, lets it go sooner.  It is
\* excused from waiting when no inhibitor was held, its own cycle's READY_TIMEOUT or
\* logind's limit ran out, the loop was lost, or a password was accepted after the
\* announcement.  (session.rs 1-13, LockRoot.qml 111-114)
SleepsLocked == os = "asleep" => screen \/ excused

\* No announced sleep is held up for good, even without logind's own limit: whenever an
\* inhibitor holds it up, its announcement is still to be taken or the timeout of its own
\* cycle still to fire.  (session.rs 11-16)
SomethingReleases ==
  os = "announced" /\ inhibitor
    => (\E i \in DOMAIN signals : signals[i]) \/ (sleeping /\ cycle \in timers)

\* The screen opens only after a password was accepted since it was last told to lock from
\* outside: the unlocking a sleep or a request turned round does not finish by itself.
RelockHolds == [][screen /\ ~screen' => granted]_vars

\* A counted lock-session request the shell is due to see is on its way to it ...
RequestOnItsWay ==
  linked /\ seen >= 0 /\ seen < requests => feed # << >> /\ Last(feed).requests = requests

\* Unlocking comes to an end: lock() ignores everything while it lasts, so one of the two
\* timers that end it is always running.
UnlockingEnds == ui.closing => ui.unlockTimer \/ ui.exitTimer

\* A session the compositor keeps locked and whose marker is written has a lock screen to
\* open it, once the shell, restarted or not, is up.
LockHasKeeper == shell = "up" /\ screen /\ marker => ui.active

\* Neither a sleep nor an order to lock, an unlocking or a locked session waits for
\* something that nobody will do any more.
LockInv ==
  TypeOK /\ SomethingReleases /\ RequestOnItsWay /\ UnlockingEnds /\ LockHasKeeper
=============================================================================
