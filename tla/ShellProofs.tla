------------------------------ MODULE ShellProofs ------------------------------
(***************************************************************************)
(* What holds of the shell's two parts, for any values of the constants:   *)
(* first of SleepLock, for any number of sleeps, lock requests and faults  *)
(* and any capacity of the feed, then of the notification centre, for any  *)
(* senders, any limit of the history and any number of notifications.      *)
(*                                                                         *)
(* That a sleep which was delayed finds the screen locked is true at one   *)
(* moment, and what makes it true is spread over logind, the daemon, the   *)
(* feed and the lock screen.  The inductive invariant says what each of    *)
(* them knows of the others, and what an announcement nothing has excused  *)
(* yet goes through: first its signal is on its way and nobody believes    *)
(* the machine to be sleeping (Unheard), then the daemon sleeps, and a     *)
(* call of sleepReady or a released inhibitor means a locked screen with   *)
(* no unlocking under way (Heard).                                         *)
(*                                                                         *)
(* A handler of the notification centre is a chain of assignments with     *)
(* callbacks between them, and what holds of the centre does not hold      *)
(* between two of them.  Kept is what does: it allows the toast to be of   *)
(* an entry that has just left the history.  Each part of a handler is     *)
(* shown to keep it, and to end without such a toast where the handler     *)
(* ends (Sound).                                                           *)
(***************************************************************************)
EXTENDS Shell, FiniteSetTheorems, TLAPS

\* The animation of an unlocking runs for an accepted password only.
TimerIsGranted == ui.unlockTimer => ui.closing /\ granted

\* Secure surfaces are an active lock's on a locked screen, and a lock that is over has
\* not left the screen locked behind a conversation with PAM.
LockIsShown ==
  /\ ui.secure => ui.active /\ screen
  /\ (ui.closing \/ ui.pam) /\ ~ui.active => ~screen

\* A sleep waits for the lock only while the shell believes in it.
PendingIsTold == ui.sleepLockPending => told

\* The announcements the loop has still to hear of: at most the last sleep's, and while
\* the machine is not awake only that it begins.  Each of them is worth one cycle.
SignalsKnown ==
  /\ IF os = "awake"
       THEN Len(signals) \in 0..2 /\ (Len(signals) > 0 => ~signals[Len(signals)])
       ELSE Len(signals) \in 0..1 /\ (Len(signals) = 1 => signals[1])
  /\ cycle <= announced /\ (Len(signals) > 0 /\ signals[1] => cycle < announced)
  /\ requests + lockSignals <= MaxRequests

\* Only the idle loop has an inhibitor; a loop that does not listen has heard nothing;
\* and once the machine is awake the loop believes so, or has still to hear of it.
LoopKnows ==
  /\ inhibitor => loop = "idle"
  /\ loop \in {"down", "starting"} => signals = << >> /\ ~sleeping
  /\ os = "awake" /\ signals = << >> => ~sleeping

\* The snapshot of an idle loop is its state, the feed ends in the snapshot, and a shell
\* that has read everything believes what the snapshot says.
FeedKnows ==
  /\ published # << >> => published[1].requests = requests
  /\ loop = "idle" => published # << >> /\ published[1].sleeping = sleeping
  /\ ~linked => feed = << >> /\ seen = -1 /\ ~told
  /\ feed # << >> => published # << >> /\ feed[Len(feed)] = published[1]
  /\ feed = << >> /\ published = << >> => seen = -1 /\ ~told
  /\ linked /\ feed = << >> /\ published # << >> =>
       seen = requests /\ told = published[1].sleeping

\* The two halves of an announcement that is not excused.
Unheard ==
  /\ Len(signals) = 1 /\ signals[1] /\ inhibitor /\ ~sleeping /\ calls = 0
  /\ ~told /\ \A i \in 1..Len(feed) : ~feed[i].sleeping
Heard ==
  /\ signals = << >> /\ loop = "idle" /\ sleeping
  /\ calls > 0 \/ ~inhibitor => screen /\ ~ui.unlockTimer
  /\ ui.sleepLockPending => ~ui.unlockTimer
SleepIsGuarded ==
  /\ os = "announced" /\ ~excused => Unheard \/ Heard
  /\ SleepsLocked

IInv ==
  /\ LockInv
  /\ TimerIsGranted /\ LockIsShown /\ PendingIsTold
  /\ SignalsKnown /\ LoopKnows /\ FeedKnows /\ SleepIsGuarded

-----------------------------------------------------------------------------
(* The functions of the lock screen.                                       *)

Ui == [DOMAIN Unlocked -> BOOLEAN]

\* The fields of the lock screen's state.
LEMMA UiFields ==
  DOMAIN Unlocked = {"active", "secure", "closing", "unlockTimer", "exitTimer",
                     "sleepLockPending", "suspendPending", "suspending", "pam"}
BY DEF Unlocked

\* Nothing but the fields a function writes differs.
Same(u, v) ==
  /\ v.secure = u.secure /\ v.pam = u.pam /\ v.sleepLockPending = u.sleepLockPending
Opened(v) == ~v.closing /\ ~v.unlockTimer

\* The state of a new shell.
LEMMA UnlockedResult ==
  /\ Unlocked \in Ui /\ Opened(Unlocked)
  /\ ~Unlocked.active /\ ~Unlocked.secure /\ ~Unlocked.pam /\ ~Unlocked.sleepLockPending
<1>1. \A x \in DOMAIN Unlocked : Unlocked[x] = FALSE
  BY UiFields DEF Unlocked
<1>2. Unlocked = [x \in DOMAIN Unlocked |-> Unlocked[x]]
  BY DEF Unlocked
<1> QED BY <1>1, <1>2, UiFields DEF Ui, Opened

\* lock() locks, or leaves a lock, or an unlocking, that is there alone.
LEMMA LockResult ==
  ASSUME NEW u \in Ui
  PROVE  /\ lock(u) \in Ui
         /\ IF u.active \/ u.closing THEN lock(u) = u
            ELSE Same(u, lock(u)) /\ Opened(lock(u)) /\ lock(u).active
BY UiFields DEF Ui, lock, resetCycleState, Same, Opened

\* After lockNow() the lock is on, and no unlocking goes on behind it.
LEMMA LockNowResult ==
  ASSUME NEW u \in Ui, u.unlockTimer => u.closing
  PROVE  /\ lockNow(u) \in Ui /\ Same(u, lockNow(u))
         /\ Opened(lockNow(u)) /\ lockNow(u).active
<1>1. CASE u.closing /\ u.active
  BY <1>1, UiFields DEF Ui, lockNow, Same, Opened
<1>2. CASE ~(u.closing /\ u.active)
  <2> DEFINE v == [u EXCEPT !.closing = FALSE, !.exitTimer = @ /\ ~u.closing]
  <2>1. v \in Ui
    BY UiFields DEF Ui
  <2>2. /\ v.active = u.active /\ ~v.closing /\ v.unlockTimer = u.unlockTimer
        /\ v.secure = u.secure /\ v.pam = u.pam /\ v.sleepLockPending = u.sleepLockPending
    BY UiFields DEF Ui
  <2>3. lockNow(u) = lock(v)
    BY <1>2 DEF lockNow
  <2> HIDE DEF v
  <2>4. lock(v) \in Ui
    BY <2>1, LockResult
  <2>5. CASE u.active
    BY <1>2, <2>1, <2>2, <2>3, <2>5, LockResult DEF Same, Opened
  <2>6. CASE ~u.active
    BY <2>1, <2>2, <2>3, <2>6, LockResult DEF Same, Opened
  <2> QED BY <2>5, <2>6
<1> QED BY <1>1, <1>2

\* Nothing of the lock itself differs.
Still(u, v) ==
  /\ v.active = u.active /\ v.secure = u.secure /\ v.pam = u.pam
  /\ v.closing = u.closing /\ v.unlockTimer = u.unlockTimer /\ v.exitTimer = u.exitTimer

\* A suspension and a release leave the lock as it is.
LEMMA SuspendResult ==
  ASSUME NEW u \in Ui
  PROVE  /\ suspendWhenSecure(u) \in Ui /\ Still(u, suspendWhenSecure(u))
         /\ suspendWhenSecure(u).sleepLockPending = u.sleepLockPending
BY UiFields DEF Ui, suspendWhenSecure, Still

\* A release leaves the lock as it is, and nothing pending that was not.
LEMMA ReleaseResult ==
  ASSUME NEW u \in Ui
  PROVE  /\ releaseSleepWhenSecure(u) \in Ui /\ Still(u, releaseSleepWhenSecure(u))
         /\ releaseSleepWhenSecure(u).sleepLockPending => u.sleepLockPending
BY UiFields DEF Ui, releaseSleepWhenSecure, Still

\* The begin of a sleep locks; its end only lets the release be forgotten.
LEMMA SleepingChangedResult ==
  ASSUME NEW u \in Ui, u.unlockTimer => u.closing, NEW now \in BOOLEAN, told \in BOOLEAN
  PROVE  LET v == SleepingChanged(u, now)
         IN  /\ v \in Ui /\ v.secure = u.secure /\ v.pam = u.pam
             /\ IF now /\ ~told
                  THEN Opened(v) /\ v.active
                  ELSE Still(u, v) /\ (v.sleepLockPending => u.sleepLockPending /\ (told => now))
<1>1. CASE now = told
  BY <1>1 DEF SleepingChanged, Still
<1>2. CASE now # told /\ now
  <2>1. SleepingChanged(u, now) = [lockNow(u) EXCEPT !.sleepLockPending = TRUE]
    BY <1>2 DEF SleepingChanged
  <2>2. lockNow(u) \in Ui /\ Same(u, lockNow(u)) /\ Opened(lockNow(u)) /\ lockNow(u).active
    BY LockNowResult
  <2> QED BY <1>2, <2>1, <2>2, UiFields DEF Ui, Same, Opened
<1>3. CASE now # told /\ ~now
  <2>1. SleepingChanged(u, now) = [u EXCEPT !.sleepLockPending = FALSE]
    BY <1>3 DEF SleepingChanged
  <2> QED BY <1>3, <2>1, UiFields DEF Ui, Still
<1> QED BY <1>1, <1>2, <1>3

\* What a state that arrives does to the lock: it orders to lock, which nothing granted
\* before survives, or leaves the lock as it was.  A call is made for a sleep and behind
\* secure surfaces only.
LEMMA Delivered ==
  ASSUME TypeOK, TimerIsGranted, PendingIsTold, Deliver
  PROVE  /\ Head(feed) \in States /\ feed' = Tail(feed)
         /\ told' = Head(feed).sleeping /\ seen' = Head(feed).requests
         /\ ui' \in Ui /\ ui'.secure = ui.secure /\ ui'.pam = ui.pam
         /\ granted' \in BOOLEAN
         /\ \/ Opened(ui') /\ ui'.active
            \/ Still(ui, ui') /\ granted' = granted
         /\ ui'.sleepLockPending => told' /\ (ui.sleepLockPending \/ Opened(ui'))
         /\ calls' \in {calls, calls + 1}
         /\ calls' # calls => ui.secure /\ told' /\ (ui.sleepLockPending \/ Opened(ui'))
<1> DEFINE s == Head(feed)
           slept == SleepingChanged(ui, s.sleeping)
           released == releaseSleepWhenSecure(slept)
           ordered == lockNow(released)
<1>1. s \in States /\ s.sleeping \in BOOLEAN /\ feed' = Tail(feed)
  <2>1. feed \in Seq(States) /\ feed # << >> /\ feed' = Tail(feed)
    BY DEF TypeOK, Deliver
  <2>2. s \in States
    BY <2>1
  <2> QED BY <2>1, <2>2 DEF States
<1>2. ui \in Ui /\ told \in BOOLEAN /\ granted \in BOOLEAN /\ calls \in Nat /\ linked \in BOOLEAN
  BY DEF TypeOK, Ui
<1>3. /\ slept \in Ui /\ slept.secure = ui.secure /\ slept.pam = ui.pam
      /\ IF s.sleeping /\ ~told THEN Opened(slept) /\ slept.active
         ELSE Still(ui, slept) /\ (slept.sleepLockPending => ui.sleepLockPending /\ (told => s.sleeping))
  BY <1>1, <1>2, SleepingChangedResult DEF TimerIsGranted
<1>4. /\ told' = s.sleeping /\ seen' = s.requests
      /\ calls' = Called(slept)
      /\ ui' = IF Requested(s.requests) THEN ordered ELSE released
      /\ granted' = (granted /\ ~(s.sleeping /\ ~told) /\ ~Requested(s.requests))
  BY DEF Deliver, Becomes
<1> HIDE DEF s, slept
<1>5. /\ released \in Ui /\ Still(slept, released)
      /\ released.sleepLockPending => slept.sleepLockPending
  BY <1>3, ReleaseResult
<1>6. slept.unlockTimer => slept.closing
  BY <1>3 DEF TimerIsGranted, Opened, Still
<1>7. released.unlockTimer => released.closing
  BY <1>5, <1>6 DEF Still
<1> HIDE DEF released
<1>8. ordered \in Ui /\ Same(released, ordered) /\ Opened(ordered) /\ ordered.active
  BY <1>5, <1>7, LockNowResult
<1> HIDE DEF ordered
<1>9. slept.sleepLockPending => s.sleeping /\ (ui.sleepLockPending \/ Opened(slept))
  BY <1>3 DEF PendingIsTold
<1>10. granted' \in BOOLEAN
  BY <1>4
<1>11. calls' \in {calls, calls + 1}
  BY <1>2, <1>4 DEF Called
<1>12. calls' # calls => slept.sleepLockPending /\ slept.secure
  BY <1>2, <1>4 DEF Called, Releases
<1>13. CASE Requested(s.requests)
  <2>1. ui' = ordered
    BY <1>4, <1>13
  <2>2. ui'.sleepLockPending => slept.sleepLockPending
    BY <1>5, <1>8, <2>1 DEF Same
  <2>3. ui'.secure = ui.secure /\ ui'.pam = ui.pam
    BY <1>3, <1>5, <1>8, <2>1 DEF Same, Still
  <2> QED BY <1>1, <1>3, <1>4, <1>8, <1>9, <1>10, <1>11, <1>12, <2>1, <2>2, <2>3 DEF s
<1>14. CASE ~Requested(s.requests)
  <2>1. ui' = released
    BY <1>4, <1>14
  <2>2. ui'.sleepLockPending => slept.sleepLockPending
    BY <1>5, <2>1
  <2>3. Still(slept, ui') /\ ui'.secure = ui.secure /\ ui'.pam = ui.pam /\ ui' \in Ui
    BY <1>3, <1>5, <2>1 DEF Still
  <2>4. Opened(slept) => Opened(ui')
    BY <2>3 DEF Opened, Still
  <2>5. CASE s.sleeping /\ ~told
    <3>1. Opened(ui') /\ ui'.active
      BY <1>3, <2>3, <2>4, <2>5 DEF Still
    <3> QED BY <1>1, <1>3, <1>4, <1>9, <1>10, <1>11, <1>12, <2>2, <2>3, <3>1 DEF s
  <2>6. CASE ~(s.sleeping /\ ~told)
    <3>1. Still(ui, ui')
      BY <1>3, <2>3, <2>6 DEF Still
    <3>2. granted' = granted
      BY <1>2, <1>4, <1>14, <2>6
    <3> QED BY <1>1, <1>3, <1>4, <1>9, <1>10, <1>11, <1>12, <2>2, <2>3, <2>4, <3>1, <3>2 DEF s
  <2> QED BY <2>5, <2>6
<1> QED BY <1>13, <1>14

-----------------------------------------------------------------------------
(* What each step keeps.                                                   *)

\* logind and the daemon do not touch the shell, nor the shell what the loop keeps.
LEMMA DaemonFrame ==
  ASSUME Logind \/ Daemon
  PROVE  UNCHANGED <<linked, viewVars, lockVars, shell, marker>>
BY DEF Logind, Daemon, Announce, Sleep, DelayEnds, Wake, LockSession, Listen, Acquire,
       BeginSleep, Resumed, LockRequested, Ready, LoopFails, Lingered, TimedOut,
       linkVars, viewVars, lockVars

\* Nor does the shell touch what the loop keeps; it starts one that is down, and one step
\* of it announces a sleep.
LEMMA ShellFrame ==
  ASSUME Lock \/ Links
  PROVE  /\ UNCHANGED <<lockSignals, inhibitor, sleeping, timers, cycle, requests, published>>
         /\ loop' = loop \/ (loop = "down" /\ loop' = "starting")
         /\ UNCHANGED <<os, announced, signals>> \/ Announcement
BY DEF Lock, Links, Deliver, LockAsked, suspend, Suspends, Secures, tryUnlock, PamRefuses,
       finishUnlock, UnlockAnimationEnds, UnlockExits, MarkerWritten, Disconnects, Crashes,
       Restarts, MarkerRead, Connects, logindVars, daemonVars, feedVars

\* Whatever the shell does, its lock screen stays a possible one, a running animation is
\* one a password started, and a locked screen keeps its keeper.
LEMMA ShellKeeps ==
  ASSUME TypeOK, TimerIsGranted, UnlockingEnds, LockIsShown, LockHasKeeper, PendingIsTold, Lock \/ Links
  PROVE  ui' \in Ui /\ TimerIsGranted' /\ UnlockingEnds' /\ LockIsShown' /\ LockHasKeeper' /\ PendingIsTold'
<1> USE UiFields DEF TypeOK, Ui, Becomes, Unlinked, resetCycleState, logindVars, daemonVars, feedVars, linkVars, viewVars, lockVars, TimerIsGranted, UnlockingEnds, LockIsShown, LockHasKeeper, PendingIsTold
<1>1. CASE Deliver
  <2> QED BY <1>1, Delivered DEF Deliver, Opened, Still
<1>2. CASE LockAsked
  <2>1. ui \in Ui /\ ~ui.active /\ ui' # ui /\ (ui' = lock(ui) \/ ui' = lockNow(ui))
    BY <1>2 DEF LockAsked, Becomes, TypeOK, Ui
  <2>2. ui' \in Ui /\ Same(ui, ui') /\ Opened(ui') /\ ui'.active
    BY <2>1, LockResult, LockNowResult
  <2> QED BY <1>2, <2>1, <2>2 DEF LockAsked, Becomes, Same, Opened
<1>3. CASE suspend
  <2> DEFINE u == [lock(ui) EXCEPT !.suspendPending = TRUE]
  <2>1. ui \in Ui /\ ~ui.closing
    BY <1>3 DEF suspend, TypeOK, Ui
  <2>2. lock(ui) \in Ui /\ (lock(ui) = ui \/ (Same(ui, lock(ui)) /\ Opened(lock(ui)) /\ lock(ui).active))
    BY <2>1, LockResult
  <2>3. u \in Ui /\ Still(lock(ui), u) /\ u.sleepLockPending = lock(ui).sleepLockPending
    BY <2>2, UiFields DEF Ui, Still
  <2> HIDE DEF u
  <2>4. ui' \in Ui /\ Still(u, ui') /\ ui'.sleepLockPending = u.sleepLockPending
    BY <1>3, <2>3, SuspendResult DEF suspend, Becomes, u
  <2> QED BY <1>3, <2>1, <2>2, <2>3, <2>4 DEF suspend, Same, Opened, Still
<1>4. CASE Suspends
  BY <1>4 DEF Suspends
<1>5. CASE Secures
  <2> DEFINE v == [ui EXCEPT !.secure = TRUE]
            u == suspendWhenSecure(v)
  <2>1. ui \in Ui /\ ui.active
    BY <1>5 DEF Secures, TypeOK, Ui
  <2>2. /\ v \in Ui /\ v.active = ui.active /\ v.pam = ui.pam /\ v.closing = ui.closing
        /\ v.unlockTimer = ui.unlockTimer /\ v.exitTimer = ui.exitTimer
        /\ v.sleepLockPending = ui.sleepLockPending /\ v.secure
    BY <2>1, UiFields DEF Ui
  <2> HIDE DEF v
  <2>3. u \in Ui /\ Still(v, u) /\ u.sleepLockPending = v.sleepLockPending
    BY <2>2, SuspendResult
  <2>4. ui' = releaseSleepWhenSecure(u)
    BY <1>5 DEF Secures, u, v
  <2> HIDE DEF u
  <2>5. ui' \in Ui /\ Still(u, ui') /\ (ui'.sleepLockPending => u.sleepLockPending)
    BY <2>3, <2>4, ReleaseResult
  <2> QED BY <1>5, <2>1, <2>2, <2>3, <2>5 DEF Secures, Still
<1>6. CASE tryUnlock
  BY <1>6 DEF tryUnlock
<1>7. CASE PamRefuses
  BY <1>7 DEF PamRefuses
<1>8. CASE finishUnlock
  BY <1>8 DEF finishUnlock
<1>9. CASE UnlockAnimationEnds
  BY <1>9 DEF UnlockAnimationEnds
<1>10. CASE UnlockExits
  BY <1>10 DEF UnlockExits
<1>11. CASE MarkerWritten
  BY <1>11 DEF MarkerWritten
<1>12. CASE Disconnects
  BY <1>12 DEF Disconnects
<1>13. CASE Crashes
  <2>1. ui' = Unlocked /\ told' = FALSE
    BY <1>13 DEF Crashes, Unlinked
  <2> QED BY <1>13, <2>1, UnlockedResult DEF Crashes, Opened
<1>14. CASE Restarts
  BY <1>14 DEF Restarts
<1>15. CASE MarkerRead
  <2>1. ui \in Ui
    BY DEF TypeOK, Ui
  <2>2. lock(ui) \in Ui /\ IF ui.active \/ ui.closing THEN lock(ui) = ui
        ELSE Same(ui, lock(ui)) /\ Opened(lock(ui)) /\ lock(ui).active
    BY <2>1, LockResult
  <2>3. CASE marker
    <3>1. ui' = lock(ui)
      BY <1>15, <2>3 DEF MarkerRead, Becomes
    <3> QED BY <1>15, <2>1, <2>2, <2>3, <3>1 DEF MarkerRead, Same, Opened
  <2>4. CASE ~marker
    BY <1>15, <2>1, <2>4 DEF MarkerRead, Becomes
  <2> QED BY <2>3, <2>4
<1>16. CASE Connects
  BY <1>16 DEF Connects
<1> QED BY <1>1, <1>2, <1>3, <1>4, <1>5, <1>6, <1>7, <1>8, <1>9, <1>10, <1>11, <1>12, <1>13, <1>14, <1>15, <1>16 DEF Lock, Links

\* Taking the first of a sequence, and adding one at its end.
LEMMA TailFacts ==
  ASSUME NEW S, NEW s \in Seq(S), s # << >>
  PROVE  /\ Len(s) \in Nat /\ Len(s) > 0 /\ Head(s) = s[1] /\ s[1] \in S
         /\ Tail(s) \in Seq(S) /\ Len(Tail(s)) = Len(s) - 1
         /\ \A i \in 1..Len(s) - 1 : Tail(s)[i] = s[i + 1]
OBVIOUS

\* The same for an element that is added at the end.
LEMMA AppendFacts ==
  ASSUME NEW S, NEW s \in Seq(S), NEW e \in S
  PROVE  /\ Append(s, e) \in Seq(S) /\ Len(Append(s, e)) = Len(s) + 1 /\ Append(s, e) # << >>
         /\ Append(s, e)[Len(s) + 1] = e /\ \A i \in 1..Len(s) : Append(s, e)[i] = s[i]
OBVIOUS

\* An announcement comes when the loop has heard of the waking before it, each signal is
\* worth one cycle, and each Lock signal one request.
LEMMA SignalsStep ==
  ASSUME TypeOK, SignalsKnown, LoopKnows, Logind \/ Daemon
  PROVE  SignalsKnown' /\ LoopKnows'
<1> USE SleepLockAssumption DEF SignalsKnown, LoopKnows, Announcement, Settled, Listening, Running, Dropped, logindVars, daemonVars, feedVars, linkVars, viewVars, lockVars
<1>0. /\ os \in {"awake", "announced", "asleep"} /\ announced \in Nat /\ cycle \in Nat
      /\ signals \in Seq(BOOLEAN) /\ requests \in Nat /\ lockSignals \in Nat
      /\ loop \in {"down", "starting", "acquiring", "idle"}
      /\ inhibitor \in BOOLEAN /\ sleeping \in BOOLEAN
  BY SleepLockAssumption DEF TypeOK
<1>1. CASE Announce
  BY <1>0, <1>1 DEF Announce
<1>2. CASE Sleep
  BY <1>0, <1>2 DEF Sleep
<1>3. CASE DelayEnds
  BY <1>0, <1>3 DEF DelayEnds
<1>4. CASE Wake
  <2>1. CASE ~Listening
    BY <1>0, <1>4, <2>1 DEF Wake
  <2>2. CASE Listening
    <3>1. signals \in Seq(BOOLEAN) /\ signals' = Append(signals, FALSE)
      BY <1>0, <1>4, <2>2 DEF Wake
    <3>2. /\ Len(signals') = Len(signals) + 1 /\ signals'[Len(signals) + 1] = FALSE
          /\ \A i \in 1..Len(signals) : signals'[i] = signals[i]
      BY <3>1, AppendFacts
    <3>3. SignalsKnown'
      BY <1>0, <1>4, <2>2, <3>1, <3>2 DEF Wake
    <3>4. signals' # << >>
      BY <1>0, <3>2
    <3>5. LoopKnows'
      BY <1>0, <1>4, <2>2, <3>4 DEF Wake
    <3> QED BY <3>3, <3>5
  <2> QED BY <2>1, <2>2
<1>5. CASE LockSession
  BY <1>0, <1>5 DEF LockSession
<1>6. CASE Listen
  BY <1>0, <1>6 DEF Listen
<1>7. CASE Acquire
  BY <1>0, <1>7 DEF Acquire
<1>8. CASE BeginSleep
  <2>1. signals \in Seq(BOOLEAN) /\ signals # << >>
    BY <1>0, <1>8 DEF BeginSleep
  <2>2. /\ Len(signals) \in Nat /\ Len(signals) > 0 /\ Head(signals) = signals[1]
        /\ Len(Tail(signals)) = Len(signals) - 1
        /\ \A i \in 1..Len(signals) - 1 : Tail(signals)[i] = signals[i + 1]
    BY <2>1, TailFacts
  <2>3. signals' = Tail(signals) /\ UNCHANGED <<os, announced, requests, lockSignals>>
    BY <1>0, <1>8 DEF BeginSleep
  <2>4. Len(signals) = 1 \/ (os = "awake" /\ Len(signals) = 2 /\ ~signals[2])
    BY <1>0, <2>2
  <2>5. CASE Len(signals) = 1
    <3>1. Len(signals') = 0
      BY <1>0, <2>1, <2>2, <2>3, <2>5
    <3>2. cycle' <= announced /\ requests' + lockSignals' <= MaxRequests
      BY <1>0, <1>8, <2>2, <2>3, <2>5 DEF BeginSleep
    <3>4. SignalsKnown'
      <4>1. Len(signals') \in 0..2 /\ Len(signals') \in 0..1 /\ ~(Len(signals') > 0) /\ Len(signals') # 1
        BY <3>1
      <4>2. cycle' <= announced'
        BY <2>3, <3>2
      <4> QED BY <3>2, <4>1, <4>2
    <3>3. LoopKnows'
      BY <1>0, <1>8, <2>2, <2>3, <2>5, <3>1 DEF BeginSleep
    <3> QED BY <3>3, <3>4
  <2>6. CASE os = "awake" /\ Len(signals) = 2 /\ ~signals[2]
    <3>1. Len(signals') = 1 /\ signals'[1] = signals[2] /\ signals' # << >>
      BY <1>0, <2>1, <2>2, <2>3, <2>6
    <3>2. SignalsKnown'
      BY <1>0, <1>8, <2>2, <2>3, <2>6, <3>1 DEF BeginSleep
    <3>3. LoopKnows'
      BY <1>0, <1>8, <2>2, <2>3, <2>6, <3>1 DEF BeginSleep
    <3> QED BY <3>2, <3>3
  <2> QED BY <2>4, <2>5, <2>6
<1>9. CASE Resumed
  <2>1. signals \in Seq(BOOLEAN) /\ signals # << >>
    BY <1>0, <1>9 DEF Resumed
  <2>2. /\ Len(signals) \in Nat /\ Len(signals) > 0 /\ Head(signals) = signals[1]
        /\ Len(Tail(signals)) = Len(signals) - 1
        /\ \A i \in 1..Len(signals) - 1 : Tail(signals)[i] = signals[i + 1]
    BY <2>1, TailFacts
  <2>3. signals' = Tail(signals) /\ UNCHANGED <<os, announced, requests, lockSignals>>
    BY <1>0, <1>9 DEF Resumed
  <2>4. Len(signals) = 1 \/ (os = "awake" /\ Len(signals) = 2 /\ ~signals[2])
    BY <1>0, <2>2
  <2>5. CASE Len(signals) = 1
    <3>1. Len(signals') = 0
      BY <1>0, <2>1, <2>2, <2>3, <2>5
    <3>2. cycle' <= announced /\ requests' + lockSignals' <= MaxRequests
      BY <1>0, <1>9, <2>2, <2>3, <2>5 DEF Resumed
    <3>4. SignalsKnown'
      <4>1. Len(signals') \in 0..2 /\ Len(signals') \in 0..1 /\ ~(Len(signals') > 0) /\ Len(signals') # 1
        BY <3>1
      <4>2. cycle' <= announced'
        BY <2>3, <3>2
      <4> QED BY <3>2, <4>1, <4>2
    <3>3. LoopKnows'
      BY <1>0, <1>9, <2>2, <2>3, <2>5, <3>1 DEF Resumed
    <3> QED BY <3>3, <3>4
  <2>6. CASE os = "awake" /\ Len(signals) = 2 /\ ~signals[2]
    <3>1. Len(signals') = 1 /\ signals'[1] = signals[2] /\ signals' # << >>
      BY <1>0, <2>1, <2>2, <2>3, <2>6
    <3>2. SignalsKnown'
      BY <1>0, <1>9, <2>2, <2>3, <2>6, <3>1 DEF Resumed
    <3>3. LoopKnows'
      BY <1>0, <1>9, <2>2, <2>3, <2>6, <3>1 DEF Resumed
    <3> QED BY <3>2, <3>3
  <2> QED BY <2>4, <2>5, <2>6
<1>10. CASE LockRequested
  BY <1>0, <1>10 DEF LockRequested
<1>11. CASE Ready
  BY <1>0, <1>11 DEF Ready
<1>12. CASE LoopFails
  BY <1>0, <1>12 DEF LoopFails
<1>13. CASE Lingered
  BY <1>0, <1>13 DEF Lingered
<1>14. ASSUME NEW c \in 1..MaxSleeps, TimedOut(c)
      PROVE  SignalsKnown' /\ LoopKnows'
  BY <1>0, <1>14 DEF TimedOut
<1> QED BY <1>1, <1>2, <1>3, <1>4, <1>5, <1>6, <1>7, <1>8, <1>9, <1>10, <1>11, <1>12, <1>13, <1>14 DEF Logind, Daemon

\* The suspension the shell asks for is an announcement like any other.
LEMMA SignalsShell ==
  ASSUME TypeOK, SignalsKnown, LoopKnows, Lock \/ Links
  PROVE  SignalsKnown' /\ LoopKnows'
<1>1. CASE UNCHANGED <<os, announced, signals>>
  BY <1>1, ShellFrame DEF SignalsKnown, LoopKnows
<1>2. CASE Announcement
  BY <1>2, ShellFrame DEF TypeOK, SignalsKnown, LoopKnows, Announcement, Settled, Listening
<1> QED BY <1>1, <1>2, ShellFrame

\* What is published is the snapshot, and the last of the feed of a linked shell: a full
\* feed gives up its oldest.
LEMMA PublishResult ==
  ASSUME feed \in Seq(States), Len(feed) <= FeedCapacity, linked \in BOOLEAN,
         NEW state \in States, Publish(state)
  PROVE  /\ published' \in Seq(States) /\ Len(published') = 1 /\ published'[1] = state
         /\ published' # << >>
         /\ feed' \in Seq(States) /\ Len(feed') <= FeedCapacity
         /\ IF linked THEN feed' # << >> /\ feed'[Len(feed')] = state ELSE feed' = feed
         /\ \A i \in 1..Len(feed') : feed'[i] = state \/ \E j \in 1..Len(feed) : feed'[i] = feed[j]
<1>1. published' \in Seq(States) /\ Len(published') = 1 /\ published'[1] = state /\ published' # << >>
  BY DEF Publish
<1>2. CASE ~linked
  BY <1>1, <1>2 DEF Publish
<1>3. CASE linked /\ Len(feed) < FeedCapacity
  <2>1. feed' = Append(feed, state)
    BY <1>3 DEF Publish
  <2> QED BY <1>1, <1>3, <2>1, AppendFacts, SleepLockAssumption
<1>4. CASE linked /\ Len(feed) >= FeedCapacity
  <2> DEFINE rest == Tail(feed)
  <2>1. feed # << >> /\ feed' = Append(rest, state)
    BY <1>4, SleepLockAssumption DEF Publish
  <2>2. /\ Len(feed) \in Nat /\ rest \in Seq(States) /\ Len(rest) = Len(feed) - 1
        /\ \A i \in 1..Len(feed) - 1 : rest[i] = feed[i + 1]
    BY <2>1, TailFacts
  <2> HIDE DEF rest
  <2>3. /\ feed' \in Seq(States) /\ Len(feed') = Len(feed) /\ feed' # << >>
        /\ feed'[Len(feed)] = state /\ \A i \in 1..Len(feed) - 1 : feed'[i] = rest[i]
    BY <2>1, <2>2, AppendFacts
  <2>4. \A i \in 1..Len(feed') : feed'[i] = state \/ \E j \in 1..Len(feed) : feed'[i] = feed[j]
    <3>1. SUFFICES ASSUME NEW i \in 1..Len(feed'), i # Len(feed)
                   PROVE  \E j \in 1..Len(feed) : feed'[i] = feed[j]
      BY <2>3
    <3>2. i + 1 \in 1..Len(feed) /\ feed'[i] = feed[i + 1]
      BY <2>2, <2>3, <3>1
    <3> QED BY <3>2
  <2> QED BY <1>1, <1>4, <2>3, <2>4
<1> QED BY <1>2, <1>3, <1>4, SleepLockAssumption

\* Every change of the loop's state is published, and what is published is the last of
\* the feed: a full feed gives up its oldest.
LEMMA FeedDaemon ==
  ASSUME TypeOK, FeedKnows, LoopKnows, Logind \/ Daemon
  PROVE  FeedKnows'
<1> USE SleepLockAssumption DEF TypeOK, FeedKnows, LoopKnows, State, States, Publish, Dropped, logindVars, daemonVars, feedVars, linkVars, viewVars, lockVars
<1>0. UNCHANGED <<linked, viewVars, lockVars, shell, marker>>
  BY DaemonFrame
<1>1. CASE Announce
  BY <1>0, <1>1 DEF Announce
<1>2. CASE Sleep
  BY <1>0, <1>2 DEF Sleep
<1>3. CASE DelayEnds
  BY <1>0, <1>3 DEF DelayEnds
<1>4. CASE Wake
  BY <1>0, <1>4 DEF Wake
<1>5. CASE LockSession
  BY <1>0, <1>5 DEF LockSession
<1>6. CASE Listen
  BY <1>0, <1>6 DEF Listen
<1>7. CASE Acquire
  BY <1>0, <1>7 DEF Acquire
<1>8. CASE BeginSleep
  <2>1. State(TRUE, requests) \in States
    BY DEF TypeOK, State, States
  <2>2. /\ published' # << >> /\ published'[1] = State(TRUE, requests)
        /\ IF linked THEN feed' # << >> /\ feed'[Len(feed')] = State(TRUE, requests) ELSE feed' = feed
    BY <1>8, <2>1, PublishResult DEF TypeOK, BeginSleep
  <2>3. requests' = requests /\ sleeping' = TRUE
    BY <1>8 DEF BeginSleep
  <2>4. published'[1].requests = requests' /\ published'[1].sleeping = sleeping'
    BY <2>2, <2>3 DEF State
  <2>5. linked' = linked /\ seen' = seen /\ told' = told
    BY <1>0 DEF viewVars
  <2>6. ~linked => feed' = << >> /\ seen = -1 /\ ~told
    BY <2>2 DEF FeedKnows
  <2>7. feed' # << >> => feed'[Len(feed')] = published'[1]
    BY <2>2, <2>6
  <2> QED BY <2>2, <2>4, <2>5, <2>6, <2>7 DEF FeedKnows
<1>9. CASE Resumed
  BY <1>0, <1>9 DEF Resumed
<1>10. CASE LockRequested
  BY <1>0, <1>10 DEF LockRequested
<1>11. CASE Ready
  BY <1>0, <1>11 DEF Ready
<1>12. CASE LoopFails
  BY <1>0, <1>12 DEF LoopFails
<1>13. CASE Lingered
  BY <1>0, <1>13 DEF Lingered
<1>14. ASSUME NEW c \in 1..MaxSleeps, TimedOut(c)
      PROVE  FeedKnows'
  BY <1>0, <1>14 DEF TimedOut
<1> QED BY <1>1, <1>2, <1>3, <1>4, <1>5, <1>6, <1>7, <1>8, <1>9, <1>10, <1>11, <1>12, <1>13, <1>14 DEF Logind, Daemon

\* There is one snapshot at most.
LEMMA SnapshotLength == TypeOK /\ published # << >> => Len(published) = 1
<1> SUFFICES ASSUME TypeOK, published # << >> PROVE Len(published) = 1
  OBVIOUS
<1>1. published \in Seq(States) /\ Len(published) <= 1
  BY DEF TypeOK
<1>2. Len(published) \in Nat /\ Len(published) > 0
  BY <1>1, TailFacts
<1>3. ASSUME NEW n \in Nat, n > 0, n <= 1 PROVE n = 1
  BY <1>3
<1> QED BY <1>1, <1>2, <1>3

\* The shell takes the states in the order they were published, and a lost connection
\* leaves it with nothing, to begin with the snapshot again.
LEMMA FeedShell ==
  ASSUME TypeOK, TimerIsGranted, PendingIsTold, FeedKnows, Lock \/ Links
  PROVE  FeedKnows'
<1> USE DEF FeedKnows, Unlinked, logindVars, daemonVars, feedVars, linkVars, viewVars, lockVars
<1>0. /\ UNCHANGED <<lockSignals, inhibitor, sleeping, timers, cycle, requests, published>>
      /\ loop' = loop \/ (loop = "down" /\ loop' = "starting")
  BY ShellFrame
<1>1. CASE Deliver
  <2>1. /\ Head(feed) \in States /\ feed' = Tail(feed) /\ told' = Head(feed).sleeping
        /\ seen' = Head(feed).requests
    BY <1>1, Delivered
  <2>2. feed \in Seq(States) /\ feed # << >> /\ linked /\ linked' = linked
    BY <1>1 DEF TypeOK, Deliver, linkVars
  <2>3. published # << >> /\ feed[Len(feed)] = published[1] /\ published[1].requests = requests
    BY <2>2 DEF FeedKnows
  <2>4. /\ Len(feed) \in Nat /\ Len(feed) > 0 /\ Head(feed) = feed[1]
        /\ feed' \in Seq(States) /\ Len(feed') = Len(feed) - 1
        /\ \A i \in 1..Len(feed) - 1 : feed'[i] = feed[i + 1]
    BY <2>1, <2>2, TailFacts
  <2>5. loop' = loop /\ requests' = requests /\ published' = published /\ sleeping' = sleeping
    BY <1>1 DEF Deliver, daemonVars
  <2>6. feed' # << >> => feed'[Len(feed')] = published'[1]
    BY <2>3, <2>4, <2>5
  <2>7. feed' = << >> => Len(feed) = 1
    BY <2>4
  <2>8. feed' = << >> => seen' = requests /\ told' = published[1].sleeping
    BY <2>1, <2>3, <2>4, <2>7
  <2> QED BY <2>2, <2>3, <2>5, <2>6, <2>8 DEF FeedKnows
<1>2. CASE LockAsked
  BY <1>0, <1>2 DEF LockAsked
<1>3. CASE suspend
  BY <1>0, <1>3 DEF suspend
<1>4. CASE Suspends
  BY <1>0, <1>4 DEF Suspends
<1>5. CASE Secures
  BY <1>0, <1>5 DEF Secures
<1>6. CASE tryUnlock
  BY <1>0, <1>6 DEF tryUnlock
<1>7. CASE PamRefuses
  BY <1>0, <1>7 DEF PamRefuses
<1>8. CASE finishUnlock
  BY <1>0, <1>8 DEF finishUnlock
<1>9. CASE UnlockAnimationEnds
  BY <1>0, <1>9 DEF UnlockAnimationEnds
<1>10. CASE UnlockExits
  BY <1>0, <1>10 DEF UnlockExits
<1>11. CASE MarkerWritten
  BY <1>0, <1>11 DEF MarkerWritten
<1>12. CASE Disconnects
  BY <1>0, <1>12 DEF Disconnects
<1>13. CASE Crashes
  BY <1>0, <1>13 DEF Crashes
<1>14. CASE Restarts
  BY <1>0, <1>14 DEF Restarts
<1>15. CASE MarkerRead
  BY <1>0, <1>15 DEF MarkerRead
<1>16. CASE Connects
  <2>1. feed' = published /\ linked' /\ told' = told /\ seen' = seen
    BY <1>16 DEF Connects, viewVars
  <2>2. feed' # << >> => Len(feed') = 1
    BY <2>1, SnapshotLength
  <2>3. feed = << >> /\ seen = -1 /\ ~told
    BY <1>16 DEF Connects, FeedKnows
  <2>4. loop' = "idle" => loop = "idle"
    BY <1>0
  <2> QED BY <1>0, <2>1, <2>2, <2>3, <2>4 DEF FeedKnows
<1> QED BY <1>1, <1>2, <1>3, <1>4, <1>5, <1>6, <1>7, <1>8, <1>9, <1>10, <1>11, <1>12, <1>13, <1>14, <1>15, <1>16 DEF Lock, Links

\* In an announcement, something is still to release the inhibitor when the loop has the
\* signal still to take, or sleeps with its own cycle's timer running.
Releasable ==
  os = "announced" /\ inhibitor => Len(signals) > 0 \/ (sleeping /\ cycle \in timers)

\* The two forms say the same: there is at most one signal in an announcement.
LEMMA ReleasableIff ==
  signals \in Seq(BOOLEAN) /\ SignalsKnown => (SomethingReleases <=> Releasable)
<1> SUFFICES ASSUME signals \in Seq(BOOLEAN), SignalsKnown
             PROVE  SomethingReleases <=> Releasable
  OBVIOUS
<1>1. os = "announced" => (Len(signals) > 0 <=> \E i \in DOMAIN signals : signals[i])
  <2>1. SUFFICES ASSUME os = "announced" PROVE Len(signals) > 0 <=> \E i \in DOMAIN signals : signals[i]
    OBVIOUS
  <2>2. Len(signals) \in 0..1 /\ (Len(signals) = 1 => signals[1])
    BY <2>1 DEF SignalsKnown
  <2>3. DOMAIN signals = 1..Len(signals)
    OBVIOUS
  <2>4. CASE Len(signals) = 0
    BY <2>3, <2>4
  <2>5. CASE Len(signals) = 1
    BY <2>2, <2>3, <2>5
  <2> QED BY <2>2, <2>4, <2>5
<1> QED BY <1>1 DEF SomethingReleases, Releasable

\* Whatever takes the signal away arms the timer of a new cycle or drops the inhibitor,
\* and whatever takes the timer away drops the inhibitor with it.
LEMMA ReleasableDaemon ==
  ASSUME TypeOK, LoopKnows, Releasable, Logind \/ Daemon
  PROVE  Releasable'
<1> USE DEF Releasable, Dropped, Running, logindVars, daemonVars, feedVars, linkVars, viewVars, lockVars
<1>0. /\ signals \in Seq(BOOLEAN) /\ inhibitor \in BOOLEAN /\ sleeping \in BOOLEAN
      /\ inhibitor => loop = "idle"
  BY DEF TypeOK, LoopKnows
<1>1. CASE Announce
  <2>1. inhibitor' = inhibitor /\ loop' = loop /\ signals' = IF Listening THEN Append(signals, TRUE) ELSE signals
    BY <1>1 DEF Announce, Announcement
  <2>2. inhibitor => Len(signals') > 0
    BY <1>0, <2>1, AppendFacts DEF Listening
  <2> QED BY <2>1, <2>2
<1>2. CASE Sleep
  BY <1>0, <1>2 DEF Sleep
<1>3. CASE DelayEnds
  BY <1>0, <1>3 DEF DelayEnds
<1>4. CASE Wake
  BY <1>0, <1>4 DEF Wake
<1>5. CASE LockSession
  BY <1>0, <1>5 DEF LockSession
<1>6. CASE Listen
  BY <1>0, <1>6 DEF Listen
<1>7. CASE Acquire
  <2>1. (os = "announced" /\ inhibitor' => inhibitor) /\ UNCHANGED <<os, signals, sleeping, cycle, timers>>
    BY <1>0, <1>7 DEF Acquire
  <2> QED BY <2>1
<1>8. CASE BeginSleep
  <2>1. sleeping' = TRUE /\ cycle' = cycle + 1 /\ timers' = timers \cup {cycle + 1}
    BY <1>8 DEF BeginSleep
  <2> QED BY <2>1
<1>9. CASE Resumed
  <2>1. inhibitor' = FALSE
    BY <1>9 DEF Resumed
  <2> QED BY <2>1
<1>10. CASE LockRequested
  BY <1>0, <1>10 DEF LockRequested
<1>11. CASE Ready
  BY <1>0, <1>11 DEF Ready
<1>12. CASE LoopFails
  BY <1>0, <1>12 DEF LoopFails
<1>13. CASE Lingered
  BY <1>0, <1>13 DEF Lingered
<1>14. ASSUME NEW c \in 1..MaxSleeps, TimedOut(c)
      PROVE  Releasable'
  <2>1. /\ timers' = timers \ {c} /\ (inhibitor' => inhibitor /\ ~(sleeping /\ cycle = c))
        /\ UNCHANGED <<os, signals, sleeping, cycle>>
    BY <1>0, <1>14 DEF TimedOut
  <2> QED BY <2>1
<1> QED BY <1>1, <1>2, <1>3, <1>4, <1>5, <1>6, <1>7, <1>8, <1>9, <1>10, <1>11, <1>12, <1>13, <1>14 DEF Logind, Daemon

\* The shell leaves both alone, but for the signal of a suspension it asks for.
LEMMA ReleasableShell ==
  ASSUME TypeOK, LoopKnows, Releasable, Lock \/ Links
  PROVE  Releasable'
<1>1. UNCHANGED <<inhibitor, sleeping, timers, cycle>>
  BY ShellFrame
<1>2. CASE UNCHANGED <<os, announced, signals>>
  BY <1>1, <1>2 DEF Releasable
<1>3. CASE Announcement
  <2>1. signals \in Seq(BOOLEAN) /\ (inhibitor => signals' = Append(signals, TRUE))
    BY <1>3 DEF TypeOK, LoopKnows, Announcement, Listening
  <2>2. inhibitor => Len(signals') > 0
    BY <2>1, AppendFacts
  <2> QED BY <1>1, <2>2 DEF Releasable
<1> QED BY <1>2, <1>3, ShellFrame

\* What a step of the shell means for a sleep that waits: a call of sleepReady comes from
\* behind a locked screen, and neither that nor a pending release meets an unlocking that
\* a password has not just started.
LEMMA ShellEffect ==
  ASSUME TypeOK, TimerIsGranted, PendingIsTold, LockIsShown, Lock \/ Links
  PROVE  /\ os # "asleep" /\ calls' \in Nat
         /\ calls' # calls => told' /\ screen' /\ (ui.sleepLockPending \/ ~ui'.unlockTimer)
         /\ ui'.sleepLockPending => ui.sleepLockPending \/ ~ui'.unlockTimer
         /\ ui'.unlockTimer => ui.unlockTimer \/ (os = "announced" => excused')
         /\ screen => screen' \/ ui.unlockTimer
         /\ os' = os /\ excused => excused'
         /\ told' => told \/ (feed # << >> /\ Head(feed).sleeping)
         /\ \/ feed' \in {feed, << >>, published}
            \/ feed # << >> /\ feed' = Tail(feed)
<1> DEFINE Effect ==
       /\ os # "asleep" /\ calls' \in Nat
       /\ calls' # calls => told' /\ screen' /\ (ui.sleepLockPending \/ ~ui'.unlockTimer)
       /\ ui'.sleepLockPending => ui.sleepLockPending \/ ~ui'.unlockTimer
       /\ ui'.unlockTimer => ui.unlockTimer \/ (os = "announced" => excused')
       /\ screen => screen' \/ ui.unlockTimer
       /\ os' = os /\ excused => excused'
       /\ told' => told \/ (feed # << >> /\ Head(feed).sleeping)
       /\ \/ feed' \in {feed, << >>, published}
          \/ feed # << >> /\ feed' = Tail(feed)
<1> USE UiFields DEF TypeOK, Ui, Becomes, Unlinked, Running, Announcement, resetCycleState, logindVars, daemonVars, feedVars, linkVars, viewVars, lockVars, TimerIsGranted, PendingIsTold, LockIsShown
<1>1. CASE Deliver
  <2> QED BY <1>1, Delivered DEF Deliver, Opened, Still
<1>2. CASE LockAsked
  <2>1. ui \in Ui /\ ~ui.active /\ ui' # ui /\ (ui' = lock(ui) \/ ui' = lockNow(ui))
    BY <1>2 DEF LockAsked, Becomes, TypeOK, Ui
  <2>2. ui' \in Ui /\ Same(ui, ui') /\ Opened(ui') /\ ui'.active
    BY <2>1, LockResult, LockNowResult
  <2> QED BY <1>2, <2>1, <2>2 DEF LockAsked, Becomes, Same, Opened
<1>3. CASE suspend
  <2> DEFINE u == [lock(ui) EXCEPT !.suspendPending = TRUE]
  <2>1. ui \in Ui /\ ~ui.closing
    BY <1>3 DEF suspend, TypeOK, Ui
  <2>2. lock(ui) \in Ui /\ (lock(ui) = ui \/ (Same(ui, lock(ui)) /\ Opened(lock(ui)) /\ lock(ui).active))
    BY <2>1, LockResult
  <2>3. u \in Ui /\ Still(lock(ui), u) /\ u.sleepLockPending = lock(ui).sleepLockPending
    BY <2>2, UiFields DEF Ui, Still
  <2> HIDE DEF u
  <2>4. ui' \in Ui /\ Still(u, ui') /\ ui'.sleepLockPending = u.sleepLockPending
    BY <1>3, <2>3, SuspendResult DEF suspend, Becomes, u
  <2> QED BY <1>3, <2>1, <2>2, <2>3, <2>4 DEF suspend, Same, Opened, Still
<1>4. CASE Suspends
  <2>1. ui' = [ui EXCEPT !.suspending = FALSE]
    BY <1>4 DEF Suspends
  <2>2. ui'.unlockTimer = ui.unlockTimer /\ ui'.sleepLockPending = ui.sleepLockPending
    BY <2>1
  <2>3. os' = os => UNCHANGED excused
    BY <1>4 DEF Suspends
  <2> QED BY <1>4, <2>2, <2>3 DEF Suspends
<1>5. CASE Secures
  <2> DEFINE v == [ui EXCEPT !.secure = TRUE]
            u == suspendWhenSecure(v)
  <2>1. ui \in Ui /\ ui.active
    BY <1>5 DEF Secures, TypeOK, Ui
  <2>2. /\ v \in Ui /\ v.active = ui.active /\ v.pam = ui.pam /\ v.closing = ui.closing
        /\ v.unlockTimer = ui.unlockTimer /\ v.exitTimer = ui.exitTimer
        /\ v.sleepLockPending = ui.sleepLockPending /\ v.secure
    BY <2>1, UiFields DEF Ui
  <2> HIDE DEF v
  <2>3. u \in Ui /\ Still(v, u) /\ u.sleepLockPending = v.sleepLockPending
    BY <2>2, SuspendResult
  <2>4. ui' = releaseSleepWhenSecure(u)
    BY <1>5 DEF Secures, u, v
  <2>6. calls' = Called(u)
    BY <1>5 DEF Secures, u, v
  <2> HIDE DEF u
  <2>7. calls' \in {calls, calls + 1} /\ (calls' # calls => u.sleepLockPending)
    BY <2>6 DEF Called, Releases
  <2>5. ui' \in Ui /\ Still(u, ui') /\ (ui'.sleepLockPending => u.sleepLockPending)
    BY <2>3, <2>4, ReleaseResult
  <2> QED BY <1>5, <2>1, <2>2, <2>3, <2>5, <2>7 DEF Secures, Still
<1>6. CASE tryUnlock
  BY <1>6 DEF tryUnlock
<1>7. CASE PamRefuses
  BY <1>7 DEF PamRefuses
<1>8. CASE finishUnlock
  BY <1>8 DEF finishUnlock
<1>9. CASE UnlockAnimationEnds
  BY <1>9 DEF UnlockAnimationEnds
<1>10. CASE UnlockExits
  BY <1>10 DEF UnlockExits
<1>11. CASE MarkerWritten
  BY <1>11 DEF MarkerWritten
<1>12. CASE Disconnects
  BY <1>12 DEF Disconnects
<1>13. CASE Crashes
  <2>1. ui' = Unlocked /\ told' = FALSE
    BY <1>13 DEF Crashes, Unlinked
  <2> QED BY <1>13, <2>1, UnlockedResult DEF Crashes, Opened
<1>14. CASE Restarts
  BY <1>14 DEF Restarts
<1>15. CASE MarkerRead
  <2>1. ui \in Ui
    BY DEF TypeOK, Ui
  <2>2. lock(ui) \in Ui /\ IF ui.active \/ ui.closing THEN lock(ui) = ui
        ELSE Same(ui, lock(ui)) /\ Opened(lock(ui)) /\ lock(ui).active
    BY <2>1, LockResult
  <2>3. CASE marker
    <3>1. ui' = lock(ui)
      BY <1>15, <2>3 DEF MarkerRead, Becomes
    <3> QED BY <1>15, <2>1, <2>2, <2>3, <3>1 DEF MarkerRead, Same, Opened
  <2>4. CASE ~marker
    BY <1>15, <2>1, <2>4 DEF MarkerRead, Becomes
  <2> QED BY <2>3, <2>4
<1>16. CASE Connects
  BY <1>16 DEF Connects
<1> QED BY <1>1, <1>2, <1>3, <1>4, <1>5, <1>6, <1>7, <1>8, <1>9, <1>10, <1>11, <1>12, <1>13, <1>14, <1>15, <1>16 DEF Lock, Links

\* The one step of the shell that may announce a sleep changes nothing of the feed.
LEMMA AnnouncingShell ==
  ASSUME Lock \/ Links, Announcement
  PROVE  UNCHANGED <<calls, feed, told>>
BY DEF Lock, Links, Deliver, LockAsked, suspend, Suspends, Secures, tryUnlock, PamRefuses,
       finishUnlock, UnlockAnimationEnds, UnlockExits, MarkerWritten, Disconnects, Crashes,
       Restarts, MarkerRead, Connects, Announcement, logindVars, daemonVars, feedVars, viewVars

\* An announcement finds a machine that has heard of its last waking everywhere, or one
\* without an inhibitor.
LEMMA AnnouncedUnheard ==
  ASSUME TypeOK, SignalsKnown, LoopKnows, FeedKnows, Announcement,
         UNCHANGED <<inhibitor, sleeping, calls, feed, told>>
  PROVE  os' = "announced" /\ (~excused' => Unheard')
<1>1. /\ signals \in Seq(BOOLEAN) /\ inhibitor \in BOOLEAN /\ os = "awake" /\ signals = << >>
      /\ feed = << >> /\ calls = 0 /\ os' = "announced" /\ excused' = ~inhibitor
      /\ signals' = (IF Listening THEN Append(signals, TRUE) ELSE signals)
  BY DEF TypeOK, Announcement, Settled
<1>2. CASE ~inhibitor
  BY <1>1, <1>2
<1>3. CASE inhibitor
  <2>1. loop = "idle" /\ ~sleeping
    BY <1>1, <1>3 DEF LoopKnows
  <2>2. ~told
    BY <1>1, <2>1 DEF FeedKnows
  <2>3. signals' = Append(signals, TRUE)
    BY <1>1, <2>1 DEF Listening
  <2>4. Len(signals') = 1 /\ signals'[1] = TRUE
    <3>1. Len(signals) = 0
      BY <1>1
    <3>2. Len(Append(signals, TRUE)) = Len(signals) + 1 /\ Append(signals, TRUE)[Len(signals) + 1] = TRUE
      BY <1>1, AppendFacts
    <3> QED BY <2>3, <3>1, <3>2
  <2>5. \A i \in 1..Len(feed') : ~feed'[i].sleeping
    BY <1>1
  <2> QED BY <1>1, <1>3, <2>1, <2>2, <2>4, <2>5 DEF Unheard
<1> QED BY <1>1, <1>2, <1>3

\* The signal turns an announcement that nobody has heard of into one the daemon has heard
\* of; then only a call, or what excuses it, makes the loop let the inhibitor go.
LEMMA GuardDaemon ==
  ASSUME TypeOK, SignalsKnown, LoopKnows, FeedKnows, PendingIsTold, SleepIsGuarded,
         Logind \/ Daemon
  PROVE  SleepIsGuarded'
<1> USE DEF SleepIsGuarded, Dropped, Running, logindVars, daemonVars, feedVars, linkVars, viewVars, lockVars
<1>0. UNCHANGED <<linked, viewVars, lockVars, shell, marker>>
  BY DaemonFrame
<1>t. /\ signals \in Seq(BOOLEAN) /\ inhibitor \in BOOLEAN /\ sleeping \in BOOLEAN
      /\ linked \in BOOLEAN /\ calls \in Nat /\ (inhibitor => loop = "idle")
      /\ feed \in Seq(States) /\ Len(feed) <= FeedCapacity
      /\ requests \in Nat /\ lockSignals \in Nat
  BY SleepLockAssumption DEF TypeOK, LoopKnows
<1>1. CASE Announce
  <2>1. UNCHANGED <<inhibitor, sleeping, calls, feed, told>>
    BY <1>1 DEF Announce
  <2> QED BY <1>1, <2>1, AnnouncedUnheard DEF Announce, SleepsLocked
<1>2. CASE Sleep
  <2>1. excused \/ screen
    BY <1>2 DEF Sleep, Unheard, Heard
  <2> QED BY <1>2, <2>1, <1>0 DEF Sleep, SleepsLocked
<1>3. CASE DelayEnds
  <2>1. os' = "asleep" /\ excused' = TRUE
    BY <1>3 DEF DelayEnds
  <2> QED BY <2>1 DEF SleepsLocked
<1>4. CASE Wake
  <2>1. os' = "awake"
    BY <1>4 DEF Wake
  <2> QED BY <2>1 DEF SleepsLocked
<1>5. CASE LockSession
  <2>1. Unheard => Unheard'
    BY <1>5 DEF LockSession, Unheard
  <2>2. Heard => Heard'
    BY <1>5, <1>0 DEF LockSession, Heard
  <2> QED BY <1>5, <2>1, <2>2 DEF LockSession, SleepsLocked
<1>6. CASE Listen
  <2> QED BY <1>6, <1>0, <1>t DEF Listen, SleepsLocked, Unheard, Heard
<1>7. CASE Acquire
  <2> QED BY <1>7, <1>0, <1>t DEF Acquire, SleepsLocked, Unheard, Heard
<1>8. CASE BeginSleep
  <2>1. signals' = Tail(signals) /\ signals # << >> /\ sleeping' = TRUE /\ loop' = "idle"
        /\ UNCHANGED <<os, excused, inhibitor, calls>> /\ os # "asleep"
    BY <1>8 DEF BeginSleep
  <2>2. Unheard => signals' = << >> /\ inhibitor' /\ calls' = 0 /\ ~ui.sleepLockPending
    BY <1>t, <2>1 DEF Unheard, PendingIsTold
  <2>3. Unheard => Heard'
    BY <1>0, <2>1, <2>2 DEF Heard
  <2> QED BY <2>1, <2>3 DEF Heard, SleepsLocked
<1>9. CASE Resumed
  <2> QED BY <1>9, <1>0, <1>t DEF Resumed, SleepsLocked, Unheard, Heard
<1>10. CASE LockRequested
  <2> DEFINE state == State(sleeping, requests + 1)
  <2>1. state \in States
    <3>1. requests + 1 \in 0..MaxRequests
      BY <1>10, <1>t, SleepLockAssumption DEF LockRequested, SignalsKnown
    <3> QED BY <1>t, <3>1 DEF State, States
  <2>2. Publish(state) /\ UNCHANGED <<os, excused, signals, inhibitor, sleeping, calls, loop>> /\ os # "asleep"
    BY <1>10 DEF LockRequested
  <2>3. state.sleeping = sleeping
    BY DEF State
  <2>4. \A i \in 1..Len(feed') : feed'[i] = state \/ \E j \in 1..Len(feed) : feed'[i] = feed[j]
    BY <1>t, <2>1, <2>2, PublishResult
  <2> HIDE DEF state
  <2>5. Unheard => Unheard'
    BY <1>0, <2>2, <2>3, <2>4 DEF Unheard
  <2>6. Heard => Heard'
    BY <1>0, <2>2 DEF Heard
  <2> QED BY <2>2, <2>5, <2>6 DEF SleepsLocked
<1>11. CASE Ready
  <2>1. /\ calls > 0 /\ inhibitor' = (inhibitor /\ ~sleeping) /\ os # "asleep"
        /\ UNCHANGED <<os, excused, signals, sleeping, loop>>
    BY <1>11 DEF Ready
  <2>2. ~Unheard
    BY <2>1 DEF Unheard
  <2>3. Heard => Heard'
    BY <1>0, <2>1 DEF Heard
  <2> QED BY <2>1, <2>2, <2>3 DEF SleepsLocked
<1>12. CASE LoopFails
  <2>1. os # "asleep" /\ os' = os /\ excused' = (excused \/ os = "announced")
    BY <1>12 DEF LoopFails
  <2> QED BY <2>1 DEF SleepsLocked
<1>13. CASE Lingered
  <2>1. os # "asleep" /\ os' = os
    BY <1>13 DEF Lingered
  <2>2. CASE linked
    <3>1. Unheard => Unheard'
      BY <1>13, <1>0, <2>2 DEF Lingered, Unheard
    <3>2. Heard => Heard'
      BY <1>13, <1>0, <2>2 DEF Lingered, Heard
    <3> QED BY <1>13, <2>1, <2>2, <3>1, <3>2 DEF Lingered, SleepsLocked
  <2>3. CASE ~linked
    BY <1>13, <2>1, <2>3 DEF Lingered, Dropped, SleepsLocked
  <2> QED BY <1>t, <2>2, <2>3
<1>14. ASSUME NEW c \in 1..MaxSleeps, TimedOut(c)
      PROVE  SleepIsGuarded'
  <2>1. /\ inhibitor' = (inhibitor /\ ~(sleeping /\ cycle = c)) /\ os # "asleep"
        /\ excused' = (excused \/ (os = "announced" /\ sleeping /\ cycle = c))
        /\ UNCHANGED <<os, signals, sleeping, calls, feed, loop>>
    BY <1>14 DEF TimedOut
  <2>2. Unheard => Unheard'
    BY <1>0, <2>1 DEF Unheard
  <2>3. Heard /\ ~excused' /\ os = "announced" => Heard'
    BY <1>0, <1>t, <2>1 DEF Heard
  <2> QED BY <2>1, <2>2, <2>3 DEF SleepsLocked
<1> QED BY <1>1, <1>2, <1>3, <1>4, <1>5, <1>6, <1>7, <1>8, <1>9, <1>10, <1>11, <1>12, <1>13, <1>14 DEF Logind, Daemon

\* The shell hears of a sleep by its state only, and calls sleepReady for one it has heard
\* of, behind a locked screen; a password accepted meanwhile excuses the sleep.
LEMMA GuardShell ==
  ASSUME TypeOK, TimerIsGranted, PendingIsTold, LockIsShown, SignalsKnown, LoopKnows,
         FeedKnows, SleepIsGuarded, Lock \/ Links
  PROVE  SleepIsGuarded'
<1>1. /\ os # "asleep" /\ calls' \in Nat
      /\ calls' # calls => told' /\ screen' /\ (ui.sleepLockPending \/ ~ui'.unlockTimer)
      /\ ui'.sleepLockPending => ui.sleepLockPending \/ ~ui'.unlockTimer
      /\ ui'.unlockTimer => ui.unlockTimer \/ (os = "announced" => excused')
      /\ screen => screen' \/ ui.unlockTimer
      /\ os' = os /\ excused => excused'
      /\ told' => told \/ (feed # << >> /\ Head(feed).sleeping)
      /\ \/ feed' \in {feed, << >>, published}
         \/ feed # << >> /\ feed' = Tail(feed)
  BY ShellEffect
<1>2. /\ UNCHANGED <<inhibitor, sleeping, published>>
      /\ loop' = loop \/ (loop = "down" /\ loop' = "starting")
  BY ShellFrame
<1>3. /\ feed \in Seq(States) /\ calls \in Nat /\ (inhibitor => loop = "idle")
      /\ inhibitor \in BOOLEAN /\ sleeping \in BOOLEAN
  BY DEF TypeOK, LoopKnows
<1>4. CASE UNCHANGED <<os, announced, signals>>
  <2>1. Unheard => Unheard'
    <3>1. SUFFICES ASSUME Unheard PROVE Unheard'
      OBVIOUS
    <3>2. ~told /\ calls = 0 /\ \A i \in 1..Len(feed) : ~feed[i].sleeping
      BY <3>1 DEF Unheard
    <3>3. loop = "idle" /\ published[1].sleeping = sleeping /\ published # << >>
      BY <1>3, <3>1 DEF Unheard, FeedKnows
    <3>4. feed # << >> => Len(feed) > 0 /\ Len(feed) \in Nat /\ Head(feed) = feed[1]
      BY <1>3, TailFacts
    <3>5. ~told'
      BY <1>1, <3>2, <3>4
    <3>6. calls' = 0
      BY <1>1, <3>2, <3>5
    <3>7. \A i \in 1..Len(feed') : ~feed'[i].sleeping
      <4>1. CASE feed' = feed
        BY <3>2, <4>1
      <4>2. CASE feed' = << >>
        BY <4>2
      <4>3. CASE feed' = published
        <5>1. Len(feed') = 1
          BY <3>3, <4>3, SnapshotLength
        <5>2. ~feed'[1].sleeping
          BY <3>1, <3>3, <4>3 DEF Unheard
        <5> QED BY <5>1, <5>2
      <4>4. CASE feed # << >> /\ feed' = Tail(feed)
        <5>1. /\ Len(feed) \in Nat /\ Len(feed') = Len(feed) - 1
              /\ \A i \in 1..Len(feed) - 1 : feed'[i] = feed[i + 1]
          BY <1>3, <4>4, TailFacts
        <5> QED BY <3>2, <5>1
      <4> QED BY <1>1, <4>1, <4>2, <4>3, <4>4
    <3> QED BY <1>2, <1>4, <3>1, <3>5, <3>6, <3>7 DEF Unheard
  <2>2. Heard /\ ~excused' /\ os = "announced" => Heard'
    <3>1. SUFFICES ASSUME Heard, ~excused', os = "announced" PROVE Heard'
      OBVIOUS
    <3>2. signals' = << >> /\ loop' = "idle" /\ sleeping'
      BY <1>2, <1>4, <3>1 DEF Heard
    <3>3. ui'.unlockTimer => ui.unlockTimer
      BY <1>1, <3>1
    <3>4. calls' > 0 \/ ~inhibitor' => screen' /\ ~ui'.unlockTimer
      <4>1. CASE calls' = calls
        <5>1. SUFFICES ASSUME calls > 0 \/ ~inhibitor PROVE screen' /\ ~ui'.unlockTimer
          BY <1>2, <4>1
        <5>2. screen /\ ~ui.unlockTimer
          BY <3>1, <5>1 DEF Heard
        <5> QED BY <1>1, <3>3, <5>2
      <4>2. CASE calls' # calls
        <5>1. screen' /\ (ui.sleepLockPending \/ ~ui'.unlockTimer)
          BY <1>1, <4>2
        <5>2. ui.sleepLockPending => ~ui.unlockTimer
          BY <3>1 DEF Heard
        <5> QED BY <3>3, <5>1, <5>2
      <4> QED BY <4>1, <4>2
    <3>5. ui'.sleepLockPending => ~ui'.unlockTimer
      BY <1>1, <3>1, <3>3 DEF Heard
    <3> QED BY <3>2, <3>4, <3>5 DEF Heard
  <2> QED BY <1>1, <1>4, <2>1, <2>2 DEF SleepIsGuarded, SleepsLocked
<1>5. CASE Announcement
  <2>1. UNCHANGED <<calls, feed, told>>
    BY <1>5, AnnouncingShell
  <2> QED BY <1>2, <1>5, <2>1, AnnouncedUnheard DEF SleepIsGuarded, SleepsLocked
<1> QED BY <1>4, <1>5, ShellFrame

\* The parts of the type invariant.
DaemonTyped ==
  /\ os \in {"awake", "announced", "asleep"} /\ announced \in 0..MaxSleeps
  /\ signals \in Seq(BOOLEAN) /\ lockSignals \in 0..MaxRequests
  /\ loop \in {"down", "starting", "acquiring", "idle"}
  /\ cycle \in 0..MaxSleeps /\ timers \in SUBSET (1..cycle)
  /\ requests \in 0..MaxRequests
Flags ==
  /\ inhibitor \in BOOLEAN /\ sleeping \in BOOLEAN /\ lingering \in BOOLEAN
  /\ excused \in BOOLEAN
Counts == calls \in Nat /\ faults \in 0..MaxFaults
FeedTyped ==
  /\ published \in Seq(States) /\ Len(published) <= 1
  /\ feed \in Seq(States) /\ Len(feed) <= FeedCapacity
ShellTyped ==
  /\ linked \in BOOLEAN /\ shell \in {"dead", "loading", "up"}
  /\ told \in BOOLEAN /\ seen \in -1..MaxRequests
  /\ screen \in BOOLEAN /\ marker \in BOOLEAN /\ markerDirty \in BOOLEAN
  /\ granted \in BOOLEAN

\* Taken together they are the type invariant.
LEMMA TypeParts ==
  TypeOK <=> DaemonTyped /\ Flags /\ Counts /\ FeedTyped /\ ShellTyped /\ ui \in Ui
BY DEF TypeOK, DaemonTyped, Flags, Counts, FeedTyped, ShellTyped, Ui

\* The steps of logind and the daemon keep the numbers of their signals and cycles.
LEMMA TypeDaemon ==
  ASSUME TypeOK, SignalsKnown, Logind \/ Daemon
  PROVE  DaemonTyped'
<1> USE SleepLockAssumption DEF DaemonTyped, SignalsKnown, Dropped, logindVars, daemonVars, feedVars, linkVars, viewVars, lockVars
<1>0. DaemonTyped /\ Flags /\ Counts /\ FeedTyped /\ ShellTyped /\ ui \in Ui
  BY TypeParts
<1>1. CASE Announce
  <2>1. signals \in Seq(BOOLEAN) /\ signals' \in {signals, Append(signals, TRUE)}
    BY <1>0, <1>1 DEF DaemonTyped, Announce, Announcement
  <2>2. Append(signals, TRUE) \in Seq(BOOLEAN)
    BY <2>1, AppendFacts
  <2>3. announced + 1 \in 0..MaxSleeps
    BY <1>0, <1>1, SleepLockAssumption DEF DaemonTyped, Announce, Announcement
  <2>4. os' = "announced" /\ announced' = announced + 1 /\ signals' \in Seq(BOOLEAN)
    BY <2>1, <2>2, <1>1 DEF Announce, Announcement
  <2>5. UNCHANGED <<lockSignals, loop, cycle, timers, requests>>
    BY <1>1 DEF Announce
  <2> QED BY <1>0, <2>3, <2>4, <2>5 DEF DaemonTyped
<1>2. CASE Sleep
  BY <1>0, <1>2 DEF Sleep
<1>3. CASE DelayEnds
  BY <1>0, <1>3 DEF DelayEnds
<1>4. CASE Wake
  <2>1. signals \in Seq(BOOLEAN) /\ signals' \in {signals, Append(signals, FALSE)}
    BY <1>0, <1>4 DEF DaemonTyped, Wake
  <2>2. signals' \in Seq(BOOLEAN)
    BY <2>1, AppendFacts
  <2> QED BY <1>0, <1>4, <2>2 DEF DaemonTyped, Wake
<1>5. CASE LockSession
  BY <1>0, <1>5 DEF LockSession
<1>6. CASE Listen
  BY <1>0, <1>6 DEF Listen
<1>7. CASE Acquire
  BY <1>0, <1>7 DEF Acquire
<1>8. CASE BeginSleep
  <2>1. signals \in Seq(BOOLEAN) /\ signals # << >> /\ signals[1] /\ signals' = Tail(signals)
    BY <1>0, <1>8 DEF DaemonTyped, BeginSleep
  <2>2. signals' \in Seq(BOOLEAN) /\ Len(signals) > 0
    BY <2>1, TailFacts
  <2>3. cycle < announced
    BY <2>1, <2>2 DEF SignalsKnown
  <2>4. cycle + 1 \in 0..MaxSleeps /\ timers \cup {cycle + 1} \in SUBSET (1..(cycle + 1))
    BY <1>0, <2>3, SleepLockAssumption DEF DaemonTyped
  <2> QED BY <1>0, <1>8, <2>2, <2>4 DEF DaemonTyped, BeginSleep
<1>9. CASE Resumed
  <2>1. signals \in Seq(BOOLEAN) /\ signals # << >> /\ signals' = Tail(signals)
    BY <1>0, <1>9 DEF DaemonTyped, Resumed
  <2>2. signals' \in Seq(BOOLEAN)
    BY <2>1, TailFacts
  <2> QED BY <1>0, <1>9, <2>2 DEF DaemonTyped, Resumed
<1>10. CASE LockRequested
  BY <1>0, <1>10 DEF LockRequested
<1>11. CASE Ready
  BY <1>0, <1>11 DEF Ready
<1>12. CASE LoopFails
  BY <1>0, <1>12 DEF LoopFails
<1>13. CASE Lingered
  <2>1. UNCHANGED <<os, announced, cycle, timers, requests>>
    BY <1>13 DEF Lingered
  <2>2. signals' \in Seq(BOOLEAN) /\ lockSignals' \in 0..MaxRequests /\ loop' \in {"down", "starting", "acquiring", "idle"}
    <3>1. CASE linked
      BY <1>0, <1>13, <3>1 DEF Lingered, DaemonTyped
    <3>2. CASE ~linked
      BY <1>0, <1>13, <3>2, SleepLockAssumption DEF Lingered, DaemonTyped, Dropped
    <3> QED BY <3>1, <3>2
  <2> QED BY <1>0, <2>1, <2>2 DEF DaemonTyped
<1>14. ASSUME NEW c \in 1..MaxSleeps, TimedOut(c)
      PROVE  DaemonTyped'
  BY <1>0, <1>14 DEF TimedOut
<1> QED BY <1>1, <1>2, <1>3, <1>4, <1>5, <1>6, <1>7, <1>8, <1>9, <1>10, <1>11, <1>12, <1>13, <1>14 DEF Logind, Daemon

\* They keep the flags and the counters.
LEMMA TypeFlags ==
  ASSUME TypeOK, Logind \/ Daemon
  PROVE  Flags' /\ Counts'
<1> USE DEF Flags, Counts, Dropped, Announcement, logindVars, daemonVars, feedVars, linkVars, viewVars, lockVars
<1>0. DaemonTyped /\ Flags /\ Counts /\ FeedTyped /\ ShellTyped /\ ui \in Ui
  BY TypeParts
<1>1. CASE Announce
  BY <1>0, <1>1 DEF Announce
<1>2. CASE Sleep
  BY <1>0, <1>2 DEF Sleep
<1>3. CASE DelayEnds
  BY <1>0, <1>3 DEF DelayEnds
<1>4. CASE Wake
  BY <1>0, <1>4 DEF Wake
<1>5. CASE LockSession
  BY <1>0, <1>5 DEF LockSession
<1>6. CASE Listen
  BY <1>0, <1>6 DEF Listen
<1>7. CASE Acquire
  BY <1>0, <1>7 DEF Acquire
<1>8. CASE BeginSleep
  BY <1>0, <1>8 DEF BeginSleep
<1>9. CASE Resumed
  BY <1>0, <1>9 DEF Resumed
<1>10. CASE LockRequested
  BY <1>0, <1>10 DEF LockRequested
<1>11. CASE Ready
  BY <1>0, <1>11 DEF Ready
<1>12. CASE LoopFails
  <2>1. excused' \in BOOLEAN /\ inhibitor' \in BOOLEAN /\ sleeping' \in BOOLEAN
    BY <1>12 DEF LoopFails
  <2>2. faults' \in 0..MaxFaults /\ UNCHANGED <<calls, lingering>>
    BY <1>0, <1>12, SleepLockAssumption DEF LoopFails
  <2> QED BY <1>0, <2>1, <2>2
<1>13. CASE Lingered
  BY <1>0, <1>13 DEF Lingered
<1>14. ASSUME NEW c \in 1..MaxSleeps, TimedOut(c)
      PROVE  Flags' /\ Counts'
  BY <1>0, <1>14 DEF TimedOut
<1> QED BY <1>1, <1>2, <1>3, <1>4, <1>5, <1>6, <1>7, <1>8, <1>9, <1>10, <1>11, <1>12, <1>13, <1>14 DEF Logind, Daemon

\* They keep the snapshot and the bounded feed.
LEMMA TypeFeed ==
  ASSUME TypeOK, SignalsKnown, Logind \/ Daemon
  PROVE  FeedTyped'
<1> USE DEF FeedTyped, logindVars, daemonVars, feedVars, linkVars, viewVars, lockVars
<1>0. DaemonTyped /\ Flags /\ Counts /\ FeedTyped /\ ShellTyped /\ ui \in Ui
  BY TypeParts
<1>1. CASE Announce
  BY <1>0, <1>1 DEF Announce
<1>2. CASE Sleep
  BY <1>0, <1>2 DEF Sleep
<1>3. CASE DelayEnds
  BY <1>0, <1>3 DEF DelayEnds
<1>4. CASE Wake
  BY <1>0, <1>4 DEF Wake
<1>5. CASE LockSession
  BY <1>0, <1>5 DEF LockSession
<1>6. CASE Listen
  BY <1>0, <1>6 DEF Listen
<1>7. CASE Acquire
  <2>1. State(sleeping, requests) \in States /\ Publish(State(sleeping, requests))
    BY <1>0, <1>7 DEF Acquire, State, States, DaemonTyped, Flags, SignalsKnown
  <2>2. feed \in Seq(States) /\ Len(feed) <= FeedCapacity /\ linked \in BOOLEAN
    BY <1>0 DEF FeedTyped, ShellTyped
  <2>3. /\ published' \in Seq(States) /\ Len(published') = 1
        /\ feed' \in Seq(States) /\ Len(feed') <= FeedCapacity
    BY <2>1, <2>2, PublishResult
  <2> QED BY <2>3 DEF FeedTyped
<1>8. CASE BeginSleep
  <2>1. State(TRUE, requests) \in States /\ Publish(State(TRUE, requests))
    BY <1>0, <1>8 DEF BeginSleep, State, States, DaemonTyped, Flags, SignalsKnown
  <2>2. feed \in Seq(States) /\ Len(feed) <= FeedCapacity /\ linked \in BOOLEAN
    BY <1>0 DEF FeedTyped, ShellTyped
  <2>3. /\ published' \in Seq(States) /\ Len(published') = 1
        /\ feed' \in Seq(States) /\ Len(feed') <= FeedCapacity
    BY <2>1, <2>2, PublishResult
  <2> QED BY <2>3 DEF FeedTyped
<1>9. CASE Resumed
  BY <1>0, <1>9 DEF Resumed
<1>10. CASE LockRequested
  <2>1. requests + 1 \in 0..MaxRequests
    BY <1>0, <1>10, SleepLockAssumption DEF DaemonTyped, SignalsKnown, LockRequested
  <2>2. State(sleeping, requests + 1) \in States /\ Publish(State(sleeping, requests + 1))
    BY <1>0, <1>10, <2>1 DEF LockRequested, State, States, Flags
  <2>3. feed \in Seq(States) /\ Len(feed) <= FeedCapacity /\ linked \in BOOLEAN
    BY <1>0 DEF FeedTyped, ShellTyped
  <2>4. /\ published' \in Seq(States) /\ Len(published') = 1
        /\ feed' \in Seq(States) /\ Len(feed') <= FeedCapacity
    BY <2>2, <2>3, PublishResult
  <2> QED BY <2>4 DEF FeedTyped
<1>11. CASE Ready
  BY <1>0, <1>11 DEF Ready
<1>12. CASE LoopFails
  BY <1>0, <1>12 DEF LoopFails
<1>13. CASE Lingered
  BY <1>0, <1>13 DEF Lingered
<1>14. ASSUME NEW c \in 1..MaxSleeps, TimedOut(c)
      PROVE  FeedTyped'
  BY <1>0, <1>14 DEF TimedOut
<1> QED BY <1>1, <1>2, <1>3, <1>4, <1>5, <1>6, <1>7, <1>8, <1>9, <1>10, <1>11, <1>12, <1>13, <1>14 DEF Logind, Daemon

\* The steps of the shell keep its types.
LEMMA TypeShell ==
  ASSUME TypeOK, TimerIsGranted, PendingIsTold, Lock \/ Links
  PROVE  ShellTyped' /\ faults' \in 0..MaxFaults /\ lingering' \in BOOLEAN /\ excused' \in BOOLEAN
<1> USE SleepLockAssumption DEF ShellTyped, Becomes, Unlinked, Flags, Counts, Announcement, logindVars, daemonVars, feedVars, linkVars, viewVars, lockVars
<1>0. DaemonTyped /\ Flags /\ Counts /\ FeedTyped /\ ShellTyped /\ ui \in Ui
  BY TypeParts
<1>1. CASE Deliver
  <2>1. /\ Head(feed) \in States /\ feed' = Tail(feed) /\ told' = Head(feed).sleeping
        /\ seen' = Head(feed).requests /\ granted' \in BOOLEAN
    BY <1>1, Delivered
  <2>2. told' \in BOOLEAN /\ seen' \in -1..MaxRequests
    BY <2>1, SleepLockAssumption DEF States
  <2>3. markerDirty' \in BOOLEAN
    BY <1>0, <1>1 DEF Deliver, Becomes
  <2> QED BY <1>0, <1>1, <2>1, <2>2, <2>3 DEF Deliver
<1>2. CASE LockAsked
  BY <1>0, <1>2 DEF LockAsked
<1>3. CASE suspend
  BY <1>0, <1>3 DEF suspend
<1>4. CASE Suspends
  BY <1>0, <1>4 DEF Suspends
<1>5. CASE Secures
  BY <1>0, <1>5 DEF Secures
<1>6. CASE tryUnlock
  BY <1>0, <1>6 DEF tryUnlock
<1>7. CASE PamRefuses
  BY <1>0, <1>7 DEF PamRefuses
<1>8. CASE finishUnlock
  BY <1>0, <1>8 DEF finishUnlock
<1>9. CASE UnlockAnimationEnds
  BY <1>0, <1>9 DEF UnlockAnimationEnds
<1>10. CASE UnlockExits
  BY <1>0, <1>10 DEF UnlockExits
<1>11. CASE MarkerWritten
  <2>1. marker' \in BOOLEAN
    BY <1>0, <1>11, UiFields DEF MarkerWritten, Ui
  <2> QED BY <1>0, <1>11, <2>1 DEF MarkerWritten
<1>12. CASE Disconnects
  <2>0. -1 \in -1..MaxRequests
    BY SleepLockAssumption
  <2>1. seen' = -1 /\ told' = FALSE /\ linked' = FALSE
    BY <1>12 DEF Disconnects
  <2>2. lingering' \in BOOLEAN
    BY <1>12 DEF Disconnects
  <2>3. faults' \in 0..MaxFaults
    BY <1>0, <1>12, SleepLockAssumption DEF Disconnects, Counts
  <2>4. excused' = excused /\ UNCHANGED <<shell, screen, granted, marker, markerDirty>>
    BY <1>12 DEF Disconnects
  <2> QED BY <1>0, <2>0, <2>1, <2>2, <2>3, <2>4 DEF ShellTyped, Flags
<1>13. CASE Crashes
  <2>0. -1 \in -1..MaxRequests
    BY SleepLockAssumption
  <2>1. seen' = -1 /\ told' = FALSE /\ linked' = FALSE
    BY <1>13 DEF Crashes
  <2>2. lingering' \in BOOLEAN
    BY <1>13 DEF Crashes
  <2>3. faults' \in 0..MaxFaults
    BY <1>0, <1>13, SleepLockAssumption DEF Crashes, Counts
  <2>4. excused' = excused /\ shell' = "dead" /\ markerDirty' = FALSE /\ UNCHANGED <<screen, granted, marker>>
    BY <1>13 DEF Crashes
  <2> QED BY <1>0, <2>0, <2>1, <2>2, <2>3, <2>4 DEF ShellTyped, Flags
<1>14. CASE Restarts
  BY <1>0, <1>14 DEF Restarts
<1>15. CASE MarkerRead
  BY <1>0, <1>15 DEF MarkerRead
<1>16. CASE Connects
  BY <1>0, <1>16 DEF Connects
<1> QED BY <1>1, <1>2, <1>3, <1>4, <1>5, <1>6, <1>7, <1>8, <1>9, <1>10, <1>11, <1>12, <1>13, <1>14, <1>15, <1>16 DEF Lock, Links

-----------------------------------------------------------------------------
(* The invariant.                                                          *)

\* Nothing has been announced, published or locked in the beginning.
LEMMA InvInit == Init => IInv
<1> SUFFICES ASSUME Init PROVE IInv
  OBVIOUS
<1> USE SleepLockAssumption DEF Init
<1>1. DaemonTyped /\ Flags /\ Counts /\ FeedTyped /\ ShellTyped /\ ui \in Ui
  <2>1. -1 \in -1..MaxRequests /\ 0 \in 0..MaxFaults /\ 0 \in 0..MaxRequests /\ 0 \in 0..MaxSleeps
    OBVIOUS
  <2>2. DaemonTyped
    <3>1. signals \in Seq(BOOLEAN) /\ timers \in SUBSET (1..cycle)
      OBVIOUS
    <3> QED BY <2>1, <3>1 DEF DaemonTyped
  <2>4. Flags /\ Counts /\ ShellTyped
    BY <2>1 DEF Flags, Counts, ShellTyped
  <2>3. FeedTyped
    BY DEF FeedTyped
  <2> QED BY <2>2, <2>3, <2>4, UnlockedResult
<1>2. SomethingReleases /\ RequestOnItsWay /\ LockHasKeeper
  BY DEF SomethingReleases, RequestOnItsWay, LockHasKeeper
<1>3. UnlockingEnds /\ TimerIsGranted /\ LockIsShown /\ PendingIsTold
  BY UnlockedResult DEF UnlockingEnds, TimerIsGranted, LockIsShown, PendingIsTold, Opened
<1>4. SignalsKnown /\ LoopKnows /\ FeedKnows /\ SleepIsGuarded
  BY DEF SignalsKnown, LoopKnows, FeedKnows, SleepIsGuarded, SleepsLocked
<1> QED BY <1>1, <1>2, <1>3, <1>4, TypeParts DEF IInv, LockInv

\* What the feed knows is what RequestOnItsWay promises: a request that is counted is read
\* or the last of the feed.
LEMMA KnownIsOnItsWay == FeedKnows /\ requests \in Nat => RequestOnItsWay
<1> SUFFICES ASSUME FeedKnows, requests \in Nat, linked, seen >= 0, seen < requests
             PROVE  feed # << >> /\ feed[Len(feed)].requests = requests
  BY DEF RequestOnItsWay, Last
<1>1. seen # -1 /\ seen # requests
  OBVIOUS
<1> QED BY <1>1 DEF FeedKnows

\* The same of the next state.
LEMMA NextParts ==
  /\ TypeOK' <=> (DaemonTyped' /\ Flags' /\ Counts' /\ FeedTyped' /\ ShellTyped' /\ ui' \in Ui)
  /\ signals' \in Seq(BOOLEAN) /\ SignalsKnown' => (SomethingReleases' <=> Releasable')
  /\ FeedKnows' /\ requests' \in Nat => RequestOnItsWay'
<1>1. (TypeOK <=> DaemonTyped /\ Flags /\ Counts /\ FeedTyped /\ ShellTyped /\ ui \in Ui)'
  BY TypeParts, PTL
<1>2. (signals \in Seq(BOOLEAN) /\ SignalsKnown => (SomethingReleases <=> Releasable))'
  BY ReleasableIff, PTL
<1>3. (FeedKnows /\ requests \in Nat => RequestOnItsWay)'
  BY KnownIsOnItsWay, PTL
<1> QED BY <1>1, <1>2, <1>3 DEF Ui

\* A step of logind or of the daemon.
LEMMA InvDaemon ==
  ASSUME IInv, Logind \/ Daemon
  PROVE  IInv'
<1>1. /\ TypeOK /\ SomethingReleases /\ UnlockingEnds /\ LockHasKeeper
      /\ TimerIsGranted /\ LockIsShown /\ PendingIsTold
      /\ SignalsKnown /\ LoopKnows /\ FeedKnows /\ SleepIsGuarded
  BY DEF IInv, LockInv
<1>2. UNCHANGED <<linked, told, seen, ui, screen, markerDirty, granted, shell, marker>>
  BY DaemonFrame DEF viewVars, lockVars
<1>3. TypeOK'
  <2>1. ShellTyped' /\ ui' \in Ui
    BY <1>1, <1>2, TypeParts DEF ShellTyped
  <2> QED BY <1>1, <2>1, NextParts, TypeDaemon, TypeFlags, TypeFeed
<1>4. UnlockingEnds' /\ LockHasKeeper' /\ TimerIsGranted' /\ LockIsShown' /\ PendingIsTold'
  BY <1>1, <1>2 DEF UnlockingEnds, LockHasKeeper, TimerIsGranted, LockIsShown, PendingIsTold
<1>5. SignalsKnown' /\ LoopKnows' /\ FeedKnows' /\ SleepIsGuarded'
  BY <1>1, SignalsStep, FeedDaemon, GuardDaemon
<1>6. SomethingReleases'
  <2>1. Releasable'
    BY <1>1, ReleasableIff, ReleasableDaemon DEF TypeOK
  <2>2. signals' \in Seq(BOOLEAN)
    BY <1>3 DEF TypeOK
  <2> QED BY <1>5, <2>1, <2>2, NextParts
<1>7. RequestOnItsWay'
  <2>1. requests' \in Nat
    BY <1>3, SleepLockAssumption DEF TypeOK
  <2> QED BY <1>5, <2>1, NextParts
<1> QED BY <1>3, <1>4, <1>5, <1>6, <1>7 DEF IInv, LockInv, SleepIsGuarded

\* A step of the lock screen or of the connection.
LEMMA InvShell ==
  ASSUME IInv, Lock \/ Links
  PROVE  IInv'
<1>1. /\ TypeOK /\ SomethingReleases /\ UnlockingEnds /\ LockHasKeeper
      /\ TimerIsGranted /\ LockIsShown /\ PendingIsTold
      /\ SignalsKnown /\ LoopKnows /\ FeedKnows /\ SleepIsGuarded
  BY DEF IInv, LockInv
<1>2. ui' \in Ui /\ UnlockingEnds' /\ LockHasKeeper' /\ TimerIsGranted' /\ LockIsShown' /\ PendingIsTold'
  BY <1>1, ShellKeeps
<1>3. SignalsKnown' /\ LoopKnows' /\ FeedKnows' /\ SleepIsGuarded'
  BY <1>1, SignalsShell, FeedShell, GuardShell
<1>4. TypeOK'
  <2>1. ShellTyped' /\ faults' \in 0..MaxFaults /\ lingering' \in BOOLEAN /\ excused' \in BOOLEAN
    BY <1>1, TypeShell
  <2>2. DaemonTyped'
    <3>1. UNCHANGED <<lockSignals, timers, cycle, requests>> /\ (loop' = loop \/ loop' = "starting")
      BY ShellFrame
    <3>2. DaemonTyped
      BY <1>1, TypeParts
    <3>3. os' \in {"awake", "announced", "asleep"} /\ announced' \in 0..MaxSleeps /\ signals' \in Seq(BOOLEAN)
      <4>1. CASE UNCHANGED <<os, announced, signals>>
        BY <3>2, <4>1 DEF DaemonTyped
      <4>2. CASE Announcement
        <5>1. signals \in Seq(BOOLEAN) /\ signals' \in {signals, Append(signals, TRUE)}
          BY <3>2, <4>2 DEF DaemonTyped, Announcement
        <5>2. Append(signals, TRUE) \in Seq(BOOLEAN)
          BY <5>1, AppendFacts
        <5>3. announced + 1 \in 0..MaxSleeps
          BY <3>2, <4>2, SleepLockAssumption DEF DaemonTyped, Announcement
        <5> QED BY <4>2, <5>1, <5>2, <5>3 DEF Announcement
      <4> QED BY <4>1, <4>2, ShellFrame
    <3> QED BY <3>1, <3>2, <3>3 DEF DaemonTyped
  <2>3. Flags'
    <3>1. UNCHANGED <<inhibitor, sleeping>>
      BY ShellFrame
    <3> QED BY <1>1, <2>1, <3>1, TypeParts DEF Flags
  <2>4. Counts'
    BY <1>1, <2>1, ShellEffect DEF Counts
  <2>5. FeedTyped'
    <3>1. FeedTyped /\ published' = published
      BY <1>1, TypeParts, ShellFrame
    <3>2. CASE feed' \in {feed, published}
      BY <3>1, <3>2, SleepLockAssumption DEF FeedTyped
    <3>3. CASE feed' = << >>
      BY <3>1, <3>3, SleepLockAssumption DEF FeedTyped
    <3>4. CASE feed # << >> /\ feed' = Tail(feed)
      <4>1. feed \in Seq(States) /\ Len(feed) <= FeedCapacity
        BY <3>1 DEF FeedTyped
      <4>2. Len(feed) \in Nat /\ feed' \in Seq(States) /\ Len(feed') = Len(feed) - 1
        BY <3>4, <4>1, TailFacts
      <4>3. Len(feed') <= FeedCapacity
        BY <4>1, <4>2, SleepLockAssumption
      <4> QED BY <3>1, <4>2, <4>3 DEF FeedTyped
    <3> QED BY <1>1, <3>2, <3>3, <3>4, ShellEffect
  <2> QED BY <1>2, <2>1, <2>2, <2>3, <2>4, <2>5, NextParts
<1>5. SomethingReleases'
  <2>1. Releasable'
    BY <1>1, ReleasableIff, ReleasableShell DEF TypeOK
  <2>2. signals' \in Seq(BOOLEAN)
    BY <1>4 DEF TypeOK
  <2> QED BY <1>3, <2>1, <2>2, NextParts
<1>6. RequestOnItsWay'
  <2>1. requests' \in Nat
    BY <1>4, SleepLockAssumption DEF TypeOK
  <2> QED BY <1>3, <2>1, NextParts
<1> QED BY <1>2, <1>3, <1>4, <1>5, <1>6 DEF IInv, LockInv, SleepIsGuarded

\* A step that changes nothing.
LEMMA InvStutter ==
  ASSUME IInv, UNCHANGED vars
  PROVE  IInv'
BY DEF IInv, LockInv, TypeOK, SomethingReleases, RequestOnItsWay, UnlockingEnds, LockHasKeeper,
       TimerIsGranted, LockIsShown, PendingIsTold, SignalsKnown, LoopKnows, FeedKnows,
       SleepIsGuarded, SleepsLocked, Unheard, Heard,
       vars, logindVars, daemonVars, feedVars, linkVars, viewVars, lockVars

\* The inductive invariant holds in every state of every behaviour.
THEOREM Invariant == Spec => []IInv
<1>1. IInv /\ [Next]_vars => IInv'
  BY InvDaemon, InvShell, InvStutter DEF Next
<1> QED BY <1>1, InvInit, PTL DEF Spec

\* A machine whose sleep was delayed sleeps behind the lock screen (session.rs 1-13,
\* LockRoot.qml 111-114): the report of another sleep, the timer of another cycle, an
\* unlocking under way, a crash of the shell or a state lost in the feed never let it go.
THEOREM SleepIsLocked == Spec => []SleepsLocked
<1>1. IInv => SleepsLocked
  BY DEF IInv, SleepIsGuarded
<1> QED BY <1>1, Invariant, PTL

\* No announced sleep is held up for good, no counted lock request gets lost on its way to
\* a connected shell, an unlocking ends, and a locked session has a lock screen to open it.
THEOREM LockIsSound == Spec => []LockInv
<1>1. IInv => LockInv
  BY DEF IInv
<1> QED BY <1>1, Invariant, PTL

\* The lock of the compositor ends with a password accepted since the last order to lock
\* from outside, and with nothing else (LockRoot.qml 63-92, 171-184).
THEOREM OpensForPassword == Spec => RelockHolds
<1>1. IInv /\ [Next]_vars => (screen /\ ~screen' => granted)
  <2> SUFFICES ASSUME IInv, [Next]_vars, screen, ~screen' PROVE granted
    OBVIOUS
  <2>1. CASE UnlockAnimationEnds
    BY <2>1 DEF UnlockAnimationEnds, IInv, TimerIsGranted
  <2>2. CASE ~UnlockAnimationEnds
    <3>1. screen' \in {screen, TRUE}
      <4>1. CASE Logind \/ Daemon
        BY <4>1, DaemonFrame DEF lockVars
      <4>2. CASE Lock \/ Links
        BY <2>2, <4>2 DEF Lock, Links, Deliver, LockAsked, suspend, Suspends, Secures, tryUnlock,
           PamRefuses, finishUnlock, UnlockExits, MarkerWritten, Disconnects, Crashes, Restarts,
           MarkerRead, Connects, lockVars
      <4>3. CASE UNCHANGED vars
        BY <4>3 DEF vars, lockVars
      <4> QED BY <4>1, <4>2, <4>3 DEF Next
    <3> QED BY <3>1
  <2> QED BY <2>1, <2>2
<1>2. IInv /\ [Next]_vars => [screen /\ ~screen' => granted]_vars
  BY <1>1
<1> QED BY <1>2, Invariant, PTL DEF Spec, RelockHolds

\* A behaviour of the shell is one of the lock, so that all of this holds of it.
LEMMA ShellIsTheLock == ShellSpec => Spec
<1>1. ShellInit => Init
  BY DEF ShellInit
<1>2. [ShellNext]_<<component, vars, centre>> => [Next]_vars
  BY DEF ShellNext
<1> QED
  BY <1>1, <1>2, PTL DEF ShellSpec, Spec

-----------------------------------------------------------------------------
(* The notification centre: positions and ranks.                             *)

\* The centre counts as everybody does.
LEMMA SameCardinality ==
  ASSUME NEW S
  PROVE  Centre!Cardinality(S) = Cardinality(S)
BY Zenon DEF Centre!Cardinality, Cardinality

\* A rank is the number of positions up to it.
LEMMA RankIs ==
  ASSUME NEW K, NEW i
  PROVE  Centre!Rank(K, i) = Cardinality({j \in K : j <= i})
BY SameCardinality, Zenon DEF Centre!Rank

\* What is picked, with the common way to count.
LEMMA PickedIs ==
  ASSUME NEW h, NEW K
  PROVE  Centre!Picked(h, K) = [k \in 1..Cardinality(K) |-> h[Centre!Nth(K, k)]]
<1>1. Centre!Cardinality(K) = Cardinality(K)
  BY SameCardinality, Zenon
<1> QED
  BY <1>1, Zenon DEF Centre!Picked

\* Positions can be counted.
LEMMA PositionsFinite ==
  ASSUME NEW n \in Nat, NEW K \in SUBSET (1..n)
  PROVE  IsFiniteSet(K) /\ Cardinality(K) \in Nat
<1>1. IsFiniteSet(1..n)
  BY FS_Interval
<1> QED
  BY <1>1, FS_Subset, FS_CardinalityType

\* Of two positions the later has the higher rank.
LEMMA RankGrows ==
  ASSUME NEW n \in Nat, NEW K \in SUBSET (1..n), NEW i \in K, NEW j \in K, i < j
  PROVE  Centre!Rank(K, i) < Centre!Rank(K, j)
<1> DEFINE A == {x \in K : x <= i}
           B == {x \in K : x <= j}
<1>1. A \subseteq B /\ j \in B \ A
  <2>1. \A x \in K : x \in Int
    OBVIOUS
  <2>2. j \in B /\ j \notin A
    BY <2>1
  <2>3. \A x \in K : x <= i => x <= j
    BY <2>1
  <2>4. A \subseteq B
    BY <2>3
  <2> QED
    BY <2>2, <2>4
<1>2. IsFiniteSet(B) /\ Cardinality(B) \in Nat /\ Cardinality(A) \in Nat
  BY <1>1, PositionsFinite
<1>3. Cardinality(A) <= Cardinality(B) /\ Cardinality(A) # Cardinality(B)
  BY <1>1, <1>2, FS_Subset
<1>4. Centre!Rank(K, i) = Cardinality(A) /\ Centre!Rank(K, j) = Cardinality(B)
  BY RankIs
<1> QED
  BY <1>2, <1>3, <1>4

\* Ranks count from one to the number of positions.
LEMMA RankType ==
  ASSUME NEW n \in Nat, NEW K \in SUBSET (1..n), NEW i \in K
  PROVE  Centre!Rank(K, i) \in 1..Cardinality(K)
<1> DEFINE A == {x \in K : x <= i}
<1>1. A \subseteq K /\ i \in A
  OBVIOUS
<1>2. IsFiniteSet(K) /\ IsFiniteSet(A) /\ Cardinality(K) \in Nat /\ Cardinality(A) \in Nat
  BY <1>1, PositionsFinite
<1>3. Cardinality(A) <= Cardinality(K) /\ Cardinality(A) # 0
  BY <1>1, <1>2, FS_Subset, FS_EmptySet
<1>4. Centre!Rank(K, i) = Cardinality(A)
  BY RankIs
<1> QED
  BY <1>2, <1>3, <1>4

\* At every place there is one position, and it has that rank.
LEMMA NthFacts ==
  ASSUME NEW n \in Nat, NEW K \in SUBSET (1..n)
  PROVE  /\ \A k \in 1..Cardinality(K) : Centre!Nth(K, k) \in K /\ Centre!Rank(K, Centre!Nth(K, k)) = k
         /\ \A i \in K : Centre!Nth(K, Centre!Rank(K, i)) = i
<1> DEFINE N == Cardinality(K)
           rank == [i \in K |-> Centre!Rank(K, i)]
<1>1. IsFiniteSet(K) /\ N \in Nat
  BY PositionsFinite
<1>2. IsFiniteSet(1..N) /\ Cardinality(1..N) = N
  <2>1. IsFiniteSet(1..N) /\ Cardinality(1..N) = IF 1 > N THEN 0 ELSE N - 1 + 1
    BY <1>1, FS_Interval
  <2> QED
    BY <1>1, <2>1
<1>3. \A i, j \in K : Centre!Rank(K, i) = Centre!Rank(K, j) => i = j
  <2> SUFFICES ASSUME NEW i \in K, NEW j \in K, i # j
               PROVE  Centre!Rank(K, i) # Centre!Rank(K, j)
    OBVIOUS
  <2>1. i < j \/ j < i
    OBVIOUS
  <2>2. Centre!Rank(K, i) < Centre!Rank(K, j) \/ Centre!Rank(K, j) < Centre!Rank(K, i)
    BY <2>1, RankGrows
  <2>3. Centre!Rank(K, i) \in 1..N /\ Centre!Rank(K, j) \in 1..N
    BY RankType
  <2>4. Centre!Rank(K, i) \in Int /\ Centre!Rank(K, j) \in Int
    BY <1>1, <2>3
  <2> QED
    BY <2>2, <2>4
<1>4. rank \in Injection(K, 1..N)
  BY <1>3, RankType DEF Injection, IsInjective
<1>5. rank \in Surjection(K, 1..N)
  BY <1>1, <1>2, <1>4, FS_Injection
<1>6. \A k \in 1..N : \E i \in K : Centre!Rank(K, i) = k
  BY <1>5 DEF Surjection
<1>7. \A k \in 1..N : Centre!Nth(K, k) \in K /\ Centre!Rank(K, Centre!Nth(K, k)) = k
  BY <1>6 DEF Centre!Nth
<1>8. \A i \in K : Centre!Nth(K, Centre!Rank(K, i)) = i
  BY <1>3, <1>7, RankType
<1> QED
  BY <1>7, <1>8

\* What is picked are the entries at the positions, each of them once.
LEMMA PickedFacts ==
  ASSUME NEW S, NEW h \in Seq(S), NEW K \in SUBSET DOMAIN h, NEW g, g = Centre!Picked(h, K)
  PROVE  /\ g \in Seq(S) /\ Len(g) = Cardinality(K) /\ Len(g) \in Nat /\ Len(g) <= Len(h)
         /\ DOMAIN g = 1..Len(g)
         /\ \A a \in DOMAIN g : Centre!Nth(K, a) \in K /\ g[a] = h[Centre!Nth(K, a)]
         /\ \A a, b \in DOMAIN g : Centre!Nth(K, a) = Centre!Nth(K, b) => a = b
         /\ \A i \in K : \E a \in DOMAIN g : g[a] = h[i]
<1> DEFINE N == Cardinality(K)
<1>1. K \in SUBSET (1..Len(h)) /\ Len(h) \in Nat /\ \A i \in K : h[i] \in S
  OBVIOUS
<1>2. N \in Nat
  BY <1>1, PositionsFinite
<1>3. \A k \in 1..N : Centre!Nth(K, k) \in K /\ Centre!Rank(K, Centre!Nth(K, k)) = k
  BY <1>1, NthFacts
<1>4. \A i \in K : Centre!Rank(K, i) \in 1..N /\ Centre!Nth(K, Centre!Rank(K, i)) = i
  BY <1>1, NthFacts, RankType
<1>5. g = [k \in 1..N |-> h[Centre!Nth(K, k)]]
  BY PickedIs, Zenon
<1>6. /\ g \in Seq(S) /\ Len(g) = N /\ DOMAIN g = 1..N
      /\ \A k \in 1..N : g[k] = h[Centre!Nth(K, k)]
  <2>1. g \in [1..N -> S]
    BY <1>1, <1>3, <1>5
  <2> QED
    BY <1>2, <1>5, <2>1
<1>7. N <= Len(h)
  <2>1. IsFiniteSet(1..Len(h)) /\ Cardinality(1..Len(h)) = IF 1 > Len(h) THEN 0 ELSE Len(h) - 1 + 1
    BY <1>1, FS_Interval
  <2>2. Cardinality(1..Len(h)) = Len(h)
    BY <1>1, <2>1
  <2>3. N <= Cardinality(1..Len(h))
    BY <1>1, <2>1, FS_Subset
  <2> QED
    BY <2>2, <2>3
<1>8. \A i \in K : Centre!Rank(K, i) \in DOMAIN g /\ g[Centre!Rank(K, i)] = h[i]
  BY <1>4, <1>6
<1> QED
  BY <1>2, <1>3, <1>6, <1>7, <1>8

-----------------------------------------------------------------------------
(* The notification centre: what becomes of a history.                       *)

\* A list of entries with one number each.
History(h) == h \in Seq(Centre!Entries) /\ Centre!OneEach(h)

UnreadIds(h) == {h[i].id : i \in Centre!UnreadAt(h)}

\* Entries are as many as their numbers.
LEMMA CountedOnce ==
  ASSUME NEW h, History(h), NEW K \in SUBSET DOMAIN h
  PROVE  /\ IsFiniteSet(K) /\ Cardinality(K) \in Nat
         /\ IsFiniteSet({h[i].id : i \in K}) /\ Cardinality({h[i].id : i \in K}) = Cardinality(K)
<1> DEFINE S == {h[i].id : i \in K}
           f == [i \in K |-> h[i].id]
<1>1. IsFiniteSet(K) /\ Cardinality(K) \in Nat
  <2>1. Len(h) \in Nat /\ K \in SUBSET (1..Len(h))
    BY DEF History
  <2> QED
    BY <2>1, PositionsFinite
<1>2. f \in Surjection(K, S)
  BY DEF Surjection
<1>3. f \in Injection(K, S)
  BY DEF Injection, IsInjective, Centre!OneEach, History
<1>4. IsFiniteSet(S) /\ Cardinality(S) = Cardinality(K)
  BY <1>1, <1>2, <1>3, FS_Surjection
<1> QED
  BY <1>1, <1>4

\* The unread entries, counted.
LEMMA UnreadCounted ==
  ASSUME NEW h, History(h)
  PROVE  /\ Centre!UnreadOf(h) = Cardinality(UnreadIds(h)) /\ Centre!UnreadOf(h) \in Nat
         /\ IsFiniteSet(UnreadIds(h))
<1>1. Centre!UnreadAt(h) \in SUBSET DOMAIN h
  BY DEF Centre!UnreadAt
<1>2. Centre!UnreadOf(h) = Cardinality(Centre!UnreadAt(h))
  BY SameCardinality, Zenon DEF Centre!UnreadOf
<1> QED
  BY <1>1, <1>2, CountedOnce DEF UnreadIds

\* Which numbers are in a history, and in which state.
LEMMA Members ==
  ASSUME NEW h
  PROVE  /\ \A id : id \in Centre!IdsOf(h) <=> \E i \in DOMAIN h : h[i].id = id
         /\ \A id : id \in Centre!LiveOf(h) <=> \E i \in DOMAIN h : h[i].live /\ h[i].id = id
         /\ \A id : id \in UnreadIds(h) <=> \E i \in DOMAIN h : h[i].unread /\ h[i].id = id
BY Zenon DEF Centre!IdsOf, Centre!LiveOf, UnreadIds, Centre!UnreadAt

\* The positions of a history, and the numbers in it.
LEMMA HistoryFacts ==
  ASSUME NEW h, History(h)
  PROVE  /\ Len(h) \in Nat /\ DOMAIN h = 1..Len(h)
         /\ \A i \in DOMAIN h : /\ h[i] \in Centre!Entries /\ h[i].id \in Nat \ {0}
                                /\ h[i].app \in Apps /\ h[i].unread \in BOOLEAN
                                /\ h[i].live \in BOOLEAN
         /\ Centre!LiveOf(h) \subseteq Centre!IdsOf(h) /\ UnreadIds(h) \subseteq Centre!IdsOf(h)
         /\ Centre!IdsOf(h) \subseteq Nat \ {0}
         /\ \A i \in DOMAIN h : /\ h[i].id \in Centre!IdsOf(h)
                                /\ h[i].id \in Centre!LiveOf(h) <=> h[i].live
                                /\ h[i].id \in UnreadIds(h) <=> h[i].unread
<1>1. Len(h) \in Nat /\ DOMAIN h = 1..Len(h) /\ \A i \in DOMAIN h : h[i] \in Centre!Entries
  BY DEF History
<1>2. \A i \in DOMAIN h : /\ h[i].id \in Nat \ {0} /\ h[i].app \in Apps
                          /\ h[i].unread \in BOOLEAN /\ h[i].live \in BOOLEAN
  BY <1>1 DEF Centre!Entries, Centre!NoId
<1>3. \A i \in DOMAIN h : /\ h[i].id \in Centre!LiveOf(h) <=> h[i].live
                          /\ h[i].id \in UnreadIds(h) <=> h[i].unread
  BY DEF History, Centre!OneEach, Centre!LiveOf, UnreadIds, Centre!UnreadAt
<1>4. Centre!LiveOf(h) \subseteq Centre!IdsOf(h) /\ UnreadIds(h) \subseteq Centre!IdsOf(h)
  BY DEF Centre!LiveOf, Centre!IdsOf, UnreadIds, Centre!UnreadAt
<1>5. Centre!IdsOf(h) \subseteq Nat \ {0} /\ \A i \in DOMAIN h : h[i].id \in Centre!IdsOf(h)
  BY <1>2 DEF Centre!IdsOf
<1> QED
  BY <1>1, <1>2, <1>3, <1>4, <1>5

\* What a history becomes whose entries keep their places and their numbers.
LEMMA MarkedFacts ==
  ASSUME NEW h, History(h), NEW g \in [DOMAIN h -> Centre!Entries],
         \A i \in DOMAIN h : g[i].id = h[i].id
  PROVE  History(g) /\ Len(g) = Len(h) /\ Centre!IdsOf(g) = Centre!IdsOf(h)
<1>1. g \in Seq(Centre!Entries) /\ Len(g) = Len(h)
  <2>1. g \in [1..Len(h) -> Centre!Entries] /\ Len(h) \in Nat
    BY HistoryFacts
  <2> QED
    BY <2>1
<1>2. Centre!OneEach(g)
  BY DEF History, Centre!OneEach
<1>3. Centre!IdsOf(g) = Centre!IdsOf(h)
  BY DEF Centre!IdsOf
<1> QED
  BY <1>1, <1>2, <1>3 DEF History

\* Closed entries are still there, and no longer live.
LEMMA DeadFacts ==
  ASSUME NEW h, History(h), NEW ids, NEW g, g = Centre!Dead(h, ids)
  PROVE  /\ History(g) /\ Len(g) = Len(h) /\ Centre!IdsOf(g) = Centre!IdsOf(h)
         /\ Centre!LiveOf(g) = Centre!LiveOf(h) \ ids /\ UnreadIds(g) = UnreadIds(h)
<1>1. g = [i \in DOMAIN h |-> [h[i] EXCEPT !.live = h[i].live /\ h[i].id \notin ids]]
  BY DEF Centre!Dead
<1>2. \A i \in DOMAIN h : h[i] \in Centre!Entries
  BY HistoryFacts
<1>3. \A i \in DOMAIN h : /\ g[i] \in Centre!Entries /\ g[i].id = h[i].id
                          /\ g[i].live = (h[i].live /\ h[i].id \notin ids)
                          /\ g[i].unread = h[i].unread
  <2> TAKE i \in DOMAIN h
  <2>1. g[i] = [h[i] EXCEPT !.live = h[i].live /\ h[i].id \notin ids]
    BY <1>1
  <2>2. (h[i].live /\ h[i].id \notin ids) \in BOOLEAN
    OBVIOUS
  <2> QED
    BY <1>2, <2>1 DEF Centre!Entries
<1>4. g \in [DOMAIN h -> Centre!Entries]
  BY <1>1, <1>3
<1>5. History(g) /\ Len(g) = Len(h) /\ Centre!IdsOf(g) = Centre!IdsOf(h)
  <2>1. \A i \in DOMAIN h : g[i].id = h[i].id
    BY <1>3, Zenon
  <2> QED
    BY <1>4, <2>1, MarkedFacts, Zenon
<1>6. DOMAIN g = DOMAIN h
  BY <1>4
<1>7. \A id : id \in Centre!LiveOf(g) <=> id \in Centre!LiveOf(h) \ ids
  <2> TAKE id
  <2>1. id \in Centre!LiveOf(g) <=> \E i \in DOMAIN g : g[i].live /\ g[i].id = id
    BY Members, SMT
  <2>2. id \in Centre!LiveOf(h) <=> \E i \in DOMAIN h : h[i].live /\ h[i].id = id
    BY Members, SMT
  <2>3. \A i \in DOMAIN h : (g[i].live /\ g[i].id = id) <=> (h[i].live /\ h[i].id = id /\ id \notin ids)
    BY <1>3
  <2> QED
    BY <1>6, <2>1, <2>2, <2>3
<1>8. \A id : id \in UnreadIds(g) <=> id \in UnreadIds(h)
  <2> TAKE id
  <2>1. id \in UnreadIds(g) <=> \E i \in DOMAIN g : g[i].unread /\ g[i].id = id
    BY Members, SMT
  <2>2. id \in UnreadIds(h) <=> \E i \in DOMAIN h : h[i].unread /\ h[i].id = id
    BY Members, SMT
  <2>3. \A i \in DOMAIN h : (g[i].unread /\ g[i].id = id) <=> (h[i].unread /\ h[i].id = id)
    BY <1>3
  <2> QED
    BY <1>6, <2>1, <2>2, <2>3
<1>9. Centre!LiveOf(g) = Centre!LiveOf(h) \ ids /\ UnreadIds(g) = UnreadIds(h)
  BY <1>7, <1>8, Zenon
<1> QED
  BY <1>5, <1>9

\* Entries that are read count no longer.
LEMMA ReadFacts ==
  ASSUME NEW h, History(h), NEW ids, NEW g, g = Centre!Read(h, ids)
  PROVE  /\ History(g) /\ Len(g) = Len(h) /\ Centre!IdsOf(g) = Centre!IdsOf(h)
         /\ Centre!LiveOf(g) = Centre!LiveOf(h) /\ UnreadIds(g) = UnreadIds(h) \ ids
<1>1. g = [i \in DOMAIN h |-> [h[i] EXCEPT !.unread = h[i].unread /\ h[i].id \notin ids]]
  BY DEF Centre!Read
<1>2. \A i \in DOMAIN h : h[i] \in Centre!Entries
  BY HistoryFacts
<1>3. \A i \in DOMAIN h : /\ g[i] \in Centre!Entries /\ g[i].id = h[i].id
                          /\ g[i].unread = (h[i].unread /\ h[i].id \notin ids)
                          /\ g[i].live = h[i].live
  <2> TAKE i \in DOMAIN h
  <2>1. g[i] = [h[i] EXCEPT !.unread = h[i].unread /\ h[i].id \notin ids]
    BY <1>1
  <2>2. (h[i].unread /\ h[i].id \notin ids) \in BOOLEAN
    OBVIOUS
  <2> QED
    BY <1>2, <2>1 DEF Centre!Entries
<1>4. g \in [DOMAIN h -> Centre!Entries]
  BY <1>1, <1>3
<1>5. History(g) /\ Len(g) = Len(h) /\ Centre!IdsOf(g) = Centre!IdsOf(h)
  <2>1. \A i \in DOMAIN h : g[i].id = h[i].id
    BY <1>3, Zenon
  <2> QED
    BY <1>4, <2>1, MarkedFacts, Zenon
<1>6. DOMAIN g = DOMAIN h
  BY <1>4
<1>7. \A id : id \in Centre!LiveOf(g) <=> id \in Centre!LiveOf(h)
  <2> TAKE id
  <2>1. id \in Centre!LiveOf(g) <=> \E i \in DOMAIN g : g[i].live /\ g[i].id = id
    BY Members, SMT
  <2>2. id \in Centre!LiveOf(h) <=> \E i \in DOMAIN h : h[i].live /\ h[i].id = id
    BY Members, SMT
  <2>3. \A i \in DOMAIN h : (g[i].live /\ g[i].id = id) <=> (h[i].live /\ h[i].id = id)
    BY <1>3
  <2> QED
    BY <1>6, <2>1, <2>2, <2>3
<1>8. \A id : id \in UnreadIds(g) <=> id \in UnreadIds(h) \ ids
  <2> TAKE id
  <2>1. id \in UnreadIds(g) <=> \E i \in DOMAIN g : g[i].unread /\ g[i].id = id
    BY Members, SMT
  <2>2. id \in UnreadIds(h) <=> \E i \in DOMAIN h : h[i].unread /\ h[i].id = id
    BY Members, SMT
  <2>3. \A i \in DOMAIN h : (g[i].unread /\ g[i].id = id) <=> (h[i].unread /\ h[i].id = id /\ id \notin ids)
    BY <1>3
  <2> QED
    BY <1>6, <2>1, <2>2, <2>3
<1>9. Centre!LiveOf(g) = Centre!LiveOf(h) /\ UnreadIds(g) = UnreadIds(h) \ ids
  BY <1>7, <1>8, Zenon
<1> QED
  BY <1>5, <1>9

\* What is sent in its place changes what an entry says, and nothing else.
LEMMA RefreshedFacts ==
  ASSUME NEW h, History(h), NEW g \in [DOMAIN h -> Centre!Entries],
         \A i \in DOMAIN h : /\ g[i].id = h[i].id
                             /\ g[i].unread = h[i].unread /\ g[i].live = h[i].live
  PROVE  /\ History(g) /\ Len(g) = Len(h) /\ Centre!IdsOf(g) = Centre!IdsOf(h)
         /\ Centre!LiveOf(g) = Centre!LiveOf(h) /\ UnreadIds(g) = UnreadIds(h)
<1>5. History(g) /\ Len(g) = Len(h) /\ Centre!IdsOf(g) = Centre!IdsOf(h)
  BY MarkedFacts
<1>6. DOMAIN g = DOMAIN h
  OBVIOUS
<1>7. \A id : id \in Centre!LiveOf(g) <=> id \in Centre!LiveOf(h)
  <2> TAKE id
  <2>1. id \in Centre!LiveOf(g) <=> \E i \in DOMAIN g : g[i].live /\ g[i].id = id
    BY Members, SMT
  <2>2. id \in Centre!LiveOf(h) <=> \E i \in DOMAIN h : h[i].live /\ h[i].id = id
    BY Members, SMT
  <2>3. \A i \in DOMAIN h : (g[i].live /\ g[i].id = id) <=> (h[i].live /\ h[i].id = id)
    OBVIOUS
  <2> QED
    BY <1>6, <2>1, <2>2, <2>3
<1>8. \A id : id \in UnreadIds(g) <=> id \in UnreadIds(h)
  <2> TAKE id
  <2>1. id \in UnreadIds(g) <=> \E i \in DOMAIN g : g[i].unread /\ g[i].id = id
    BY Members, SMT
  <2>2. id \in UnreadIds(h) <=> \E i \in DOMAIN h : h[i].unread /\ h[i].id = id
    BY Members, SMT
  <2>3. \A i \in DOMAIN h : (g[i].unread /\ g[i].id = id) <=> (h[i].unread /\ h[i].id = id)
    OBVIOUS
  <2> QED
    BY <1>6, <2>1, <2>2, <2>3
<1>9. Centre!LiveOf(g) = Centre!LiveOf(h) /\ UnreadIds(g) = UnreadIds(h)
  BY <1>7, <1>8, Zenon
<1> QED
  BY <1>5, <1>9

\* Entries that leave take their numbers with them, and leave the others as they are.
Leaves(h, ids, g) ==
  /\ History(g) /\ Len(g) <= Len(h)
  /\ Centre!IdsOf(g) = Centre!IdsOf(h) \ ids
  /\ Centre!LiveOf(g) = Centre!LiveOf(h) \ ids /\ UnreadIds(g) = UnreadIds(h) \ ids

\* What is picked of a history without the entries of ids is what they leave.
LEMMA LeftFacts ==
  ASSUME NEW h, History(h), NEW ids, NEW K \in SUBSET DOMAIN h,
         \A i \in DOMAIN h : i \in K <=> h[i].id \notin ids, NEW g, g = Centre!Picked(h, K)
  PROVE  Leaves(h, ids, g) /\ Len(g) = Cardinality(K)
<1>1. /\ g \in Seq(Centre!Entries) /\ Len(g) = Cardinality(K) /\ Len(g) \in Nat
      /\ Len(g) <= Len(h) /\ DOMAIN g = 1..Len(g)
      /\ \A a \in DOMAIN g : Centre!Nth(K, a) \in K /\ g[a] = h[Centre!Nth(K, a)]
      /\ \A a, b \in DOMAIN g : Centre!Nth(K, a) = Centre!Nth(K, b) => a = b
      /\ \A i \in K : \E a \in DOMAIN g : g[a] = h[i]
  <2>1. h \in Seq(Centre!Entries)
    BY DEF History
  <2> QED
    BY <2>1, PickedFacts, SMT
<1>2. Centre!OneEach(g)
  <2> SUFFICES ASSUME NEW a \in DOMAIN g, NEW b \in DOMAIN g, g[a].id = g[b].id
               PROVE  a = b
    BY DEF Centre!OneEach
  <2>1. Centre!Nth(K, a) = Centre!Nth(K, b)
    <3>1. \A i, j \in DOMAIN h : h[i].id = h[j].id => i = j
      BY DEF History, Centre!OneEach
    <3>2. Centre!Nth(K, a) \in DOMAIN h /\ g[a] = h[Centre!Nth(K, a)]
      BY <1>1
    <3>3. Centre!Nth(K, b) \in DOMAIN h /\ g[b] = h[Centre!Nth(K, b)]
      BY <1>1
    <3> QED
      BY <3>1, <3>2, <3>3
  <2> QED
    BY <1>1, <2>1
<1>3. \A a \in DOMAIN g : \E i \in DOMAIN h : h[i].id \notin ids /\ g[a] = h[i]
  <2> TAKE a \in DOMAIN g
  <2>1. Centre!Nth(K, a) \in K /\ g[a] = h[Centre!Nth(K, a)]
    BY <1>1, Zenon
  <2> QED
    BY <2>1, Zenon
<1>4. \A i \in DOMAIN h : h[i].id \notin ids => \E a \in DOMAIN g : g[a] = h[i]
  BY <1>1
<1>5. \A id : id \in Centre!IdsOf(g) <=> id \in Centre!IdsOf(h) \ ids
  BY <1>3, <1>4, Members, SMT
<1>6. \A id : id \in Centre!LiveOf(g) <=> id \in Centre!LiveOf(h) \ ids
  BY <1>3, <1>4, Members, SMT
<1>7. \A id : id \in UnreadIds(g) <=> id \in UnreadIds(h) \ ids
  BY <1>3, <1>4, Members, SMT
<1>8. /\ Centre!IdsOf(g) = Centre!IdsOf(h) \ ids
      /\ Centre!LiveOf(g) = Centre!LiveOf(h) \ ids /\ UnreadIds(g) = UnreadIds(h) \ ids
  BY <1>5, <1>6, <1>7, Zenon
<1> QED
  BY <1>1, <1>2, <1>8 DEF History, Leaves

\* The entries of g are those of h and e.
HasBesides(g, h, e) ==
  /\ \A i \in DOMAIN g : g[i] = e \/ \E j \in DOMAIN h : g[i] = h[j]
  /\ \A j \in DOMAIN h : \E i \in DOMAIN g : g[i] = h[j]
  /\ \E i \in DOMAIN g : g[i] = e

\* A list with one more entry has one more number.
LEMMA OneMore ==
  ASSUME NEW h, NEW e, NEW g, HasBesides(g, h, e)
  PROVE  /\ \A id : id \in Centre!IdsOf(g) <=> id \in Centre!IdsOf(h) \/ id = e.id
         /\ \A id : id \in Centre!LiveOf(g) <=> id \in Centre!LiveOf(h) \/ (e.live /\ id = e.id)
         /\ \A id : id \in UnreadIds(g) <=> id \in UnreadIds(h) \/ (e.unread /\ id = e.id)
<1>1. \A id : id \in Centre!IdsOf(g) <=> id \in Centre!IdsOf(h) \/ id = e.id
  <2> TAKE id
  <2>1. id \in Centre!IdsOf(g) <=> \E i \in DOMAIN g : g[i].id = id
    BY Members, SMT
  <2>2. id \in Centre!IdsOf(h) <=> \E i \in DOMAIN h : h[i].id = id
    BY Members, SMT
  <2> QED
    BY <2>1, <2>2, SMT DEF HasBesides
<1>2. \A id : id \in Centre!LiveOf(g) <=> id \in Centre!LiveOf(h) \/ (e.live /\ id = e.id)
  <2> TAKE id
  <2>1. id \in Centre!LiveOf(g) <=> \E i \in DOMAIN g : g[i].live /\ g[i].id = id
    BY Members, SMT
  <2>2. id \in Centre!LiveOf(h) <=> \E i \in DOMAIN h : h[i].live /\ h[i].id = id
    BY Members, SMT
  <2> QED
    BY <2>1, <2>2, SMT DEF HasBesides
<1>3. \A id : id \in UnreadIds(g) <=> id \in UnreadIds(h) \/ (e.unread /\ id = e.id)
  <2> TAKE id
  <2>1. id \in UnreadIds(g) <=> \E i \in DOMAIN g : g[i].unread /\ g[i].id = id
    BY Members, SMT
  <2>2. id \in UnreadIds(h) <=> \E i \in DOMAIN h : h[i].unread /\ h[i].id = id
    BY Members, SMT
  <2> QED
    BY <2>1, <2>2, SMT DEF HasBesides
<1> QED
  BY <1>1, <1>2, <1>3

\* A new entry comes first.
LEMMA NewestFacts ==
  ASSUME NEW h, History(h), NEW e \in Centre!Entries, e.id \notin Centre!IdsOf(h),
         NEW g \in Seq(Centre!Entries), Len(g) = Len(h) + 1, g[1] = e,
         \A i \in 2..(Len(h) + 1) : g[i] = h[i - 1]
  PROVE  /\ History(g) /\ Len(g) = Len(h) + 1 /\ Centre!IdsOf(g) = Centre!IdsOf(h) \cup {e.id}
         /\ Centre!LiveOf(g) = Centre!LiveOf(h) \cup (IF e.live THEN {e.id} ELSE {})
         /\ UnreadIds(g) = UnreadIds(h) \cup (IF e.unread THEN {e.id} ELSE {})
<1>1. h \in Seq(Centre!Entries) /\ Len(h) \in Nat /\ DOMAIN h = 1..Len(h)
  BY HistoryFacts DEF History
<1>2. /\ g \in Seq(Centre!Entries) /\ Len(g) = Len(h) + 1 /\ DOMAIN g = 1..(Len(h) + 1)
      /\ g[1] = e /\ \A i \in 2..(Len(h) + 1) : g[i] = h[i - 1]
  OBVIOUS
<1>3. \A i \in DOMAIN g : i = 1 \/ (i - 1 \in DOMAIN h /\ g[i] = h[i - 1])
  BY <1>1, <1>2
<1>4. \A i \in DOMAIN h : i + 1 \in DOMAIN g /\ g[i + 1] = h[i]
  BY <1>1, <1>2
<1>5. Centre!OneEach(g)
  <2> SUFFICES ASSUME NEW a \in DOMAIN g, NEW b \in DOMAIN g, g[a].id = g[b].id
               PROVE  a = b
    BY DEF Centre!OneEach
  <2>1. a = 1 <=> b = 1
    BY <1>2, <1>3 DEF Centre!IdsOf
  <2>2. CASE a # 1
    <3>1. a - 1 = b - 1
      BY <1>3, <2>1, <2>2 DEF History, Centre!OneEach
    <3> QED
      BY <1>2, <3>1
  <2> QED
    BY <2>1, <2>2
<1>6. 1 \in DOMAIN g
  BY <1>1, <1>2
<1>7. HasBesides(g, h, e)
  BY <1>2, <1>3, <1>4, <1>6 DEF HasBesides
<1>8. \A id : id \in Centre!IdsOf(g) <=> id \in Centre!IdsOf(h) \/ id = e.id
  BY <1>7, OneMore
<1>9. \A id : id \in Centre!LiveOf(g) <=> id \in Centre!LiveOf(h) \/ (e.live /\ id = e.id)
  BY <1>7, OneMore
<1>10. \A id : id \in UnreadIds(g) <=> id \in UnreadIds(h) \/ (e.unread /\ id = e.id)
  BY <1>7, OneMore
<1>11. /\ Centre!IdsOf(g) = Centre!IdsOf(h) \cup {e.id}
       /\ Centre!LiveOf(g) = Centre!LiveOf(h) \cup (IF e.live THEN {e.id} ELSE {})
       /\ UnreadIds(g) = UnreadIds(h) \cup (IF e.unread THEN {e.id} ELSE {})
  BY <1>8, <1>9, <1>10
<1> QED
  BY <1>2, <1>5, <1>11 DEF History
-----------------------------------------------------------------------------
(* The notification centre: the parts of a handler.                          *)

\* The history, its numbers and the badge.
Listed(s) ==
  /\ s \in Centre!Controllers /\ History(s.history) /\ Len(s.history) <= historyLimit
  /\ \A id \in Centre!IdsOf(s.history) : id < s.nextId
  /\ s.unread = Cardinality(UnreadIds(s.history))

\* What waits can be shown, and waits for something.
Queued(s) ==
  /\ \A i \in DOMAIN s.queue : s.queue[i] \in Centre!LiveOf(s.history) \ {s.current}
  /\ \A i, j \in DOMAIN s.queue : s.queue[i] = s.queue[j] => i = j
  /\ s.dnd => s.queue = <<>>
  /\ s.menu /\ s.queue # <<>> => s.parked

\* What is shown is live, or has just left the history.
Toasts(s, gone) ==
  /\ s.current \in Centre!LiveOf(s.history) \cup gone \cup {0}
  /\ s.menu => s.current = 0
  /\ s.current # 0 => s.expiring \/ s.hovered

\* Before the stored history is read.
Unloaded(s) == ~s.loaded => ~s.saving /\ (s.early \/ (s.history = <<>> /\ ~s.dnd))

\* A controller in the middle of a handler.
Kept(s, gone) == Listed(s) /\ Queued(s) /\ Toasts(s, gone) /\ Unloaded(s)

\* The queue goes on by itself.
GoesOn(s) == s.queue # <<>> /\ s.current = 0 => s.later \/ s.parked

\* What no part of a handler but its own changes.
SameMode(s, t) ==
  /\ t.hovered = s.hovered /\ t.menu = s.menu /\ t.dnd = s.dnd
  /\ t.loaded = s.loaded /\ t.early = s.early /\ t.nextId = s.nextId

\* What is taken from the queue leaves the rest as it is.
LEMMA QueueLeft ==
  ASSUME NEW q \in Seq(Nat), NEW ids, NEW r, r = Centre!removeQueuedEntry(q, ids)
  PROVE  /\ r \in Seq(Nat)
         /\ \A a \in DOMAIN r : \E i \in DOMAIN q : r[a] = q[i] /\ q[i] \notin ids
         /\ (\A i, j \in DOMAIN q : q[i] = q[j] => i = j) =>
              \A a, b \in DOMAIN r : r[a] = r[b] => a = b
         /\ q = <<>> => r = <<>>
<1> DEFINE K == {i \in DOMAIN q : q[i] \notin ids}
<1>1. r = Centre!Picked(q, K)
  BY DEF Centre!removeQueuedEntry
<1>2. K \in SUBSET DOMAIN q
  OBVIOUS
<1>3. /\ r \in Seq(Nat) /\ Len(r) = Cardinality(K) /\ Len(r) \in Nat
      /\ Len(r) <= Len(q) /\ DOMAIN r = 1..Len(r)
      /\ \A a \in DOMAIN r : Centre!Nth(K, a) \in K /\ r[a] = q[Centre!Nth(K, a)]
      /\ \A a, b \in DOMAIN r : Centre!Nth(K, a) = Centre!Nth(K, b) => a = b
  <2> HIDE DEF K
  <2> QED
    BY <1>1, <1>2, PickedFacts
<1>4. \A a \in DOMAIN r : \E i \in DOMAIN q : r[a] = q[i] /\ q[i] \notin ids
  BY <1>3
<1>5. ASSUME \A i, j \in DOMAIN q : q[i] = q[j] => i = j,
             NEW a \in DOMAIN r, NEW b \in DOMAIN r, r[a] = r[b]
      PROVE  a = b
  BY <1>3, <1>5
<1>6. ASSUME q = <<>> PROVE r = <<>>
  BY <1>3, <1>6
<1> QED
  BY <1>3, <1>4, <1>5, <1>6

\* Controllers, whatever the fields may be.
Fields(H, Q, N, I, B) ==
  [history : H, queue : Q, current : N, expiring : B, hovered : B, later : B,
   unread : N, nextId : I, menu : B, dnd : B, loaded : B, saving : B, parked : B,
   early : B]

\* A field is assigned.
LEMMA Assigned ==
  ASSUME NEW H, NEW Q, NEW N, NEW I, NEW B, NEW s \in Fields(H, Q, N, I, B)
  PROVE
         /\ \A v \in H : [s EXCEPT !.history = v] \in Fields(H, Q, N, I, B)
         /\ \A v \in Q : [s EXCEPT !.queue = v] \in Fields(H, Q, N, I, B)
         /\ \A v \in N : [s EXCEPT !.current = v] \in Fields(H, Q, N, I, B)
         /\ \A v \in B : [s EXCEPT !.expiring = v] \in Fields(H, Q, N, I, B)
         /\ \A v \in B : [s EXCEPT !.hovered = v] \in Fields(H, Q, N, I, B)
         /\ \A v \in B : [s EXCEPT !.later = v] \in Fields(H, Q, N, I, B)
         /\ \A v \in N : [s EXCEPT !.unread = v] \in Fields(H, Q, N, I, B)
         /\ \A v \in I : [s EXCEPT !.nextId = v] \in Fields(H, Q, N, I, B)
         /\ \A v \in B : [s EXCEPT !.menu = v] \in Fields(H, Q, N, I, B)
         /\ \A v \in B : [s EXCEPT !.dnd = v] \in Fields(H, Q, N, I, B)
         /\ \A v \in B : [s EXCEPT !.loaded = v] \in Fields(H, Q, N, I, B)
         /\ \A v \in B : [s EXCEPT !.saving = v] \in Fields(H, Q, N, I, B)
         /\ \A v \in B : [s EXCEPT !.parked = v] \in Fields(H, Q, N, I, B)
         /\ \A v \in B : [s EXCEPT !.early = v] \in Fields(H, Q, N, I, B)
BY SMT DEF Fields

\* A controller whose one field is assigned is a controller.
LEMMA Updates ==
  ASSUME NEW s \in Centre!Controllers
  PROVE
         /\ \A v \in Seq(Centre!Entries) : [s EXCEPT !.history = v] \in Centre!Controllers
         /\ \A v \in Seq(Nat) : [s EXCEPT !.queue = v] \in Centre!Controllers
         /\ \A v \in Nat : [s EXCEPT !.current = v] \in Centre!Controllers
         /\ \A v \in BOOLEAN : [s EXCEPT !.expiring = v] \in Centre!Controllers
         /\ \A v \in BOOLEAN : [s EXCEPT !.hovered = v] \in Centre!Controllers
         /\ \A v \in BOOLEAN : [s EXCEPT !.later = v] \in Centre!Controllers
         /\ \A v \in Nat : [s EXCEPT !.unread = v] \in Centre!Controllers
         /\ \A v \in Nat \ {0} : [s EXCEPT !.nextId = v] \in Centre!Controllers
         /\ \A v \in BOOLEAN : [s EXCEPT !.menu = v] \in Centre!Controllers
         /\ \A v \in BOOLEAN : [s EXCEPT !.dnd = v] \in Centre!Controllers
         /\ \A v \in BOOLEAN : [s EXCEPT !.loaded = v] \in Centre!Controllers
         /\ \A v \in BOOLEAN : [s EXCEPT !.saving = v] \in Centre!Controllers
         /\ \A v \in BOOLEAN : [s EXCEPT !.parked = v] \in Centre!Controllers
         /\ \A v \in BOOLEAN : [s EXCEPT !.early = v] \in Centre!Controllers
<1>1. Centre!Controllers = Fields(Seq(Centre!Entries), Seq(Nat), Nat, Nat \ {0}, BOOLEAN)
  BY Zenon DEF Centre!Controllers, Fields, Centre!NoId
<1>2. ASSUME NEW H, NEW Q, NEW N, NEW I, NEW B, Centre!Controllers = Fields(H, Q, N, I, B)
      PROVE
         /\ \A v \in H : [s EXCEPT !.history = v] \in Centre!Controllers
         /\ \A v \in Q : [s EXCEPT !.queue = v] \in Centre!Controllers
         /\ \A v \in N : [s EXCEPT !.current = v] \in Centre!Controllers
         /\ \A v \in B : [s EXCEPT !.expiring = v] \in Centre!Controllers
         /\ \A v \in B : [s EXCEPT !.hovered = v] \in Centre!Controllers
         /\ \A v \in B : [s EXCEPT !.later = v] \in Centre!Controllers
         /\ \A v \in N : [s EXCEPT !.unread = v] \in Centre!Controllers
         /\ \A v \in I : [s EXCEPT !.nextId = v] \in Centre!Controllers
         /\ \A v \in B : [s EXCEPT !.menu = v] \in Centre!Controllers
         /\ \A v \in B : [s EXCEPT !.dnd = v] \in Centre!Controllers
         /\ \A v \in B : [s EXCEPT !.loaded = v] \in Centre!Controllers
         /\ \A v \in B : [s EXCEPT !.saving = v] \in Centre!Controllers
         /\ \A v \in B : [s EXCEPT !.parked = v] \in Centre!Controllers
         /\ \A v \in B : [s EXCEPT !.early = v] \in Centre!Controllers
  BY <1>2, Assigned, Zenon
<1> QED
  BY <1>1, <1>2, Zenon

\* What the fields of a controller may be.
LEMMA Typed ==
  ASSUME NEW s \in Centre!Controllers
  PROVE  /\ s.history \in Seq(Centre!Entries) /\ s.queue \in Seq(Nat)
         /\ s.current \in Nat /\ s.unread \in Nat /\ s.nextId \in Nat \ {0}
         /\ s.expiring \in BOOLEAN /\ s.hovered \in BOOLEAN /\ s.later \in BOOLEAN
         /\ s.menu \in BOOLEAN /\ s.dnd \in BOOLEAN /\ s.loaded \in BOOLEAN
         /\ s.saving \in BOOLEAN /\ s.parked \in BOOLEAN /\ s.early \in BOOLEAN
BY SMT DEF Centre!Controllers, Centre!NoId

\* A history is assigned.
LEMMA SetHistoryFields ==
  ASSUME NEW s \in Centre!Controllers, NEW h \in Seq(Centre!Entries)
  PROVE  LET t == Centre!SetHistory(s, h) IN
         /\ t \in Centre!Controllers /\ t.history = h /\ t.saving = (s.saving \/ s.loaded)
         /\ t.queue = s.queue /\ t.current = s.current /\ t.expiring = s.expiring
         /\ t.later = s.later /\ t.unread = s.unread /\ t.parked = s.parked
         /\ SameMode(s, t)
<1> DEFINE t == Centre!SetHistory(s, h)
<1>1. t = [s EXCEPT !.history = h, !.saving = s.saving \/ s.loaded]
  BY DEF Centre!SetHistory
<1>2. (s.saving \/ s.loaded) \in BOOLEAN
  OBVIOUS
<1> HIDE DEF t
<1>3. t \in Centre!Controllers
  <2>1. [s EXCEPT !.history = h] \in Centre!Controllers
    BY Updates
  <2> QED
    BY <1>1, <1>2, <2>1, Updates
<1>4. /\ t.history = h /\ t.saving = (s.saving \/ s.loaded)
      /\ t.queue = s.queue /\ t.current = s.current /\ t.expiring = s.expiring
      /\ t.later = s.later /\ t.unread = s.unread /\ t.parked = s.parked
  BY <1>1, <1>2, SMT DEF Centre!Controllers
<1>5. SameMode(s, t)
  BY <1>1, SMT DEF Centre!Controllers, SameMode
<1> QED
  BY <1>3, <1>4, <1>5 DEF t

\* What is left of the controller when entries leave the history.
LeftOf(s, ids, t) ==
  /\ Listed(t) /\ t.queue = Centre!removeQueuedEntry(s.queue, ids)
  /\ Centre!IdsOf(t.history) = Centre!IdsOf(s.history) \ ids
  /\ Centre!LiveOf(t.history) = Centre!LiveOf(s.history) \ ids
  /\ s.history = <<>> => t.history = <<>>
  /\ Len(t.history) = Cardinality({i \in DOMAIN s.history : s.history[i].id \notin ids})
  /\ t.saving = (s.saving \/ s.loaded) /\ t.current = s.current
  /\ t.expiring = s.expiring /\ t.later = s.later /\ t.parked = s.parked
  /\ SameMode(s, t)

\* Entries leave the history: the others, the badge and the queue are as they should be.
LEMMA WithoutFields ==
  ASSUME NEW s, Listed(s), NEW ids
  PROVE  LeftOf(s, ids, Centre!Without(s, ids))
<1> DEFINE h == s.history
           gone == {i \in DOMAIN h : h[i].id \in ids}
           K == DOMAIN h \ gone
           g == Centre!Picked(h, K)
           n == Centre!Cardinality(gone \cap Centre!UnreadAt(h))
           u == Centre!Less(s.unread, n)
           q == Centre!removeQueuedEntry(s.queue, ids)
           a == [s EXCEPT !.unread = u, !.queue = q]
           t == Centre!Without(s, ids)
<1>1. s \in Centre!Controllers /\ History(h) /\ h \in Seq(Centre!Entries) /\ s.queue \in Seq(Nat)
  BY Typed DEF Listed, History
<1>2. /\ History(g) /\ Len(g) <= Len(h) /\ Len(g) = Cardinality(K)
      /\ Centre!IdsOf(g) = Centre!IdsOf(h) \ ids
      /\ Centre!LiveOf(g) = Centre!LiveOf(h) \ ids /\ UnreadIds(g) = UnreadIds(h) \ ids
  <2>1. K \in SUBSET DOMAIN h /\ \A i \in DOMAIN h : i \in K <=> h[i].id \notin ids
    OBVIOUS
  <2>2. Leaves(h, ids, g) /\ Len(g) = Cardinality(K)
    <3> HIDE DEF K, h
    <3> QED
      BY <1>1, <2>1, LeftFacts
  <2> QED
    BY <2>2 DEF Leaves
<1>3. Len(h) \in Nat /\ Len(g) \in Nat
  <2> HIDE DEF g, h
  <2> QED
    BY <1>1, <1>2, HistoryFacts
<1>4. IsFiniteSet(UnreadIds(h)) /\ s.unread = Cardinality(UnreadIds(h)) /\ s.unread \in Nat
  BY <1>1, UnreadCounted, Typed DEF Listed
<1>5. n = Cardinality(UnreadIds(h) \cap ids)
  <2> DEFINE M == gone \cap Centre!UnreadAt(h)
  <2>1. M \in SUBSET DOMAIN h /\ {h[i].id : i \in M} = UnreadIds(h) \cap ids
    BY DEF Centre!UnreadAt, UnreadIds
  <2>2. Centre!Cardinality(M) = Cardinality(M)
    BY SameCardinality, Zenon
  <2> HIDE DEF M, h
  <2>3. Cardinality({h[i].id : i \in M}) = Cardinality(M)
    BY <1>1, <2>1, CountedOnce
  <2> QED
    BY <2>1, <2>2, <2>3 DEF M
<1>6. u = Cardinality(UnreadIds(g)) /\ u \in Nat
  <2>1. /\ IsFiniteSet(UnreadIds(h) \ ids)
        /\ Cardinality(UnreadIds(h) \ ids)
             = Cardinality(UnreadIds(h)) - Cardinality(UnreadIds(h) \cap ids)
    BY <1>4, FS_Difference
  <2>2. UnreadIds(h) \cap ids \in SUBSET UnreadIds(h)
    OBVIOUS
  <2>3. IsFiniteSet(UnreadIds(h) \cap ids)
    BY <1>4, <2>2, FS_Subset
  <2>4. /\ Cardinality(UnreadIds(h) \cap ids) \in Nat /\ Cardinality(UnreadIds(h)) \in Nat
        /\ Cardinality(UnreadIds(h) \ ids) \in Nat
    BY <1>4, <2>1, <2>3, FS_CardinalityType
  <2> HIDE DEF n, g, h
  <2>5. n \in Nat /\ s.unread - n = Cardinality(UnreadIds(g)) /\ s.unread >= n
    BY <1>2, <1>4, <1>5, <2>1, <2>4
  <2> QED
    BY <1>4, <2>5 DEF Centre!Less
<1>7. q \in Seq(Nat)
  BY <1>1, QueueLeft
<1>8. t = Centre!SetHistory(a, g)
  BY DEF Centre!Without
<1> HIDE DEF g, u, q, n, K, t
<1>9. a \in Centre!Controllers
  <2>1. [s EXCEPT !.unread = u] \in Centre!Controllers
    BY <1>1, <1>6, Updates
  <2> QED
    BY <1>7, <2>1, Updates
<1>10. /\ a.unread = u /\ a.queue = q /\ a.current = s.current /\ a.expiring = s.expiring
       /\ a.later = s.later /\ a.parked = s.parked /\ a.saving = s.saving /\ SameMode(s, a)
  BY <1>1, SMT DEF Centre!Controllers, SameMode
<1> HIDE DEF a
<1>11. /\ t \in Centre!Controllers /\ t.history = g /\ t.saving = (a.saving \/ a.loaded)
       /\ t.queue = a.queue /\ t.current = a.current /\ t.expiring = a.expiring
       /\ t.later = a.later /\ t.unread = a.unread /\ t.parked = a.parked
       /\ SameMode(a, t)
  <2>1. g \in Seq(Centre!Entries)
    BY <1>2 DEF History
  <2> QED
    BY <1>8, <1>9, <2>1, SetHistoryFields
<1>12. SameMode(s, t) /\ t.saving = (s.saving \/ s.loaded)
  BY <1>10, <1>11 DEF SameMode
<1>13. Listed(t)
  <2>1. /\ Len(h) <= historyLimit /\ historyLimit \in Nat
        /\ \A id \in Centre!IdsOf(h) : id < s.nextId
    BY ShellAssumption DEF Listed, Centre!LimitAssumption
  <2>2. t.unread = Cardinality(UnreadIds(t.history)) /\ t.nextId = s.nextId
    BY <1>6, <1>10, <1>11, <1>12 DEF SameMode
  <2>3. Len(g) <= historyLimit /\ \A id \in Centre!IdsOf(g) : id < t.nextId
    <3> HIDE DEF h
    <3> QED
      BY <1>2, <1>3, <2>1, <2>2
  <2> QED
    BY <1>2, <1>11, <2>2, <2>3 DEF Listed
<1>14. h = <<>> => g = <<>>
  BY <1>2, <1>3 DEF History
<1>15. K = {i \in DOMAIN s.history : s.history[i].id \notin ids}
  BY DEF K
<1> QED
  BY <1>2, <1>10, <1>11, <1>12, <1>13, <1>14, <1>15 DEF q, t, LeftOf

\* The toast goes.
LEMMA ClearFields ==
  ASSUME NEW s \in Centre!Controllers, NEW t, t = Centre!clearCurrentToast(s)
  PROVE  /\ t \in Centre!Controllers /\ t.history = s.history /\ t.queue = s.queue
         /\ t.current = 0 /\ ~t.expiring /\ t.later = s.later /\ t.unread = s.unread
         /\ t.parked = s.parked /\ t.saving = s.saving /\ SameMode(s, t)
<1>1. t = [s EXCEPT !.current = 0, !.expiring = FALSE]
  BY DEF Centre!clearCurrentToast, Centre!NoId
<1>2. t \in Centre!Controllers
  <2>1. [s EXCEPT !.current = 0] \in Centre!Controllers
    BY Updates
  <2> QED
    BY <1>1, <2>1, Updates
<1>3. /\ t.history = s.history /\ t.queue = s.queue
      /\ t.current = 0 /\ ~t.expiring /\ t.later = s.later /\ t.unread = s.unread
      /\ t.parked = s.parked /\ t.saving = s.saving
  BY <1>1, SMT DEF Centre!Controllers
<1>4. SameMode(s, t)
  BY <1>1, SMT DEF Centre!Controllers, SameMode
<1> QED
  BY <1>2, <1>3, <1>4

\* The toast goes, and another may come.
LEMMA PutOffFields ==
  ASSUME NEW s \in Centre!Controllers,
         NEW t, t = [Centre!clearCurrentToast(s) EXCEPT !.later = TRUE]
  PROVE  /\ t \in Centre!Controllers /\ t.history = s.history /\ t.queue = s.queue
         /\ t.current = 0 /\ ~t.expiring /\ t.later /\ t.unread = s.unread
         /\ t.parked = s.parked /\ t.saving = s.saving /\ SameMode(s, t)
<1> DEFINE a == Centre!clearCurrentToast(s)
<1>1. /\ a \in Centre!Controllers /\ a.history = s.history /\ a.queue = s.queue
      /\ a.current = 0 /\ ~a.expiring /\ a.unread = s.unread
      /\ a.parked = s.parked /\ a.saving = s.saving /\ SameMode(s, a)
  BY ClearFields
<1> HIDE DEF a
<1>2. t = [a EXCEPT !.later = TRUE]
  BY DEF a
<1>3. t \in Centre!Controllers
  BY <1>1, <1>2, Updates
<1>4. /\ t.history = a.history /\ t.queue = a.queue /\ t.current = a.current
      /\ t.expiring = a.expiring /\ t.later /\ t.unread = a.unread
      /\ t.parked = a.parked /\ t.saving = a.saving
  BY <1>1, <1>2, SMT DEF Centre!Controllers
<1>5. SameMode(a, t)
  BY <1>1, <1>2, SMT DEF Centre!Controllers, SameMode
<1> QED
  BY <1>1, <1>3, <1>4, <1>5 DEF SameMode

\* Notifications are closed: their entries stay and are no longer live.
LEMMA ClosedFields ==
  ASSUME NEW s, Listed(s), NEW ids, NEW t, t = Centre!handleNotificationClosed(s, ids)
  PROVE  /\ Listed(t) /\ t.queue = Centre!removeQueuedEntry(s.queue, ids)
         /\ Centre!IdsOf(t.history) = Centre!IdsOf(s.history)
         /\ Centre!LiveOf(t.history) = Centre!LiveOf(s.history) \ ids
         /\ s.history = <<>> => t.history = <<>>
         /\ t.saving = (s.saving \/ s.loaded)
         /\ IF s.current \in ids THEN t.current = 0 /\ t.later
            ELSE t.current = s.current /\ t.later = s.later /\ t.expiring = s.expiring
         /\ t.parked = s.parked /\ SameMode(s, t)
<1> DEFINE h == s.history
           g == Centre!Dead(h, ids)
           q == Centre!removeQueuedEntry(s.queue, ids)
           a == IF s.current \in ids
                  THEN [Centre!clearCurrentToast(s) EXCEPT !.later = TRUE] ELSE s
           b == [a EXCEPT !.queue = Centre!removeQueuedEntry(a.queue, ids)]
<1>1. s \in Centre!Controllers /\ History(h) /\ s.queue \in Seq(Nat)
  BY Typed DEF Listed
<1>2. t = Centre!SetHistory(b, g)
  BY DEF Centre!handleNotificationClosed
<1>3. /\ a \in Centre!Controllers /\ a.history = h /\ a.queue = s.queue
      /\ a.unread = s.unread /\ a.parked = s.parked /\ a.saving = s.saving /\ SameMode(s, a)
      /\ IF s.current \in ids THEN a.current = 0 /\ a.later
         ELSE a.current = s.current /\ a.later = s.later /\ a.expiring = s.expiring
  <2>1. CASE s.current \in ids
    BY <1>1, <2>1, PutOffFields
  <2>2. CASE s.current \notin ids
    BY <1>1, <2>2 DEF SameMode
  <2> QED
    BY <2>1, <2>2
<1>4. q \in Seq(Nat)
  BY <1>1, QueueLeft
<1>5. b = [a EXCEPT !.queue = q]
  BY <1>3
<1>6. /\ History(g) /\ Len(g) = Len(h) /\ Centre!IdsOf(g) = Centre!IdsOf(h)
      /\ Centre!LiveOf(g) = Centre!LiveOf(h) \ ids /\ UnreadIds(g) = UnreadIds(h)
  BY <1>1, DeadFacts
<1>7. h = <<>> => g = <<>>
  BY <1>6 DEF History
<1> HIDE DEF g, q, a, b
<1>8. b \in Centre!Controllers
  BY <1>3, <1>4, <1>5, Updates
<1>9. /\ b.queue = q /\ b.unread = a.unread /\ b.parked = a.parked /\ b.saving = a.saving
      /\ b.current = a.current /\ b.later = a.later /\ b.expiring = a.expiring
  BY <1>3, <1>4, <1>5, SMT DEF Centre!Controllers
<1>10. SameMode(a, b)
  BY <1>3, <1>4, <1>5, SMT DEF Centre!Controllers, SameMode
<1>11. /\ t \in Centre!Controllers /\ t.history = g /\ t.saving = (b.saving \/ b.loaded)
       /\ t.queue = b.queue /\ t.current = b.current /\ t.expiring = b.expiring
       /\ t.later = b.later /\ t.unread = b.unread /\ t.parked = b.parked
       /\ SameMode(b, t)
  <2>1. g \in Seq(Centre!Entries)
    BY <1>6 DEF History
  <2> QED
    BY <1>2, <1>8, <2>1, SetHistoryFields
<1>12. SameMode(s, t) /\ t.saving = (s.saving \/ s.loaded)
  BY <1>3, <1>9, <1>10, <1>11 DEF SameMode
<1>13. Listed(t)
  <2>1. /\ Len(h) <= historyLimit /\ \A id \in Centre!IdsOf(h) : id < s.nextId
        /\ s.unread = Cardinality(UnreadIds(h))
    BY DEF Listed
  <2>2. t.nextId = s.nextId /\ t.unread = s.unread
    BY <1>3, <1>9, <1>11, <1>12 DEF SameMode
  <2> HIDE DEF h
  <2> QED
    BY <1>6, <1>11, <2>1, <2>2 DEF Listed
<1> QED
  BY <1>3, <1>6, <1>7, <1>9, <1>11, <1>12, <1>13 DEF q

\* What is stored is the history, or it is about to be.
Saved(s, st) ==
  s.loaded /\ ~s.early =>
    s.saving \/ st = [history |-> Centre!storedHistory(s.history), dnd |-> s.dnd]

\* A history was assigned: it is about to be stored.
WillSave(s, t) == t.loaded = s.loaded /\ t.saving = (s.saving \/ s.loaded)

\* Nothing was assigned that is stored.
SameStore(s, t) ==
  /\ t.history = s.history /\ t.dnd = s.dnd /\ t.loaded = s.loaded
  /\ t.early = s.early /\ t.saving = s.saving

\* A controller between two handlers.
Sound(s, st) == Kept(s, {}) /\ GoesOn(s) /\ Saved(s, st)

\* After an assignment that is about to be stored nothing is lost.
LEMMA SavedLater ==
  ASSUME NEW s, NEW t, NEW st, WillSave(s, t)
  PROVE  Saved(t, st)
BY DEF Saved, WillSave

\* Where nothing that is stored is assigned, nothing is lost.
LEMMA SavedStill ==
  ASSUME NEW s, NEW t, NEW st, Saved(s, st), SameStore(s, t)
  PROVE  Saved(t, st)
BY DEF Saved, SameStore

\* Of a queue some entries are taken: the others are live, and not shown.
LEMMA QueuedLeft ==
  ASSUME NEW s, Kept(s, {}) \/ Queued(s), NEW ids, NEW t \in Centre!Controllers,
         s \in Centre!Controllers,
         t.queue = Centre!removeQueuedEntry(s.queue, ids),
         Centre!LiveOf(t.history) = Centre!LiveOf(s.history) \ ids,
         t.current = s.current \/ (t.current = 0 /\ 0 \notin Centre!LiveOf(s.history)),
         t.menu = s.menu, t.dnd = s.dnd, t.parked = s.parked
  PROVE  Queued(t) /\ (t.queue # <<>> => s.queue # <<>>)
<1>1. Queued(s) /\ s.queue \in Seq(Nat)
  BY Typed DEF Kept
<1>2. /\ \A a \in DOMAIN t.queue : \E i \in DOMAIN s.queue : t.queue[a] = s.queue[i] /\ s.queue[i] \notin ids
      /\ (\A i, j \in DOMAIN s.queue : s.queue[i] = s.queue[j] => i = j) =>
           \A a, b \in DOMAIN t.queue : t.queue[a] = t.queue[b] => a = b
      /\ s.queue = <<>> => t.queue = <<>>
  BY <1>1, QueueLeft
<1>3. \A i \in DOMAIN s.queue : s.queue[i] \in Centre!LiveOf(s.history) \ {s.current}
  BY <1>1, Zenon DEF Queued
<1>4. \A a \in DOMAIN t.queue : t.queue[a] \in Centre!LiveOf(t.history) \ {t.current}
  <2> TAKE a \in DOMAIN t.queue
  <2>1. PICK i \in DOMAIN s.queue : t.queue[a] = s.queue[i] /\ s.queue[i] \notin ids
    BY <1>2, Zenon
  <2>2. s.queue[i] \in Centre!LiveOf(s.history) /\ s.queue[i] # s.current
    BY <1>3, <2>1, Zenon
  <2> QED
    BY <2>1, <2>2
<1>5. \A a, b \in DOMAIN t.queue : t.queue[a] = t.queue[b] => a = b
  BY <1>1, <1>2, Zenon DEF Queued
<1>6. (t.dnd => t.queue = <<>>) /\ (t.menu /\ t.queue # <<>> => t.parked)
  BY <1>1, <1>2 DEF Queued
<1> QED
  BY <1>2, <1>4, <1>5, <1>6 DEF Queued

\* The history of a controller has no entry without a number.
LEMMA NoneIsLive ==
  ASSUME NEW s, Listed(s)
  PROVE  0 \notin Centre!LiveOf(s.history) /\ s \in Centre!Controllers
BY HistoryFacts DEF Listed

\* Entries leave the history: only the toast may still be of one that was live.
LEMMA KeptWithout ==
  ASSUME NEW s, Kept(s, {}), NEW ids, NEW t, t = Centre!Without(s, ids)
  PROVE  Kept(t, ids \cap Centre!LiveOf(s.history)) /\ WillSave(s, t) /\ (GoesOn(s) => GoesOn(t))
<1>1. Listed(s) /\ Queued(s) /\ Toasts(s, {}) /\ Unloaded(s)
  BY DEF Kept
<1>2. /\ Listed(t) /\ t.queue = Centre!removeQueuedEntry(s.queue, ids)
      /\ Centre!LiveOf(t.history) = Centre!LiveOf(s.history) \ ids
      /\ s.history = <<>> => t.history = <<>>
      /\ t.saving = (s.saving \/ s.loaded) /\ t.current = s.current
      /\ t.expiring = s.expiring /\ t.later = s.later /\ t.parked = s.parked
      /\ SameMode(s, t)
  <2>1. LeftOf(s, ids, t)
    BY <1>1, WithoutFields
  <2> QED
    BY <2>1 DEF LeftOf
<1>3. t \in Centre!Controllers /\ s \in Centre!Controllers
  BY <1>1, <1>2 DEF Listed
<1>4. Queued(t) /\ (t.queue # <<>> => s.queue # <<>>)
  BY <1>1, <1>2, <1>3, QueuedLeft DEF SameMode
<1>5. Toasts(t, ids \cap Centre!LiveOf(s.history))
  BY <1>1, <1>2 DEF Toasts, SameMode
<1>6. Unloaded(t)
  BY <1>1, <1>2 DEF Unloaded, SameMode
<1>7. GoesOn(s) => GoesOn(t)
  BY <1>2, <1>4 DEF GoesOn
<1> QED
  BY <1>2, <1>4, <1>5, <1>6, <1>7 DEF Kept, WillSave, SameMode

\* Notifications are closed: no toast is left of one that has gone.
LEMMA KeptClosed ==
  ASSUME NEW s, NEW gone, Kept(s, gone), NEW ids, gone \subseteq ids,
         NEW t, t = Centre!handleNotificationClosed(s, ids)
  PROVE  Kept(t, {}) /\ WillSave(s, t) /\ (GoesOn(s) => GoesOn(t))
<1>1. Listed(s) /\ Queued(s) /\ Toasts(s, gone) /\ Unloaded(s)
  BY DEF Kept
<1>2. /\ Listed(t) /\ t.queue = Centre!removeQueuedEntry(s.queue, ids)
      /\ Centre!LiveOf(t.history) = Centre!LiveOf(s.history) \ ids
      /\ s.history = <<>> => t.history = <<>>
      /\ t.saving = (s.saving \/ s.loaded)
      /\ IF s.current \in ids THEN t.current = 0 /\ t.later
         ELSE t.current = s.current /\ t.later = s.later /\ t.expiring = s.expiring
      /\ t.parked = s.parked /\ SameMode(s, t)
  <2>1. Listed(t) /\ SameMode(s, t) /\ t.queue = Centre!removeQueuedEntry(s.queue, ids)
    BY <1>1, ClosedFields
  <2>2. Centre!LiveOf(t.history) = Centre!LiveOf(s.history) \ ids
    BY <1>1, ClosedFields
  <2>3. s.history = <<>> => t.history = <<>>
    BY <1>1, ClosedFields
  <2>4. t.saving = (s.saving \/ s.loaded) /\ t.parked = s.parked
    BY <1>1, ClosedFields
  <2>5. IF s.current \in ids THEN t.current = 0 /\ t.later
        ELSE t.current = s.current /\ t.later = s.later /\ t.expiring = s.expiring
    BY <1>1, ClosedFields
  <2> QED
    BY <2>1, <2>2, <2>3, <2>4, <2>5
<1>3. t \in Centre!Controllers /\ s \in Centre!Controllers /\ 0 \notin Centre!LiveOf(s.history)
  BY <1>1, <1>2, NoneIsLive DEF Listed
<1>4. Queued(t) /\ (t.queue # <<>> => s.queue # <<>>)
  BY <1>1, <1>2, <1>3, QueuedLeft DEF SameMode
<1>5. Toasts(t, {})
  BY <1>1, <1>2 DEF Toasts, SameMode
<1>6. Unloaded(t)
  BY <1>1, <1>2 DEF Unloaded, SameMode
<1>7. GoesOn(s) => GoesOn(t)
  BY <1>2, <1>4 DEF GoesOn
<1> QED
  BY <1>2, <1>4, <1>5, <1>6, <1>7 DEF Kept, WillSave, SameMode

\* The toast goes: what else is there stays.
LEMMA KeptCleared ==
  ASSUME NEW s, Kept(s, {}), NEW t, t = Centre!clearCurrentToast(s)
  PROVE  Kept(t, {}) /\ SameStore(s, t) /\ t.queue = s.queue
<1>1. Listed(s) /\ Queued(s) /\ Toasts(s, {}) /\ Unloaded(s)
  BY DEF Kept
<1>2. s \in Centre!Controllers /\ 0 \notin Centre!LiveOf(s.history)
  BY <1>1, NoneIsLive
<1>3. /\ t \in Centre!Controllers /\ t.history = s.history /\ t.queue = s.queue
      /\ t.current = 0 /\ ~t.expiring /\ t.later = s.later /\ t.unread = s.unread
      /\ t.parked = s.parked /\ t.saving = s.saving /\ SameMode(s, t)
  BY <1>2, ClearFields
<1>4. Listed(t) /\ Unloaded(t) /\ Toasts(t, {})
  BY <1>1, <1>3 DEF Listed, Unloaded, Toasts, SameMode
<1>5. Queued(t)
  BY <1>1, <1>2, <1>3 DEF Queued, SameMode
<1> QED
  BY <1>3, <1>4, <1>5 DEF Kept, SameStore, SameMode

\* The next toast is shown, if one may be: then the queue does not stand still.
LEMMA KeptShown ==
  ASSUME NEW s, Kept(s, {}), NEW t, t = Centre!showNextToast(s)
  PROVE  Kept(t, {}) /\ SameStore(s, t) /\ GoesOn(t)
<1> DEFINE q == s.queue
           open == {i \in DOMAIN q : q[i] \in Centre!LiveOf(s.history)}
           i == CHOOSE x \in open : \A y \in open : x <= y
<1>1. Listed(s) /\ Queued(s) /\ Toasts(s, {}) /\ Unloaded(s)
  BY DEF Kept
<1>2. s \in Centre!Controllers /\ 0 \notin Centre!LiveOf(s.history) /\ q \in Seq(Nat)
  BY <1>1, NoneIsLive, Typed
<1>3. t = IF s.current # 0 \/ s.menu \/ s.dnd THEN s
          ELSE IF open = {} THEN [s EXCEPT !.queue = <<>>, !.parked = FALSE]
          ELSE [s EXCEPT !.queue = SubSeq(q, i + 1, Len(q)), !.current = q[i],
                         !.expiring = TRUE, !.parked = FALSE]
  BY DEF Centre!showNextToast, Centre!NoId
<1>4. \A x \in DOMAIN q : q[x] \in Centre!LiveOf(s.history) /\ q[x] # s.current
  BY <1>1, Zenon DEF Queued
<1>5. open = DOMAIN q
  BY <1>4
<1>6. CASE s.current # 0 \/ s.menu \/ s.dnd
  <2>1. t = s
    BY <1>3, <1>6, Zenon
  <2> QED
    BY <1>1, <1>6, <2>1 DEF Kept, SameStore, GoesOn, Queued
<1>7. CASE ~(s.current # 0 \/ s.menu \/ s.dnd) /\ open = {}
  <2>1. t = [s EXCEPT !.queue = <<>>, !.parked = FALSE]
    BY <1>3, <1>7, Zenon
  <2>2. t \in Centre!Controllers
    <3>1. <<>> \in Seq(Nat)
      OBVIOUS
    <3>2. [s EXCEPT !.queue = <<>>] \in Centre!Controllers
      BY <1>2, <3>1, Updates
    <3> QED
      BY <2>1, <3>2, Updates
  <2>3. /\ t.history = s.history /\ t.queue = <<>> /\ t.current = s.current
        /\ t.expiring = s.expiring /\ t.unread = s.unread /\ t.saving = s.saving /\ SameMode(s, t)
    BY <1>2, <2>1, SMT DEF Centre!Controllers, SameMode
  <2>4. Listed(t) /\ Unloaded(t) /\ Toasts(t, {})
    BY <1>1, <2>2, <2>3 DEF Listed, Unloaded, Toasts, SameMode
  <2>5. Queued(t)
    BY <2>3 DEF Queued
  <2> QED
    BY <2>3, <2>4, <2>5 DEF Kept, SameStore, SameMode, GoesOn
<1>8. CASE ~(s.current # 0 \/ s.menu \/ s.dnd) /\ open # {}
  <2>1. Len(q) \in Nat /\ DOMAIN q = 1..Len(q) /\ 1 \in DOMAIN q
    BY <1>2, <1>5, <1>8
  <2>2. i = 1
    <3>1. \E x \in open : \A y \in open : x <= y
      BY <1>5, <2>1
    <3>2. i \in open /\ \A y \in open : i <= y
      <4> HIDE DEF open
      <4> QED
        BY <3>1, Zenon
    <3> HIDE DEF i
    <3> QED
      BY <1>5, <2>1, <3>2
  <2>3. t = [s EXCEPT !.queue = SubSeq(q, 2, Len(q)), !.current = q[1],
                      !.expiring = TRUE, !.parked = FALSE]
    <3>1. t = [s EXCEPT !.queue = SubSeq(q, i + 1, Len(q)), !.current = q[i],
                        !.expiring = TRUE, !.parked = FALSE]
      BY <1>3, <1>8, Zenon
    <3> HIDE DEF i
    <3>2. i + 1 = 2
      BY <2>2
    <3> QED
      BY <2>2, <3>1, <3>2, Zenon
  <2> HIDE DEF i
  <2>4. SubSeq(q, 2, Len(q)) \in Seq(Nat) /\ q[1] \in Nat
    BY <1>2, <2>1
  <2>5. t \in Centre!Controllers
    <3>1. [s EXCEPT !.queue = SubSeq(q, 2, Len(q))] \in Centre!Controllers
      BY <1>2, <2>4, Updates
    <3>2. [s EXCEPT !.queue = SubSeq(q, 2, Len(q)), !.current = q[1]] \in Centre!Controllers
      BY <2>4, <3>1, Updates
    <3>3. [s EXCEPT !.queue = SubSeq(q, 2, Len(q)), !.current = q[1], !.expiring = TRUE]
            \in Centre!Controllers
      BY <3>2, Updates
    <3> QED
      BY <2>3, <3>3, Updates
  <2>6. /\ t.history = s.history /\ t.queue = SubSeq(q, 2, Len(q)) /\ t.current = q[1]
        /\ t.expiring /\ t.unread = s.unread /\ t.saving = s.saving /\ SameMode(s, t)
    BY <1>2, <2>3, SMT DEF Centre!Controllers, SameMode
  <2>7. q[1] \in Centre!LiveOf(s.history) /\ q[1] # 0
    BY <1>2, <1>4, <2>1
  <2>8. Listed(t) /\ Unloaded(t) /\ Toasts(t, {})
    BY <1>1, <1>8, <2>5, <2>6, <2>7 DEF Listed, Unloaded, Toasts, SameMode
  <2>9. /\ DOMAIN t.queue = 1..(Len(q) - 1)
        /\ \A x \in DOMAIN t.queue : x + 1 \in DOMAIN q /\ t.queue[x] = q[x + 1]
    BY <1>2, <2>1, <2>6
  <2>10. \A x, y \in DOMAIN q : q[x] = q[y] => x = y
    BY <1>1, Zenon DEF Queued
  <2>11. \A x \in DOMAIN t.queue : t.queue[x] \in Centre!LiveOf(t.history) \ {t.current}
    <3> TAKE x \in DOMAIN t.queue
    <3>1. x + 1 \in DOMAIN q /\ t.queue[x] = q[x + 1] /\ x + 1 # 1
      BY <2>1, <2>9
    <3>2. q[x + 1] # q[1]
      BY <2>1, <2>10, <3>1
    <3> QED
      BY <1>4, <2>6, <3>1, <3>2
  <2>12. \A x, y \in DOMAIN t.queue : t.queue[x] = t.queue[y] => x = y
    BY <2>1, <2>9, <2>10
  <2>13. Queued(t)
    BY <1>8, <2>6, <2>11, <2>12 DEF Queued, SameMode
  <2> QED
    BY <2>6, <2>7, <2>8, <2>13 DEF Kept, SameStore, SameMode, GoesOn
<1> QED
  BY <1>6, <1>7, <1>8

\* Entries are removed, and what they still had is closed.
LEMMA KeptRemoved ==
  ASSUME NEW s, Kept(s, {}), NEW ids, NEW t, t = Centre!removeAndClose(s, ids)
  PROVE  Kept(t, {}) /\ WillSave(s, t) /\ (GoesOn(s) => GoesOn(t))
<1> DEFINE gone == ids \cap Centre!LiveOf(s.history)
           a == Centre!Without(s, ids)
<1>1. t = Centre!handleNotificationClosed(a, gone)
  BY DEF Centre!removeAndClose
<1>2. Kept(a, gone) /\ WillSave(s, a) /\ (GoesOn(s) => GoesOn(a))
  BY KeptWithout
<1> HIDE DEF a, gone
<1>3. Kept(t, {}) /\ WillSave(a, t) /\ (GoesOn(a) => GoesOn(t))
  BY <1>1, <1>2, KeptClosed
<1> QED
  BY <1>2, <1>3 DEF WillSave

\* The history is written anew, with the same entries alive.
LEMMA KeptRewritten ==
  ASSUME NEW s, Kept(s, {}), NEW a \in Centre!Controllers, NEW g, History(g),
         Len(g) = Len(s.history), Centre!IdsOf(g) = Centre!IdsOf(s.history),
         Centre!LiveOf(g) = Centre!LiveOf(s.history), a.unread = Cardinality(UnreadIds(g)),
         a.queue = s.queue, a.current = s.current, a.expiring = s.expiring,
         a.hovered = s.hovered, a.later = s.later, a.parked = s.parked,
         a.saving = s.saving, a.menu = s.menu, a.dnd = s.dnd, a.loaded = s.loaded,
         a.nextId = s.nextId, s.early => a.early,
         NEW t, t = Centre!SetHistory(a, g)
  PROVE  Kept(t, {}) /\ WillSave(s, t) /\ (GoesOn(s) => GoesOn(t))
<1>1. Listed(s) /\ Queued(s) /\ Toasts(s, {}) /\ Unloaded(s)
  BY DEF Kept
<1>2. g \in Seq(Centre!Entries) /\ s.history \in Seq(Centre!Entries)
  BY <1>1 DEF History, Listed
<1>3. /\ t \in Centre!Controllers /\ t.history = g /\ t.saving = (a.saving \/ a.loaded)
      /\ t.queue = a.queue /\ t.current = a.current /\ t.expiring = a.expiring
      /\ t.later = a.later /\ t.unread = a.unread /\ t.parked = a.parked
      /\ SameMode(a, t)
  BY <1>2, SetHistoryFields
<1>4. Listed(t)
  <2>1. /\ Len(s.history) <= historyLimit
        /\ \A id \in Centre!IdsOf(s.history) : id < s.nextId
    BY <1>1 DEF Listed
  <2>2. t.nextId = s.nextId
    BY <1>3 DEF SameMode
  <2> QED
    BY <1>3, <2>1, <2>2 DEF Listed
<1>5. Queued(t) /\ Toasts(t, {})
  BY <1>1, <1>3 DEF Queued, Toasts, SameMode
<1>6. Unloaded(t)
  <2>1. s.history = <<>> => g = <<>>
    BY <1>2
  <2> QED
    BY <1>1, <1>3, <2>1 DEF Unloaded, SameMode
<1>7. GoesOn(s) => GoesOn(t)
  BY <1>3 DEF GoesOn
<1> QED
  BY <1>3, <1>4, <1>5, <1>6, <1>7 DEF Kept, WillSave, SameMode

\* The action of an entry that is still there.
LEMMA KeptInvoked ==
  ASSUME NEW s, Kept(s, {}), NEW id, NEW t, t = Centre!invokeEntryAction(s, id),
         id \in Centre!LiveOf(s.history)
  PROVE  Kept(t, {}) /\ (WillSave(s, t) \/ t = s) /\ (GoesOn(s) => GoesOn(t))
<1> DEFINE h == s.history
           e == Centre!Entry(h, id)
<1>1. Listed(s) /\ History(h) /\ s \in Centre!Controllers /\ s.unread \in Nat
  BY Typed DEF Kept, Listed
<1>2. CASE e.app \notin Resident
  <2> DEFINE a == Centre!Without(s, {id})
             gone == {id} \cap Centre!LiveOf(h)
  <2>1. t = Centre!handleNotificationClosed(a, {id})
    BY <1>2 DEF Centre!invokeEntryAction
  <2>2. Kept(a, gone) /\ WillSave(s, a) /\ (GoesOn(s) => GoesOn(a))
    BY KeptWithout
  <2>3. gone \subseteq {id}
    OBVIOUS
  <2> HIDE DEF a, gone
  <2>4. Kept(t, {}) /\ WillSave(a, t) /\ (GoesOn(a) => GoesOn(t))
    BY <2>1, <2>2, <2>3, KeptClosed
  <2> QED
    BY <2>2, <2>4 DEF WillSave
<1>3. CASE e.app \in Resident /\ e.unread
  <2> DEFINE g == Centre!Read(h, {id})
             u == Centre!Less(s.unread, 1)
             a == [s EXCEPT !.unread = u]
  <2>1. t = Centre!SetHistory(a, g)
    BY <1>3, Zenon DEF Centre!invokeEntryAction
  <2>2. id \in UnreadIds(h)
    <3>1. \E i \in DOMAIN h : h[i].id = id
      BY DEF Centre!LiveOf
    <3>2. PICK i \in DOMAIN h : h[i].id = id /\ e = h[i]
      BY <3>1, Zenon DEF Centre!Entry
    <3> QED
      BY <1>3, <3>2, Zenon DEF UnreadIds, Centre!UnreadAt
  <2>3. /\ History(g) /\ Len(g) = Len(h) /\ Centre!IdsOf(g) = Centre!IdsOf(h)
        /\ Centre!LiveOf(g) = Centre!LiveOf(h) /\ UnreadIds(g) = UnreadIds(h) \ {id}
    BY <1>1, ReadFacts
  <2>4. u = Cardinality(UnreadIds(g)) /\ u \in Nat
    <3>1. IsFiniteSet(UnreadIds(h)) /\ s.unread = Cardinality(UnreadIds(h))
      BY <1>1, UnreadCounted DEF Listed
    <3>2. /\ Cardinality(UnreadIds(h) \ {id}) = Cardinality(UnreadIds(h)) - 1
          /\ Cardinality(UnreadIds(h) \ {id}) \in Nat
      <4>1. IsFiniteSet(UnreadIds(h) \ {id})
        BY <3>1, FS_RemoveElement
      <4> QED
        BY <2>2, <3>1, <4>1, FS_RemoveElement, FS_CardinalityType
    <3> HIDE DEF h, g
    <3> QED
      BY <1>1, <2>3, <3>1, <3>2 DEF Centre!Less
  <2> HIDE DEF g, u
  <2>5. a \in Centre!Controllers
    BY <1>1, <2>4, Updates
  <2>6. /\ a.unread = u /\ a.queue = s.queue /\ a.current = s.current /\ a.expiring = s.expiring
        /\ a.hovered = s.hovered /\ a.later = s.later /\ a.parked = s.parked
        /\ a.saving = s.saving /\ a.menu = s.menu /\ a.dnd = s.dnd /\ a.loaded = s.loaded
        /\ a.nextId = s.nextId /\ a.early = s.early
    BY <1>1, SMT DEF Centre!Controllers
  <2> HIDE DEF a
  <2>7. Kept(t, {}) /\ WillSave(s, t) /\ (GoesOn(s) => GoesOn(t))
    BY <2>1, <2>3, <2>4, <2>5, <2>6, KeptRewritten
  <2> QED
    BY <2>7
<1>4. CASE e.app \in Resident /\ ~e.unread
  <2>1. t = s
    BY <1>4, Zenon DEF Centre!invokeEntryAction
  <2> QED
    BY <2>1
<1> QED
  BY <1>2, <1>3, <1>4

-----------------------------------------------------------------------------
(* The notification centre: each handler, from its beginning to its end.     *)

\* What is kept for the next shell.
Backed(st) ==
  /\ st \in [history : Seq(Centre!Records), dnd : BOOLEAN]
  /\ Len(st.history) <= historyLimit

Bounded == notices \in 0..MaxNotices /\ restarts \in 0..MaxRestarts

\* What is inductive, as the handlers keep it.
LEMMA CentreParts ==
  Centre!IInv <=> Sound(controller, stored) /\ Backed(stored) /\ Bounded
<1> DEFINE s == controller
<1>1. /\ Centre!TypeOK <=> /\ s \in Centre!Controllers
                           /\ stored \in [history : Seq(Centre!Records), dnd : BOOLEAN] /\ Bounded
      /\ Centre!Numbered <=> \A id \in Centre!IdsOf(s.history) : id < s.nextId
  BY DEF Centre!TypeOK, Bounded, Centre!Numbered
<1>2. ASSUME s \in Centre!Controllers, Centre!OneEach(s.history)
      PROVE  /\ History(s.history)
             /\ Centre!CountIsUnread <=> s.unread = Cardinality(UnreadIds(s.history))
  <2>1. History(s.history)
    BY <1>2, Typed DEF History
  <2> QED
    BY <2>1, UnreadCounted DEF Centre!CountIsUnread
<1>3. /\ Centre!ToastsAreLive <=>
           /\ Len(s.history) <= historyLimit /\ Centre!OneEach(s.history)
           /\ \A i \in DOMAIN s.queue : s.queue[i] \in Centre!LiveOf(s.history) \ {s.current}
           /\ \A i, j \in DOMAIN s.queue : s.queue[i] = s.queue[j] => i = j
           /\ s.current \in Centre!LiveOf(s.history) \cup {0}
           /\ s.menu => s.current = 0
  BY Zenon DEF Centre!ToastsAreLive, Centre!NoId
<1>4. Centre!ToastsGoOn <=> GoesOn(s) /\ (s.current # 0 => s.expiring \/ s.hovered)
  BY Zenon DEF Centre!ToastsGoOn, GoesOn, Centre!NoId
<1>5. Centre!StoredOrSaving <=> Saved(s, stored)
  BY Zenon DEF Centre!StoredOrSaving, Saved
<1>6. Centre!QueueIsShown <=> (s.dnd => s.queue = <<>>) /\ (s.menu /\ s.queue # <<>> => s.parked)
  BY DEF Centre!QueueIsShown
<1>7. Centre!NothingLost <=> Len(stored.history) <= historyLimit /\ Unloaded(s)
  BY DEF Centre!NothingLost, Unloaded
<1> HIDE DEF s
<1>8. Kept(s, {}) <=>
        /\ s \in Centre!Controllers /\ Centre!OneEach(s.history) /\ Len(s.history) <= historyLimit
        /\ \A id \in Centre!IdsOf(s.history) : id < s.nextId
        /\ s.unread = Cardinality(UnreadIds(s.history))
        /\ Queued(s) /\ Toasts(s, {}) /\ Unloaded(s)
  BY <1>2 DEF Kept, Listed, History
<1>9. Toasts(s, {}) <=> /\ s.current \in Centre!LiveOf(s.history) \cup {0}
                        /\ s.menu => s.current = 0
                        /\ s.current # 0 => s.expiring \/ s.hovered
  BY DEF Toasts
<1>10. Queued(s) <=>
         /\ \A i \in DOMAIN s.queue : s.queue[i] \in Centre!LiveOf(s.history) \ {s.current}
         /\ \A i, j \in DOMAIN s.queue : s.queue[i] = s.queue[j] => i = j
         /\ s.dnd => s.queue = <<>>
         /\ s.menu /\ s.queue # <<>> => s.parked
  BY DEF Queued
<1>11. Sound(s, stored) <=> Kept(s, {}) /\ GoesOn(s) /\ Saved(s, stored)
  BY DEF Sound
<1>12. Backed(stored) <=> /\ stored \in [history : Seq(Centre!Records), dnd : BOOLEAN]
                          /\ Len(stored.history) <= historyLimit
  BY DEF Backed
<1>13. Centre!IInv <=> /\ Centre!TypeOK /\ Centre!Numbered /\ Centre!QueueIsShown /\ Centre!NothingLost
                       /\ Centre!CountIsUnread /\ Centre!ToastsAreLive /\ Centre!ToastsGoOn
                       /\ Centre!StoredOrSaving
  BY DEF Centre!IInv, Centre!NotificationsInv
<1> QED
  BY <1>1, <1>2, <1>3, <1>4, <1>5, <1>6, <1>7, <1>8, <1>9, <1>10, <1>11, <1>12, <1>13 DEF s

\* A handler that ends with the next toast.
LEMMA SoundShown ==
  ASSUME NEW s, Kept(s, {}), NEW st, Saved(s, st), NEW t, t = Centre!showNextToast(s)
  PROVE  Sound(t, st)
<1>1. Kept(t, {}) /\ SameStore(s, t) /\ GoesOn(t)
  BY KeptShown
<1> QED
  BY <1>1, SavedStill DEF Sound

\* What is known of a controller between two handlers.
LEMMA SoundFacts ==
  ASSUME NEW s, NEW st, Sound(s, st)
  PROVE  /\ Kept(s, {}) /\ GoesOn(s) /\ Saved(s, st)
         /\ Listed(s) /\ Queued(s) /\ Toasts(s, {}) /\ Unloaded(s)
         /\ s \in Centre!Controllers /\ History(s.history) /\ 0 \notin Centre!LiveOf(s.history)
BY NoneIsLive DEF Sound, Kept, Listed

\* A notification is withdrawn by its sender.
LEMMA WithdrawnStep ==
  ASSUME Sound(controller, stored), NEW id, Centre!Withdrawn(id)
  PROVE  Sound(controller', stored')
<1>1. controller' = Centre!handleNotificationClosed(controller, {id}) /\ stored' = stored
  BY DEF Centre!Withdrawn, Centre!Becomes
<1>2. Kept(controller, {}) /\ GoesOn(controller)
  BY DEF Sound
<1>3. /\ Kept(controller', {}) /\ WillSave(controller, controller')
      /\ (GoesOn(controller) => GoesOn(controller'))
  BY <1>1, <1>2, KeptClosed
<1> QED
  BY <1>1, <1>2, <1>3, SavedLater DEF Sound

\* An entry is deleted.
LEMMA DeleteEntryStep ==
  ASSUME Sound(controller, stored), NEW id, Centre!DeleteEntry(id)
  PROVE  Sound(controller', stored')
<1>1. controller' = Centre!removeAndClose(controller, {id}) /\ stored' = stored
  BY DEF Centre!DeleteEntry, Centre!Becomes
<1>2. Kept(controller, {}) /\ GoesOn(controller)
  BY DEF Sound
<1>3. /\ Kept(controller', {}) /\ WillSave(controller, controller')
      /\ (GoesOn(controller) => GoesOn(controller'))
  BY <1>1, <1>2, KeptRemoved
<1> QED
  BY <1>1, <1>2, <1>3, SavedLater DEF Sound

\* The action of an entry is invoked in the centre.
LEMMA InvokeHistoryActionStep ==
  ASSUME Sound(controller, stored), NEW id, Centre!InvokeHistoryAction(id)
  PROVE  Sound(controller', stored')
<1>1. /\ id \in Centre!LiveOf(controller.history) /\ stored' = stored
      /\ controller' = Centre!invokeEntryAction(controller, id)
  BY DEF Centre!InvokeHistoryAction, Centre!Becomes
<1>2. Kept(controller, {}) /\ GoesOn(controller) /\ Saved(controller, stored)
  BY DEF Sound
<1>3. /\ Kept(controller', {})
      /\ WillSave(controller, controller') \/ controller' = controller
      /\ (GoesOn(controller) => GoesOn(controller'))
  BY <1>1, <1>2, KeptInvoked
<1> QED
  BY <1>1, <1>2, <1>3, SavedLater DEF Sound

\* A call that was put off is made.
LEMMA LaterStep ==
  ASSUME Sound(controller, stored), Centre!Later
  PROVE  Sound(controller', stored')
<1> DEFINE s == controller
           a == [s EXCEPT !.later = FALSE]
<1>1. controller' = Centre!showNextToast(a) /\ stored' = stored
  BY DEF Centre!Later, Centre!Becomes
<1>2. /\ Kept(s, {}) /\ Saved(s, stored) /\ s \in Centre!Controllers
      /\ Listed(s) /\ Queued(s) /\ Toasts(s, {}) /\ Unloaded(s)
  BY SoundFacts
<1> HIDE DEF s
<1>3. a \in Centre!Controllers
  BY <1>2, Updates
<1>4. /\ a.history = s.history /\ a.queue = s.queue /\ a.current = s.current
      /\ a.expiring = s.expiring /\ a.unread = s.unread /\ a.parked = s.parked
      /\ a.saving = s.saving /\ SameMode(s, a)
  BY <1>2, SMT DEF Centre!Controllers, SameMode
<1> HIDE DEF a
<1>5. Kept(a, {})
  BY <1>2, <1>3, <1>4 DEF Kept, Listed, Queued, Toasts, Unloaded, SameMode
<1>6. Saved(a, stored)
  BY <1>2, <1>4, SavedStill DEF SameStore, SameMode
<1> QED
  BY <1>1, <1>5, <1>6, SoundShown

\* All entries of one sender are removed.
LEMMA removeGroupStep ==
  ASSUME Sound(controller, stored), NEW app, Centre!removeGroup(app)
  PROVE  Sound(controller', stored')
<1> DEFINE s == controller
           gone == {s.history[i].id : i \in {i \in DOMAIN s.history : s.history[i].app = app}}
           a == IF s.current \in gone THEN Centre!clearCurrentToast(s) ELSE s
           b == Centre!removeAndClose(a, gone)
<1>1. controller' = Centre!showNextToast(b) /\ stored' = stored
  BY DEF Centre!removeGroup, Centre!Becomes
<1>2. Kept(s, {})
  BY SoundFacts
<1>3. Kept(a, {})
  BY <1>2, KeptCleared
<1> HIDE DEF gone, a
<1>4. Kept(b, {}) /\ WillSave(a, b)
  BY <1>3, KeptRemoved
<1> HIDE DEF b
<1>5. Saved(b, stored)
  BY <1>4, SavedLater
<1> QED
  BY <1>1, <1>4, <1>5, SoundShown

\* The toast's time is over, or it is clicked away.
LEMMA closeToastStep ==
  ASSUME Sound(controller, stored), NEW choice, Centre!closeToast(choice)
  PROVE  Sound(controller', stored')
<1> DEFINE c == controller
           s == Centre!clearCurrentToast(c)
           a == IF choice THEN Centre!removeAndClose(s, {c.current})
                ELSE IF Centre!Entry(c.history, c.current).app \in Resident THEN s
                ELSE Centre!handleNotificationClosed(s, {c.current})
<1>1. controller' = Centre!showNextToast(a) /\ stored' = stored
  BY DEF Centre!closeToast, Centre!Becomes
<1>2. Kept(c, {}) /\ Saved(c, stored)
  BY SoundFacts
<1>3. Kept(s, {}) /\ SameStore(c, s)
  BY <1>2, KeptCleared
<1>4. Saved(s, stored)
  BY <1>2, <1>3, SavedStill
<1>5. Kept(a, {}) /\ Saved(a, stored)
  <2> HIDE DEF c, s
  <2>1. CASE a = Centre!removeAndClose(s, {c.current})
    <3>1. Kept(a, {}) /\ WillSave(s, a)
      BY <1>3, <2>1, KeptRemoved
    <3> QED
      BY <3>1, SavedLater
  <2>2. CASE a = s
    BY <1>3, <1>4, <2>2
  <2>3. CASE a = Centre!handleNotificationClosed(s, {c.current})
    <3>1. Kept(a, {}) /\ WillSave(s, a)
      <4>1. {} \subseteq {c.current}
        OBVIOUS
      <4> QED
        BY <1>3, <2>3, <4>1, KeptClosed
    <3> QED
      BY <3>1, SavedLater
  <2> QED
    BY <2>1, <2>2, <2>3
<1> HIDE DEF a
<1> QED
  BY <1>1, <1>5, SoundShown

\* The action of the toast is invoked.
LEMMA ActivateToastStep ==
  ASSUME Sound(controller, stored), Centre!ActivateToast
  PROVE  Sound(controller', stored')
<1> DEFINE c == controller
           s == Centre!clearCurrentToast(c)
           a == Centre!invokeEntryAction(s, c.current)
<1>1. controller' = Centre!showNextToast(a) /\ stored' = stored /\ c.current # 0
  BY DEF Centre!ActivateToast, Centre!Becomes, Centre!NoId
<1>2. Kept(c, {}) /\ Saved(c, stored) /\ Toasts(c, {})
  BY SoundFacts
<1>3. Kept(s, {}) /\ SameStore(c, s)
  BY <1>2, KeptCleared
<1>4. Saved(s, stored) /\ c.current \in Centre!LiveOf(s.history)
  BY <1>1, <1>2, <1>3, SavedStill DEF Toasts, SameStore
<1> HIDE DEF s, c
<1>5. Kept(a, {}) /\ (WillSave(s, a) \/ a = s)
  BY <1>3, <1>4, KeptInvoked
<1> HIDE DEF a
<1>6. Saved(a, stored)
  BY <1>4, <1>5, SavedLater
<1> QED
  BY <1>1, <1>5, <1>6, SoundShown

\* Nothing is listed, and nothing is to be shown.
LEMMA NothingListed ==
  /\ History(<<>>) /\ Centre!IdsOf(<<>>) = {} /\ Centre!LiveOf(<<>>) = {}
  /\ UnreadIds(<<>>) = {} /\ Cardinality(UnreadIds(<<>>)) = 0 /\ Len(<<>>) = 0
<1>1. DOMAIN <<>> = {} /\ <<>> \in Seq(Centre!Entries) /\ Len(<<>>) = 0
  OBVIOUS
<1>2. /\ Centre!IdsOf(<<>>) = {} /\ Centre!LiveOf(<<>>) = {} /\ UnreadIds(<<>>) = {}
      /\ Centre!OneEach(<<>>)
  BY <1>1 DEF Centre!IdsOf, Centre!LiveOf, UnreadIds, Centre!UnreadAt, Centre!OneEach
<1> QED
  BY <1>1, <1>2, FS_EmptySet DEF History

\* The history is cleared.
LEMMA clearHistoryStep ==
  ASSUME Sound(controller, stored), Centre!clearHistory
  PROVE  Sound(controller', stored')
<1> DEFINE c == controller
           s == Centre!clearCurrentToast(c)
           a == [s EXCEPT !.queue = <<>>, !.unread = 0]
           b == Centre!SetHistory(a, <<>>)
           t == Centre!handleNotificationClosed(b, Centre!LiveOf(c.history))
<1>1. controller' = t /\ stored' = stored
  <2>1. [s EXCEPT !.queue = <<>>, !.unread = 0] = a
    OBVIOUS
  <2> QED
    BY <2>1 DEF Centre!clearHistory, Centre!Becomes
<1>2. /\ c \in Centre!Controllers /\ Unloaded(c)
  BY SoundFacts
<1> HIDE DEF c
<1>3. /\ s \in Centre!Controllers /\ s.current = 0 /\ s.saving = c.saving /\ SameMode(c, s)
  BY <1>2, ClearFields
<1> HIDE DEF s
<1>4. a \in Centre!Controllers
  <2>1. <<>> \in Seq(Nat) /\ 0 \in Nat
    OBVIOUS
  <2>2. [s EXCEPT !.queue = <<>>] \in Centre!Controllers
    BY <1>3, <2>1, Updates
  <2> QED
    BY <2>1, <2>2, Updates
<1>5. a.queue = <<>> /\ a.unread = 0 /\ a.current = 0 /\ a.saving = s.saving /\ SameMode(s, a)
  BY <1>3, SMT DEF Centre!Controllers, SameMode
<1> HIDE DEF a
<1>6. /\ b \in Centre!Controllers /\ b.history = <<>> /\ b.saving = (a.saving \/ a.loaded)
      /\ b.queue = <<>> /\ b.current = 0 /\ b.unread = 0 /\ SameMode(a, b)
  <2>1. <<>> \in Seq(Centre!Entries)
    OBVIOUS
  <2> QED
    BY <1>4, <1>5, <2>1, SetHistoryFields
<1> HIDE DEF b
<1>7. Listed(b)
  <2>1. /\ History(b.history) /\ Centre!IdsOf(b.history) = {}
        /\ Cardinality(UnreadIds(b.history)) = 0 /\ Len(b.history) = 0
    BY <1>6, NothingListed
  <2>2. historyLimit >= 0
    BY ShellAssumption DEF Centre!LimitAssumption
  <2> QED
    BY <1>6, <2>1, <2>2 DEF Listed
<1>8. Queued(b) /\ Toasts(b, {}) /\ GoesOn(b)
  BY <1>6 DEF Queued, Toasts, GoesOn
<1>9. Unloaded(b)
  BY <1>2, <1>3, <1>5, <1>6 DEF Unloaded, SameMode
<1>10. Kept(b, {})
  BY <1>7, <1>8, <1>9 DEF Kept
<1>11. Kept(t, {}) /\ WillSave(b, t) /\ (GoesOn(b) => GoesOn(t))
  <2>1. {} \subseteq Centre!LiveOf(c.history)
    OBVIOUS
  <2> QED
    BY <1>10, <2>1, KeptClosed
<1> HIDE DEF t
<1>12. Saved(t, stored)
  BY <1>11, SavedLater
<1> QED
  BY <1>1, <1>8, <1>11, <1>12 DEF Sound

\* The pointer comes to the toast, or leaves it.
LEMMA HoverStep ==
  ASSUME Sound(controller, stored), Centre!Hover
  PROVE  Sound(controller', stored')
<1> DEFINE s == controller
           e == IF s.hovered THEN s.expiring \/ s.current # 0 ELSE FALSE
           t == [s EXCEPT !.hovered = ~s.hovered, !.expiring = e]
<1>1. controller' = t /\ stored' = stored
  BY DEF Centre!Hover, Centre!Becomes, Centre!NoId
<1>2. /\ Saved(s, stored) /\ s \in Centre!Controllers /\ GoesOn(s)
      /\ Listed(s) /\ Queued(s) /\ Toasts(s, {}) /\ Unloaded(s)
  BY SoundFacts
<1> HIDE DEF s
<1>3. (~s.hovered) \in BOOLEAN /\ e \in BOOLEAN
  BY <1>2, Typed
<1>4. t \in Centre!Controllers
  <2>1. [s EXCEPT !.hovered = ~s.hovered] \in Centre!Controllers
    BY <1>2, <1>3, Updates
  <2> QED
    BY <1>3, <2>1, Updates
<1>5. /\ t.history = s.history /\ t.queue = s.queue /\ t.current = s.current
      /\ t.expiring = e /\ t.hovered = ~s.hovered /\ t.later = s.later /\ t.unread = s.unread
      /\ t.parked = s.parked /\ t.saving = s.saving /\ t.menu = s.menu /\ t.dnd = s.dnd
      /\ t.loaded = s.loaded /\ t.early = s.early /\ t.nextId = s.nextId
  BY <1>2, SMT DEF Centre!Controllers
<1> HIDE DEF t
<1>6. Listed(t) /\ Queued(t) /\ Unloaded(t) /\ GoesOn(t)
  BY <1>2, <1>4, <1>5 DEF Listed, Queued, Unloaded, GoesOn
<1>7. Toasts(t, {})
  BY <1>2, <1>5 DEF Toasts
<1>8. Saved(t, stored)
  BY <1>2, <1>5, SavedStill DEF SameStore
<1> QED
  BY <1>1, <1>6, <1>7, <1>8 DEF Sound, Kept

\* Do not disturb is set or cleared, and is about to be stored.
LEMMA DndFields ==
  ASSUME NEW s, Kept(s, {}), GoesOn(s), NEW v \in BOOLEAN, NEW t, t = Centre!SetDnd(s, v),
         s.early \/ s.loaded
  PROVE  Kept(t, {}) /\ GoesOn(t) /\ WillSave(s, t)
<1> DEFINE q == IF v THEN <<>> ELSE s.queue
<1>1. t = [s EXCEPT !.dnd = v, !.queue = q, !.saving = s.saving \/ s.loaded]
  BY DEF Centre!SetDnd
<1>2. Listed(s) /\ Queued(s) /\ Toasts(s, {}) /\ Unloaded(s) /\ s \in Centre!Controllers
  BY DEF Kept, Listed
<1>3. q \in Seq(Nat) /\ (s.saving \/ s.loaded) \in BOOLEAN
  BY <1>2, Typed
<1>4. t \in Centre!Controllers
  <2> HIDE DEF q
  <2>1. [s EXCEPT !.dnd = v] \in Centre!Controllers
    BY <1>2, Updates
  <2>2. [s EXCEPT !.dnd = v, !.queue = q] \in Centre!Controllers
    BY <1>3, <2>1, Updates
  <2> QED
    BY <1>1, <1>3, <2>2, Updates
<1>5. /\ t.history = s.history /\ t.queue = q /\ t.current = s.current
      /\ t.expiring = s.expiring /\ t.hovered = s.hovered /\ t.later = s.later
      /\ t.unread = s.unread /\ t.parked = s.parked /\ t.saving = (s.saving \/ s.loaded)
      /\ t.menu = s.menu /\ t.dnd = v /\ t.loaded = s.loaded /\ t.early = s.early
      /\ t.nextId = s.nextId
  <2> HIDE DEF q
  <2> QED
    BY <1>1, <1>2, SMT DEF Centre!Controllers
<1>6. Listed(t) /\ Toasts(t, {}) /\ GoesOn(t) /\ Unloaded(t)
  BY <1>2, <1>4, <1>5 DEF Listed, Toasts, GoesOn, Unloaded
<1>7. Queued(t)
  BY <1>2, <1>5 DEF Queued
<1> QED
  BY <1>5, <1>6, <1>7 DEF Kept, WillSave

\* Something comes before the stored history is read.
LEMMA EarlyFields ==
  ASSUME NEW s \in Centre!Controllers, NEW t, t = [s EXCEPT !.early = s.early \/ ~s.loaded]
  PROVE  /\ t \in Centre!Controllers /\ t.history = s.history /\ t.queue = s.queue
         /\ t.current = s.current /\ t.expiring = s.expiring /\ t.hovered = s.hovered
         /\ t.later = s.later /\ t.unread = s.unread /\ t.parked = s.parked
         /\ t.saving = s.saving /\ t.menu = s.menu /\ t.dnd = s.dnd /\ t.loaded = s.loaded
         /\ t.nextId = s.nextId /\ t.early = (s.early \/ ~s.loaded)
<1>1. (s.early \/ ~s.loaded) \in BOOLEAN
  BY Typed
<1>2. t \in Centre!Controllers
  BY <1>1, Updates
<1>3. /\ t.history = s.history /\ t.queue = s.queue
      /\ t.current = s.current /\ t.expiring = s.expiring /\ t.hovered = s.hovered
      /\ t.later = s.later /\ t.unread = s.unread /\ t.parked = s.parked
      /\ t.saving = s.saving /\ t.menu = s.menu /\ t.dnd = s.dnd /\ t.loaded = s.loaded
      /\ t.nextId = s.nextId /\ t.early = (s.early \/ ~s.loaded)
  BY <1>1, SMT DEF Centre!Controllers
<1> QED
  BY <1>2, <1>3

\* Do not disturb is set or cleared.
LEMMA ToggleDndStep ==
  ASSUME Sound(controller, stored), Centre!ToggleDnd
  PROVE  Sound(controller', stored')
<1> DEFINE s == controller
           a == [s EXCEPT !.early = s.early \/ ~s.loaded]
<1>1. controller' = Centre!SetDnd(a, ~s.dnd) /\ stored' = stored
  BY DEF Centre!ToggleDnd, Centre!Becomes
<1>2. /\ s \in Centre!Controllers /\ GoesOn(s)
      /\ Listed(s) /\ Queued(s) /\ Toasts(s, {}) /\ Unloaded(s)
  BY SoundFacts
<1> HIDE DEF s
<1>3. /\ a \in Centre!Controllers /\ a.history = s.history /\ a.queue = s.queue
      /\ a.current = s.current /\ a.expiring = s.expiring /\ a.hovered = s.hovered
      /\ a.later = s.later /\ a.unread = s.unread /\ a.parked = s.parked
      /\ a.saving = s.saving /\ a.menu = s.menu /\ a.dnd = s.dnd /\ a.loaded = s.loaded
      /\ a.nextId = s.nextId /\ a.early = (s.early \/ ~s.loaded)
  BY <1>2, EarlyFields
<1> HIDE DEF a
<1>4. Kept(a, {}) /\ GoesOn(a) /\ (a.early \/ a.loaded)
  BY <1>2, <1>3 DEF Kept, Listed, Queued, Toasts, Unloaded, GoesOn
<1>5. (~s.dnd) \in BOOLEAN
  OBVIOUS
<1>6. Kept(controller', {}) /\ GoesOn(controller') /\ WillSave(a, controller')
  BY <1>1, <1>4, <1>5, DndFields
<1> QED
  BY <1>6, SavedLater DEF Sound

\* A notification is replaced.
LEMMA refreshNotificationStep ==
  ASSUME Sound(controller, stored), NEW id, NEW app \in Apps, Centre!refreshNotification(id, app)
  PROVE  Sound(controller', stored')
<1> DEFINE s == controller
           h == s.history
           a == [s EXCEPT !.early = s.early \/ ~s.loaded]
           g == [i \in DOMAIN h |-> [h[i] EXCEPT !.app = IF h[i].id = id THEN app ELSE h[i].app]]
<1>1. controller' = Centre!SetHistory(a, g) /\ stored' = stored
  BY DEF Centre!refreshNotification
<1>2. s \in Centre!Controllers /\ GoesOn(s) /\ Kept(s, {}) /\ Listed(s) /\ History(h)
  BY SoundFacts
<1> HIDE DEF s
<1>3. /\ a \in Centre!Controllers /\ a.history = s.history /\ a.queue = s.queue
      /\ a.current = s.current /\ a.expiring = s.expiring /\ a.hovered = s.hovered
      /\ a.later = s.later /\ a.unread = s.unread /\ a.parked = s.parked
      /\ a.saving = s.saving /\ a.menu = s.menu /\ a.dnd = s.dnd /\ a.loaded = s.loaded
      /\ a.nextId = s.nextId /\ a.early = (s.early \/ ~s.loaded)
  BY <1>2, EarlyFields
<1>4. \A i \in DOMAIN h : /\ g[i] \in Centre!Entries /\ g[i].id = h[i].id
                          /\ g[i].unread = h[i].unread /\ g[i].live = h[i].live
  <2> TAKE i \in DOMAIN h
  <2>1. h[i] \in Centre!Entries /\ h[i].app \in Apps
    BY <1>2, HistoryFacts
  <2>2. g[i] = [h[i] EXCEPT !.app = IF h[i].id = id THEN app ELSE h[i].app]
    OBVIOUS
  <2> QED
    BY <2>1, <2>2 DEF Centre!Entries
<1>5. g \in [DOMAIN h -> Centre!Entries]
  BY <1>4
<1> HIDE DEF a, g
<1>6. /\ History(g) /\ Len(g) = Len(h) /\ Centre!IdsOf(g) = Centre!IdsOf(h)
      /\ Centre!LiveOf(g) = Centre!LiveOf(h) /\ UnreadIds(g) = UnreadIds(h)
  <2>1. \A i \in DOMAIN h : /\ g[i].id = h[i].id
                            /\ g[i].unread = h[i].unread /\ g[i].live = h[i].live
    BY <1>4, Zenon
  <2> HIDE DEF h
  <2> QED
    BY <1>2, <1>5, <2>1, RefreshedFacts
<1>7. a.unread = Cardinality(UnreadIds(g))
  BY <1>2, <1>3, <1>6 DEF Listed
<1>8. /\ Kept(controller', {}) /\ WillSave(s, controller')
      /\ (GoesOn(s) => GoesOn(controller'))
  BY <1>1, <1>2, <1>3, <1>6, <1>7, KeptRewritten
<1> QED
  BY <1>2, <1>8, SavedLater DEF Sound

\* The centre is opened or closed.
LEMMA setMenuOpenStep ==
  ASSUME Sound(controller, stored), NEW open, Centre!setMenuOpen(open)
  PROVE  Sound(controller', stored')
<1> DEFINE s == controller
           h == s.history
           g == Centre!Read(h, Centre!IdsOf(h))
           a == [s EXCEPT !.menu = TRUE, !.unread = 0]
           b == Centre!SetHistory(a, g)
           d == Centre!clearCurrentToast(b)
           closed == [s EXCEPT !.menu = FALSE]
           hidden == [d EXCEPT !.queue = <<>>]
           waits == s.queue # <<>>
           over == [b EXCEPT !.parked = waits]
<1>1. /\ controller' = IF ~open THEN closed ELSE IF s.current # 0 THEN hidden ELSE over
      /\ stored' = stored
  <2>1. b = Centre!SetHistory([s EXCEPT !.menu = TRUE, !.unread = 0], g)
    OBVIOUS
  <2> QED
    BY <2>1, Zenon DEF Centre!setMenuOpen, Centre!Becomes, Centre!NoId
<1>2. /\ s \in Centre!Controllers /\ GoesOn(s) /\ Saved(s, stored) /\ History(h)
      /\ Listed(s) /\ Queued(s) /\ Toasts(s, {}) /\ Unloaded(s) /\ 0 \notin Centre!LiveOf(h)
  BY SoundFacts
<1> HIDE DEF s
<1>3. CASE ~open
  <2>1. controller' = closed
    BY <1>1, <1>3, Zenon
  <2>2. closed \in Centre!Controllers
    BY <1>2, Updates
  <2>3. /\ closed.history = s.history /\ closed.queue = s.queue /\ closed.current = s.current
        /\ closed.expiring = s.expiring /\ closed.hovered = s.hovered
        /\ closed.later = s.later /\ closed.unread = s.unread /\ closed.parked = s.parked
        /\ closed.saving = s.saving /\ ~closed.menu /\ closed.dnd = s.dnd
        /\ closed.loaded = s.loaded /\ closed.early = s.early /\ closed.nextId = s.nextId
    BY <1>2, SMT DEF Centre!Controllers
  <2> HIDE DEF closed
  <2>4. Listed(closed) /\ Queued(closed) /\ Toasts(closed, {}) /\ Unloaded(closed) /\ GoesOn(closed)
    BY <1>2, <2>2, <2>3 DEF Listed, Queued, Toasts, Unloaded, GoesOn
  <2>5. Saved(closed, stored)
    BY <1>2, <2>3, SavedStill DEF SameStore
  <2> QED
    BY <1>1, <2>1, <2>4, <2>5 DEF Sound, Kept
<1>4. /\ History(g) /\ Len(g) = Len(h) /\ Centre!IdsOf(g) = Centre!IdsOf(h)
      /\ Centre!LiveOf(g) = Centre!LiveOf(h) /\ UnreadIds(g) = {}
  <2>1. /\ History(g) /\ Len(g) = Len(h) /\ Centre!IdsOf(g) = Centre!IdsOf(h)
        /\ Centre!LiveOf(g) = Centre!LiveOf(h) /\ UnreadIds(g) = UnreadIds(h) \ Centre!IdsOf(h)
    BY <1>2, ReadFacts
  <2>2. UnreadIds(h) \subseteq Centre!IdsOf(h)
    BY <1>2, HistoryFacts
  <2> QED
    BY <2>1, <2>2
<1> HIDE DEF g
<1>5. a \in Centre!Controllers
  <2>1. [s EXCEPT !.menu = TRUE] \in Centre!Controllers
    BY <1>2, Updates
  <2> QED
    BY <2>1, Updates
<1>6. /\ a.history = s.history /\ a.queue = s.queue /\ a.current = s.current
      /\ a.expiring = s.expiring /\ a.hovered = s.hovered /\ a.later = s.later
      /\ a.unread = 0 /\ a.parked = s.parked /\ a.saving = s.saving /\ a.menu /\ a.dnd = s.dnd
      /\ a.loaded = s.loaded /\ a.early = s.early /\ a.nextId = s.nextId
  BY <1>2, SMT DEF Centre!Controllers
<1> HIDE DEF a
<1>7. /\ b \in Centre!Controllers /\ b.history = g /\ b.saving = (a.saving \/ a.loaded)
      /\ b.queue = a.queue /\ b.current = a.current /\ b.expiring = a.expiring
      /\ b.later = a.later /\ b.unread = a.unread /\ b.parked = a.parked
      /\ SameMode(a, b)
  <2>1. g \in Seq(Centre!Entries)
    BY <1>4 DEF History
  <2> QED
    BY <1>5, <2>1, SetHistoryFields
<1> HIDE DEF b
<1>8. Listed(b)
  <2>1. /\ Len(h) <= historyLimit /\ \A id \in Centre!IdsOf(h) : id < s.nextId
    BY <1>2 DEF Listed
  <2>2. Cardinality({}) = 0
    BY FS_EmptySet
  <2> QED
    BY <1>4, <1>6, <1>7, <2>1, <2>2 DEF Listed, SameMode
<1>9. Unloaded(b) /\ WillSave(s, b)
  <2>1. h = <<>> => g = <<>>
    BY <1>4 DEF History
  <2> QED
    BY <1>2, <1>6, <1>7, <2>1 DEF Unloaded, SameMode, WillSave
<1>10. CASE open /\ s.current # 0
  <2>1. controller' = hidden
    BY <1>1, <1>10, Zenon
  <2>2. /\ d \in Centre!Controllers /\ d.history = b.history /\ d.queue = b.queue
        /\ d.current = 0 /\ ~d.expiring /\ d.later = b.later /\ d.unread = b.unread
        /\ d.parked = b.parked /\ d.saving = b.saving /\ SameMode(b, d)
    BY <1>7, ClearFields
  <2> HIDE DEF d
  <2>3. hidden \in Centre!Controllers
    <3>1. <<>> \in Seq(Nat)
      OBVIOUS
    <3> QED
      BY <2>2, <3>1, Updates
  <2>4. /\ hidden.history = d.history /\ hidden.queue = <<>> /\ hidden.current = 0
        /\ hidden.unread = d.unread /\ hidden.saving = d.saving /\ SameMode(d, hidden)
    BY <2>2, SMT DEF Centre!Controllers, SameMode
  <2> HIDE DEF hidden
  <2>5. Listed(hidden) /\ Unloaded(hidden)
    BY <1>8, <1>9, <2>2, <2>3, <2>4 DEF Listed, Unloaded, SameMode
  <2>6. Queued(hidden) /\ Toasts(hidden, {}) /\ GoesOn(hidden)
    BY <2>4 DEF Queued, Toasts, GoesOn
  <2>7. Saved(hidden, stored)
    BY <1>9, <2>2, <2>4, SavedLater DEF WillSave, SameMode
  <2> QED
    BY <1>1, <2>1, <2>5, <2>6, <2>7 DEF Sound, Kept
<1>11. CASE open /\ s.current = 0
  <2>1. controller' = over
    BY <1>1, <1>11, Zenon
  <2>2. over \in Centre!Controllers
    <3>1. waits \in BOOLEAN
      OBVIOUS
    <3> HIDE DEF waits
    <3> QED
      BY <1>7, <3>1, Updates
  <2>3. /\ over.history = b.history /\ over.queue = b.queue /\ over.current = b.current
        /\ over.unread = b.unread /\ over.saving = b.saving /\ over.parked = waits
        /\ SameMode(b, over)
    <3> HIDE DEF waits
    <3> QED
      BY <1>7, SMT DEF Centre!Controllers, SameMode
  <2> HIDE DEF over
  <2>4. Listed(over) /\ Unloaded(over)
    BY <1>8, <1>9, <2>2, <2>3 DEF Listed, Unloaded, SameMode
  <2>5. over.queue = s.queue /\ over.current = 0 /\ over.dnd = s.dnd
    BY <1>6, <1>7, <1>11, <2>3 DEF SameMode
  <2>6. Queued(over)
    BY <1>2, <1>4, <1>7, <1>11, <2>3, <2>5 DEF Queued
  <2>7. Toasts(over, {}) /\ GoesOn(over)
    BY <2>3, <2>5 DEF Toasts, GoesOn
  <2>8. Saved(over, stored)
    BY <1>9, <2>3, SavedLater DEF WillSave, SameMode
  <2> QED
    BY <1>1, <2>1, <2>4, <2>6, <2>7, <2>8 DEF Sound, Kept
<1> QED
  BY <1>3, <1>10, <1>11

\* A shell begins with nothing, whatever was kept for it.
LEMMA NewIsSound ==
  ASSUME NEW st
  PROVE  Sound(Centre!New, st)
<1> DEFINE n == Centre!New
<1>1. n \in Centre!Controllers
  <2>1. <<>> \in Seq(Centre!Entries) /\ <<>> \in Seq(Nat)
    OBVIOUS
  <2> QED
    BY <2>1 DEF Centre!New, Centre!Controllers, Centre!NoId
<1>2. /\ n.history = <<>> /\ n.queue = <<>> /\ n.current = 0 /\ n.unread = 0
      /\ ~n.dnd /\ ~n.loaded /\ ~n.saving
  BY DEF Centre!New, Centre!NoId
<1> HIDE DEF n
<1>3. Listed(n)
  <2>1. /\ History(n.history) /\ Centre!IdsOf(n.history) = {}
        /\ Cardinality(UnreadIds(n.history)) = 0 /\ Len(n.history) = 0
    BY <1>2, NothingListed
  <2>2. historyLimit >= 0
    BY ShellAssumption DEF Centre!LimitAssumption
  <2> QED
    BY <1>1, <1>2, <2>1, <2>2 DEF Listed
<1>4. Queued(n) /\ Toasts(n, {}) /\ Unloaded(n) /\ GoesOn(n) /\ Saved(n, st)
  BY <1>2 DEF Queued, Toasts, Unloaded, GoesOn, Saved
<1> QED
  BY <1>3, <1>4 DEF Sound, Kept, n

\* The history is stored, no longer than it is.
LEMMA saveStoreStep ==
  ASSUME Sound(controller, stored), Centre!saveStore
  PROVE  Sound(controller', stored') /\ Backed(stored')
<1> DEFINE s == controller
           t == [s EXCEPT !.saving = FALSE, !.early = FALSE]
           h == s.history
           r == Centre!storedHistory(h)
<1>1. controller' = t /\ stored' = [history |-> r, dnd |-> s.dnd] /\ s.saving
  BY DEF Centre!saveStore
<1>2. /\ s \in Centre!Controllers /\ GoesOn(s) /\ History(h)
      /\ Listed(s) /\ Queued(s) /\ Toasts(s, {}) /\ Unloaded(s)
  BY SoundFacts
<1> HIDE DEF s
<1>3. t \in Centre!Controllers
  <2>1. [s EXCEPT !.saving = FALSE] \in Centre!Controllers
    BY <1>2, Updates
  <2> QED
    BY <2>1, Updates
<1>4. /\ t.history = s.history /\ t.queue = s.queue /\ t.current = s.current
      /\ t.expiring = s.expiring /\ t.hovered = s.hovered /\ t.later = s.later
      /\ t.unread = s.unread /\ t.parked = s.parked /\ t.menu = s.menu /\ t.dnd = s.dnd
      /\ t.loaded = s.loaded /\ t.nextId = s.nextId
  BY <1>2, SMT DEF Centre!Controllers
<1> HIDE DEF t
<1>5. s.loaded
  BY <1>1, <1>2 DEF Unloaded
<1>6. Listed(t) /\ Queued(t) /\ Toasts(t, {}) /\ Unloaded(t) /\ GoesOn(t)
  BY <1>2, <1>3, <1>4, <1>5 DEF Listed, Queued, Toasts, Unloaded, GoesOn
<1>7. Saved(t, stored')
  BY <1>1, <1>4, Zenon DEF Saved
<1>8. Backed(stored')
  <2>1. r \in Seq(Centre!Records) /\ Len(r) = Len(h)
    <3>1. r = [i \in DOMAIN h |-> [app |-> h[i].app, unread |-> h[i].unread]]
      BY DEF Centre!storedHistory
    <3>2. Len(h) \in Nat /\ DOMAIN h = 1..Len(h)
          /\ \A i \in DOMAIN h : h[i].app \in Apps /\ h[i].unread \in BOOLEAN
      BY <1>2, HistoryFacts
    <3>3. r \in [1..Len(h) -> Centre!Records]
      BY <3>1, <3>2 DEF Centre!Records
    <3> HIDE DEF r
    <3> QED
      BY <3>2, <3>3
  <2>2. s.dnd \in BOOLEAN /\ Len(h) <= historyLimit
    BY <1>2, Typed DEF Listed
  <2> HIDE DEF r, h
  <2> QED
    BY <1>1, <2>1, <2>2 DEF Backed
<1> QED
  BY <1>1, <1>6, <1>7, <1>8 DEF Sound, Kept

\* The history when the stored one was read: what came already, and then the stored
\* entries there is room for, which have new numbers and are not live.
Joined(h, records, from) ==
  LET all == h \o Centre!restoredHistory(records, from) IN
    SubSeq(all, 1, IF Len(all) < historyLimit THEN Len(all) ELSE historyLimit)

\* Lists, one behind the other.
LEMMA JoinedLists ==
  ASSUME NEW S, NEW h \in Seq(S), NEW r \in Seq(S), NEW all, all = h \o r
  PROVE  /\ all \in Seq(S) /\ Len(all) = Len(h) + Len(r)
         /\ \A i \in 1..Len(h) : all[i] = h[i]
         /\ \A i \in (Len(h) + 1)..Len(all) : all[i] = r[i - Len(h)]
OBVIOUS

\* The joined history has what came early as it was, and otherwise what was stored.
LEMMA JoinedFacts ==
  ASSUME NEW h, History(h), Len(h) <= historyLimit, NEW n \in Nat \ {0},
         \A id \in Centre!IdsOf(h) : id < n, NEW records \in Seq(Centre!Records),
         NEW g, g = Joined(h, records, n)
  PROVE  /\ History(g) /\ Len(g) <= historyLimit /\ Centre!LiveOf(g) = Centre!LiveOf(h)
         /\ \A id \in Centre!IdsOf(g) : id < n + Len(records)
         /\ h = <<>> /\ Len(records) <= historyLimit =>
              Centre!storedHistory(g) = records
<1> DEFINE r == Centre!restoredHistory(records, n)
           all == h \o r
           m == IF Len(all) < historyLimit THEN Len(all) ELSE historyLimit
<1>1. g = SubSeq(all, 1, m)
  BY DEF Joined
<1>2. historyLimit \in Nat \ {0} /\ Len(records) \in Nat
  BY ShellAssumption DEF Centre!LimitAssumption
<1>3. /\ h \in Seq(Centre!Entries) /\ Len(h) \in Nat /\ DOMAIN h = 1..Len(h)
      /\ \A i \in DOMAIN h : h[i].id \in Nat \ {0} /\ h[i].id < n
  <2>1. /\ Len(h) \in Nat /\ DOMAIN h = 1..Len(h)
        /\ \A i \in DOMAIN h : h[i].id \in Nat \ {0} /\ h[i].id \in Centre!IdsOf(h)
    BY HistoryFacts
  <2> QED
    BY <2>1 DEF History
<1>4. /\ r \in Seq(Centre!Entries) /\ Len(r) = Len(records)
      /\ \A i \in 1..Len(records) : /\ r[i].id = n + i - 1 /\ ~r[i].live
                                    /\ r[i].app = records[i].app
                                    /\ r[i].unread = records[i].unread
  <2>1. r = [i \in 1..Len(records) |-> [id |-> n + i - 1, app |-> records[i].app,
                                        unread |-> records[i].unread, live |-> FALSE]]
    <3>1. DOMAIN records = 1..Len(records)
      OBVIOUS
    <3> QED
      BY <3>1, Zenon DEF Centre!restoredHistory
  <2>2. \A i \in 1..Len(records) : records[i].app \in Apps /\ records[i].unread \in BOOLEAN
    <3> TAKE i \in 1..Len(records)
    <3>1. records[i] \in Centre!Records
      OBVIOUS
    <3> QED
      BY <3>1 DEF Centre!Records
  <2>3. \A i \in 1..Len(records) : n + i - 1 \in Nat \ {0}
    BY <1>2
  <2>4. r \in [1..Len(records) -> Centre!Entries]
    BY <2>1, <2>2, <2>3 DEF Centre!Entries, Centre!NoId
  <2>5. \A i \in 1..Len(records) : /\ r[i].id = n + i - 1 /\ ~r[i].live
                                   /\ r[i].app = records[i].app
                                   /\ r[i].unread = records[i].unread
    BY <2>1
  <2> HIDE DEF r
  <2>6. r \in Seq(Centre!Entries) /\ Len(r) = Len(records)
    BY <1>2, <2>4
  <2> QED
    BY <2>5, <2>6, Zenon
<1> HIDE DEF r
<1>5. /\ all \in Seq(Centre!Entries) /\ Len(all) = Len(h) + Len(records)
      /\ \A i \in 1..Len(h) : all[i] = h[i]
      /\ \A i \in (Len(h) + 1)..Len(all) : all[i] = r[i - Len(h)]
  <2>1. r \in Seq(Centre!Entries) /\ h \in Seq(Centre!Entries) /\ Len(r) = Len(records)
    BY <1>3, <1>4
  <2>2. all = h \o r
    OBVIOUS
  <2> HIDE DEF all
  <2>3. all \in Seq(Centre!Entries)
    BY <2>1, <2>2, JoinedLists
  <2>6. Len(all) = Len(h) + Len(r)
    <3>1. Len(h \o r) = Len(h) + Len(r)
      BY <2>1
    <3> QED
      BY <2>2, <3>1, Zenon
  <2>4. \A i \in 1..Len(h) : all[i] = h[i]
    BY <2>1, <2>2, JoinedLists
  <2>5. \A i \in (Len(h) + 1)..Len(all) : all[i] = r[i - Len(h)]
    BY <2>1, <2>2, JoinedLists
  <2> QED
    BY <2>1, <2>3, <2>4, <2>5, <2>6
<1>6. m \in Nat /\ Len(h) <= m /\ m <= Len(all) /\ m <= historyLimit
  BY <1>2, <1>3, <1>5
<1> HIDE DEF all, m
<1>7. g \in Seq(Centre!Entries) /\ Len(g) = m /\ DOMAIN g = 1..m /\ \A i \in 1..m : g[i] = all[i]
  BY <1>1, <1>5, <1>6
<1>8. \A i \in DOMAIN g : IF i <= Len(h) THEN i \in DOMAIN h /\ g[i] = h[i]
                          ELSE i - Len(h) \in 1..Len(records) /\ g[i] = r[i - Len(h)]
  BY <1>2, <1>3, <1>5, <1>6, <1>7
<1>9. \A i \in DOMAIN h : i \in DOMAIN g /\ g[i] = h[i]
  BY <1>3, <1>5, <1>6, <1>7
<1>10. \A i \in DOMAIN g : IF i <= Len(h) THEN g[i].id < n
                           ELSE g[i].id = n + i - Len(h) - 1 /\ ~g[i].live
  <2> TAKE i \in DOMAIN g
  <2>1. CASE i <= Len(h)
    BY <1>3, <1>8, <2>1
  <2>2. CASE ~(i <= Len(h))
    <3>1. i - Len(h) \in 1..Len(records) /\ g[i] = r[i - Len(h)]
      BY <1>8, <2>2
    <3>2. g[i].id = n + (i - Len(h)) - 1 /\ ~g[i].live
      BY <1>4, <3>1
    <3>3. i \in Nat
      BY <1>6, <1>7
    <3> QED
      BY <1>3, <2>2, <3>2, <3>3
  <2> QED
    BY <2>1, <2>2
<1>11. Centre!OneEach(g)
  <2> SUFFICES ASSUME NEW a \in DOMAIN g, NEW b \in DOMAIN g, g[a].id = g[b].id
               PROVE  a = b
    BY DEF Centre!OneEach
  <2>1. a \in Nat /\ b \in Nat
    BY <1>6, <1>7
  <2>2. CASE a <= Len(h) /\ b <= Len(h)
    BY <1>8, <2>2 DEF History, Centre!OneEach
  <2>3. CASE a <= Len(h) /\ ~(b <= Len(h))
    <3>1. g[a].id < n /\ g[a].id \in Nat /\ g[b].id = n + b - Len(h) - 1
      BY <1>3, <1>8, <1>10, <2>3
    <3> QED
      BY <1>3, <2>1, <2>3, <3>1
  <2>4. CASE ~(a <= Len(h)) /\ b <= Len(h)
    <3>1. g[b].id < n /\ g[b].id \in Nat /\ g[a].id = n + a - Len(h) - 1
      BY <1>3, <1>8, <1>10, <2>4
    <3> QED
      BY <1>3, <2>1, <2>4, <3>1
  <2>5. CASE ~(a <= Len(h)) /\ ~(b <= Len(h))
    <3>1. g[b].id = n + b - Len(h) - 1 /\ g[a].id = n + a - Len(h) - 1
      BY <1>10, <2>5
    <3> QED
      BY <1>3, <2>1, <3>1
  <2> QED
    BY <2>2, <2>3, <2>4, <2>5
<1>12. Centre!LiveOf(g) = Centre!LiveOf(h)
  <2>1. \A id : id \in Centre!LiveOf(g) <=> \E i \in DOMAIN g : g[i].live /\ g[i].id = id
    BY Members, SMT
  <2>2. \A id : id \in Centre!LiveOf(h) <=> \E i \in DOMAIN h : h[i].live /\ h[i].id = id
    BY Members, SMT
  <2>3. \A i \in DOMAIN g : g[i].live => i \in DOMAIN h /\ g[i] = h[i]
    BY <1>8, <1>10
  <2>4. \A i \in DOMAIN h : h[i].live => i \in DOMAIN g /\ g[i] = h[i]
    BY <1>9
  <2>5. \A id : id \in Centre!LiveOf(g) <=> id \in Centre!LiveOf(h)
    <3> TAKE id
    <3>1. ASSUME id \in Centre!LiveOf(g) PROVE id \in Centre!LiveOf(h)
      <4>1. PICK i \in DOMAIN g : g[i].live /\ g[i].id = id
        BY <2>1, <3>1
      <4>2. i \in DOMAIN h /\ h[i].live /\ h[i].id = id
        BY <2>3, <4>1
      <4> QED
        BY <2>2, <4>2
    <3>2. ASSUME id \in Centre!LiveOf(h) PROVE id \in Centre!LiveOf(g)
      <4>1. PICK i \in DOMAIN h : h[i].live /\ h[i].id = id
        BY <2>2, <3>2
      <4>2. i \in DOMAIN g /\ g[i].live /\ g[i].id = id
        BY <2>4, <4>1
      <4> QED
        BY <2>1, <4>2
    <3> QED
      BY <3>1, <3>2
  <2> QED
    BY <2>5, Zenon
<1>13. \A id \in Centre!IdsOf(g) : id < n + Len(records)
  <2> SUFFICES ASSUME NEW i \in DOMAIN g PROVE g[i].id < n + Len(records)
    BY DEF Centre!IdsOf
  <2>1. CASE i <= Len(h)
    <3>1. g[i].id < n /\ g[i].id \in Nat
      BY <1>3, <1>8, <2>1
    <3> QED
      BY <1>2, <3>1
  <2>2. CASE ~(i <= Len(h))
    <3>1. i - Len(h) \in 1..Len(records) /\ i \in Nat /\ g[i].id = n + i - Len(h) - 1
      BY <1>6, <1>7, <1>8, <1>10, <2>2
    <3> QED
      BY <1>2, <1>3, <3>1
  <2> QED
    BY <2>1, <2>2
<1>14. ASSUME h = <<>>, Len(records) <= historyLimit
       PROVE  Centre!storedHistory(g) = records
  <2>1. Len(h) = 0
    BY <1>14
  <2>2. m = Len(records)
    <3>1. Len(all) = Len(records)
      BY <1>2, <1>5, <2>1
    <3> QED
      BY <1>2, <1>14, <3>1 DEF m
  <2>3. \A i \in 1..Len(records) : g[i].app = records[i].app /\ g[i].unread = records[i].unread
    <3> TAKE i \in 1..Len(records)
    <3>1. ~(i <= 0) /\ i - 0 = i /\ i \in DOMAIN g
      BY <1>2, <1>7, <2>2
    <3>2. g[i] = r[i]
      BY <1>8, <2>1, <3>1
    <3> QED
      BY <1>4, <3>2
  <2>4. Centre!storedHistory(g) = [i \in 1..Len(records) |-> [app |-> g[i].app, unread |-> g[i].unread]]
    BY <1>7, <2>2, Zenon DEF Centre!storedHistory
  <2>5. \A i \in 1..Len(records) : [app |-> g[i].app, unread |-> g[i].unread] = records[i]
    <3> TAKE i \in 1..Len(records)
    <3>1. records[i] \in Centre!Records
      OBVIOUS
    <3>2. records[i] = [app |-> records[i].app, unread |-> records[i].unread]
      BY <3>1 DEF Centre!Records
    <3> QED
      BY <2>3, <3>2
  <2>6. records = [i \in 1..Len(records) |-> records[i]]
    OBVIOUS
  <2> QED
    BY <2>4, <2>5, <2>6
<1> QED
  BY <1>6, <1>7, <1>11, <1>12, <1>13, <1>14 DEF History

\* The stored history is read.
LEMMA applyStoredStep ==
  ASSUME Sound(controller, stored), Backed(stored), Centre!applyStored
  PROVE  Sound(controller', stored')
<1> DEFINE s == controller
           g == Joined(s.history, stored.history, s.nextId)
           u == Centre!UnreadOf(g)
           n == s.nextId + Len(stored.history)
           a == Centre!SetHistory(s, g)
           b == [a EXCEPT !.unread = u, !.nextId = n]
           d == IF stored.dnd THEN Centre!SetDnd(b, TRUE) ELSE b
           t == [d EXCEPT !.loaded = TRUE]
<1>1. controller' = t /\ stored' = stored /\ ~s.loaded
  <2>1. b = [Centre!SetHistory(s, g) EXCEPT !.unread = u, !.nextId = a.nextId + Len(stored.history)]
    <3>1. a.nextId = s.nextId
      BY SoundFacts, SMT DEF Centre!SetHistory, Centre!Controllers
    <3> QED
      BY <3>1
  <2> QED
    BY <2>1, Zenon DEF Centre!applyStored, Centre!Becomes, Joined
<1>2. /\ s \in Centre!Controllers /\ GoesOn(s) /\ History(s.history)
      /\ Listed(s) /\ Queued(s) /\ Toasts(s, {}) /\ Unloaded(s)
  BY SoundFacts
<1>3. /\ stored.history \in Seq(Centre!Records) /\ Len(stored.history) <= historyLimit
      /\ stored.dnd \in BOOLEAN /\ Len(stored.history) \in Nat
      /\ stored = [history |-> stored.history, dnd |-> stored.dnd]
  BY DEF Backed
<1> HIDE DEF s
<1>4. s.nextId \in Nat \ {0}
  BY <1>2, Typed
<1>5. /\ History(g) /\ Len(g) <= historyLimit /\ Centre!LiveOf(g) = Centre!LiveOf(s.history)
      /\ \A id \in Centre!IdsOf(g) : id < n
      /\ s.history = <<>> => Centre!storedHistory(g) = stored.history
  <2>1. Len(s.history) <= historyLimit /\ \A id \in Centre!IdsOf(s.history) : id < s.nextId
    BY <1>2 DEF Listed
  <2> QED
    BY <1>2, <1>3, <1>4, <2>1, JoinedFacts
<1>6. u = Cardinality(UnreadIds(g)) /\ u \in Nat
  BY <1>5, UnreadCounted
<1>7. n \in Nat \ {0}
  BY <1>3, <1>4
<1> HIDE DEF g, u, n
<1>8. /\ a \in Centre!Controllers /\ a.history = g /\ a.saving = (s.saving \/ s.loaded)
      /\ a.queue = s.queue /\ a.current = s.current /\ a.expiring = s.expiring
      /\ a.later = s.later /\ a.unread = s.unread /\ a.parked = s.parked
      /\ SameMode(s, a)
  <2>1. g \in Seq(Centre!Entries)
    BY <1>5 DEF History
  <2> QED
    BY <1>2, <2>1, SetHistoryFields
<1> HIDE DEF a
<1>9. b \in Centre!Controllers
  <2>1. [a EXCEPT !.unread = u] \in Centre!Controllers
    BY <1>6, <1>8, Updates
  <2> QED
    BY <1>7, <2>1, Updates
<1>10. /\ b.history = a.history /\ b.queue = a.queue /\ b.current = a.current
       /\ b.expiring = a.expiring /\ b.hovered = a.hovered /\ b.later = a.later
       /\ b.unread = u /\ b.parked = a.parked /\ b.saving = a.saving /\ b.menu = a.menu
       /\ b.dnd = a.dnd /\ b.loaded = a.loaded /\ b.early = a.early /\ b.nextId = n
  BY <1>8, SMT DEF Centre!Controllers
<1> HIDE DEF b
<1>11. /\ d \in Centre!Controllers /\ d.history = g /\ d.queue = (IF stored.dnd THEN <<>> ELSE s.queue)
       /\ d.current = s.current /\ d.expiring = s.expiring /\ d.hovered = s.hovered
       /\ d.later = s.later /\ d.unread = u /\ d.parked = s.parked /\ d.menu = s.menu
       /\ d.dnd = (stored.dnd \/ s.dnd) /\ d.early = s.early /\ d.nextId = n
  <2>1. CASE stored.dnd
    <3>1. d = [b EXCEPT !.dnd = TRUE, !.queue = <<>>, !.saving = b.saving \/ b.loaded]
      BY <2>1 DEF Centre!SetDnd
    <3>2. d \in Centre!Controllers
      <4>1. [b EXCEPT !.dnd = TRUE] \in Centre!Controllers
        BY <1>9, Updates
      <4>2. <<>> \in Seq(Nat) /\ (b.saving \/ b.loaded) \in BOOLEAN
        OBVIOUS
      <4>3. [b EXCEPT !.dnd = TRUE, !.queue = <<>>] \in Centre!Controllers
        BY <4>1, <4>2, Updates
      <4> HIDE DEF d
      <4> QED
        BY <3>1, <4>2, <4>3, Updates
    <3>3. /\ d.history = b.history /\ d.queue = <<>> /\ d.current = b.current
          /\ d.expiring = b.expiring /\ d.hovered = b.hovered /\ d.later = b.later
          /\ d.unread = b.unread /\ d.parked = b.parked /\ d.menu = b.menu
          /\ d.dnd /\ d.early = b.early /\ d.nextId = b.nextId
      <4> HIDE DEF d
      <4> QED
        BY <1>9, <3>1, SMT DEF Centre!Controllers
    <3>4. d.dnd \in BOOLEAN
      BY <3>2, Typed
    <3> HIDE DEF d
    <3> QED
      BY <1>8, <1>10, <2>1, <3>2, <3>3, <3>4 DEF SameMode
  <2>2. CASE ~stored.dnd
    <3>1. d = b /\ s.dnd \in BOOLEAN
      BY <1>2, <2>2, Typed
    <3> HIDE DEF d
    <3> QED
      BY <1>3, <1>8, <1>9, <1>10, <2>2, <3>1 DEF SameMode
  <2> QED
    BY <2>1, <2>2
<1> HIDE DEF d
<1>12. t \in Centre!Controllers
  BY <1>11, Updates
<1>13. /\ t.history = d.history /\ t.queue = d.queue /\ t.current = d.current
       /\ t.expiring = d.expiring /\ t.hovered = d.hovered /\ t.later = d.later
       /\ t.unread = d.unread /\ t.parked = d.parked /\ t.menu = d.menu
       /\ t.dnd = d.dnd /\ t.early = d.early /\ t.nextId = d.nextId /\ t.loaded
  BY <1>11, SMT DEF Centre!Controllers
<1> HIDE DEF t
<1>14. Listed(t)
  BY <1>5, <1>6, <1>11, <1>12, <1>13 DEF Listed
<1>15. Queued(t) /\ Toasts(t, {}) /\ Unloaded(t) /\ GoesOn(t)
  <2>1. /\ Centre!LiveOf(t.history) = Centre!LiveOf(s.history) /\ t.current = s.current
        /\ t.queue = (IF stored.dnd THEN <<>> ELSE s.queue) /\ t.dnd = (stored.dnd \/ s.dnd)
        /\ t.later = s.later /\ t.parked = s.parked /\ t.menu = s.menu
        /\ t.expiring = s.expiring /\ t.hovered = s.hovered /\ t.loaded
    BY <1>5, <1>11, <1>13
  <2>2. Queued(t)
    <3>1. CASE stored.dnd
      BY <2>1, <3>1 DEF Queued
    <3>2. CASE ~stored.dnd
      BY <1>2, <2>1, <3>2 DEF Queued
    <3> QED
      BY <3>1, <3>2
  <2>3. Toasts(t, {}) /\ Unloaded(t)
    BY <1>2, <2>1 DEF Toasts, Unloaded
  <2>4. GoesOn(t)
    BY <1>2, <2>1 DEF GoesOn
  <2> QED
    BY <2>2, <2>3, <2>4
<1>16. Saved(t, stored)
  <2> SUFFICES ASSUME ~t.early
               PROVE  stored = [history |-> Centre!storedHistory(t.history), dnd |-> t.dnd]
    BY DEF Saved
  <2>1. s.history = <<>> /\ ~s.dnd
    BY <1>1, <1>2, <1>11, <1>13 DEF Unloaded
  <2>2. Centre!storedHistory(t.history) = stored.history /\ t.dnd = stored.dnd
    BY <1>3, <1>5, <1>11, <1>13, <2>1
  <2> QED
    BY <1>3, <2>2
<1> QED
  BY <1>1, <1>14, <1>15, <1>16 DEF Sound, Kept

\* The oldest entries make room for a new one.
LEMMA RoomIsMade ==
  ASSUME NEW s, Listed(s), NEW dropped,
         dropped = {s.history[i].id : i \in {i \in DOMAIN s.history : i >= historyLimit}}
  PROVE  /\ Cardinality({i \in DOMAIN s.history : s.history[i].id \notin dropped}) < historyLimit
         /\ Cardinality({i \in DOMAIN s.history : s.history[i].id \notin dropped}) \in Nat
<1> DEFINE h == s.history
           K == {i \in DOMAIN h : h[i].id \notin dropped}
<1>1. Len(h) \in Nat /\ DOMAIN h = 1..Len(h) /\ historyLimit \in Nat \ {0}
  BY HistoryFacts, ShellAssumption DEF Listed, Centre!LimitAssumption
<1>2. K \in SUBSET (1..(historyLimit - 1))
  <2> SUFFICES ASSUME NEW i \in DOMAIN h, h[i].id \notin dropped
               PROVE  i \in 1..(historyLimit - 1)
    OBVIOUS
  <2>1. ~(i >= historyLimit)
    OBVIOUS
  <2> HIDE DEF h
  <2> QED
    BY <1>1, <2>1
<1>3. /\ IsFiniteSet(1..(historyLimit - 1))
      /\ Cardinality(1..(historyLimit - 1)) =
           IF 1 > historyLimit - 1 THEN 0 ELSE (historyLimit - 1) - 1 + 1
  <2>1. 1 \in Int /\ historyLimit - 1 \in Int
    BY <1>1
  <2> QED
    BY <2>1, FS_Interval
<1>4. Cardinality(1..(historyLimit - 1)) = historyLimit - 1
  BY <1>1, <1>3
<1>5. Cardinality(K) <= Cardinality(1..(historyLimit - 1)) /\ Cardinality(K) \in Nat
  BY <1>1, <1>2, <1>3, FS_Subset, FS_CardinalityType
<1> QED
  BY <1>1, <1>4, <1>5

\* A new entry, which is read at once if the centre is open, comes before the others.
Newest(s, app) == [id |-> s.nextId, app |-> app, unread |-> ~s.menu, live |-> TRUE]
Arrived(s, app) ==
  Centre!SetHistory([s EXCEPT !.nextId = s.nextId + 1, !.early = s.early \/ ~s.loaded,
                              !.unread = IF s.menu THEN s.unread ELSE s.unread + 1],
                    <<Newest(s, app)>> \o s.history)

\* Nothing but the new entry was added.
KeptBesides(s, gone, t) ==
  /\ Kept(t, gone) /\ WillSave(s, t) /\ (GoesOn(s) => GoesOn(t))
  /\ Centre!LiveOf(t.history) = Centre!LiveOf(s.history) \cup {s.nextId}
  /\ t.queue = s.queue /\ t.current = s.current /\ t.menu = s.menu /\ t.dnd = s.dnd

\* A new entry is live, and counted unless the centre is open.
LEMMA KeptArrived ==
  ASSUME NEW s, NEW gone, Kept(s, gone), Len(s.history) < historyLimit, NEW app \in Apps
  PROVE  KeptBesides(s, gone, Arrived(s, app))
<1> DEFINE h == s.history
           entry == Newest(s, app)
           t == Arrived(s, app)
           g == <<entry>> \o h
           u == IF s.menu THEN s.unread ELSE s.unread + 1
           e == s.early \/ ~s.loaded
           a == [s EXCEPT !.nextId = s.nextId + 1, !.early = e, !.unread = u]
<1>1. /\ Listed(s) /\ Queued(s) /\ Toasts(s, gone) /\ Unloaded(s)
      /\ s \in Centre!Controllers /\ History(h)
  BY DEF Kept, Listed
<1>2. s.nextId \in Nat \ {0} /\ s.menu \in BOOLEAN /\ s.unread \in Nat /\ e \in BOOLEAN
  BY <1>1, Typed
<1>3. t = Centre!SetHistory(a, g)
  BY DEF Arrived
<1>4. /\ entry \in Centre!Entries /\ entry.id = s.nextId /\ entry.live /\ entry.unread = ~s.menu
  <2>1. (~s.menu) \in BOOLEAN
    OBVIOUS
  <2> QED
    BY <1>2, <2>1 DEF Newest, Centre!Entries, Centre!NoId
<1> HIDE DEF entry, t
<1>5. /\ g \in Seq(Centre!Entries) /\ Len(g) = Len(h) + 1 /\ g[1] = entry
      /\ \A i \in 2..(Len(h) + 1) : g[i] = h[i - 1]
  <2>1. h \in Seq(Centre!Entries)
    BY <1>1 DEF History
  <2> HIDE DEF h
  <2> QED
    BY <1>4, <2>1
<1>6. s.nextId \notin Centre!IdsOf(h) /\ \A id \in Centre!IdsOf(h) : id < s.nextId /\ id \in Nat
  <2>1. \A id \in Centre!IdsOf(h) : id < s.nextId /\ id \in Nat
    BY <1>1, HistoryFacts DEF Listed
  <2> QED
    BY <1>2, <2>1
<1> HIDE DEF g, h
<1>7. /\ History(g) /\ Centre!IdsOf(g) = Centre!IdsOf(h) \cup {s.nextId}
      /\ Centre!LiveOf(g) = Centre!LiveOf(h) \cup {s.nextId}
      /\ UnreadIds(g) = UnreadIds(h) \cup (IF s.menu THEN {} ELSE {s.nextId})
  <2>1. entry.id \notin Centre!IdsOf(h)
    BY <1>4, <1>6
  <2>2. /\ History(g) /\ Centre!IdsOf(g) = Centre!IdsOf(h) \cup {entry.id}
        /\ Centre!LiveOf(g) = Centre!LiveOf(h) \cup (IF entry.live THEN {entry.id} ELSE {})
        /\ UnreadIds(g) = UnreadIds(h) \cup (IF entry.unread THEN {entry.id} ELSE {})
    BY <1>1, <1>4, <1>5, <2>1, NewestFacts
  <2> QED
    BY <1>2, <1>4, <2>2
<1>8. u = Cardinality(UnreadIds(g)) /\ u \in Nat
  <2>1. /\ IsFiniteSet(UnreadIds(h)) /\ s.unread = Cardinality(UnreadIds(h))
        /\ UnreadIds(h) \subseteq Centre!IdsOf(h)
    BY <1>1, UnreadCounted, HistoryFacts DEF Listed, h
  <2>2. CASE s.menu
    BY <1>2, <1>7, <2>1, <2>2
  <2>3. CASE ~s.menu
    <3>1. s.nextId \notin UnreadIds(h) /\ UnreadIds(g) = UnreadIds(h) \cup {s.nextId}
      BY <1>6, <1>7, <2>1, <2>3
    <3>2. Cardinality(UnreadIds(h) \cup {s.nextId}) = Cardinality(UnreadIds(h)) + 1
      BY <2>1, <3>1, FS_AddElement
    <3> QED
      BY <1>2, <2>1, <2>3, <3>1, <3>2
  <2> QED
    BY <2>2, <2>3
<1> HIDE DEF u, e
<1>9. a \in Centre!Controllers
  <2>1. s.nextId + 1 \in Nat \ {0}
    BY <1>2
  <2>2. [s EXCEPT !.nextId = s.nextId + 1] \in Centre!Controllers
    BY <1>1, <2>1, Updates
  <2>3. [s EXCEPT !.nextId = s.nextId + 1, !.early = e] \in Centre!Controllers
    BY <1>2, <2>2, Updates
  <2> QED
    BY <1>8, <2>3, Updates
<1>10. /\ a.queue = s.queue /\ a.current = s.current /\ a.expiring = s.expiring
       /\ a.hovered = s.hovered /\ a.later = s.later /\ a.unread = u /\ a.parked = s.parked
       /\ a.saving = s.saving /\ a.menu = s.menu /\ a.dnd = s.dnd /\ a.loaded = s.loaded
       /\ a.early = e /\ a.nextId = s.nextId + 1
  BY <1>1, SMT DEF Centre!Controllers
<1> HIDE DEF a
<1>11. /\ t \in Centre!Controllers /\ t.history = g /\ t.saving = (a.saving \/ a.loaded)
       /\ t.queue = a.queue /\ t.current = a.current /\ t.expiring = a.expiring
       /\ t.later = a.later /\ t.unread = a.unread /\ t.parked = a.parked
       /\ SameMode(a, t)
  BY <1>3, <1>5, <1>9, SetHistoryFields
<1>12. Listed(t)
  <2>1. t.nextId = s.nextId + 1 /\ t.unread = u
    BY <1>10, <1>11 DEF SameMode
  <2>2. \A id \in Centre!IdsOf(g) : id < t.nextId
    BY <1>2, <1>6, <1>7, <2>1
  <2>3. Len(g) <= historyLimit
    <3>1. Len(h) < historyLimit /\ historyLimit \in Nat /\ Len(h) \in Nat
      BY <1>1, HistoryFacts, ShellAssumption DEF Centre!LimitAssumption, h
    <3> QED
      BY <1>5, <3>1
  <2> QED
    BY <1>7, <1>8, <1>11, <2>1, <2>2, <2>3 DEF Listed
<1>13. /\ Centre!LiveOf(t.history) = Centre!LiveOf(h) \cup {s.nextId} /\ t.queue = s.queue
       /\ t.current = s.current /\ t.menu = s.menu /\ t.dnd = s.dnd /\ t.parked = s.parked
       /\ t.expiring = s.expiring /\ t.hovered = s.hovered /\ t.later = s.later
       /\ t.loaded = s.loaded /\ t.early = e /\ t.saving = (s.saving \/ s.loaded)
  BY <1>7, <1>10, <1>11 DEF SameMode
<1>14. Queued(t) /\ Toasts(t, gone)
  <2>1. Toasts(t, gone)
    BY <1>1, <1>13 DEF Toasts, h
  <2>2. \A i \in DOMAIN t.queue : t.queue[i] \in Centre!LiveOf(t.history) \ {t.current}
    BY <1>1, <1>13 DEF Queued, h
  <2>3. \A i, j \in DOMAIN t.queue : t.queue[i] = t.queue[j] => i = j
    <3>1. \A i, j \in DOMAIN s.queue : s.queue[i] = s.queue[j] => i = j
      BY <1>1, Zenon DEF Queued
    <3>2. t.queue = s.queue
      BY <1>13
    <3> QED
      BY <3>1, <3>2
  <2>4. (t.dnd => t.queue = <<>>) /\ (t.menu /\ t.queue # <<>> => t.parked)
    BY <1>1, <1>13 DEF Queued
  <2> QED
    BY <2>1, <2>2, <2>3, <2>4 DEF Queued
<1>15. Unloaded(t) /\ WillSave(s, t) /\ (GoesOn(s) => GoesOn(t))
  BY <1>1, <1>13 DEF Unloaded, WillSave, GoesOn, e
<1> QED
  BY <1>12, <1>13, <1>14, <1>15 DEF Kept, KeptBesides, h, t

\* A toast is put at the end of the queue.
LEMMA KeptQueued ==
  ASSUME NEW s, Kept(s, {}), ~s.dnd, ~s.menu, NEW id \in Centre!LiveOf(s.history),
         id # s.current, \A i \in DOMAIN s.queue : s.queue[i] # id,
         NEW t, t = [s EXCEPT !.queue = Append(s.queue, id)]
  PROVE  Kept(t, {}) /\ SameStore(s, t)
<1> DEFINE q == s.queue
           r == Append(q, id)
<1>1. /\ Listed(s) /\ Queued(s) /\ Toasts(s, {}) /\ Unloaded(s)
      /\ s \in Centre!Controllers /\ q \in Seq(Nat) /\ id \in Nat
  <2>1. Listed(s) /\ Queued(s) /\ Toasts(s, {}) /\ Unloaded(s) /\ s \in Centre!Controllers
    BY DEF Kept, Listed
  <2>2. id \in Nat
    BY <2>1, HistoryFacts DEF Listed
  <2> QED
    BY <2>1, <2>2, Typed
<1>2. /\ r \in Seq(Nat) /\ DOMAIN r = DOMAIN q \cup {Len(q) + 1}
      /\ r[Len(q) + 1] = id /\ \A i \in DOMAIN q : r[i] = q[i]
  <2> HIDE DEF q
  <2> QED
    BY <1>1
<1> HIDE DEF r
<1>3. t \in Centre!Controllers
  BY <1>1, <1>2, Updates DEF r
<1>4. /\ t.history = s.history /\ t.queue = r /\ t.current = s.current
      /\ t.expiring = s.expiring /\ t.hovered = s.hovered /\ t.later = s.later
      /\ t.unread = s.unread /\ t.parked = s.parked /\ t.saving = s.saving /\ t.menu = s.menu
      /\ t.dnd = s.dnd /\ t.loaded = s.loaded /\ t.early = s.early /\ t.nextId = s.nextId
  BY <1>1, SMT DEF Centre!Controllers, r
<1>5. Listed(t) /\ Toasts(t, {}) /\ Unloaded(t)
  BY <1>1, <1>3, <1>4 DEF Listed, Toasts, Unloaded
<1>6. Queued(t)
  <2>1. \A i \in DOMAIN q : q[i] \in Centre!LiveOf(s.history) \ {s.current}
    BY <1>1, Zenon DEF Queued
  <2>2. \A i, j \in DOMAIN q : q[i] = q[j] => i = j
    BY <1>1, Zenon DEF Queued
  <2>3. \A i \in DOMAIN r : r[i] \in Centre!LiveOf(s.history) \ {s.current}
    BY <1>2, <2>1
  <2>4. \A i, j \in DOMAIN r : r[i] = r[j] => i = j
    BY <1>2, <2>2
  <2> QED
    BY <1>4, <2>3, <2>4 DEF Queued
<1> QED
  BY <1>4, <1>5, <1>6 DEF Kept, SameStore

\* A notification arrives; what no longer fits expires, and calls back.
LEMMA displayNotificationStep ==
  ASSUME Sound(controller, stored), NEW app \in Apps, Centre!displayNotification(app)
  PROVE  Sound(controller', stored')
<1> DEFINE s == controller
           n == s.nextId
           dropped == {s.history[i].id : i \in {i \in DOMAIN s.history : i >= historyLimit}}
           gone == dropped \cap Centre!LiveOf(s.history)
           entry == [id |-> n, app |-> app, unread |-> ~s.menu, live |-> TRUE]
           rest == Centre!Without(s, dropped)
           next == [rest EXCEPT !.nextId = rest.nextId + 1, !.early = rest.early \/ ~s.loaded,
                                !.unread = IF s.menu THEN rest.unread ELSE rest.unread + 1]
           all == Centre!SetHistory(next, <<entry>> \o rest.history)
           kept == Centre!handleNotificationClosed(all, gone)
           more == [kept EXCEPT !.queue = Append(kept.queue, n)]
<1>1. /\ controller' = IF s.dnd \/ s.menu THEN kept ELSE Centre!showNextToast(more)
      /\ stored' = stored
  <2>1. more = [kept EXCEPT !.queue = Append(kept.queue, entry.id)]
    OBVIOUS
  <2> QED
    BY <2>1, Zenon DEF Centre!displayNotification
<1>2. /\ Kept(s, {}) /\ GoesOn(s) /\ Listed(s) /\ Toasts(s, {})
      /\ s \in Centre!Controllers /\ History(s.history)
  BY SoundFacts
<1>3. /\ n \in Nat \ {0} /\ n \notin Centre!IdsOf(s.history)
      /\ \A id \in Centre!LiveOf(s.history) : id # n
      /\ dropped \subseteq Centre!IdsOf(s.history)
  <2>1. n \in Nat \ {0}
    BY <1>2, Typed
  <2>2. /\ \A id \in Centre!IdsOf(s.history) : id < n /\ id \in Nat
        /\ Centre!LiveOf(s.history) \subseteq Centre!IdsOf(s.history)
    BY <1>2, HistoryFacts DEF Listed
  <2>3. dropped \subseteq Centre!IdsOf(s.history)
    BY DEF Centre!IdsOf
  <2> HIDE DEF n, dropped
  <2> QED
    BY <2>1, <2>2, <2>3
<1>4. /\ Cardinality({i \in DOMAIN s.history : s.history[i].id \notin dropped}) < historyLimit
      /\ Cardinality({i \in DOMAIN s.history : s.history[i].id \notin dropped}) \in Nat
  BY <1>2, RoomIsMade
<1> HIDE DEF s, n, dropped
<1>5. Kept(rest, gone) /\ WillSave(s, rest) /\ (GoesOn(s) => GoesOn(rest))
  BY <1>2, KeptWithout
<1>6. /\ Centre!LiveOf(rest.history) = Centre!LiveOf(s.history) \ dropped
      /\ Len(rest.history) < historyLimit /\ rest.current = s.current /\ SameMode(s, rest)
  <2>1. LeftOf(s, dropped, rest)
    BY <1>2, WithoutFields
  <2> HIDE DEF rest
  <2> QED
    BY <1>4, <2>1 DEF LeftOf
<1> HIDE DEF rest
<1>7. /\ rest.nextId = n /\ rest.menu = s.menu /\ rest.loaded = s.loaded /\ rest.dnd = s.dnd
  BY <1>6 DEF SameMode, n
<1>8. all = Arrived(rest, app)
  <2>1. entry = Newest(rest, app)
    BY <1>7 DEF Newest
  <2>2. next = [rest EXCEPT !.nextId = rest.nextId + 1, !.early = rest.early \/ ~rest.loaded,
                            !.unread = IF rest.menu THEN rest.unread ELSE rest.unread + 1]
    BY <1>7, Zenon
  <2> HIDE DEF entry, next
  <2> QED
    BY <2>1, <2>2, Zenon DEF Arrived
<1> HIDE DEF entry, next, gone, all
<1>9. KeptBesides(rest, gone, all)
  BY <1>5, <1>6, <1>8, KeptArrived
<1>10. Kept(all, gone) /\ WillSave(rest, all) /\ (GoesOn(rest) => GoesOn(all))
  BY <1>9 DEF KeptBesides
<1>11. /\ Centre!LiveOf(all.history) = Centre!LiveOf(rest.history) \cup {n}
       /\ all.queue = rest.queue /\ all.current = s.current /\ all.menu = s.menu /\ all.dnd = s.dnd
  BY <1>6, <1>7, <1>9 DEF KeptBesides
<1>12. Kept(kept, {}) /\ WillSave(all, kept) /\ (GoesOn(all) => GoesOn(kept))
  BY <1>10, KeptClosed
<1>13. /\ kept.queue = Centre!removeQueuedEntry(all.queue, gone)
       /\ Centre!LiveOf(kept.history) = Centre!LiveOf(all.history) \ gone
       /\ kept.current = s.current \/ kept.current = 0
       /\ kept.menu = s.menu /\ kept.dnd = s.dnd
  <2>1. Listed(all)
    BY <1>10 DEF Kept
  <2>2. kept.queue = Centre!removeQueuedEntry(all.queue, gone)
    BY <2>1, ClosedFields
  <2>3. Centre!LiveOf(kept.history) = Centre!LiveOf(all.history) \ gone
    BY <2>1, ClosedFields
  <2>4. IF all.current \in gone THEN kept.current = 0 /\ kept.later
        ELSE kept.current = all.current /\ kept.later = all.later /\ kept.expiring = all.expiring
    BY <2>1, ClosedFields
  <2>5. SameMode(all, kept)
    BY <2>1, ClosedFields
  <2> HIDE DEF kept
  <2> QED
    BY <1>11, <2>2, <2>3, <2>4, <2>5 DEF SameMode
<1> HIDE DEF kept
<1>14. Saved(kept, stored)
  BY <1>12, SavedLater
<1>15. CASE s.dnd \/ s.menu
  <2>1. controller' = kept
    BY <1>1, <1>15, Zenon
  <2> QED
    BY <1>1, <1>2, <1>5, <1>10, <1>12, <1>14, <2>1 DEF Sound
<1>16. CASE ~(s.dnd \/ s.menu)
  <2>1. controller' = Centre!showNextToast(more)
    BY <1>1, <1>16, Zenon
  <2>2. n \in Centre!LiveOf(kept.history)
    BY <1>3, <1>11, <1>13 DEF gone
  <2>3. n # kept.current
    BY <1>2, <1>3, <1>13 DEF Toasts
  <2>4. \A i \in DOMAIN kept.queue : kept.queue[i] # n
    <3> SUFFICES ASSUME NEW i \in DOMAIN kept.queue, kept.queue[i] = n PROVE FALSE
      OBVIOUS
    <3>1. all.queue \in Seq(Nat) /\ \A j \in DOMAIN rest.queue : rest.queue[j] \in Centre!LiveOf(rest.history)
      BY <1>5, <1>10, Typed DEF Kept, Listed, Queued
    <3>2. \A a \in DOMAIN kept.queue : \E j \in DOMAIN all.queue :
            kept.queue[a] = all.queue[j] /\ all.queue[j] \notin gone
      BY <1>13, <3>1, QueueLeft
    <3>3. PICK j \in DOMAIN rest.queue : n = rest.queue[j]
      BY <1>11, <3>2
    <3>4. n \in Centre!LiveOf(s.history)
      BY <1>6, <3>1, <3>3
    <3> QED
      BY <1>3, <3>4
  <2>5. Kept(more, {}) /\ SameStore(kept, more)
    BY <1>12, <1>13, <1>16, <2>2, <2>3, <2>4, KeptQueued
  <2> HIDE DEF more
  <2>6. Saved(more, stored)
    BY <1>14, <2>5, SavedStill
  <2> QED
    BY <1>1, <2>1, <2>5, <2>6, SoundShown
<1> QED
  BY <1>15, <1>16

\* What is kept between shells is typed, and handlers and deaths are counted.
LEMMA KeptBetween ==
  ASSUME Sound(controller, stored), Backed(stored), Bounded, Centre!Next
  PROVE  Backed(stored') /\ Bounded'
<1>1. stored' = stored \/ Centre!saveStore
  BY DEF Centre!Next, Centre!displayNotification, Centre!removeGroup, Centre!Withdrawn,
         Centre!DeleteEntry, Centre!InvokeHistoryAction, Centre!refreshNotification, Centre!Later,
         Centre!closeToast, Centre!setMenuOpen, Centre!ActivateToast, Centre!Hover,
         Centre!ToggleDnd, Centre!clearHistory, Centre!applyStored, Centre!Restart, Centre!Becomes
<1>2. Backed(stored')
  BY <1>1, saveStoreStep
<1>3. /\ notices' = notices \/ (notices < MaxNotices /\ notices' = notices + 1)
      /\ restarts' = restarts \/ (restarts < MaxRestarts /\ restarts' = restarts + 1)
  BY DEF Centre!Next, Centre!displayNotification, Centre!removeGroup, Centre!Withdrawn,
         Centre!DeleteEntry, Centre!InvokeHistoryAction, Centre!refreshNotification, Centre!Later,
         Centre!closeToast, Centre!setMenuOpen, Centre!ActivateToast, Centre!Hover, Centre!saveStore,
         Centre!ToggleDnd, Centre!clearHistory, Centre!applyStored, Centre!Restart, Centre!Becomes
<1>4. Bounded'
  BY <1>3, ShellAssumption DEF Bounded, Centre!NoticesAssumption
<1> QED
  BY <1>2, <1>4

\* The centre begins with what is inductive.
LEMMA CentreInit == Centre!Init => Centre!IInv
<1> SUFFICES ASSUME Centre!Init PROVE Centre!IInv
  OBVIOUS
<1>1. Sound(controller, stored)
  BY NewIsSound DEF Centre!Init
<1>2. Backed(stored)
  <2>1. <<>> \in Seq(Centre!Records) /\ Len(<<>>) = 0 /\ historyLimit >= 0
    BY ShellAssumption DEF Centre!LimitAssumption
  <2>2. stored = [history |-> <<>>, dnd |-> FALSE]
    BY DEF Centre!Init, Centre!Blank
  <2> QED
    BY <2>1, <2>2 DEF Backed
<1>3. Bounded
  BY ShellAssumption DEF Centre!Init, Centre!NoticesAssumption, Bounded
<1> QED
  BY <1>1, <1>2, <1>3, CentreParts

\* Every handler of the centre keeps it.
LEMMA CentreNext == Centre!IInv /\ Centre!Next => Centre!IInv'
<1> SUFFICES ASSUME Centre!IInv, Centre!Next PROVE Centre!IInv'
  OBVIOUS
<1>1. Sound(controller, stored) /\ Backed(stored) /\ Bounded
  BY CentreParts
<1>2. Sound(controller', stored')
  <2>1. ASSUME NEW app \in Apps, Centre!displayNotification(app) PROVE Sound(controller', stored')
    BY <1>1, <2>1, displayNotificationStep
  <2>2. ASSUME NEW app \in Apps, Centre!removeGroup(app) PROVE Sound(controller', stored')
    BY <1>1, <2>2, removeGroupStep
  <2>3. ASSUME NEW id, Centre!Withdrawn(id) PROVE Sound(controller', stored')
    BY <1>1, <2>3, WithdrawnStep
  <2>4. ASSUME NEW id, Centre!DeleteEntry(id) PROVE Sound(controller', stored')
    BY <1>1, <2>4, DeleteEntryStep
  <2>5. ASSUME NEW id, Centre!InvokeHistoryAction(id) PROVE Sound(controller', stored')
    BY <1>1, <2>5, InvokeHistoryActionStep
  <2>6. ASSUME NEW id, NEW app \in Apps, Centre!refreshNotification(id, app)
        PROVE  Sound(controller', stored')
    BY <1>1, <2>6, refreshNotificationStep
  <2>7. ASSUME Centre!Later PROVE Sound(controller', stored')
    BY <1>1, <2>7, LaterStep
  <2>8. ASSUME NEW choice, Centre!closeToast(choice) PROVE Sound(controller', stored')
    BY <1>1, <2>8, closeToastStep
  <2>9. ASSUME NEW choice, Centre!setMenuOpen(choice) PROVE Sound(controller', stored')
    BY <1>1, <2>9, setMenuOpenStep
  <2>10. ASSUME Centre!ActivateToast PROVE Sound(controller', stored')
    BY <1>1, <2>10, ActivateToastStep
  <2>11. ASSUME Centre!Hover PROVE Sound(controller', stored')
    BY <1>1, <2>11, HoverStep
  <2>12. ASSUME Centre!ToggleDnd PROVE Sound(controller', stored')
    BY <1>1, <2>12, ToggleDndStep
  <2>13. ASSUME Centre!clearHistory PROVE Sound(controller', stored')
    BY <1>1, <2>13, clearHistoryStep
  <2>14. ASSUME Centre!applyStored PROVE Sound(controller', stored')
    BY <1>1, <2>14, applyStoredStep
  <2>15. ASSUME Centre!saveStore PROVE Sound(controller', stored')
    BY <1>1, <2>15, saveStoreStep
  <2>16. ASSUME Centre!Restart PROVE Sound(controller', stored')
    BY <2>16, NewIsSound DEF Centre!Restart
  <2> QED
    BY <2>1, <2>2, <2>3, <2>4, <2>5, <2>6, <2>7, <2>8, <2>9, <2>10, <2>11, <2>12, <2>13,
       <2>14, <2>15, <2>16 DEF Centre!Next
<1>3. Backed(stored') /\ Bounded'
  BY <1>1, KeptBetween
<1>4. (Sound(controller, stored) /\ Backed(stored) /\ Bounded)' => Centre!IInv'
  BY CentreParts, PTL
<1> QED
  BY <1>2, <1>3, <1>4

\* So does every step that is not the centre's.
LEMMA CentreStill == Centre!IInv /\ UNCHANGED centre => Centre!IInv'
<1>1. ASSUME Sound(controller, stored), Backed(stored), Bounded, UNCHANGED centre
      PROVE  Sound(controller', stored') /\ Backed(stored') /\ Bounded'
  BY <1>1 DEF centre, Bounded
<1>2. (Sound(controller, stored) /\ Backed(stored) /\ Bounded)' => Centre!IInv'
  BY CentreParts, PTL
<1> QED
  BY <1>1, <1>2, CentreParts

\* However many notifications arrive, are replaced, expire, are acted on, withdrawn or
\* dropped at the limit, with the callbacks that run inside the handlers closing them
\* (NotificationsController.qml:293-345, 366-383, 437-448): the badge counts the unread
\* entries, every toast shown or waiting is of an entry that can still be acted on, the
\* queue goes on, and what is in the history is stored or about to be.
THEOREM CentreIsSound == ShellSpec => []CentreInv
<1> DEFINE Inv == component = "centre" => Centre!IInv
<1>1. ShellInit => Inv
  BY CentreInit DEF ShellInit
<1>2. Inv /\ [ShellNext]_<<component, vars, centre>> => Inv'
  <2>1. ASSUME Inv, ShellNext PROVE Inv'
    BY <2>1, CentreNext, CentreStill DEF ShellNext, One
  <2>2. ASSUME Inv, UNCHANGED <<component, vars, centre>> PROVE Inv'
    BY <2>2, CentreStill
  <2> QED
    BY <2>1, <2>2
<1>3. Inv => CentreInv
  BY DEF CentreInv, Centre!IInv
<1> QED
  BY <1>1, <1>2, <1>3, PTL DEF ShellSpec
================================================================================
