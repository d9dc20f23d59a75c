---------------------------- MODULE Notifications ----------------------------
(***************************************************************************)
(* The notification centre of the shell (NotificationsController.qml, with *)
(* the toast's wiring in NotificationsHost.qml): the history, its unread   *)
(* count, the queue of toasts, and the history kept for the next shell.    *)
(*                                                                         *)
(* QML runs on one thread, but a handler that closes a notification is     *)
(* called back in the middle, by the closed signal, and changes the same   *)
(* lists.  A handler is therefore written as an operator from a state of   *)
(* the controller to the next, which calls the others where the code does. *)
(* Quickshell's notification server is external: closing a notification,   *)
(* by whomever, emits its signal at once, and an action of one that is not *)
(* resident closes it.                                                     *)
(***************************************************************************)
EXTENDS Naturals, Sequences, FiniteSets, Positions

CONSTANTS Apps,         \* who sends notifications
          Resident,     \* those whose notifications stay when acted on
          historyLimit, \* entries kept
          MaxNotices,   \* bound: notifications sent or replaced
          MaxRestarts   \* bound: deaths of the shell

AppsAssumption == Resident \subseteq Apps
LimitAssumption == historyLimit \in Nat \ {0}
NoticesAssumption == MaxNotices \in Nat /\ MaxRestarts \in Nat

VARIABLES c,        \* the controller
          stored,   \* the history and the dnd kept in the runtime directory
          notices,  \* notifications sent or replaced so far
          restarts  \* deaths so far

vars == <<c, stored, notices, restarts>>

\* No entry.
NoId == 0

Blank == [history |-> <<>>, dnd |-> FALSE]

\* current is the entry the toast shows, expiring its timer, later a showNextToast
\* that has been put off, saving the timer of the next save.  Two fields are history:
\* parked, that the centre was opened over a queue no toast was shown from, and early,
\* that something came before the stored history, and has not been saved since.
New == [history |-> <<>>, queue |-> <<>>, current |-> NoId, expiring |-> FALSE,
        hovered |-> FALSE, later |-> FALSE, unread |-> 0, nextId |-> 1,
        menu |-> FALSE, dnd |-> FALSE, loaded |-> FALSE, saving |-> FALSE,
        parked |-> FALSE, early |-> FALSE]

Init ==
  /\ c = New
  /\ stored = Blank
  /\ notices = 0 /\ restarts = 0

-----------------------------------------------------------------------------
(* Parts of handlers.                                                       *)

Less(n, k) == IF n < k THEN 0 ELSE n - k

IdsOf(h)    == {h[i].id : i \in DOMAIN h}
LiveOf(h)   == {h[i].id : i \in {i \in DOMAIN h : h[i].live}}
UnreadAt(h) == {i \in DOMAIN h : h[i].unread}
UnreadOf(h) == Cardinality(UnreadAt(h))

Entry(h, id) == h[CHOOSE i \in DOMAIN h : h[i].id = id]

\* Each new history is saved in a while, once the stored one is there.
SetHistory(s, entries) == [s EXCEPT !.history = entries, !.saving = @ \/ s.loaded]

\* Some entries become read, or lose their notification.
Read(h, ids) == [i \in DOMAIN h |-> [h[i] EXCEPT !.unread = @ /\ h[i].id \notin ids]]
Dead(h, ids) == [i \in DOMAIN h |-> [h[i] EXCEPT !.live = @ /\ h[i].id \notin ids]]

removeQueuedEntry(queue, ids) == Picked(queue, {i \in DOMAIN queue : queue[i] \notin ids})

clearCurrentToast(s) == [s EXCEPT !.current = NoId, !.expiring = FALSE]

\* The first in the queue that is still open; those before it are dropped.
showNextToast(s) ==
  LET open == {i \in DOMAIN s.queue : s.queue[i] \in LiveOf(s.history)}
      i == CHOOSE i \in open : \A j \in open : i <= j
  IN IF s.current # NoId \/ s.menu \/ s.dnd THEN s
     ELSE IF open = {} THEN [s EXCEPT !.queue = <<>>, !.parked = FALSE]
     ELSE [s EXCEPT !.queue = SubSeq(@, i + 1, Len(@)), !.current = s.queue[i],
                    !.expiring = TRUE, !.parked = FALSE]

\* Mutant: after a toast that was closed from outside none follows.
handleNotificationClosedAlone(s, ids) ==
  LET t == IF s.current \in ids THEN clearCurrentToast(s) ELSE s
  IN SetHistory([t EXCEPT !.queue = removeQueuedEntry(@, ids)], Dead(s.history, ids))

\* The closed signal, whoever the notification was closed by; where several are closed
\* it comes for each of them, in whatever order.
handleNotificationClosed(s, ids) ==
  LET t == IF s.current \in ids THEN [clearCurrentToast(s) EXCEPT !.later = TRUE] ELSE s
  IN SetHistory([t EXCEPT !.queue = removeQueuedEntry(@, ids)], Dead(s.history, ids))

\* Entries leave the history: their unread marks and their toasts go with them.
Without(s, ids) ==
  LET gone == {i \in DOMAIN s.history : s.history[i].id \in ids}
  IN SetHistory([s EXCEPT !.unread = Less(@, Cardinality(gone \cap UnreadAt(s.history))),
                          !.queue = removeQueuedEntry(@, ids)],
                Picked(s.history, DOMAIN s.history \ gone))

\* Those that still have a notification are closed, each of which calls back.
removeAndClose(s, ids) ==
  handleNotificationClosed(Without(s, ids), ids \cap LiveOf(s.history))

\* A resident notification stays, read; another leaves the history and is closed.
invokeEntryAction(s, id) ==
  IF Entry(s.history, id).app \notin Resident
    THEN handleNotificationClosed(Without(s, {id}), {id})
  ELSE IF Entry(s.history, id).unread
    THEN SetHistory([s EXCEPT !.unread = Less(@, 1)], Read(s.history, {id}))
  ELSE s

Becomes(s) == c' = s /\ UNCHANGED <<stored, notices, restarts>>

-----------------------------------------------------------------------------
(* Notifications arrive, change and are withdrawn.                          *)

\* The newest comes first; what no longer fits expires.
displayNotification(app) ==
  /\ notices < MaxNotices /\ notices' = notices + 1
  /\ LET entry == [id |-> c.nextId, app |-> app, unread |-> ~c.menu, live |-> TRUE]
         dropped == {c.history[i].id : i \in {i \in DOMAIN c.history : i >= historyLimit}}
         rest == Without(c, dropped)
         all == SetHistory([rest EXCEPT !.nextId = @ + 1, !.early = @ \/ ~c.loaded,
                                        !.unread = IF c.menu THEN @ ELSE @ + 1],
                           <<entry>> \o rest.history)
         kept == handleNotificationClosed(all, dropped \cap LiveOf(c.history))
     IN c' = IF c.dnd \/ c.menu THEN kept
             ELSE showNextToast([kept EXCEPT !.queue = Append(@, entry.id)])
  /\ UNCHANGED <<stored, restarts>>

\* The sender puts something else in its place; the entry is read again.
refreshNotification(id, app) ==
  /\ notices < MaxNotices /\ notices' = notices + 1
  /\ id \in LiveOf(c.history)
  /\ c' = SetHistory([c EXCEPT !.early = @ \/ ~c.loaded],
                     [i \in DOMAIN c.history |->
                        [c.history[i] EXCEPT !.app = IF c.history[i].id = id THEN app ELSE @]])
  /\ UNCHANGED <<stored, restarts>>

Withdrawn(id) ==
  /\ id \in LiveOf(c.history)
  /\ Becomes(handleNotificationClosed(c, {id}))

\* Qt.callLater(showNextToast).
Later ==
  /\ c.later
  /\ Becomes(showNextToast([c EXCEPT !.later = FALSE]))

-----------------------------------------------------------------------------
(* The toast.                                                               *)

\* Its time is over, or it is clicked away.
closeToast(explicitClose) ==
  /\ c.current # NoId /\ (explicitClose \/ c.expiring)
  /\ LET s == clearCurrentToast(c) IN
       Becomes(showNextToast(
         IF explicitClose THEN removeAndClose(s, {c.current})
         ELSE IF Entry(c.history, c.current).app \in Resident THEN s
         ELSE handleNotificationClosed(s, {c.current})))

\* activateNotification, activateCurrentAction.
ActivateToast ==
  /\ c.current # NoId
  /\ Becomes(showNextToast(invokeEntryAction(clearCurrentToast(c), c.current)))

\* pauseToastTimer, resumeToastTimer.
Hover ==
  Becomes([c EXCEPT !.hovered = ~@,
                    !.expiring = IF c.hovered THEN @ \/ c.current # NoId ELSE FALSE])

-----------------------------------------------------------------------------
(* The centre.                                                              *)

\* Opening it reads everything and hides the toast that is there.
setMenuOpen(open) ==
  /\ open # c.menu
  /\ Becomes(
       IF ~open THEN [c EXCEPT !.menu = FALSE]
       ELSE LET s == SetHistory([c EXCEPT !.menu = TRUE, !.unread = 0],
                                Read(c.history, IdsOf(c.history)))
            IN IF c.current # NoId THEN [clearCurrentToast(s) EXCEPT !.queue = <<>>]
               ELSE [s EXCEPT !.parked = c.queue # <<>>])

SetDnd(s, dnd) ==
  [s EXCEPT !.dnd = dnd, !.queue = IF dnd THEN <<>> ELSE @, !.saving = @ \/ s.loaded]

ToggleDnd == Becomes(SetDnd([c EXCEPT !.early = @ \/ ~c.loaded], ~c.dnd))

DeleteEntry(id) == Becomes(removeAndClose(c, {id}))

\* activateHistoryEntry, invokeHistoryAction; an entry that was closed has no actions.
InvokeHistoryAction(id) ==
  /\ id \in LiveOf(c.history)
  /\ Becomes(invokeEntryAction(c, id))

removeGroup(app) ==
  LET gone == {c.history[i].id : i \in {i \in DOMAIN c.history : c.history[i].app = app}}
      s == IF c.current \in gone THEN clearCurrentToast(c) ELSE c
  IN /\ gone # {}
     /\ Becomes(showNextToast(removeAndClose(s, gone)))

clearHistory ==
  LET s == [clearCurrentToast(c) EXCEPT !.queue = <<>>, !.unread = 0] IN
    Becomes(handleNotificationClosed(SetHistory(s, <<>>), LiveOf(c.history)))

-----------------------------------------------------------------------------
(* What outlives the shell.                                                 *)

storedHistory(entries) ==
  [i \in DOMAIN entries |-> [app |-> entries[i].app, unread |-> entries[i].unread]]

\* A closed notification is all that is left of an entry of an earlier shell.
restoredHistory(records, from) ==
  [i \in DOMAIN records |-> [id |-> from + i - 1, app |-> records[i].app,
                             unread |-> records[i].unread, live |-> FALSE]]

\* The stored history is read, or there is none; what has come already stands before it.
applyStored ==
  /\ ~c.loaded
  /\ LET all == c.history \o restoredHistory(stored.history, c.nextId)
         merged == SubSeq(all, 1, IF Len(all) < historyLimit THEN Len(all) ELSE historyLimit)
         s == [SetHistory(c, merged) EXCEPT !.unread = UnreadOf(merged),
                                            !.nextId = @ + Len(stored.history)]
     IN Becomes([(IF stored.dnd THEN SetDnd(s, TRUE) ELSE s) EXCEPT !.loaded = TRUE])

saveStore ==
  /\ c.saving
  /\ stored' = [history |-> storedHistory(c.history), dnd |-> c.dnd]
  /\ c' = [c EXCEPT !.saving = FALSE, !.early = FALSE]
  /\ UNCHANGED <<notices, restarts>>

\* The shell dies and is started again; Quickshell keeps no notification for it.
Restart ==
  /\ restarts < MaxRestarts /\ restarts' = restarts + 1
  /\ c' = New
  /\ UNCHANGED <<stored, notices>>

Next ==
  \/ \E app \in Apps : displayNotification(app) \/ removeGroup(app)
  \/ \E id \in IdsOf(c.history) :
       \/ Withdrawn(id) \/ DeleteEntry(id) \/ InvokeHistoryAction(id)
       \/ \E app \in Apps \ {Entry(c.history, id).app} : refreshNotification(id, app)
  \/ Later
  \/ \E choice \in BOOLEAN : closeToast(choice) \/ setMenuOpen(choice)
  \/ ActivateToast \/ Hover \/ ToggleDnd
  \/ clearHistory
  \/ applyStored \/ saveStore \/ Restart

Spec == Init /\ [][Next]_vars

-----------------------------------------------------------------------------
(* Properties.                                                              *)

\* The badge is the number of unread entries.
CountIsUnread == c.unread = UnreadOf(c.history)

OneEach(h) == \A i, j \in DOMAIN h : h[i].id = h[j].id => i = j

\* What is to be shown, or shown, is an entry of the history that can still be acted on,
\* once; no toast is shown over the centre.
ToastsAreLive ==
  /\ Len(c.history) <= historyLimit /\ OneEach(c.history)
  /\ \A i \in DOMAIN c.queue : c.queue[i] \in LiveOf(c.history) \ {c.current}
  /\ \A i, j \in DOMAIN c.queue : c.queue[i] = c.queue[j] => i = j
  /\ c.current \in LiveOf(c.history) \cup {NoId}
  /\ c.menu => c.current = NoId

\* The queue does not stand still, and neither does a toast nobody points at; the
\* exception is a queue the centre was opened over when nothing was shown from it,
\* which waits for the next notification.
ToastsGoOn ==
  /\ c.queue # <<>> /\ c.current = NoId => c.later \/ c.parked
  /\ c.current # NoId => c.expiring \/ c.hovered

\* What is in the history, and dnd, outlives the shell: it is stored, or about to be.
\* What came before the stored history was read is only stored with the next change.
StoredOrSaving ==
  c.loaded /\ ~c.early => c.saving \/ stored = [history |-> storedHistory(c.history), dnd |-> c.dnd]

\* However toasts expire, are clicked, withdrawn, dropped at the limit or hidden by the
\* centre while a callback runs inside the handler that closes them: the badge counts
\* what is unread, nothing dead is shown or waits to be, the queue goes on, and the
\* next shell has the history (NotificationsController.qml:25-29).
NotificationsInv == CountIsUnread /\ ToastsAreLive /\ ToastsGoOn /\ StoredOrSaving

-----------------------------------------------------------------------------
(* What is inductive.                                                        *)

Entries == [id : Nat \ {NoId}, app : Apps, unread : BOOLEAN, live : BOOLEAN]
Records == [app : Apps, unread : BOOLEAN]
Controllers ==
  [history : Seq(Entries), queue : Seq(Nat), current : Nat, expiring : BOOLEAN,
   hovered : BOOLEAN, later : BOOLEAN, unread : Nat, nextId : Nat \ {NoId},
   menu : BOOLEAN, dnd : BOOLEAN, loaded : BOOLEAN, saving : BOOLEAN,
   parked : BOOLEAN, early : BOOLEAN]

TypeOK ==
  /\ c \in Controllers
  /\ stored \in [history : Seq(Records), dnd : BOOLEAN]
  /\ notices \in 0..MaxNotices /\ restarts \in 0..MaxRestarts

\* The next number has not been given, so that a new entry is told from every other.
Numbered == \A id \in IdsOf(c.history) : id < c.nextId

\* Nothing waits while nothing may be shown, but for the queue the centre was opened over.
QueueIsShown == (c.dnd => c.queue = <<>>) /\ (c.menu /\ c.queue # <<>> => c.parked)

\* Nothing is saved before the stored history is read, and only what came early is
\* there besides; no more is stored than a history holds.
NothingLost ==
  /\ Len(stored.history) <= historyLimit
  /\ ~c.loaded => ~c.saving /\ (c.early \/ (c.history = <<>> /\ ~c.dnd))

IInv == TypeOK /\ Numbered /\ QueueIsShown /\ NothingLost /\ NotificationsInv
=============================================================================
