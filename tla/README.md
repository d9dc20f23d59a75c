# Vellum Shell: TLA+ specifications

Vellum Shell is a desktop shell for Hyprland. It consists of a Rust daemon
(`backend/`, `vellum-backend daemon`), a Quickshell program in QML
(`shell.qml`, `core/`, `features/`, `app/`, `ui/`), a lock screen, a greeter, and
shell scripts. The daemon owns the system state; the QML side shows it and sends
requests over a Unix socket, one JSON object per line.

This directory models the concurrent core of that program, its stores and some of its
algorithms. Each module says in its
header which source files it stands for; every definition that models code is
listed with its lines in `PROJECT.json` under `map`.

Contents: [1 the system](#1-the-system), [2 the modules](#2-the-modules),
[3 the runs](#3-the-runs), [4 bounds](#4-bounds-and-why-they-are-enough),
[5 fairness](#5-fairness), [6 proofs](#6-what-is-proved),
[7 findings](#7-findings), [8 what is not modelled](#8-what-is-not-modelled),
[9 the plan](#9-the-plan).

## 1 The system

### Inventory

The daemon runs on a single-threaded tokio runtime (`main.rs:180`): a step is what a
task does between two `await`s. Blocking work (`spawn_blocking`) and a few threads of
its own (the Wayland clipboard, child processes) run in parallel with it.

**Hub** (`ipc/hub.rs`). *State*: `runtimes` (per topic: `subscribers`, the loop's task
handle), `snapshots`, the health map. *Operations*: `acquire`, `release`,
`hold_always_on`, `supervise` (run the module's loop, restart it with a growing delay),
the publisher task. *Interacts with*: every connection (acquire/release/snapshot), every
module (it runs their loop and takes their pushes). *Hard*: a reference count kept by many
tasks with an `await` between the count and the set it counts; aborting a loop that waits
to be restarted; panics. *Correct when*: the count of a topic is exactly the number of
connections that owe it a release; a loop exists exactly while the count is positive.

**State feed** (`module.rs`, `ipc/hub.rs`, `ipc/server.rs`). *State*: the bounded sink, the
snapshot map, the broadcast ring with a cursor per connection, the connection's
subscription set and output queue. *Operations*: `push`, publish, subscribe (insert, then
send the snapshot), forward, lag and resend, write. *Hard*: four buffers, three of which
may overflow, each differently (drop, lag, disconnect). *Correct when*: a client that is
not cut off ends up with the newest state of whatever it is subscribed to.

**Connection** (`ipc/server.rs`, `ipc/protocol.rs`, `ipc/client.rs`). *State*: the reader,
a task per running call, the output queue with its `closed` flag, the writer, the permit of
the accept limit. *Operations*: read a line (bounded length), answer in place, start or
refuse a call, overflow, end of file, error, drain with a time limit. *Hard*: an orderly end
with calls still running, a client that does not read, three tasks that wait for each
other. *Correct when*: one answer per request; every connection comes apart.

**QML backend client** (`core/Backend.qml`). *State*: `_refcounts`, `topics`, `_pending`,
`_deadlines`, the socket object, the reconnect timer and its delay. *Operations*:
`subscribe`, `unsubscribe`, `call`, `_onLine`, `_onConnected`, `_onDisconnected`, `onError`,
`pendingSweep`, `reconnectTimer`. *Hard*: a reply, a time-out and the loss of the connection
race for one callback; everything asked for while the daemon is away has to be asked again.
*Correct when*: a callback runs exactly once; after a reconnection the daemon serves what
the controllers want; the client always tries again.

**Display configuration** (`modules/hypr.rs`, `greeter.rs`). *State*: the JSON store, the
generated Lua module, what the compositor shows, the pending preview with its token and
revert task, the layout file of the greeter. *Operations*: `previewMonitors`,
`confirmMonitors`, `revertMonitors`, expiry, `setMonitors`, `setOptions`, `reset`, the
event loop, the render at start. *Hard*: confirm and expiry meet; an apply that fails by
half; crash between screen and store; the event loop works outside the mutex. *Correct
when*: only what a person agreed to is stored, and an unconfirmed layout does not last.

**Clipboard** (`modules/clipboard/`). *State*: entries in memory, `index.json`, a blob per
entry, thumbnails. *Operations*: add (with move-to-top and trim), delete, clear, pin, copy,
open. *Hard*: several files per operation, each of which may fail, and crashes between
them; limits; identifiers reused after a crash. *Correct when*: what is listed can be
copied, what is pinned is kept, limits hold, nothing leaks.

**Sleep and lock** (`modules/session.rs`, `features/lock/LockRoot.qml`,
`features/lock/AuthenticationController.qml`, `scripts/lockscreen-monitor`,
`scripts/shell-run`). *State*: the inhibitor and its cycle, lock requests as a counter; the
lock's UI state and timers, the compositor's lock, the marker file. *Operations*:
PrepareForSleep, Lock signal, `sleepReady`, the safety timer; `lock`, `lockNow`, `suspend`,
unlock, crash and restart. *Hard*: two processes, logind and the compositor, with messages
that are coalesced; sleep announced in the middle of an unlock; either process dying.
*Correct when*: the machine sleeps only behind the lock (or after the documented time
limit), and a locked session never loses its keeper for good.

**Theme engine** (`theme/`, `modules/theme.rs`, `backend/templates`, `themes/`). *State*: the
two state files (theme, wallpaper), the dynamic palette's file, the outputs of eleven
generators. *Operations*: `apply`, `set_wallpaper`, `preview_dynamic`, `run_all`,
`stage`/`commit`. *Hard*: one of many outputs fails; a crash between the two renames; two
changes at once. *Correct when*: a theme is only recorded when what must be painted has been
painted with it, and outputs of two changes do not mix.

**Calendar** (`modules/calendar.rs`, `secret.rs`). *State*: the account file, the token in
the keyring, the login task, the cached events, `sync_lock`. *Operations*: `beginLogin`,
`cancelLogin`, `logout`, `setCalendar`, `sync`, the loop. *Hard*: logins that overlap, a
login aborted between two stores, file updates outside the lock. *Correct when*: keyring and
account file agree when nothing runs; no writer of the account file undoes another; nothing
is left on the screen saying that it is under way.

**Device feeds** (`modules/network.rs`, `vpn.rs`, `removable.rs`, `brightness.rs`,
`weather.rs`, `privacy.rs`, `sysstats.rs`; `nm.rs`, `login.rs`, `dbus.rs`). *State*: each
loop's last published value; the vpn cache. *Operations*: wait for a signal or a timer,
read, publish if changed; calls that change the device and publish. *Hard*: loop and call
publish independently; a lock released across an external command; a device that appears
between two watches. *Correct when*: what is published last is what the device last was.

**Children with a deadline** (`proc.rs`). *State*: the child and its process group, the
thread that drains and reaps it, the channel. *Operations*: spawn, write the input, wait no
longer than the deadline, kill the group. *Hard*: a grandchild that keeps the pipe; the child
ending as the deadline passes. *Correct when*: every call returns, with the whole output or
with an error, and the signal hits nobody else.

**Notifications** (`features/notifications/`). *State*: history, `unreadCount`, toast queue,
current toast, do-not-disturb, the stored history. *Hard*: closed callbacks that run inside
the call that closes; limits; the store loaded late. *Correct when*: the unread count is
that of the history, the queue names only live entries and goes on, the next shell has the
history.

**Pure algorithms**: layout validation and merge (`hypr.rs`), dates and zones
(`calendar.rs`), brightness steps (`brightness.rs`).

**Other parts**: popup coordinator, `edid.rs`, launcher, greeter, settings application,
pickers, panels and widgets, installation scripts, configuration for Hyprland, Neovim, PAM
and systemd. They are listed in `PROJECT.json` with the reason each is left out.

### How they interact

```
 module loop --push--> sink --publisher--> snapshots + broadcast     (StateFeed)
      ^                                         |
   supervise                                forwarder --> queue --> writer --> socket
      |                                         ^            ^                   |
     hub <---acquire/release--- reader task ----+--- call tasks                  v
    (Hub)                        (Connection)                        Backend.qml (BackendClient)
                                                                                  |
   session module <-- sleepReady --------------- LockRoot.qml <-- topics ---------+
   hypr module, clipboard, theme, calendar ... <-- calls -------- controllers, pages
```

The modules share no variables. They meet at the interfaces drawn above, and each abstracts
its neighbours: Hub keeps of a request only what it does to the counts, StateFeed treats one
connection, Connection treats requests as numbers, BackendClient keeps of the daemon what a
client can see of it, SleepLock keeps of the feed the order of states and the loss of
older ones.

## 2 The modules

| Module | Models | Its state, in the code's terms |
| --- | --- | --- |
| `LazyTopics` | what the hub promises | `holders` of a topic, `on` or not |
| `Hub` | `hub.rs`, the subscription half of `server.rs` | reader position and topic list, `subscriptions`, `TopicRuntime`, restart delay, `MODULE_HEALTH` |
| `StateFeed` | sink to socket | sink, snapshots, the broadcast backlog of one connection, forwarder, queue, what the client was told |
| `Connection` | one client's tasks in `server.rs` | reader, running calls, queue, writer, socket buffer |
| `BackendClient` | `Backend.qml` | socket, timer, `_refcounts`, `_pending`, `_deadlines`, and the lines on the way |
| `DisplayPreview` | the display half of `hypr.rs` | screen, generated config, store, greeter file, preview and guard, who holds the mutex |
| `ClipboardStore` | `clipboard/store.rs`, `clipboard/mod.rs` | entries, index, blobs, thumbs, the operation under the mutex as its remaining writes |
| `SleepLock` | `session.rs`, `LockRoot.qml` and the supervisor | inhibitor and cycle, feed, UI, compositor lock, marker |
| `CalendarAccount` | sign-in, sign-out, switch and synchronisation of `calendar.rs`, `secret.rs` | account file, keyring item, tokens in memory, shown state, sign-in tasks and their handle, `sync_lock` |
| `ThemeApply` | `theme/mod.rs`, `modules/theme.rs` and the generators' outcome | recorded theme and wallpaper, staged files, outputs, mutation lock, each call |
| `DeviceFeeds` | the loops of `network.rs`, `removable.rs`, `privacy.rs`, `brightness.rs`, `weather.rs` | the device, where the loop is, what it read, published last, and what subscribers have |
| `VpnStatus` | `vpn.rs` | NetworkManager's tunnel, the cache with key and age, the loop, the commands under way |
| `ClipboardWatcher` | `clipboard/wayland.rs` and its side of the module's loop | the selection, both directions of the wire, the source, the reader threads |
| `ChildDeadline` | `proc.rs` | caller, child, grandchild, pipe, waiting thread, channel |
| `Notifications` | `NotificationsController.qml` | history, queue, toast and its timer, badge, stored history |
| `DisplayLayout` | layout validation and merge of `hypr.rs` | live layout, stored settings, preview |
| `CalendarTime` | dates, zones and event ends of `calendar.rs` | a walk over the months |
| `BrightnessSteps` | percents and levels of `brightness.rs` | a panel and its level |
| `Positions` | lists that `filter` and `retain` leave entries out of (`ClipboardStore`, `Notifications`) | |
| `Services` | `Connection` beside `Hub`, `ThemeApply`, `DeviceFeeds`, `ClipboardWatcher` and `ChildDeadline`, under fairness | `component` and slots (see [3](#3-the-runs)) |
| `Modules` | `ClipboardStore` beside `ThemeApply`, `VpnStatus`, `DisplayLayout`, `CalendarTime` and `BrightnessSteps` | `component` and slots |
| `Shell` | `SleepLock` beside `Notifications` | `component` and the centre's variables |
| `HubProofs`, `StateFeedProofs`, `BackendClientProofs`, `DisplayPreviewProofs`, `CalendarAccountProofs`, `ServicesProofs`, `ModulesProofs`, `ShellProofs` | theorems about the module they are named after, and what it is composed of | |
| `MCHub`, `MCStateFeed`, ... | the small instances of the runs | |

Conventions shared by the modules:

- An action is one handler, or the part of one between two points where another task may
  run (`await`, the release of a mutex, a disk write after which the process may die). A
  handler that is split keeps its position in a variable (`phase` in Hub, `reader` in
  StateFeed, `op` in DisplayPreview, `job` in ClipboardStore).
- Data is abstract: a topic, a layout or a content is a model value, a pushed state is the
  number of the push, a request is a number.
- Variables whose comment says *history* record what happened and are never read by a guard.
- Environment actions (clients, logind, compositor, disk errors, crashes) are free, except
  for named bounds.

What deserves a remark per module:

- **DisplayLayout, CalendarTime, BrightnessSteps** compare the code's functions with
  independent reference definitions: pixels that two screens cover, days counted month by
  month, what a key press must do. The first also has the calls, because whether the store is
  usable depends on their order; it has no failures and always a compositor. What happens
  without either is in `DisplayPreview`.
- **Notifications.** The handlers run on one thread but call each other back through the
  `closed` signal, so a handler is an operator from a controller state to the next, and the
  controller is one record. `early` and `parked` name two states the code leaves things in:
  what came before the stored history was read is saved only with the next change, and a
  queue over which the centre is opened while no toast is shown waits for the next
  notification. Where a handler closes several notifications, the callbacks of all of them
  are one operator on the set of their numbers: each touches its own entry, and all put off
  the same `showNextToast`, so their order does not matter. (Written as a fold, one callback
  after the other, the handlers have the same steps: compared in every state of the run.)
- **CalendarAccount.** A step is what happens between two awaits that really wait. `handle`
  is the task a cancel aborts; it may belong to another sign-in than the one meant. A sign-in
  may fail to begin after it has cancelled an older one (`BeginFails`: no port, no random
  bytes, no address), and then nobody pushes what the cancellation changed: `told` is
  `"missed"` then, until the next push.
- **ThemeApply.** The eleven generators stand as two, one whose failure refuses the theme and
  one whose failure does not; the latter is the greeter's, which also copies the wallpaper.
  `behind` records what failures and deaths have left behind the record.
- **DeviceFeeds.** One module, five loops: what differs between them (what wakes them, what a
  failed reading yields, whether a call publishes) is a guard on the variable `feed`. The camera
  may be without inotify (`watcher`), in which case it is polled, or without a watch that was
  refused (`watched`). For the brightness loop `watcher` is the thread that reads the level,
  which arms its poll, and sends; `absorbed` marks a change that this thread has read away before
  the loop saw it.
- **VpnStatus.** Loop and commands each read, wait and write one cache. `late` marks the two
  cases in which the answer of a command, or a failed reading, has the last word.
- **ClipboardWatcher.** Requests and events take time, so that both sides act on selections
  that are already replaced; readers end in any order. A reader of the daemon's own selection is
  told apart from one of another program's, which ends only if that program closes its pipe.
- **ChildDeadline.** The grandchild may inherit the pipe, let it go, or leave the group.

- **Hub.** `SubscribeCheck`, `SubscribeAcquire` and `SubscribeInsert` are the three steps of
  one topic of a `subscribe` (`server.rs:378-406`), because each waits for a lock. `Owes(c)`
  is what connection `c` has acquired and not released; it differs from its subscription set
  exactly in the middle of a step. A panic of a module's `run` is possible for the topics in
  `Fragile`. This, and `CallPanics` in `Connection`, is what a build does that unwinds (debug,
  tests); the release build aborts (`backend/Cargo.toml:50`), and the daemon ends with all of it.
- **StateFeed.** `inbox` with `lagged` is one receiver of the tokio broadcast channel. A lag
  makes the forwarder resend the snapshot of every subscribed topic.
- **Connection.** A reply is followed from the request to the client's hand by `Copies(i)`. A
  call whose task panics gives its slot back and is never answered (`died`).
- **BackendClient.** A topic is `null`, `current`, or `old` (told by an earlier connection),
  so that showing an outdated volatile state is visible.
- **DisplayPreview.** `trouble` is chosen at the start and never changes: nothing goes wrong;
  a layout may fail to be applied, by half too, and is taken back; or hyprctl, the disk and the
  daemon may fail anywhere, and `setMonitors` (also without a Hyprland to apply it) and `reset`
  are called. `ScreenIsAgreed` is stated for the first two, `GreeterGetsAgreed` for the first;
  after a rollback that fails too both are false, and the code promises nothing.
- **ClipboardStore.** An operation is a sequence of writes (`job`); every write may fail and
  a crash may follow every one. Filtering a list is picking positions of it in their order
  (`Picked` in `Positions`). The answer to a pin promises safety (`promised`) only if the entry's file holds
  the entry's own content: after two crashes it may not, which is the finding `clipboard_blob`.
- **SleepLock.** It contains one assumption on time, `Settled`: messages between shell and
  daemon arrive before a person has typed a password or the *next* sleep is announced,
  either of which takes seconds. Without it an answer to one sleep could be taken for an answer to the next
  (see section 7).

## 3 The runs

| Run | Question and result |
| --- | --- |
| `hub_safety` | Two clients and two topics (one always on, one that may panic), every interleaving: the inductive invariant `IInv` (types, shape, exact counts, a loop exactly while counted), and the hub implements `LazyTopics`. |
| `feed` | The newest state of a subscribed topic is always on its way to a client that is not cut off (`FeedInv`), and a client that reads and stays catches up. |
| `backend` | Callbacks run exactly once and subscriptions survive reconnections (`RequestsInv`), no outdated volatile state is shown, a call ends by its deadline, and the client connects again whenever the daemon stays up. |
| `display` | A pending preview has its revert armed; where no more goes wrong than that a layout is not applied and has to be taken back, the screen shows what was agreed or is on trial and the store has what was agreed; where nothing goes wrong, the greeter follows (`PreviewInv`). Only what was approved is stored; an unconfirmed preview ends. |
| `shell` | The machine sleeps behind the lock unless excused by the documented limits (`SleepsLocked`); an unlock that a sleep or a request turned round does not finish by itself (`RelockHolds`); `LockInv`: an announced sleep is always let go by something, counted requests reach the shell, unlocking ends, a locked screen has a keeper. Beside it the *notification centre*: badge, queue, toast and stored history agree (`CentreInv`). |
| `calendar` | Two sign-ins that overlap: once nothing runs what is shown agrees with what is kept (`AccountConsistent`), no writer of the account file undoes another (`AccountKeeps`), nothing goes on saying that it is under way (`ScreenSettles`). The one push that may be missed is that of a sign-in that fails to begin; the next synchronisation makes up for it. |
| `services` | Six components, each under its own fairness. *Connection*: one answer per request (`ConnectionInv`), an orderly end delivers what was answered, a lost connection comes apart (`EndsWhenLost`). *Hub*: a subscribed topic gets a running loop again and again, a loop that keeps failing is retried ever more slowly and in the end at the longest delay (`HubFailingLoopSlowsDown`), a vanished client frees its slot. *Theme*: every call ends. *Devices*: once the device is quiet, each loop has published what it is, with one exception, which the code has: a change of the panel's level that falls between the loop's reading and its thread's is lost until the next change (section 7). *Clipboard watcher*: the daemon's selection can be pasted and nothing secret is kept; capture and restore do not feed each other, and all comes to rest but for readers of a pipe another program keeps open. *Children*: an answer is the whole output; every run ends. |
| `modules` | Six components without fairness. *Clipboard store*: entries can be copied, limits hold, nothing leaks (`StoreInv`), pins survive crashes, a restart shows what was there, the feed is current. *Theme*: changes do not mix, a recorded theme was applied. *VPN*: the tunnel shown at rest is NetworkManager's. *Layouts*: whatever is tried, saved and reset, live and next screens are usable. *Dates*, *brightness steps*: agree with their reference. |
| `display_render` | With nothing failing the generated configuration is *not* always that of the store (finding). |
| `clipboard_blob` | After two crashes an entry's file may hold *another* content than the one captured under it (finding). |
| `calendar_token` | An account may stand *without* a token behind it (finding). |
| `child_pid` | The signal at the deadline may go to *another* group (finding). |

**Runs of several components.** `Services`, `Modules` and `Shell` instantiate components that
share nothing. The variable `component` is chosen at the start and never changes, the actions
of the others are off, and in the first two the slots `s1`, `s2`, ... carry the variables of
the one that was chosen; so the state spaces add and each component is checked as in a run of its own. Each
brings its own fairness, guarded by `component`; its properties are guarded likewise; the
assumptions of an instanced module are assumed there by name, because `INSTANCE` does not
bring them. Every constant stays a constant: `MCServices`, `MCModules` and `MCShell` only give
values, and the theorems are about the same modules for all of them.

**Invariants in parts.** Where several invariants speak of the same state they are one
property: `IInv` (`TypeOK`, `Shape`, `CountIsHolders`, `LoopIffCounted`), `FeedInv`,
`ConnectionInv` (`OneAnswer`), `RequestsInv` (`AnsweredOnceOrPending`, `ServedWillBeWanted`),
`PreviewInv` (`ArmedWhilePending`, `ScreenIsAgreed`, `GreeterGetsAgreed`), `StoreInv`
(`AllCopyable`, `WithinLimits`, `NothingLeaks`), `LockInv`, and `CentreInv`, which is
`NotificationsInv` (`CountIsUnread`, `ToastsAreLive`, `ToastsGoOn`, `StoredOrSaving`). Each
part has its own comment in its module.

Every property of a passing run has a mutant in `PROJECT.json`: a plausible bug in one
mapped definition (operators marked `\* Mutant:` in the modules) for which TLC finds the
property violated.

In `shell` the properties of the lock that one would write with "eventually" (something releases
the inhibitor, unlocking ends, a request is on its way) are stated as invariants: in every
state the thing that will bring it about exists (an armed timer, a message on its way, a
shell that is starting). That is stronger than a liveness property under fairness, since
it excludes every state in which the system could be stuck, and it needs no assumption on
scheduling beyond that what is armed fires.

Deadlock is not checked in `services`, `modules` and `child_pid`: a connection and a child end
for good, the walk over the months ends, and bounded components rest when their bound is used
up. It is checked in all the others.

## 4 Bounds and why they are enough

| Run | Bounds | Why |
| --- | --- | --- |
| hub_safety | 2 connections, 2 topics, 1 bad name, three request lists: a repeated name, a bad name before a good one, two topics of which one is always on, delays 1..2 | Connections interact only through the counter of one topic, so two already give every overlap of acquire and release; two topics make a list that is half done; delay 2 is the cap, reached after one doubling. The theorems cover all sizes. |
| services: hub | 1 topic, no always-on hold, delays 1..3 | Topics do not interact in the supervisor; from 1 to 3 the delay grows twice, the second time up to the cap. |
| feed | sink 1, broadcast 1, queue 2, 2 pushes of 2 topics | The tightest buffers that let a message pass: every overflow and lag occurs. Two pushes distinguish old from new. |
| services: connection | 2 running calls, queue 2, socket 1, 3 requests | Three requests can fill the calls (2) and have one refused, or answered in place; with events beside them the queue overflows. |
| backend | 2 topics (one volatile), 2 references, 2 calls, 2 lines each way, delay 1..2 | Two calls let a time-out and a reply cross; a second reference tests the count. |
| display | 2 layouts and a torn one, 2 tokens | A late confirmation needs an earlier token; a second layout distinguishes previous from requested. |
| modules: clipboard | limits 1 and 1, 2 ids, 2 images, of which one cannot be decoded, an unfit content (`clipboard_blob`: a text too), 2 crashes | With limit 1 each second capture trims; two ids are the fewest that are reused after a crash; the second crash meets what the first has left. The theorems cover all sizes. |
| shell: lock | 2 sleeps, 1 lock request, 1 fault, 2 states in the feed | The second sleep meets the timer and the answers of the first; one fault at any point is a crash, a lost connection or a failed loop. |
| calendar | 2 sign-ins, 1 calendar, background synchronisation, 1 waiting for the lock (`calendar_token`: 1 sign-in, background and refresh) | Two sign-ins are the fewest that overwrite each other's handle; a third would do what the second does. A calendar is independent of the others. |
| theme | 2 calls, 2 themes of which one is dynamic, 2 wallpapers (1 under fairness) | Two calls meet at the lock; a dynamic and a plain theme differ in what the output depends on. |
| devices | 5 loops, 2 values and absent, 3 changes or failures, 1 call | A change before, during and after a reading; a device that goes, comes back and changes. |
| vpn | 2 servers, 2 commands at a time, 1 change, 2 calls | A tunnel, another, and none; loop and both commands interleave. |
| watcher | 3 contents, one secret, 3 acts of the user | Copy, leave or copy back, and one more while the first is on its way. |
| child | pipe 1, output 2 | One more than fits: the child blocks. |
| shell: notifications | history of 2, 3 notifications or replacements of 2 senders, one of them resident, 1 death of the shell | The third drops the first, which may be shown, queued or unread; a resident one stays when acted on. |
| layout | 2 screens, a 6 by 4 mode upright, upside down, on its side, at double and at one and a half scale, off; touching and apart | Rotation and scale change which pairs overlap; two screens make a pair. |
| time | 1970 to 2110, three times of day, five zones from -12 h to +14 h | Holds a leap century (2000) and one that is none (2100). |
| panels | 1, 7, 15, 255 and 960 levels | One level, fewer and more than a hundred. |

Symmetry is used only in `hub_safety` (connections), which has no liveness.

## 5 Fairness

- **Hub**: weak fairness of a connection's own handling and of the start and restart of a
  loop. Both are tasks of a cooperative scheduler that polls every ready task, and timers
  elapse. Clients and the result of a module's `run` have none.
- **StateFeed**: weak fairness of publisher, reader step, forwarder and writer. The writer's
  fairness includes the client reading its socket, which `ClientCatchesUp` is about.
- **BackendClient**: weak fairness of QML timers, of the socket's fate once connecting, and
  of time passing for a deadline. The daemon need never answer: it is what `CallIsAnswered`
  guards against. `Reconnects` is stated for a daemon that stays up.
- **DisplayPreview**: weak fairness of the running call (hyprctl has a deadline in
  `proc.rs`); strong fairness of the expiry, because it competes for a tokio mutex, which is
  fair, with calls that may keep coming.
- **Connection**: weak fairness of reader, writer and the drain timer; none for calls, events
  or the client.
- **CalendarAccount**: weak fairness of every step of a sign-in (the browser's answer
  included, because a sign-in gives up after five minutes), of whoever holds or takes the
  lock (each request and keyring call has a deadline), and of the loop that asks for a
  synchronisation. The user has none.
- **ThemeApply**: strong fairness of each call's work, because the mutation lock is a tokio
  mutex, which serves its waiters in order.
- **DeviceFeeds**: weak fairness of the loop's steps, of the call's, and of the backstop
  timer; not of the backstop for a camera that is watched, which is to be seen without it. The
  brightness loop has no timer to be fair; its thread's steps are fair, the tick of its poll is not.
- **ClipboardWatcher**: weak fairness of the compositor, of the daemon's threads, and of the
  reader threads of the daemon's own selections, whose pipe the daemon writes and closes. None
  of the user, and none of the readers of another program's selection: `read_all` has no
  deadline (`wayland.rs:248-258`), so that program decides.
- **ChildDeadline**: weak fairness of the threads, of the clock and of writing the input; none
  of child and grandchild, which may hang.
- **SleepLock**, **ClipboardStore**, **VpnStatus**, **Notifications** and the algorithms:
  none; their properties are invariants and action properties.

## 6 What is proved

The theorems hold for every value of the constants: any number of connections, topics,
layouts, calls, sleeps or sign-ins, any capacity. The constants are bound only by the `ASSUME`s
of the module, which say what the code guarantees (capacities are positive, `None` is none of
the values it stands beside) and which TLC evaluates in every run that extends the module.

| Module | Theorem | Statement | Run with the property |
| --- | --- | --- | --- |
| `HubProofs` | `Invariant` | `Spec => []IInv` | `hub_safety` |
| | `TypeCorrect`, `CountExact`, `LoopExactlyCounted` | the parts of `IInv` | |
| | `NoOrphans`, `StopsOnlyWhenUnwanted` | `Spec => []NoOrphanLoop`, `Spec => StopsOnlyForLast` | |
| | `Refinement` | `Spec => ImplementsLazyTopics` | `hub_safety` |
| `StateFeedProofs` | `NewestArrives` | `Spec => []FeedInv` | `feed` |
| `ServicesProofs` | `RepliesAreKept` | `Spec => []ConnectionInv` | `services` |
| | `OrderlyEnd` | `Spec => []OrderlyEndDelivers` | `services` |
| | `AnswersAreWhole` | `ServicesSpec => []ChildOutputIsWhole` | `services` |
| | `SelectionsAreServed` | `ServicesSpec => []WatcherSelectionIsServed` | `services` |
| `BackendClientProofs` | `CallsAndSubscriptions` | `Spec => []RequestsInv` | `backend` |
| | `NothingRemembered` | `Spec => []NoMemoryShownAsState` | `backend` |
| `DisplayPreviewProofs` | `TrialsAreGuarded` | `Spec => []PreviewInv` | `display` |
| | `OnlyApprovedIsStored` | `Spec => []StoredWasApproved` | `display` |
| `ModulesProofs` | `StoreIsSound` | `Spec => []StoreInv` | `modules` |
| | `PinsAreSafe` | `Spec => []PinnedIsSafe` | `modules` |
| | `RestartsAreInvisible` | `Spec => []RestartIsInvisible` | `modules` |
| | `FeedAgrees` | `Spec => []FeedIsCurrent` | `modules` |
| | `ChangesAreWhole` | `ModulesSpec => []ThemeChangesDoNotMix` | `modules` |
| | `RecordsFollowPainting` | `ModulesSpec => ThemeRecordedWasApplied` | `modules` |
| | `TunnelShown` | `ModulesSpec => []VpnTunnelIsNetworkManagers` | `modules` |
| | `ScreensStayUsable` | `ModulesSpec => []LayoutScreenStaysUsable` | `modules` |
| | `DatesFollowTheRules` | `ModulesSpec => []TimeDatesAreRight` | `modules` |
| | `PressesMove` | `ModulesSpec => []PanelPressMoves` | `modules` |
| `ShellProofs` | `SleepIsLocked` | `Spec => []SleepsLocked` | `shell` |
| | `LockIsSound` | `Spec => []LockInv` | `shell` |
| | `OpensForPassword` | `Spec => RelockHolds` | `shell` |
| | `CentreIsSound` | `ShellSpec => []CentreInv` | `shell` |
| `CalendarAccountProofs` | `AccountAgrees` | `Spec => []AccountConsistent` | `calendar` |
| | `AccountIsKept` | `Spec => AccountKeeps` | `calendar` |

With these, every invariant and every action property the passing runs check is also a theorem.
Each module but the first also has a theorem `Invariant`, `Spec => []IInv`. All are laid out
alike: `IInv` is the inductive invariant, `InvInit` says that `Init` establishes it, a lemma per
part says that every action keeps that part, and the theorems about invariants follow from
`IInv`; those about steps use it in the state before the step. A theorem about `Spec` of
`Connection`, `ClipboardStore` or `SleepLock` holds of the composed specification too, which
implements it (stated for the shell: `ShellIsTheLock`). For an instanced component, `IInv` is in the
component's module, and the lemmas carry its name (`ThemeInit`, `ThemeNext`, ...).
Few of the properties in the table are inductive as they stand. What had to be added, and why:

- **Hub.** `IInv == TypeOK /\ Shape /\ CountIsHolders /\ LoopIffCounted`. A step of a
  connection changes `Owes(c)` according to where its reader stands and what is left of its
  list, so `Shape` relates `phase[c]` to `todo[c]`, `subs[c]` and `left[c]` (a connection
  between acquire and insert holds a topic that is not yet in its set; one between removal and
  release holds one that no longer is; in clean-up it owes what is left and nothing else). A
  step changes what at most one connection owes, and in one topic: two lemmas on cardinality
  carry the count across acquire and release. The refinement maps `holders` to those who are
  counted and `on` to the ownership of a task.
- **StateFeed.** A snapshot sent to a new subscriber is put in front of what the forwarder holds
  and what is unread in the broadcast channel. It is not overtaken by something older because
  the last event of a topic in the channel is the snapshot itself (`InboxFresh`), what the
  forwarder holds is as new unless something newer follows or was overwritten (`HeldFresh`), and
  the forwarder holds nothing while it resends (`ResendFirst`). The lemmas are about the last
  event of a topic in a sequence: under `Append`, under `Tail`, under concatenation.
- **Connection.** `OneAnswer` counts where a reply is (`Copies`): in a task, in a buffer, in the
  writer's or in the client's hand. To count, a request must be taken up once (`InboxIsNext`)
  and not be answered before (`Untouched`), and it must be known what a writer that ended leaves
  behind (`WriterLeaves`). Counting in a buffer is a cardinality; the lemmas `OccursAppend` and
  `OccursTail` give it for the two ends.
- **BackendClient.** A lost connection leaves nothing on either side (`Offline`): that is why the
  next one starts from an empty subscription set and no answer comes for a call whose callback
  has run. `TimerIsForLost` keeps a link that is up from being rebuilt, and `PendingWasMade`
  makes a new call's number fresh. The lemmas say what a sequence of requests makes of a
  subscription set.
- **DisplayPreview.** The properties speak of the moments between two calls; the invariant says
  what a call under way still owes: the steps it may be at and with which layout (`OpShape`),
  that what it is about to store was approved (`StoresApproved`), that the layout shown under a
  token is the one pending (`ShownIsPending`), and, where no more goes wrong than a
  layout that is not applied, which layout is on the screen and which the call will leave there
  and in the store (`CalmPreview`, `CalmOp`).
- **ClipboardStore.** The properties speak of the moments between two operations, and `WithinLimits`
  of all. The invariant says what an operation under way still has to write (`Todo`, whose shape is
  `Shape`: files, then memory, then index) and what its entries are (`JobShape`), that each of
  them has its blob or will get it and will not lose it (`Covered`), and in calm behaviours that every
  file of no entry will go (`Swept`). `AtRest` holds also until a new blob is written, because
  without it the operation ends and has changed nothing. `PromisesKept` needs the same entry in the
  index, in memory and in what is being made, since a crash takes the first and a save the others.
  Below this lie lemmas on lists picked by positions: they keep entries and order, and their
  number is that of the positions. They need no induction: the rank is an injection between two
  finite sets of one size, hence onto.
- **SleepLock.** That a sleep finds the screen locked is true at one moment, and what makes it
  true is spread over logind, the daemon, the feed and the shell. The invariant says what each
  knows of the others (`SignalsKnown`, `LoopKnows`, `FeedKnows`, `LockIsShown`, `TimerIsGranted`,
  `PendingIsTold`), and that an announcement that is not excused is either `Unheard` (its signal
  is on the way, the inhibitor held) or `Heard` (an answer, or a released inhibitor, means a
  locked screen and no unlocking under way).
- **CalendarAccount.** Who holds the lock is a synchronisation that has read an account, or the
  sign-out, each at its own steps (`CritShape`); no sign-in waits for the lock it holds
  (`OnePlace`); before the list was there nothing is shown (`Unlisted`). For the token: while
  the file has the old one it was read from there, and neither an expiry nor a finished sign-in
  is under way (`LegacyWasRead`); a token remembered, or stored by a sign-in that has not saved
  its account yet, is in the keyring unless the sign-out that deleted it is about to take the
  file away (`SafelyMoved`). This is why taking the token out of the file never loses it.
- **ThemeApply.** Nothing mixes because only the holder of the lock is at work (`Waiters`), and what
  it still has to paint, stage and rename tells what it has done (`AtWork`): behind the generators
  every output is noted as failed or has the colours about to be recorded, behind the renames the
  record is the call's.
- **VpnStatus.** What the loop has read and not yet written is NetworkManager's word until a signal
  says otherwise, and the answer to a connect names a server.
- **ClipboardWatcher.** The compositor may have any of the daemon's selections, so the invariant
  speaks of the order of requests and events (`InOrder`): sources are set in the order they were
  made, and a cancellation is of an older one than any still to be set. Then a late cancellation
  cannot take away the source that counts (`Held`). That nothing secret is kept needs the same of
  whatever is on its way (`Unmarked`).
- **ChildDeadline.** The thread passes the drain only when nobody can write any more and the child is
  reaped; the answer is its message.
- **DisplayLayout.** The gate compares rectangles, the property pixels; a lemma says that two
  rectangles the gate calls apart share none, whatever the rotation and scale. The store is usable
  because with nothing on trial it is what is live, and on trial what one would go back to
  (`Tried`). Assumed is that the user's own configuration is usable (`BaseAssumption`), and that scales
  are from a quarter to eight and leave a pixel of every mode (`Setting`), as the code has it.
- **CalendarTime.** The invariant is that the first of the month has the number
  `days_from_civil` gives it; what must be shown is that the two conversions are inverse for every
  day of an era (by century, cycle of four years and day of the cycle), that months and years
  follow each other, and that a clock's fields and a zone's offset can be told back. Assumed is the
  number of the walk's first day, by its leap days. Instants are not bound to 64 bits: the years in
  question are far from it.
- **BrightnessSteps.** No invariant beyond the range is needed; the lemmas say what rounding the
  products up and down leaves, for any number of levels.
- **Notifications.** `IInv` adds to the property that the next number is larger than any given
  (`Numbered`), that nothing waits in a mode in which nothing may be shown (`QueueIsShown`), and
  that before the stored history is read nothing is saved and only what came early is there
  (`NothingLost`). A handler is a chain of assignments with callbacks between them, and none of this
  holds between two links: while `closeToast` runs, the toast may be of an entry that has just left
  the history. `Kept` is what does hold there, with the numbers such a toast may have; each part of a
  handler is shown to keep it and each handler to end where it gives what is inductive (`Sound`). The
  count of unread entries is the cardinality of their numbers, which leaving, reading and arriving
  change by what they say; lists by position need the same lemmas on ranks as the clipboard.

Before a proof was tried, TLC checked each `IInv` as an invariant of the run in the table (Connection's
with three requests). Some models were changed on the way. In `SleepLock` the safety timer's
excuse had been granted to a loop that was not sleeping, where the code does nothing
(`session.rs:69`); the proof did not go through, and the guard is now the code's. In
`ClipboardStore`, `PinnedIsSafe` turned out to hold for one crash only, which was the bound of the
run: after two, an entry can be pinned whose file already is another content's (finding 2), and
no pin can keep a content that is gone. It is now stated for pins answered
while the file was the entry's own, the run allows two crashes, and the theorem any number. In
`StateFeed`, `BackendClient` and `ClipboardStore` the last event of a topic, the set a sequence of
requests leads to and a filtered list are written with positions instead of recursive
operators; they mean the same.

To be proved about, some modules had to be written otherwise, with the same meaning: `Notifications`
without recursion (see section 2), `ClipboardWatcher` with the place of a known content instead of a
filter, parts of `CalendarTime` under names of their own, and the composed modules with
constants instead of the values of one run.

*Only model-checked.* Liveness, because fairness and `ENABLED` are out of the prover's reach:
`ClientCatchesUp`, `CallIsAnswered`, `Reconnects`, `UnconfirmedEnds`, `ScreenSettles`,
`EndsWhenLost`, `HubSubscribedGetsStream`, `HubFailingLoopSlowsDown`, `HubDisconnectFreesSlot`, `ThemeEveryCallEnds`,
`DeviceLoopsCatchUp`, `WatcherComesToRest` and `ChildEveryRunEnds`. `DeviceFeeds` has no other property,
so nothing is proved of it. The four properties that fail ([7](#7-findings)) are refuted by a
behaviour each. Where a theorem has an exception (`late` in `VpnStatus`, `mixed` in
`DisplayLayout`, `early` and `parked` in `Notifications`, `behind` in `ThemeApply`, `trouble` in
`DisplayPreview`, `calm` in `ClipboardStore`, `"missed"` in `CalendarAccount`, `died` in
`Connection`) it is the one named in the property that TLC checks, and
`Settled` is the guard of `SleepLock` that TLC runs with; none was added for a proof.

## 7 Findings

1. `display_render`: a confirmation holds the module's mutex and writes the generated module
   first and the store after it (`hypr.rs:566-567`); the render at the start of the loop and in
   `prepare` takes no mutex. In the run's behaviour, in which nothing fails and nothing dies, the
   render loads the store before the confirmation has saved it and writes it over the module
   the confirmation has just generated: the store has the confirmed layout, the module the one
   before it, and the compositor's next start shows that (`hypr.rs:383`, `hypr.rs:494`, against
   the comment at `hypr.rs:206`).
2. `clipboard_blob`: deleting removes the files before the index is saved. After a crash in
   between, `open` drops the entry from memory but not from `index.json`, and derives the next
   identifier from the entries that are left; the next capture reuses it, and a second crash
   before its index is saved makes the old entry, with its preview and fingerprint, stand over
   the new content (`store.rs:91`, against the comment at `store.rs:5`).
3. `calendar_token`: a sign-out deletes the keyring item while a new sign-in stores its token,
   which takes no lock: the account file then stands with a token in memory only, and the next
   start is signed out (`calendar.rs:468`, against `calendar.rs:1243`).
4. `child_pid`: the waiting thread reaps the child before it sends, so at the deadline the
   group may be gone and its number another's (`proc.rs:95`, against the comment at
   `proc.rs:89`).

Observed while modelling, without a run:

- `Hub::release` aborts a loop and leaves its health entry, so `health` may report a loop that
  does not exist (`hub.rs:247`, compare `hub.rs:32`).
- `StateSink::push` on a full channel drops the state being pushed, the newest, where its
  comment speaks of an intermediate one (`module.rs:122-127`).
- `SleepState::ready` does not compare cycles, unlike `timed_out`; a sufficiently late answer
  to one sleep would release the inhibitor of the next (`session.rs:62`). Excluded by
  `Settled`.
- `setMonitors` during a preview leaves the preview confirmable, and the confirmation stores
  a layout that is not on the screen (`hypr.rs:439`). When previews are chained, the
  confirmation stores only the last request (`hypr.rs:291`). `DisplayLayout` names both by
  `mixed`.
- `suspend` is ignored without a word while the unlock animation runs (`LockRoot.qml:134`).
- A panic in a module loop is never noticed (`hub.rs:162`), and a call that panics is never
  answered (`server.rs:445-452`; the client's deadline ends it): both in a build that unwinds.
- `setMonitors` without a Hyprland stores what was asked for unchecked (`hypr.rs:543-553`).
- Brightness: a change of the level after the loop's reading (`brightness.rs:232`, `241`)
  and before the watching thread's next one, which arms its poll (`brightness.rs:122`), wakes nobody. The module has no timer, so that the old level is shown
  until the next change, against its comment (`brightness.rs:8-11`). `DeviceFeeds` marks it as
  `absorbed`.
- Calendar: a sign-in that fails to begin has already cancelled an older one and tells no
  subscriber (`calendar.rs:309-317`): the panel goes on showing the older one's address until
  something else is pushed, a background synchronisation at the latest.
- Clipboard watcher: `read_all` has no deadline, so that a program which keeps its end of the pipe
  open keeps a thread of the daemon for as long (`wayland.rs:248-258`).
- Clipboard store: a blob or thumbnail that a crash or a failed write leaves without an entry is
  removed by nobody; it stays until its identifier is used again (`store.rs:79-93`).
- Calendar: a sign-in cancelled during its own synchronisation leaves "syncing" until the next
  one; a sign-out whose keyring prompt is dismissed leaves the token; a synchronisation under
  way may show a calendar again that was hidden meanwhile, until the one that follows;
  aborting a sign-in between its two stores leaves a token no account names.
- Clipboard watcher: what is restored after the clipboard became empty may replace a newer
  copy, and two captures may arrive in the opposite order of the copies.
- VPN: the answer of a status command that was overtaken by a disconnect stays
  (`vpn.rs:233`); a failed NetworkManager reading is not repeated until the next signal.
- A call of removable or brightness may push its reading after the loop has published a newer
  one, and the loop, which compares with its own last value, does not correct it
  (`removable.rs:171`).
- Theme: a required generator that fails leaves the outputs of the others in the new colours
  (`theme/mod.rs:119-131`); that the greeter's copy of the wallpaper failed is only logged.
- Brightness: a step down from below one percent makes the screen brighter.
- Notifications: what arrives before the stored history is read is stored only with the next
  change (`NotificationsController.qml:453`); a queue the centre is opened over while no toast
  is shown (between a closed one and the next) stays, and is shown with the next notification
  (`NotificationsController.qml:299`).
- Wifi: a stronger inactive access point of the same name listed later replaces the active one
  in the merge (`network.rs:286`).

## 8 What is not modelled

- **Out of TLC's reach or without state**: rendering of themes, colour arithmetic, EDID
  parsing, QML layout and animation, text search.
- **Pure input and output**: `/proc` readers, HTTP, D-Bus proxies, process starts; where
  their failure matters it is an action of the environment.
- **Sequential scripts** for installation, and configuration files.
- **Left out of modelled parts**: taking over the socket at start (`server.rs:60-115`), the
  choice among MIME types, `setLocked`, the PAM conversation's steps, the five-restart limit of
  `shell-run`, option parsing and the Lua renderer of `hypr.rs`, the list of access points and
  its merge, weather codes, recurrence as Google computes it, the new
  start of the camera's loop when inotify itself fails (`privacy.rs:91`, the hub's restart), grouping and texts of
  notifications, a failing write of the stored history (nothing in the code answers it).
- **Synchronous presentation**: popup coordinator, pickers, panels, settings, widgets. They run
  on one thread, keep no state that outlives a page and have no handler that another enters.
- **Before the daemon**: greeter and installation.

## 9 The plan

Modelled, in the order of importance: the path from a module to the screen and back (`Hub`,
`StateFeed`, `Connection`, `BackendClient`); the state that must survive failure
(`DisplayPreview`, `ClipboardStore`, `SleepLock`, `CalendarAccount`, `ThemeApply`); the feeds and
helpers (`DeviceFeeds`, `VpnStatus`, `ClipboardWatcher`, `ChildDeadline`, `Notifications`); the
algorithms (`DisplayLayout`, `CalendarTime`, `BrightnessSteps`).

Every safety property is proved. What could follow: the components listed as not modelled that
keep state (the popup coordinator, the polkit agent, the greeter's conversation); the list of
access points and its merge; and of what is here, a run of the socket's take-over at start.

## Running

    tlc -workers 2 -config MCHub.cfg MCHub
    tlapm HubProofs.tla

Each `.cfg` belongs to the MC module whose name it begins with; `PROJECT.json` lists the
pairs.
