--------------------------- MODULE ClipboardStore ---------------------------
(***************************************************************************)
(* The clipboard history (modules/clipboard/store.rs) and the tasks that   *)
(* use it (modules/clipboard/mod.rs): the streaming loop, which stores     *)
(* what the Wayland watcher has read, and the clients' calls.  One mutex   *)
(* guards the store; under it an operation is a sequence of writes to the  *)
(* disk, any of which may fail and after any of which the daemon may die.  *)
(*                                                                         *)
(* A content stands for its bytes, its size and its fingerprint.  The      *)
(* watcher is external: it may deliver any content at any time.  Waiting   *)
(* for the mutex changes nothing, so what a worker asks for is chosen when *)
(* it gets it; a client may name an id that is long gone.                  *)
(***************************************************************************)
EXTENDS Naturals, Sequences, FiniteSets, Positions

CONSTANTS Runner,      \* the streaming loop of the module
          Clients,     \* calls that may be under way at the same time
          Contents,    \* what may be captured
          Unfit,       \* of these, empty, blank or above MAX_ENTRY_BYTES
          Images,      \* image contents ...
          Decodable,   \* ... that a thumbnail can be made of
          MaxHistory,  \* MAX_HISTORY
          MaxPinned,   \* MAX_PINNED
          MaxId,       \* bound of the model: ids handed out
          MaxCrashes,  \* bound of the model: deaths of the daemon
          None

ASSUME ClipboardAssumption ==
  /\ Runner \notin Clients
  /\ Unfit \subseteq Contents /\ Images \subseteq Contents /\ Decodable \subseteq Images
  /\ MaxHistory \in Nat \ {0} /\ MaxPinned \in Nat /\ MaxId \in Nat /\ MaxCrashes \in Nat
  /\ None \notin Contents

VARIABLES
  history,   \* Store::entries, the newest first
  nextId,    \* Store::next_id
  index,     \* the entries in index.json
  blobs,     \* blobs[id]: the content in blobs/<id>, None when there is no such file
  thumbs,    \* the ids with a file in thumbs/
  pushing,   \* the workers that have let go of the mutex and still have to push
  job,       \* the operation that holds the mutex: by whom, and its writes to come
  shown,     \* the last snapshot pushed
  unsaved,   \* a save has failed since the last that worked (history)
  untold,    \* a change was not pushed because its operation failed (history)
  promised,  \* contents whose pinning was answered while their file was theirs, and
             \* not taken back since (history)
  crashes,   \* deaths so far
  calm       \* no death and no failing write; settled for a whole behaviour

disk    == <<index, blobs, thumbs>>
ghosts  == <<unsaved, untold, promised>>
vars    == <<history, nextId, disk, pushing, job, shown, ghosts, crashes, calm>>

Ids     == 1..MaxId
Workers == {Runner} \cup Clients
Entry   == [id : Ids, data : Contents, pinned : BOOLEAN]

IdsOf(h)   == {h[i].id : i \in DOMAIN h}
Entries(h) == {h[i] : i \in DOMAIN h}

\* The writes of an operation.  `memory` is where the entries in memory become those
\* of the job.
Do(what, id) == [what |-> what, id |-> id]
Memory == Do("memory", 0)
Save   == Do("save", 0)
Write  == {Memory, Save} \cup [what : {"blob", "thumb", "unlinkBlob", "unlinkThumb"}, id : Ids]

\* An operation under the mutex: who works, the writes still to come, the entries it
\* makes, and the content whose pinning it will answer.
Job == [by : Workers, steps : Seq(Write), new : Seq(Entry), pin : Contents \cup {None}]

ASSUME NoJobAssumption == None \notin Job

TypeOK ==
  /\ history \in Seq(Entry) /\ index \in Seq(Entry)
  /\ \A i, j \in DOMAIN history : history[i].id = history[j].id => i = j
  /\ nextId \in 1..(MaxId + 1) /\ \A i \in DOMAIN history : history[i].id < nextId
  /\ blobs \in [Ids -> Contents \cup {None}] /\ thumbs \in SUBSET Ids
  /\ pushing \in SUBSET Workers
  /\ job # None => job \in Job /\ job.by \notin pushing /\ job.steps # <<>>
  /\ unsaved \in BOOLEAN /\ untold \in BOOLEAN /\ promised \in SUBSET Contents
  /\ crashes \in 0..MaxCrashes /\ calm \in BOOLEAN

-----------------------------------------------------------------------------
(* Lists of entries.                                                       *)

\* Which entries are pinned and which are not.
Pins(h)  == {i \in DOMAIN h : h[i].pinned}
Loose(h) == {i \in DOMAIN h : ~h[i].pinned}

Without(h, id) == Picked(h, {i \in DOMAIN h : h[i].id # id})

-----------------------------------------------------------------------------
(* Opening and showing the store.                                          *)

\* Mutant: entries are not checked against the files.
OpenedUnchecked == index

\* What Store::open makes of the index: entries without a blob are left out.
Opened == Picked(index, {i \in DOMAIN index : blobs[index[i].id] # None})

FreshId(h) == 1 + (IF h = <<>> THEN 0 ELSE CHOOSE m \in IdsOf(h) : \A id \in IdsOf(h) : id <= m)

\* Store::snapshot; a thumbnail is looked up on the disk.
Snapshot(h) ==
  [i \in DOMAIN h |->
     [id |-> h[i].id, pinned |-> h[i].pinned,
      thumb |-> h[i].data \in Images /\ h[i].id \in thumbs]]

Init ==
  /\ history = <<>> /\ nextId = 1
  /\ index = <<>> /\ blobs = [id \in Ids |-> None] /\ thumbs = {}
  /\ pushing = {} /\ job = None
  /\ shown = <<>>
  /\ unsaved = FALSE /\ untold = FALSE /\ promised = {}
  /\ crashes = 0 /\ calm \in BOOLEAN

-----------------------------------------------------------------------------
(* The operations.                                                         *)

\* remove_files for each of a list of entries.
Unlinks(h) ==
  [k \in 1 .. (2 * Len(h)) |->
     IF k % 2 = 1 THEN Do("unlinkBlob", h[(k + 1) \div 2].id)
                  ELSE Do("unlinkThumb", h[k \div 2].id)]

\* What trim() drops: the unpinned entries after the first MaxHistory of them.
TooOld(h) == {i \in Loose(h) : Rank(Loose(h), i) > MaxHistory}

Idle(w) == job = None /\ w \notin pushing

\* The operation takes the mutex.
Work(w, steps, new, pin) ==
  job' = [by |-> w, steps |-> steps, new |-> new, pin |-> pin]

\* Changes the history to `new`, trimmed, and saves it after the first writes.
Changes(w, first, new) ==
  Work(w, first \o Unlinks(Picked(new, TooOld(new))) \o <<Memory, Save>>,
       Picked(new, DOMAIN new \ TooOld(new)), None)

\* Mutant: an entry that only moved is not worth a push.
AddKnownQuiet(w, d) ==
  /\ Idle(w) /\ d \notin Unfit
  /\ \E e \in Entries(history) :
       /\ e.data = d
       /\ history' = <<e>> \o Without(history, e.id)
       /\ index' = history'
  /\ UNCHANGED <<nextId, blobs, thumbs, pushing, job, shown, ghosts, crashes>>

\* Store::add of a content that is in the history: it moves to the front.
AddKnown(w, d) ==
  /\ Idle(w) /\ d \notin Unfit
  /\ \E e \in Entries(history) :
       /\ e.data = d
       /\ Work(w, <<Memory, Save>>, <<e>> \o Without(history, e.id), None)
  /\ UNCHANGED <<history, nextId, disk, pushing, shown, ghosts, crashes>>

\* Store::add of a new content; the id is taken whatever comes of it.
AddNew(w, d) ==
  /\ Idle(w) /\ d \notin Unfit /\ nextId \in Ids
  /\ \A e \in Entries(history) : e.data # d
  /\ Changes(w,
       <<Do("blob", nextId)>> \o (IF d \in Decodable THEN <<Do("thumb", nextId)>> ELSE <<>>),
       <<[id |-> nextId, data |-> d, pinned |-> FALSE]>> \o history)
  /\ nextId' = nextId + 1
  /\ UNCHANGED <<history, disk, pushing, shown, ghosts, crashes>>

\* Store::delete.
Delete(w, e) ==
  /\ Idle(w)
  /\ Work(w, <<Memory>> \o Unlinks(<<e>>) \o <<Save>>, Without(history, e.id), None)
  /\ promised' = promised \ {e.data}
  /\ UNCHANGED <<history, nextId, disk, pushing, shown, unsaved, untold, crashes>>

\* Mutant: pinned entries are cleared too.
ClearAll(w) ==
  /\ Idle(w)
  /\ Work(w, Unlinks(history) \o <<Memory, Save>>, <<>>, None)
  /\ UNCHANGED <<history, nextId, disk, pushing, shown, ghosts, crashes>>

\* Store::clear: the files go first, then the entries.
Clear(w) ==
  /\ Idle(w)
  /\ Work(w, Unlinks(Picked(history, Loose(history))) \o <<Memory, Save>>,
          Picked(history, Pins(history)), None)
  /\ UNCHANGED <<history, nextId, disk, pushing, shown, ghosts, crashes>>

Repinned(e, p) ==
  [i \in DOMAIN history |-> IF history[i] = e THEN [e EXCEPT !.pinned = p] ELSE history[i]]

\* set_pinned(id, true) while there is room.
Pin(w, e) ==
  /\ Idle(w) /\ ~e.pinned
  /\ Cardinality(Pins(history)) < MaxPinned
  /\ Work(w, <<Memory, Save>>, Repinned(e, TRUE), e.data)
  /\ UNCHANGED <<history, nextId, disk, pushing, shown, ghosts, crashes>>

\* Mutant: the change is not written to the index.
UnpinForgets(w, e) ==
  /\ Idle(w) /\ e.pinned
  /\ Work(w, <<Memory>>, Repinned(e, FALSE), None)
  /\ promised' = promised \ {e.data}
  /\ UNCHANGED <<history, nextId, disk, pushing, shown, unsaved, untold, crashes>>

\* set_pinned(id, false): the entry is back under the limit.
Unpin(w, e) ==
  /\ Idle(w) /\ e.pinned
  /\ Changes(w, <<>>, Repinned(e, FALSE))
  /\ promised' = promised \ {e.data}
  /\ UNCHANGED <<history, nextId, disk, pushing, shown, unsaved, untold, crashes>>

\* A call that changes nothing and still pushes: an entry that is pinned or unpinned
\* already, or a clip that was read and could be offered to the compositor.  All the
\* other answers (nothing to store, no such entry, no room) change nothing at all.
Answer(w, e) ==
  /\ Idle(w)
  /\ pushing' = pushing \cup {w}
  /\ UNCHANGED <<history, nextId, disk, job, shown, ghosts, crashes>>

Call(c) ==
  \/ Clear(c)
  \/ \E e \in Entries(history) : Delete(c, e) \/ Pin(c, e) \/ Unpin(c, e) \/ Answer(c, e)

Capture(d) == AddKnown(Runner, d) \/ AddNew(Runner, d)

-----------------------------------------------------------------------------
(* The writes of a job.                                                    *)

Next1 == Head(job.steps)
Rest  == job' = [job EXCEPT !.steps = Tail(@)]
Done  == job' = None /\ pushing' = pushing \cup {job.by}
Fail  == job' = None /\ UNCHANGED pushing

InMemory ==
  /\ job # None /\ Next1.what = "memory"
  /\ history' = job.new
  /\ IF Len(job.steps) = 1 THEN Done ELSE Rest /\ UNCHANGED pushing
  /\ UNCHANGED <<nextId, disk, shown, ghosts, crashes>>

\* write_atomic of a blob: the file is complete or it is not there.
WriteBlob ==
  /\ job # None /\ Next1.what = "blob"
  /\ \E e \in Entries(job.new) :
       e.id = Next1.id /\ blobs' = [blobs EXCEPT ![e.id] = e.data]
  /\ Rest
  /\ UNCHANGED <<history, nextId, index, thumbs, pushing, shown, ghosts, crashes>>

\* Without its blob an entry is not added, and nobody is told.
WriteBlobFails ==
  /\ ~calm
  /\ job # None /\ Next1.what = "blob"
  /\ Fail
  /\ UNCHANGED <<history, nextId, disk, shown, ghosts, crashes>>

\* A thumbnail that cannot be written is done without.
WriteThumb ==
  /\ job # None /\ Next1.what = "thumb"
  /\ thumbs' = thumbs \cup {Next1.id} \/ (~calm /\ UNCHANGED thumbs)
  /\ Rest
  /\ UNCHANGED <<history, nextId, index, blobs, pushing, shown, ghosts, crashes>>

\* The errors of remove_file are ignored.
Unlink ==
  /\ job # None
  /\ \/ /\ Next1.what = "unlinkBlob"
        /\ blobs' = [blobs EXCEPT ![Next1.id] = None] \/ (~calm /\ UNCHANGED blobs)
        /\ UNCHANGED thumbs
     \/ /\ Next1.what = "unlinkThumb"
        /\ thumbs' = thumbs \ {Next1.id} \/ (~calm /\ UNCHANGED thumbs)
        /\ UNCHANGED blobs
  /\ Rest
  /\ UNCHANGED <<history, nextId, index, pushing, shown, ghosts, crashes>>

\* The index is replaced at once.  Only the answer to a pin makes a promise, and only
\* if the file is the entry's own: when it is not, see BlobIsItsContent.
Saved ==
  /\ job # None /\ Next1.what = "save"
  /\ index' = history
  /\ Done
  /\ unsaved' = FALSE
  /\ promised' = promised \cup {d \in {job.pin} : \E e \in Entries(history) : e.data = d /\ blobs[e.id] = d}
  /\ UNCHANGED <<history, nextId, blobs, thumbs, shown, untold, crashes>>

\* The entries in memory stay as they are, and nobody is told of the change.
SaveFails ==
  /\ ~calm
  /\ job # None /\ Next1.what = "save"
  /\ Fail
  /\ unsaved' = TRUE /\ untold' = TRUE
  /\ UNCHANGED <<history, nextId, disk, shown, promised, crashes>>

-----------------------------------------------------------------------------
\* sink.push(self.snapshot()): the snapshot takes the mutex again.
Push(w) ==
  /\ w \in pushing /\ job = None
  /\ shown' = Snapshot(history)
  /\ untold' = FALSE
  /\ pushing' = pushing \ {w}
  /\ UNCHANGED <<history, nextId, disk, job, unsaved, promised, crashes>>

\* The daemon dies and is started again; run() pushes what it has opened.
Crash ==
  /\ ~calm /\ crashes < MaxCrashes
  /\ crashes' = crashes + 1
  /\ history' = Opened /\ nextId' = FreshId(Opened)
  /\ pushing' = {} /\ job' = None
  /\ shown' = Snapshot(Opened)
  /\ unsaved' = FALSE /\ untold' = FALSE
  /\ UNCHANGED <<disk, promised>>

Step ==
  \/ InMemory \/ WriteBlob \/ WriteBlobFails \/ WriteThumb \/ Unlink \/ Saved \/ SaveFails

Next ==
  /\ \/ \E d \in Contents : Capture(d)
     \/ \E c \in Clients : Call(c)
     \/ \E w \in Workers : Push(w)
     \/ Step \/ Crash
  /\ UNCHANGED calm

Spec == Init /\ [][Next]_vars

-----------------------------------------------------------------------------
\* Between operations every entry has a file to be copied from, also after a restart
\* in the middle of one (store.rs:86).
AllCopyable == job = None => \A id \in IdsOf(history) : blobs[id] # None

\* The history keeps to its limits in memory and on the disk, in the middle of an
\* operation too, and never holds a content twice (store.rs:18-21, 45).
WithinLimits ==
  \A h \in {history, index} :
    /\ Cardinality(Loose(h)) <= MaxHistory /\ Cardinality(Pins(h)) <= MaxPinned
    /\ \A i, j \in DOMAIN h : h[i].data = h[j].data => i = j

\* Once a pin is answered while the file of its entry holds the content, the content is
\* on the disk, pinned and complete, at every moment until somebody unpins or deletes
\* it: no crash, failed write, trim or clear costs it, however many there are
\* (store.rs:20 "A rogzitett elem nem esik ki az elozmenybol").
PinnedIsSafe ==
  \A d \in promised : \E i \in DOMAIN index :
    index[i].data = d /\ index[i].pinned /\ blobs[index[i].id] = d

\* A restart between operations gives back the history in memory, unless its last
\* save has failed.
RestartIsInvisible == job = None /\ ~unsaved => Opened = history

\* When nobody is working, the panel shows the store: operations that overlap do not
\* leave a snapshot of the earlier behind (mod.rs:159, 237).
FeedIsCurrent ==
  job = None /\ pushing = {} /\ ~untold => shown = Snapshot(history)

\* Without crashes and failed writes the directory holds the files of the history and
\* no others.
NothingLeaks ==
  calm /\ job = None =>
    {id \in Ids : blobs[id] # None} = IdsOf(history) /\ thumbs \subseteq IdsOf(history)

\* The history is within its limits, can be copied, and its files are on the disk.
StoreInv == TypeOK /\ AllCopyable /\ WithinLimits /\ NothingLeaks

\* blobs/<id> is the content of entry id (store.rs:5 "a nyers tartalom, pontosan ugy,
\* ahogy a forras adta").
BlobIsItsContent ==
  job = None => \A i \in DOMAIN history : blobs[history[i].id] \in {None, history[i].data}
=============================================================================
