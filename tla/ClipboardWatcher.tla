-------------------------- MODULE ClipboardWatcher --------------------------
(***************************************************************************)
(* The daemon's clipboard and the compositor (modules/clipboard/           *)
(* wayland.rs): a thread of the daemon is told of every new selection and  *)
(* reads what it offers, each on a thread of its own; it offers selections *)
(* itself when a stored entry is copied, or when the clipboard has become  *)
(* empty because the program that owned the selection is gone.             *)
(*                                                                         *)
(* Requests and events are on their way for a while, so both sides act on  *)
(* a selection the other has already replaced.                             *)
(***************************************************************************)
EXTENDS Naturals, Sequences, SequencesExt

CONSTANTS Contents, \* what programs put on the clipboard
          Secrets,  \* those a password manager marks
          MaxUser,  \* bound: what the user does
          None

SecretsAssumption == Secrets \subseteq Contents
NoneAssumption == None \notin Contents
BoundAssumption == MaxUser \in Nat

VARIABLES sel,      \* the selection, as the compositor has it
          wire,     \* events on their way to the daemon
          requests, \* requests on their way to the compositor
          source,   \* the source the thread believes it offers
          had,      \* there has been a selection (had_selection)
          reading,  \* the reader threads: what each reads, and whether from the daemon
          events,   \* what the module's loop is still to handle
          commands, \* selections the thread is asked to offer
          history,  \* the stored contents, the newest first
          sources,  \* how many sources the daemon has made
          user      \* how much the user has done

compositor == <<sel, wire>>
thread == <<source, had, reading, sources>>
module == <<events, history>>
vars == <<sel, wire, requests, source, had, reading, events, commands, history, sources, user>>

\* A selection: a program's (id 0), or the daemon's own with its source's number.
Selection(id, c) == [id |-> id, content |-> c]

NoSource == Selection(0, None)

Reader(own, c) == [own |-> own, content |-> c]

Message(kind, id, c) == [kind |-> kind, id |-> id, content |-> c]

Init ==
  /\ \E c \in Contents \cup {None} :
       /\ sel = Selection(0, c)
       /\ wire = IF c = None THEN <<>> ELSE <<Message("selection", 0, c)>>
  /\ requests = <<>> /\ commands = <<>> /\ events = <<>>
  /\ source = NoSource /\ sources = 0
  /\ had = FALSE
  /\ reading = {}
  /\ history = <<>>
  /\ user = 0

\* The compositor replaces the selection, and tells the one it takes it from.
Replace(s) ==
  /\ sel' = s
  /\ wire' = Append(IF sel.id = 0 THEN wire ELSE Append(wire, Message("cancelled", sel.id, None)),
                    Message("selection", s.id, s.content))

UserActs == user < MaxUser /\ user' = user + 1

Copies(c) == UserActs /\ Replace(Selection(0, c)) /\ UNCHANGED <<requests, thread, module, commands>>

Leaves ==
  /\ UserActs /\ sel.id = 0 /\ sel.content # None
  /\ Replace(Selection(0, None))
  /\ UNCHANGED <<requests, thread, module, commands>>

\* A stored entry is copied back.
copy(c) ==
  /\ UserActs
  /\ c \in ToSet(history)
  /\ commands' = Append(commands, c)
  /\ UNCHANGED <<compositor, requests, thread, module>>

\* A new selection, or the request to send what one of the daemon's sources holds.
Compositor ==
  /\ requests # <<>>
  /\ requests' = Tail(requests)
  /\ LET r == Head(requests) IN
       IF r.kind = "set" THEN Replace(Selection(r.id, r.content))
       ELSE wire' = Append(wire, Message("send", r.id, None)) /\ UNCHANGED sel
  /\ UNCHANGED <<thread, module, commands, user>>

-----------------------------------------------------------------------------
(* The thread that talks to the compositor.                                 *)

event_loop_command ==
  /\ commands # <<>>
  /\ commands' = Tail(commands)
  /\ sources' = sources + 1
  /\ source' = Selection(sources', Head(commands))
  /\ requests' = Append(requests, Message("set", sources', Head(commands)))
  /\ UNCHANGED <<compositor, had, reading, module, user>>

\* What is marked secret is not asked for in any type.
choose_mime(c) == c \notin Secrets

\* An own selection is read like any other: the bytes come from the own source.
on_selection(e) ==
  IF e.content = None
  THEN /\ events' = IF had THEN Append(events, Message("cleared", 0, None)) ELSE events
       /\ UNCHANGED <<had, reading, requests>>
  ELSE /\ had' = TRUE
       /\ reading' = IF choose_mime(e.content) /\ e.id = 0
                     THEN reading \cup {Reader(FALSE, e.content)} ELSE reading
       /\ requests' = IF choose_mime(e.content) /\ e.id # 0
                      THEN Append(requests, Message("receive", e.id, None)) ELSE requests
       /\ UNCHANGED events

\* Only the source that is offered now is served, and only its own cancellation
\* ends it.
Send(e) ==
  reading' = IF e.id = source.id THEN reading \cup {Reader(TRUE, source.content)} ELSE reading

\* Mutant: any cancellation ends the source that is offered now.
CancelledAny(e) == source' = NoSource

Cancelled(e) == source' = IF e.id = source.id THEN NoSource ELSE source

Dispatch ==
  /\ wire # <<>>
  /\ wire' = Tail(wire)
  /\ LET e == Head(wire) IN
       \/ e.kind = "selection" /\ on_selection(e) /\ UNCHANGED source
       \/ e.kind = "send" /\ Send(e) /\ UNCHANGED <<source, had, requests, events>>
       \/ e.kind = "cancelled" /\ Cancelled(e) /\ UNCHANGED <<had, reading, requests, events>>
  /\ UNCHANGED <<sel, commands, history, sources, user>>

\* Mutant: the pipe the daemon writes to itself stays open, and its reader never sees
\* its end.
ReaderEndsNoEof(r) ==
  /\ ~r.own
  /\ reading' = reading \ {r}
  /\ events' = Append(events, Message("captured", 0, r.content))
  /\ UNCHANGED <<compositor, requests, source, had, sources, commands, history, user>>

\* A reader thread ends, in whatever order: with the content, or, when the program
\* is gone or the content too large, with nothing.
ReaderEnds(r) ==
  /\ reading' = reading \ {r}
  /\ \/ events' = Append(events, Message("captured", 0, r.content))
     \/ UNCHANGED events
  /\ UNCHANGED <<compositor, requests, source, had, sources, commands, history, user>>

-----------------------------------------------------------------------------
(* The module's loop.                                                       *)

\* A content that is known comes to the front.
position(c) == CHOOSE i \in DOMAIN history : history[i] = c

add(c) ==
  history' = <<c>> \o IF c \in ToSet(history) THEN RemoveAt(history, position(c)) ELSE history

\* A clipboard that has become empty gets the newest entry.
Handle ==
  /\ events # <<>>
  /\ events' = Tail(events)
  /\ IF Head(events).kind = "captured"
     THEN add(Head(events).content) /\ UNCHANGED commands
     ELSE /\ commands' = IF history = <<>> THEN commands ELSE Append(commands, Head(history))
          /\ UNCHANGED history
  /\ UNCHANGED <<compositor, requests, thread, user>>

\* The daemon writes what its own readers read.
DaemonSteps ==
  \/ event_loop_command \/ Dispatch \/ Handle
  \/ \E r \in reading : r.own /\ ReaderEnds(r)

\* Another program closes its end of the pipe when it likes, if ever: read_all has no
\* deadline.
ProgramLetsGo == \E r \in reading : ~r.own /\ ReaderEnds(r)

Next ==
  \/ Compositor \/ DaemonSteps \/ ProgramLetsGo \/ Leaves
  \/ \E c \in Contents : Copies(c) \/ copy(c)

Fairness == WF_vars(Compositor) /\ WF_vars(DaemonSteps)

Spec == Init /\ [][Next]_vars /\ Fairness

-----------------------------------------------------------------------------
(* Properties.                                                              *)

TypeOK ==
  /\ sel \in [id: Nat, content: Contents \cup {None}]
  /\ source \in [id: 0..sources, content: Contents \cup {None}]
  /\ had \in BOOLEAN /\ reading \subseteq [own: BOOLEAN, content: Contents]
  /\ history \in Seq(Contents) /\ commands \in Seq(Contents)
  /\ user \in 0..MaxUser

\* Whichever of the daemon's selections the compositor has, there is something to
\* paste: the thread holds its source, or has already asked for a newer one; a late
\* cancellation of an older source takes nothing away.  And nothing marked secret
\* gets as far as a reader, the history or a selection of the daemon's.
SelectionIsServed ==
  /\ TypeOK
  /\ sel.id # 0 =>
       \/ source = sel
       \/ \E i \in DOMAIN requests : requests[i] = Message("set", source.id, source.content)
  /\ ({r.content : r \in reading} \cup ToSet(history) \cup {source.content}) \cap Secrets = {}

\* What the requests and events on their way can hold.
WireTypeOK ==
  /\ sources \in Nat /\ sel.id \in 0..sources
  /\ requests \in Seq([kind : {"set", "receive"}, id : 1..sources, content : Contents \cup {None}])
  /\ wire \in Seq([kind : {"selection", "send", "cancelled"}, id : 0..sources,
                   content : Contents \cup {None}])
  /\ \A i \in DOMAIN wire : wire[i].kind = "send" => wire[i].id # 0

\* The sources still to be set, by their requests, and those to be cancelled.
Sets(r) == {i \in DOMAIN r : r[i].kind = "set"}
CancelledIds(w) == {w[i].id : i \in {j \in DOMAIN w : w[j].kind = "cancelled"}}

\* The daemon's sources are set in the order they were made, and each is cancelled
\* after it was set and before the next one is.
InOrder ==
  /\ \A i, j \in Sets(requests) : i < j => requests[i].id < requests[j].id
  /\ \A i \in Sets(requests), n \in {sel.id} \cup CancelledIds(wire) : n < requests[i].id
  /\ sel.id # 0 => \A n \in CancelledIds(wire) : n < sel.id

\* As long as a source of the daemon's is on its way, or has the selection, the thread
\* holds the newest one.
Asked == \E i \in DOMAIN requests : requests[i] = Message("set", source.id, source.content)

Held ==
  /\ source.id = 0 <=> source.content = None
  /\ Sets(requests) # {} => source.id = sources /\ Asked
  /\ sel.id # 0 => source = sel \/ Asked

\* What is read, stored, offered or asked for is not marked.
Unmarked ==
  /\ events \in Seq([kind : {"captured"}, id : {0}, content : Contents \ Secrets]
                      \cup {Message("cleared", 0, None)})
  /\ \A r \in reading : r.content \notin Secrets
  /\ source.content \notin Secrets
  /\ history \in Seq(Contents \ Secrets) /\ commands \in Seq(Contents \ Secrets)

\* Why the selection is served: the compositor takes the daemon's sources in order.
IInv == TypeOK /\ WireTypeOK /\ InOrder /\ Held /\ Unmarked

\* The daemon captures its own selection and replaces one that is gone; these two do
\* not feed each other, and no reader waits for the end of a pipe the daemon itself
\* keeps open: once the user has done, everything comes to rest, but for the threads
\* that read from another program, which may keep its end open for good
\* (wayland.rs:248-258).
AtRest ==
  /\ wire = <<>> /\ requests = <<>> /\ events = <<>> /\ commands = <<>>
  /\ \A r \in reading : ~r.own

ComesToRest == <>[]AtRest
=============================================================================
