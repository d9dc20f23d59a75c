----------------------------- MODULE Connection -----------------------------
(***************************************************************************)
(* One client's connection (ipc/server.rs): the reader task that handles   *)
(* its lines one after the other, the tasks of its calls, the forwarder of *)
(* events and the single writer, which share a bounded output queue and a  *)
(* `closed` flag.  What the requests do to the hub is the business of Hub  *)
(* and StateFeed; here a request is a number, and either a call or one of  *)
(* the operations that are answered in place.                              *)
(***************************************************************************)
EXTENDS Naturals, Sequences, FiniteSets

CONSTANTS MaxInflight,   \* MAX_INFLIGHT_CALLS
          ClientQueue,   \* CLIENT_QUEUE
          SocketBuffer,  \* lines the kernel holds for a client that does not read
          MaxRequests,   \* bound of the model: requests of the client
          None, Event    \* no line, and a line that is no reply

Ids == 1..MaxRequests

ASSUME ConnectionAssumption ==
  /\ MaxInflight \in Nat \ {0} /\ ClientQueue \in Nat \ {0}
  /\ SocketBuffer \in Nat \ {0} /\ MaxRequests \in Nat
  /\ None \notin Ids /\ Event \notin Ids /\ None # Event

VARIABLES
  inbox,    \* requests on the way to the reader
  nextReq,  \* the client's next request
  client,   \* "open", "eof" (it sends no more), "garbage" (an endless line), "gone"
  reader,   \* "reading", "cleanup", "drain", "done"
  failed,   \* the reader loop ended with an error
  closed,   \* ClientOut::closed
  handled,  \* the requests the reader has taken up (history)
  running,  \* the calls whose task runs
  died,     \* the calls whose task has ended in a panic (history)
  queue,    \* the output queue
  writer,   \* "on", "ended" by itself, "aborted"
  hand,     \* the line the writer is writing
  wire,     \* lines written to the socket and not read by the client
  got       \* got[i]: replies to request i the client has read

clientVars == <<inbox, nextReq, client>>
outVars    == <<queue, writer, hand, wire, got>>
vars       == <<clientVars, reader, failed, closed, handled, running, died, outVars>>

Lines == Ids \cup {Event}

TypeOK ==
  /\ inbox \in Seq(Ids) /\ nextReq \in 1..(MaxRequests + 1)
  /\ client \in {"open", "eof", "garbage", "gone"}
  /\ reader \in {"reading", "cleanup", "drain", "done"}
  /\ failed \in BOOLEAN /\ closed \in BOOLEAN
  /\ handled \in SUBSET Ids
  /\ died \in SUBSET Ids
  /\ running \in SUBSET Ids /\ Cardinality(running) <= MaxInflight
  /\ queue \in Seq(Lines) /\ Len(queue) <= ClientQueue
  /\ writer \in {"on", "ended", "aborted"}
  /\ hand \in Lines \cup {None}
  /\ wire \in Seq(Lines) /\ Len(wire) <= SocketBuffer
  /\ got \in [Ids -> Nat]

Init ==
  /\ inbox = <<>> /\ nextReq = 1 /\ client = "open"
  /\ reader = "reading" /\ failed = FALSE /\ closed = FALSE
  /\ handled = {} /\ running = {} /\ died = {}
  /\ queue = <<>> /\ writer = "on" /\ hand = None /\ wire = <<>>
  /\ got = [i \in Ids |-> 0]

-----------------------------------------------------------------------------
(* The client, external to the daemon.                                     *)

ClientSends ==
  /\ client = "open" /\ nextReq \in Ids
  /\ inbox' = Append(inbox, nextReq)
  /\ nextReq' = nextReq + 1
  /\ UNCHANGED <<client, reader, failed, closed, handled, running, died, outVars>>

\* It shuts its sending side, starts a line without an end, or disappears.
ClientEnds ==
  /\ \/ client = "open" /\ client' \in {"eof", "garbage", "gone"}
     \/ client = "eof" /\ client' = "gone"
  /\ UNCHANGED <<inbox, nextReq, reader, failed, closed, handled, running, died, outVars>>

ClientReads ==
  /\ client # "gone" /\ wire # <<>>
  /\ got' = IF Head(wire) = Event THEN got ELSE [got EXCEPT ![Head(wire)] = @ + 1]
  /\ wire' = Tail(wire)
  /\ UNCHANGED <<clientVars, reader, failed, closed, handled, running, died, queue, writer, hand>>

-----------------------------------------------------------------------------
(* ClientOut.                                                              *)

\* Nothing is sent after a close; a full queue, or one without its writer, closes.
Send(line) ==
  IF closed \/ writer # "on" \/ Len(queue) >= ClientQueue
  THEN closed' = TRUE /\ UNCHANGED queue
  ELSE queue' = Append(queue, line) /\ UNCHANGED closed

-----------------------------------------------------------------------------
(* The reader.                                                             *)

\* The select is biased: a close goes before the next line.
Reads == reader = "reading" /\ ~closed /\ inbox # <<>>

TakeUp ==
  /\ inbox' = Tail(inbox)
  /\ handled' = handled \cup {Head(inbox)}
  /\ UNCHANGED <<nextReq, client, reader, failed, died, writer, hand, wire, got>>

\* Everything that is answered in place: subscribe, unsubscribe, describe, and what
\* cannot be understood.
HandleInPlace ==
  /\ Reads
  /\ Send(Head(inbox))
  /\ TakeUp
  /\ UNCHANGED running

\* Mutant: the limit is reported and not enforced.
HandleCallAnyway ==
  /\ Reads
  /\ running' = running \cup {Head(inbox)}
  /\ IF Cardinality(running) < MaxInflight THEN UNCHANGED <<queue, closed>>
                                           ELSE Send(Head(inbox))
  /\ TakeUp

\* A call gets a task while there is a slot, and an error at once when there is none.
HandleCall ==
  /\ Reads
  /\ \/ /\ Cardinality(running) < MaxInflight
        /\ running' = running \cup {Head(inbox)}
        /\ UNCHANGED <<queue, closed>>
     \/ /\ Cardinality(running) >= MaxInflight
        /\ Send(Head(inbox))
        /\ UNCHANGED running
  /\ TakeUp

\* The loop ends on a close, and when all lines are read on EOF or a read error.
ReaderStops ==
  /\ reader = "reading"
  /\ \/ closed /\ UNCHANGED failed
     \/ /\ ~closed /\ inbox = <<>>
        /\ \/ client \in {"eof", "gone"} /\ UNCHANGED failed
           \/ client \in {"garbage", "gone"} /\ failed' = TRUE
  /\ reader' = "cleanup"
  /\ UNCHANGED <<clientVars, closed, handled, running, died, outVars>>

\* The subscriptions are released and the forwarder is aborted; after a failure the
\* writer is aborted too.
CleanUp ==
  /\ reader = "cleanup"
  /\ \/ /\ closed \/ failed
        /\ reader' = "done"
        /\ writer' = IF writer = "on" THEN "aborted" ELSE writer
        /\ hand' = None
     \/ /\ ~closed /\ ~failed
        /\ reader' = "drain"
        /\ UNCHANGED <<writer, hand>>
  /\ UNCHANGED <<clientVars, failed, closed, handled, running, died, queue, wire, got>>

DrainEnds ==
  /\ reader = "drain" /\ writer # "on"
  /\ reader' = "done"
  /\ UNCHANGED <<clientVars, failed, closed, handled, running, died, outVars>>

\* Mutant: the writer is waited for without a limit.
DrainTimeoutNever == FALSE /\ UNCHANGED vars

\* DRAIN_TIMEOUT: a client that does not read is not waited for.
DrainTimeout ==
  /\ reader = "drain" /\ writer = "on"
  /\ writer' = "aborted" /\ hand' = None
  /\ reader' = "done"
  /\ UNCHANGED <<clientVars, failed, closed, handled, running, died, queue, wire, got>>

ReaderStep == HandleInPlace \/ HandleCall \/ ReaderStops \/ CleanUp \/ DrainEnds

-----------------------------------------------------------------------------
(* The other tasks.                                                        *)

\* A call ends and its task sends the reply; nobody aborts it when the client leaves.
CallEnds(i) ==
  /\ i \in running
  /\ running' = running \ {i}
  /\ Send(i)
  /\ UNCHANGED <<clientVars, reader, failed, handled, died, writer, hand, wire, got>>

\* A call panics: its task is unwound, gives its slot back and sends nothing.  (In a build
\* that unwinds; the release build aborts, and the daemon with all connections ends.)
CallPanics(i) ==
  /\ i \in running
  /\ running' = running \ {i}
  /\ died' = died \cup {i}
  /\ UNCHANGED <<clientVars, reader, failed, closed, handled, outVars>>

\* The forwarder lives until the clean-up, and stops at the first event it cannot send.
Forward ==
  /\ reader \in {"reading", "cleanup"} /\ ~closed
  /\ Send(Event)
  /\ UNCHANGED <<clientVars, reader, failed, handled, running, died, writer, hand, wire, got>>

WriterTakes ==
  /\ writer = "on" /\ hand = None /\ queue # <<>>
  /\ hand' = Head(queue)
  /\ queue' = Tail(queue)
  /\ UNCHANGED <<clientVars, reader, failed, closed, handled, running, died, writer, wire, got>>

\* write_all waits for room in the socket, and fails when the client is gone.
WriterWrites ==
  /\ writer = "on" /\ hand # None
  /\ \/ /\ client # "gone" /\ Len(wire) < SocketBuffer
        /\ wire' = Append(wire, hand)
        /\ UNCHANGED <<closed, writer>>
     \/ /\ client = "gone"
        /\ closed' = TRUE /\ writer' = "ended"
        /\ UNCHANGED wire
  /\ hand' = None
  /\ UNCHANGED <<clientVars, reader, failed, handled, running, died, queue, got>>

\* Mutant: the end of the reader is the end of the output.
WriterEndsEarly ==
  /\ writer = "on" /\ hand = None /\ queue = <<>>
  /\ reader = "drain"
  /\ writer' = "ended"
  /\ UNCHANGED <<clientVars, reader, failed, closed, handled, running, died, queue, hand, wire, got>>

\* The queue ends when the reader, the forwarder and every call have let go of it.
WriterEnds ==
  /\ writer = "on" /\ hand = None /\ queue = <<>>
  /\ reader = "drain" /\ running = {}
  /\ writer' = "ended"
  /\ UNCHANGED <<clientVars, reader, failed, closed, handled, running, died, queue, hand, wire, got>>

WriterStep == WriterTakes \/ WriterWrites \/ WriterEnds

-----------------------------------------------------------------------------
Next ==
  \/ ClientSends \/ ClientEnds \/ ClientReads
  \/ ReaderStep \/ DrainTimeout
  \/ \E i \in Ids : CallEnds(i) \/ CallPanics(i)
  \/ Forward \/ WriterStep

Spec == Init /\ [][Next]_vars

\* The daemon's tasks run and its timer fires.  No call need end, no event need come,
\* and the client need not read.
FairSpec == Spec /\ WF_vars(ReaderStep) /\ WF_vars(DrainTimeout) /\ WF_vars(WriterStep)

-----------------------------------------------------------------------------
Occurs(i, s) == Cardinality({k \in DOMAIN s : s[k] = i})

\* How many tasks, buffers and hands a reply is in, or would be if its task had not died.
Copies(i) ==
  (IF i \in running THEN 1 ELSE 0) + (IF i \in died THEN 1 ELSE 0)
  + Occurs(i, queue) + (IF hand = i THEN 1 ELSE 0) + Occurs(i, wire) + got[i]

\* A request is answered once at most; while the connection is sound its answer is
\* being made, under way, or there, or else its call has panicked, and is not answered
\* (protocol.rs:1-20, server.rs:342-471).
OneAnswer ==
  \A i \in Ids :
    /\ Copies(i) <= 1
    /\ i \in handled /\ ~closed /\ writer # "aborted" => Copies(i) = 1

\* Replies are neither lost nor doubled, within the bounds on calls and queue.
ConnectionInv == TypeOK /\ OneAnswer

\* A connection that ended in order has written every answer out, the ones of calls
\* that were still running at the EOF included, but for those that panicked
\* (server.rs:331-333, 735-752).
OrderlyEndDelivers ==
  reader = "done" /\ writer = "ended" /\ ~closed =>
    running = {} /\ \A i \in handled \ died : Occurs(i, wire) + got[i] = 1

\* A connection whose output has failed, or whose client has left or stopped sending,
\* ends, whatever the client and its calls do: also with a client that is silent, a
\* writer that is stuck and calls that hang (server.rs:697-733).
EndsWhenLost == []<>(closed \/ client # "open" => reader = "done")
=============================================================================
