---------------------------- MODULE ServicesProofs ----------------------------
(***************************************************************************)
(* What holds of the connection for every capacity, every limit on calls   *)
(* and any number of requests, and of the modules and helpers of Services  *)
(* for every value of their constants.                                     *)
(***************************************************************************)
EXTENDS Services, FunctionTheorems, FiniteSetTheorems, SequenceTheorems, TLAPS

-----------------------------------------------------------------------------
(* The connection.  A reply is in a task, a buffer or a hand, and every      *)
(* step moves it from one to the next; the invariant counts where it is.     *)
(* What the counting needs is that a request is taken up once (InboxIsNext), *)
(* that nothing answers a request before that (Untouched), and what is left  *)
(* of the output when the writer is not there any more (WriterLeaves).       *)

\* The unread requests are the last ones the client has sent, in their order.
InboxIsNext ==
  /\ Len(inbox) < nextReq
  /\ \A j \in 1..Len(inbox) : inbox[j] = nextReq - Len(inbox) + j - 1
  /\ \A i \in handled : i < nextReq - Len(inbox)

\* Nothing exists of a reply to a request nobody has taken up.
Untouched == \A i \in Ids \ handled : Copies(i) = 0

\* While requests are read, a sound connection has its writer; and a writer that ended by
\* itself leaves a connection that is closed, or one in which nothing can be sent any more.
WriterLeaves ==
  /\ writer # "on" => hand = None
  /\ reader \in {"reading", "cleanup"} /\ ~closed => writer = "on"
  /\ writer = "ended" /\ ~closed =>
       reader \in {"drain", "done"} /\ running = {} /\ queue = <<>>

IInv == ConnectionInv /\ InboxIsNext /\ Untouched /\ WriterLeaves

-----------------------------------------------------------------------------
(* How often a line is in a buffer.                                        *)

\* The places of a line in a buffer are finitely many, so counting them makes sense.
LEMMA OccursNat ==
  ASSUME NEW S, NEW s \in Seq(S), NEW i
  PROVE  IsFiniteSet({k \in DOMAIN s : s[k] = i}) /\ Occurs(i, s) \in Nat
<1>1. IsFiniteSet(1..Len(s))
  BY FS_Interval, Len(s) \in Int, 1 \in Int
<1>2. {k \in DOMAIN s : s[k] = i} \in SUBSET (1..Len(s))
  OBVIOUS
<1>3. IsFiniteSet({k \in DOMAIN s : s[k] = i})
  BY <1>1, <1>2, FS_Subset
<1>. QED  BY <1>3, FS_CardinalityType DEF Occurs

\* An empty buffer holds no line.
LEMMA OccursEmpty ==
  ASSUME NEW i
  PROVE  Occurs(i, <<>>) = 0
<1>1. {k \in DOMAIN <<>> : <<>>[k] = i} = {}
  OBVIOUS
<1>. QED  BY <1>1, FS_EmptySet DEF Occurs

\* A line put at the end of a buffer is there once more, and every other as often as before.
LEMMA OccursAppend ==
  ASSUME NEW S, NEW s \in Seq(S), NEW e \in S, NEW i
  PROVE  Occurs(i, Append(s, e)) = Occurs(i, s) + (IF e = i THEN 1 ELSE 0)
<1>. DEFINE At(t) == {k \in DOMAIN t : t[k] = i}
            n == Len(s) + 1
<1>1. IsFiniteSet(At(s)) /\ Cardinality(At(s)) \in Nat
  BY OccursNat DEF Occurs
<1>2. n \notin At(s)
  OBVIOUS
<1>3. Occurs(i, s) = Cardinality(At(s)) /\ Occurs(i, Append(s, e)) = Cardinality(At(Append(s, e)))
  BY DEF Occurs
<1>4. e = i => At(Append(s, e)) = At(s) \cup {n}
  OBVIOUS
<1>5. e # i => At(Append(s, e)) = At(s)
  OBVIOUS
<1>. HIDE DEF At, n
<1>6. Cardinality(At(s) \cup {n}) = Cardinality(At(s)) + 1
  BY <1>1, <1>2, FS_AddElement
<1>7. CASE e = i
  <2>1. Occurs(i, Append(s, e)) = Occurs(i, s) + 1
    BY <1>3, <1>4, <1>6, <1>7
  <2>. QED  BY <2>1, <1>7
<1>8. CASE e # i
  <2>1. Occurs(i, Append(s, e)) = Occurs(i, s)
    BY <1>3, <1>5, <1>8
  <2>. QED  BY <1>1, <1>3, <1>8, <2>1
<1>. QED  BY <1>7, <1>8

\* What is taken from the head of a buffer is there once less.
LEMMA OccursTail ==
  ASSUME NEW S, NEW s \in Seq(S), s # <<>>, NEW i
  PROVE  Occurs(i, s) = Occurs(i, Tail(s)) + (IF Head(s) = i THEN 1 ELSE 0)
<1>. DEFINE At(t) == {k \in DOMAIN t : t[k] = i}
            Later == At(s) \ {1}
            next == [k \in At(Tail(s)) |-> k + 1]
<1>0. /\ Tail(s) \in Seq(S) /\ Len(Tail(s)) = Len(s) - 1 /\ Len(s) \in Nat \ {0}
      /\ \A k \in 1..Len(Tail(s)) : Tail(s)[k] = s[k + 1]
  OBVIOUS
<1>1. IsFiniteSet(At(s)) /\ Cardinality(At(s)) \in Nat
  BY OccursNat DEF Occurs
<1>2. IsFiniteSet(At(Tail(s))) /\ Cardinality(At(Tail(s))) \in Nat
  BY OccursNat, <1>0 DEF Occurs
<1>3. next \in Bijection(At(Tail(s)), Later)
  <2>1. next \in [At(Tail(s)) -> Later]
    BY <1>0
  <2>2. \A a, b \in At(Tail(s)) : next[a] = next[b] => a = b
    BY <1>0
  <2>3. \A k \in Later : \E a \in At(Tail(s)) : next[a] = k
    <3>. SUFFICES ASSUME NEW k \in Later PROVE \E a \in At(Tail(s)) : next[a] = k
      OBVIOUS
    <3>1. k - 1 \in At(Tail(s))
      BY <1>0
    <3>. QED  BY <1>0, <3>1
  <2>. QED  BY <2>1, <2>2, <2>3, Fun_IsBij
<1>4. Cardinality(Later) = Cardinality(At(Tail(s)))
  BY <1>2, <1>3, FS_Bijection DEF ExistsBijection
<1>5. Cardinality(Later) = IF 1 \in At(s) THEN Cardinality(At(s)) - 1 ELSE Cardinality(At(s))
  BY <1>1, FS_RemoveElement
<1>6. 1 \in At(s) <=> Head(s) = i
  BY <1>0
<1>7. \A t : Occurs(i, t) = Cardinality(At(t))
  BY DEF Occurs
<1>. HIDE DEF At, Later
<1>. QED  BY <1>1, <1>2, <1>4, <1>5, <1>6, <1>7

-----------------------------------------------------------------------------
(* Types.                                                                  *)

\* Each of the buffers of a reply counts.
LEMMA PartsNat ==
  TypeOK => \A i \in Ids : /\ Occurs(i, queue) \in Nat /\ Occurs(i, wire) \in Nat
                           /\ got[i] \in Nat /\ Copies(i) \in Nat
<1>. SUFFICES ASSUME TypeOK, NEW i \in Ids
              PROVE  /\ Occurs(i, queue) \in Nat /\ Occurs(i, wire) \in Nat
                     /\ got[i] \in Nat /\ Copies(i) \in Nat
  OBVIOUS
<1>1. queue \in Seq(Lines) /\ wire \in Seq(Lines) /\ got[i] \in Nat
  BY DEF TypeOK
<1>2. Occurs(i, queue) \in Nat /\ Occurs(i, wire) \in Nat
  BY <1>1, OccursNat
<1>. QED  BY <1>1, <1>2 DEF Copies

\* Send either closes the connection and queues nothing, or queues its line.
LEMMA SendResult ==
  ASSUME TypeOK, NEW line \in Lines, Send(line)
  PROVE  /\ queue' \in Seq(Lines) /\ Len(queue') <= ClientQueue
         /\ closed' \in BOOLEAN
         /\ \/ closed' /\ queue' = queue
            \/ /\ ~closed' /\ ~closed /\ writer = "on"
               /\ \A i \in Ids : Occurs(i, queue') = Occurs(i, queue) + (IF line = i THEN 1 ELSE 0)
<1>1. queue \in Seq(Lines) /\ Len(queue) <= ClientQueue /\ closed \in BOOLEAN
  BY DEF TypeOK
<1>2. CASE closed \/ writer # "on" \/ Len(queue) >= ClientQueue
  BY <1>1, <1>2 DEF Send
<1>3. CASE ~(closed \/ writer # "on" \/ Len(queue) >= ClientQueue)
  <2>1. queue' = Append(queue, line) /\ closed' = closed
    BY <1>3 DEF Send
  <2>2. queue' \in Seq(Lines) /\ Len(queue') = Len(queue) + 1
    BY <1>1, <2>1
  <2>3. \A i \in Ids : Occurs(i, queue') = Occurs(i, queue) + (IF line = i THEN 1 ELSE 0)
    BY <1>1, <2>1, OccursAppend
  <2>. QED  BY <1>1, <1>3, <2>1, <2>2, <2>3, ConnectionAssumption
<1>. QED  BY <1>2, <1>3

\* Between 0 and MaxInflight calls run, before and after one starts or ends.
LEMMA RunningFinite ==
  ASSUME TypeOK, NEW i \in Ids
  PROVE  /\ Cardinality(running \ {i}) <= MaxInflight
         /\ Cardinality(running) < MaxInflight => Cardinality(running \cup {i}) <= MaxInflight
<1>1. IsFiniteSet(Ids)
  BY FS_Interval, ConnectionAssumption DEF Ids
<1>2. running \in SUBSET Ids /\ Cardinality(running) <= MaxInflight /\ MaxInflight \in Nat
  BY ConnectionAssumption DEF TypeOK
<1>3. IsFiniteSet(running)
  BY <1>1, <1>2, FS_Subset
<1>4. Cardinality(running) \in Nat
  BY <1>3, FS_CardinalityType
<1>5. Cardinality(running \cup {i}) = IF i \in running THEN Cardinality(running) ELSE Cardinality(running) + 1
  BY <1>3, FS_AddElement
<1>6. Cardinality(running \ {i}) = IF i \in running THEN Cardinality(running) - 1 ELSE Cardinality(running)
  BY <1>3, FS_RemoveElement
<1>. QED  BY <1>2, <1>4, <1>5, <1>6

\* The request that is taken up next, and what is left behind it.
LEMMA InboxHead ==
  ASSUME TypeOK, InboxIsNext, inbox # <<>>
  PROVE  /\ Head(inbox) \in Ids \ handled
         /\ Tail(inbox) \in Seq(Ids)
<1>1. inbox \in Seq(Ids) /\ nextReq \in Nat
  BY ConnectionAssumption DEF TypeOK, Ids
<1>2. Len(inbox) \in Nat \ {0} /\ Head(inbox) = inbox[1] /\ Head(inbox) \in Ids
  BY <1>1
<1>3. Head(inbox) = nextReq - Len(inbox)
  BY <1>1, <1>2 DEF InboxIsNext
<1>4. Head(inbox) \notin handled
  BY <1>1, <1>2, <1>3, ConnectionAssumption DEF InboxIsNext, Ids, TypeOK
<1>. QED  BY <1>1, <1>2, <1>4

\* Types are kept by every step.
LEMMA TypeStep ==
  TypeOK /\ InboxIsNext /\ [Next]_vars => TypeOK'
<1>. SUFFICES ASSUME TypeOK, InboxIsNext, [Next]_vars
              PROVE  TypeOK'
  OBVIOUS
<1>t. /\ died \in SUBSET Ids
      /\ inbox \in Seq(Ids) /\ nextReq \in 1..(MaxRequests + 1)
      /\ client \in {"open", "eof", "garbage", "gone"}
      /\ reader \in {"reading", "cleanup", "drain", "done"}
      /\ failed \in BOOLEAN /\ closed \in BOOLEAN
      /\ handled \in SUBSET Ids
      /\ running \in SUBSET Ids /\ Cardinality(running) <= MaxInflight
      /\ queue \in Seq(Lines) /\ Len(queue) <= ClientQueue
      /\ writer \in {"on", "ended", "aborted"}
      /\ hand \in Lines \cup {None}
      /\ wire \in Seq(Lines) /\ Len(wire) <= SocketBuffer
      /\ got \in [Ids -> Nat]
  BY DEF TypeOK
<1>l. Ids \subseteq Lines /\ Event \in Lines
  BY DEF Lines
<1>1. CASE ClientSends
  <2>1. nextReq \in Ids /\ nextReq' \in 1..(MaxRequests + 1) /\ inbox' \in Seq(Ids)
    BY <1>1, <1>t, ConnectionAssumption DEF ClientSends, Ids
  <2>. QED  BY <1>1, <1>t, <2>1 DEF ClientSends, TypeOK, outVars
<1>2. CASE ClientEnds
  BY <1>2, <1>t DEF ClientEnds, TypeOK, outVars
<1>3. CASE ClientReads
  <2>1. Head(wire) \in Lines /\ wire' \in Seq(Lines) /\ Len(wire') <= SocketBuffer
    BY <1>3, <1>t, ConnectionAssumption DEF ClientReads
  <2>2. got' \in [Ids -> Nat]
    BY <1>3, <1>t, <2>1 DEF ClientReads, Lines
  <2>. QED  BY <1>3, <1>t, <2>1, <2>2 DEF ClientReads, TypeOK, clientVars
<1>4. CASE HandleInPlace
  <2>1. Head(inbox) \in Ids /\ inbox' \in Seq(Ids)
    BY <1>4, InboxHead DEF HandleInPlace, Reads, TakeUp
  <2>2. queue' \in Seq(Lines) /\ Len(queue') <= ClientQueue /\ closed' \in BOOLEAN
    BY <1>4, <1>l, <2>1, SendResult DEF HandleInPlace
  <2>3. handled' \in SUBSET Ids
    BY <1>4, <1>t, <2>1 DEF HandleInPlace, TakeUp
  <2>. QED  BY <1>4, <1>t, <2>1, <2>2, <2>3 DEF HandleInPlace, TakeUp, TypeOK
<1>5. CASE HandleCall
  <2>1. Head(inbox) \in Ids /\ inbox' \in Seq(Ids)
    BY <1>5, InboxHead DEF HandleCall, Reads, TakeUp
  <2>2. queue' \in Seq(Lines) /\ Len(queue') <= ClientQueue /\ closed' \in BOOLEAN
    BY <1>5, <1>t, <1>l, <2>1, SendResult DEF HandleCall
  <2>3. running' \in SUBSET Ids /\ Cardinality(running') <= MaxInflight
    BY <1>5, <1>t, <2>1, RunningFinite DEF HandleCall
  <2>4. handled' \in SUBSET Ids
    BY <1>5, <1>t, <2>1 DEF HandleCall, TakeUp
  <2>. QED  BY <1>5, <1>t, <2>1, <2>2, <2>3, <2>4 DEF HandleCall, TakeUp, TypeOK
<1>6. CASE ReaderStops
  BY <1>6, <1>t DEF ReaderStops, TypeOK, clientVars, outVars
<1>7. CASE CleanUp
  BY <1>7, <1>t DEF CleanUp, TypeOK, clientVars
<1>8. CASE DrainEnds
  BY <1>8, <1>t DEF DrainEnds, TypeOK, clientVars, outVars
<1>9. CASE DrainTimeout
  BY <1>9, <1>t DEF DrainTimeout, TypeOK, clientVars
<1>10. ASSUME NEW i \in Ids, CallEnds(i)
       PROVE  TypeOK'
  <2>1. queue' \in Seq(Lines) /\ Len(queue') <= ClientQueue /\ closed' \in BOOLEAN
    BY <1>10, <1>l, SendResult DEF CallEnds
  <2>2. running' \in SUBSET Ids /\ Cardinality(running') <= MaxInflight
    BY <1>10, <1>t, RunningFinite DEF CallEnds
  <2>. QED  BY <1>10, <1>t, <2>1, <2>2 DEF CallEnds, TypeOK, clientVars
<1>16. ASSUME NEW i \in Ids, CallPanics(i)
       PROVE  TypeOK'
  BY <1>16, <1>t, RunningFinite DEF CallPanics, TypeOK, clientVars, outVars
<1>11. CASE Forward
  <2>1. queue' \in Seq(Lines) /\ Len(queue') <= ClientQueue /\ closed' \in BOOLEAN
    BY <1>11, <1>l, SendResult DEF Forward
  <2>. QED  BY <1>11, <1>t, <2>1 DEF Forward, TypeOK, clientVars
<1>12. CASE WriterTakes
  <2>1. hand' \in Lines /\ queue' \in Seq(Lines) /\ Len(queue') <= ClientQueue
    BY <1>12, <1>t, ConnectionAssumption DEF WriterTakes
  <2>. QED  BY <1>12, <1>t, <2>1 DEF WriterTakes, TypeOK, clientVars
<1>13. CASE WriterWrites
  <2>1. CASE client # "gone" /\ Len(wire) < SocketBuffer /\ wire' = Append(wire, hand)
    <3>1. hand \in Lines
      BY <1>13, <1>t DEF WriterWrites
    <3>2. wire' \in Seq(Lines) /\ Len(wire') = Len(wire) + 1 /\ Len(wire) \in Nat
      BY <1>t, <2>1, <3>1
    <3>3. Len(wire') <= SocketBuffer
      BY <2>1, <3>2, ConnectionAssumption
    <3>. QED  BY <1>13, <1>t, <2>1, <3>2, <3>3 DEF WriterWrites, TypeOK, clientVars
  <2>2. CASE wire' = wire
    BY <1>13, <1>t, <2>2 DEF WriterWrites, TypeOK, clientVars
  <2>. QED  BY <1>13, <2>1, <2>2 DEF WriterWrites
<1>14. CASE WriterEnds
  BY <1>14, <1>t DEF WriterEnds, TypeOK, clientVars
<1>15. CASE UNCHANGED vars
  BY <1>15, <1>t DEF vars, TypeOK, clientVars, outVars
<1>. QED
  BY <1>1, <1>2, <1>3, <1>4, <1>5, <1>6, <1>7, <1>8, <1>9, <1>10, <1>11, <1>12, <1>13, <1>14,
     <1>15, <1>16 DEF Next, ReaderStep, WriterStep

\* The order of the requests and the writer's end.
LEMMA OrderStep ==
  TypeOK /\ InboxIsNext /\ WriterLeaves /\ [Next]_vars => InboxIsNext' /\ WriterLeaves'
<1>. SUFFICES ASSUME TypeOK, InboxIsNext, WriterLeaves, [Next]_vars
              PROVE  InboxIsNext' /\ WriterLeaves'
  OBVIOUS
<1>t. /\ inbox \in Seq(Ids) /\ nextReq \in Nat \ {0} /\ handled \in SUBSET Nat
      /\ reader \in {"reading", "cleanup", "drain", "done"}
      /\ writer \in {"on", "ended", "aborted"}
      /\ failed \in BOOLEAN /\ closed \in BOOLEAN
  BY ConnectionAssumption DEF TypeOK, Ids
<1>i. ASSUME UNCHANGED <<inbox, nextReq, handled>>
      PROVE  InboxIsNext'
  BY <1>i DEF InboxIsNext
<1>h. ASSUME Reads, TakeUp
      PROVE  InboxIsNext'
  <2>1. inbox' = Tail(inbox) /\ nextReq' = nextReq /\ handled' = handled \cup {inbox[1]}
    BY <1>h DEF TakeUp
  <2>2. Len(inbox) \in Nat \ {0} /\ inbox[1] = nextReq - Len(inbox)
    BY <1>t, <1>h DEF Reads, InboxIsNext
  <2>3. /\ Len(inbox') = Len(inbox) - 1
        /\ \A j \in 1..Len(inbox') : inbox'[j] = inbox[j + 1]
    BY <1>t, <1>h, <2>1, <2>2
  <2>4. \A j \in 1..Len(inbox') : inbox'[j] = nextReq' - Len(inbox') + j - 1
    <3>. SUFFICES ASSUME NEW j \in 1..Len(inbox')
                  PROVE  inbox'[j] = nextReq' - Len(inbox') + j - 1
      OBVIOUS
    <3>1. j + 1 \in 1..Len(inbox)
      BY <2>2, <2>3
    <3>2. inbox[j + 1] = nextReq - Len(inbox) + (j + 1) - 1
      BY <3>1 DEF InboxIsNext
    <3>. QED  BY <1>t, <2>1, <2>2, <2>3, <3>2
  <2>5. \A i \in handled' : i < nextReq' - Len(inbox')
    BY <1>t, <2>1, <2>2, <2>3 DEF InboxIsNext
  <2>6. Len(inbox') < nextReq'
    BY <1>t, <2>1, <2>2, <2>3 DEF InboxIsNext
  <2>. QED  BY <2>4, <2>5, <2>6 DEF InboxIsNext
<1>1. CASE ClientSends
  <2>1. inbox' = Append(inbox, nextReq) /\ nextReq' = nextReq + 1 /\ handled' = handled
    BY <1>1 DEF ClientSends
  <2>2. /\ Len(inbox') = Len(inbox) + 1 /\ Len(inbox) \in Nat
        /\ \A j \in 1..Len(inbox) : inbox'[j] = inbox[j]
        /\ inbox'[Len(inbox) + 1] = nextReq
    BY <1>t, <2>1
  <2>3. \A j \in 1..Len(inbox') : inbox'[j] = nextReq' - Len(inbox') + j - 1
    BY <1>t, <2>1, <2>2 DEF InboxIsNext
  <2>4. Len(inbox') < nextReq' /\ \A i \in handled' : i < nextReq' - Len(inbox')
    BY <1>t, <2>1, <2>2 DEF InboxIsNext
  <2>. QED  BY <1>1, <2>3, <2>4 DEF ClientSends, InboxIsNext, WriterLeaves, outVars
<1>2. CASE ClientEnds
  BY <1>2, <1>i DEF ClientEnds, WriterLeaves, outVars
<1>3. CASE ClientReads
  BY <1>3, <1>i DEF ClientReads, WriterLeaves, clientVars
<1>4. CASE HandleInPlace
  <2>1. Head(inbox) \in Lines /\ Send(Head(inbox))
    BY <1>4, InboxHead DEF HandleInPlace, Reads, Lines
  <2>2. closed' \/ (~closed /\ writer = "on")
    BY <2>1, SendResult
  <2>. QED  BY <1>4, <1>h, <2>2 DEF HandleInPlace, Reads, TakeUp, WriterLeaves
<1>5. CASE HandleCall
  BY <1>5, <1>h DEF HandleCall, Reads, TakeUp, WriterLeaves
<1>6. CASE ReaderStops
  BY <1>6, <1>i DEF ReaderStops, WriterLeaves, clientVars, outVars
<1>7. CASE CleanUp
  BY <1>7, <1>t, <1>i DEF CleanUp, WriterLeaves, clientVars
<1>8. CASE DrainEnds
  BY <1>8, <1>i DEF DrainEnds, WriterLeaves, clientVars, outVars
<1>9. CASE DrainTimeout
  BY <1>9, <1>i DEF DrainTimeout, WriterLeaves, clientVars
<1>10. ASSUME NEW i \in Ids, CallEnds(i)
       PROVE  InboxIsNext' /\ WriterLeaves'
  <2>1. i \in Lines /\ Send(i)
    BY <1>10 DEF CallEnds, Lines
  <2>2. closed' \/ (~closed /\ writer = "on")
    BY <2>1, SendResult
  <2>. QED  BY <1>10, <1>i, <2>2 DEF CallEnds, WriterLeaves, clientVars
<1>16. ASSUME NEW i \in Ids, CallPanics(i)
       PROVE  InboxIsNext' /\ WriterLeaves'
  BY <1>16, <1>i DEF CallPanics, WriterLeaves, clientVars, outVars
<1>11. CASE Forward
  BY <1>11, <1>i, <1>t DEF Forward, WriterLeaves, clientVars
<1>12. CASE WriterTakes
  BY <1>12, <1>i DEF WriterTakes, WriterLeaves, clientVars
<1>13. CASE WriterWrites
  BY <1>13, <1>i DEF WriterWrites, WriterLeaves, clientVars
<1>14. CASE WriterEnds
  BY <1>14, <1>i DEF WriterEnds, WriterLeaves, clientVars
<1>15. CASE UNCHANGED vars
  BY <1>15, <1>i DEF vars, WriterLeaves, clientVars, outVars
<1>. QED
  BY <1>1, <1>2, <1>3, <1>4, <1>5, <1>6, <1>7, <1>8, <1>9, <1>10, <1>11, <1>12, <1>13, <1>14,
     <1>15, <1>16 DEF Next, ReaderStep, WriterStep

-----------------------------------------------------------------------------
(* Where the replies are.                                                  *)

\* A step in which no reply appears, and on a sound connection none disappears.
LEMMA Kept ==
  ASSUME IInv, handled' = handled,
         \A i \in Ids : Copies(i)' \in Nat /\ Copies(i)' <= Copies(i),
         ~closed' /\ writer' # "aborted" =>
           ~closed /\ writer # "aborted" /\ \A i \in Ids : Copies(i)' = Copies(i)
  PROVE  OneAnswer' /\ Untouched'
<1>0. \A i \in Ids : Copies(i) \in Nat /\ Copies(i)' \in Nat /\ Copies(i)' <= Copies(i)
  BY PartsNat DEF IInv, ConnectionInv
<1>1. \A i \in Ids : /\ Copies(i) <= 1
                     /\ i \in handled /\ ~closed /\ writer # "aborted" => Copies(i) = 1
  BY DEF IInv, ConnectionInv, OneAnswer
<1>2. ASSUME NEW i \in Ids
      PROVE  /\ Copies(i)' <= 1
             /\ i \in handled' /\ ~closed' /\ writer' # "aborted" => Copies(i)' = 1
  <2>1. Copies(i)' <= 1
    BY <1>0, <1>1
  <2>2. ASSUME i \in handled', ~closed', writer' # "aborted"
        PROVE  Copies(i)' = 1
    BY <1>1, <2>2
  <2>. QED  BY <2>1, <2>2
<1>3. ASSUME NEW i \in Ids \ handled'
      PROVE  Copies(i)' = 0
  <2>1. Copies(i) = 0
    BY <1>3 DEF IInv, Untouched
  <2>. QED  BY <1>0, <1>3, <2>1
<1>. QED  BY <1>2, <1>3 DEF OneAnswer, Untouched

\* A step that takes up request h: nothing but its reply appears, and it does unless the
\* connection closes.
LEMMA Taken ==
  ASSUME IInv, NEW h \in Ids \ handled, handled' = handled \cup {h}, writer' = writer,
         \A i \in Ids \ {h} : Copies(i)' = Copies(i),
         \/ closed' /\ Copies(h)' = Copies(h)
         \/ (closed' <=> closed) /\ Copies(h)' = Copies(h) + 1
  PROVE  OneAnswer' /\ Untouched'
<1>1. \A i \in Ids : /\ Copies(i) <= 1
                     /\ i \in handled /\ ~closed /\ writer # "aborted" => Copies(i) = 1
  BY DEF IInv, ConnectionInv, OneAnswer
<1>2. Copies(h) = 0
  BY DEF IInv, Untouched
<1>3. ASSUME NEW i \in Ids
      PROVE  /\ Copies(i)' <= 1
             /\ i \in handled' /\ ~closed' /\ writer' # "aborted" => Copies(i)' = 1
  <2>1. CASE i = h
    BY <1>2, <2>1
  <2>2. CASE i # h
    BY <1>1, <2>2
  <2>. QED  BY <2>1, <2>2
<1>4. ASSUME NEW i \in Ids \ handled'
      PROVE  Copies(i)' = 0
  <2>1. i # h /\ Copies(i) = 0
    BY <1>4 DEF IInv, Untouched
  <2>. QED  BY <1>4, <2>1
<1>. QED  BY <1>3, <1>4 DEF OneAnswer, Untouched

\* Every step keeps the count.
LEMMA CountStep ==
  IInv /\ TypeOK' /\ [Next]_vars => OneAnswer' /\ Untouched'
<1>. SUFFICES ASSUME IInv, TypeOK', [Next]_vars
              PROVE  OneAnswer' /\ Untouched'
  OBVIOUS
<1>t. TypeOK /\ InboxIsNext /\ WriterLeaves
  BY DEF IInv, ConnectionInv
<1>n. \A i \in Ids : /\ Occurs(i, queue) \in Nat /\ Occurs(i, wire) \in Nat
                     /\ got[i] \in Nat /\ Copies(i) \in Nat
  BY <1>t, PartsNat
<1>m. \A i \in Ids : /\ Occurs(i, queue') \in Nat /\ Occurs(i, wire') \in Nat
                     /\ got'[i] \in Nat /\ Copies(i)' \in Nat
  <2>1. (TypeOK => \A i \in Ids : /\ Occurs(i, queue) \in Nat /\ Occurs(i, wire) \in Nat
                                  /\ got[i] \in Nat /\ Copies(i) \in Nat)'
    BY PartsNat, PTL
  <2>. QED  BY <2>1
<1>b. Event \notin Ids /\ None \notin Ids /\ \A i \in Ids : i \in Lines
  BY ConnectionAssumption DEF Lines
<1>q. /\ queue \in Seq(Lines) /\ wire \in Seq(Lines) /\ hand \in Lines \cup {None}
      /\ got \in [Ids -> Nat]
  BY <1>t DEF TypeOK
\* The copies as numbers.
<1>c. \A i \in Ids :
        Copies(i)' = (IF i \in running' THEN 1 ELSE 0) + (IF i \in died' THEN 1 ELSE 0) + Occurs(i, queue')
                     + (IF hand' = i THEN 1 ELSE 0) + Occurs(i, wire') + got'[i]
  BY DEF Copies
<1>d. \A i \in Ids :
        Copies(i) = (IF i \in running THEN 1 ELSE 0) + (IF i \in died THEN 1 ELSE 0) + Occurs(i, queue)
                    + (IF hand = i THEN 1 ELSE 0) + Occurs(i, wire) + got[i]
  BY DEF Copies
<1>e. ASSUME UNCHANGED <<running, died, queue, hand, wire, got>>
      PROVE  \A i \in Ids : Copies(i)' = Copies(i)
  BY <1>c, <1>d, <1>e
<1>f. \A i \in Ids : Copies(i) <= Copies(i)
  BY <1>n
<1>s. ASSUME UNCHANGED <<running, died, queue, hand, wire, got, handled, closed, writer>>
      PROVE  OneAnswer' /\ Untouched'
  BY <1>e, <1>f, <1>m, <1>s, Kept
<1>1. CASE ClientSends
  BY <1>1, <1>s DEF ClientSends, outVars
<1>2. CASE ClientEnds
  BY <1>2, <1>s DEF ClientEnds, outVars
<1>3. CASE ReaderStops
  BY <1>3, <1>s DEF ReaderStops, outVars
<1>4. CASE DrainEnds
  BY <1>4, <1>s DEF DrainEnds, outVars
<1>5. CASE UNCHANGED vars
  BY <1>5, <1>s DEF vars, outVars
\* The client takes a line from the socket.
<1>6. CASE ClientReads
  <2>1. \A i \in Ids : Occurs(i, wire) = Occurs(i, wire') + (IF Head(wire) = i THEN 1 ELSE 0)
    BY <1>6, <1>q, OccursTail DEF ClientReads
  <2>2. \A i \in Ids : got'[i] = got[i] + (IF Head(wire) = i THEN 1 ELSE 0)
    BY <1>6, <1>q, <1>b, <1>n DEF ClientReads
  <2>3. /\ UNCHANGED <<running, died, queue, hand, handled, closed, writer>>
    BY <1>6 DEF ClientReads
  <2>4. \A i \in Ids : Copies(i)' = Copies(i)
    BY <1>c, <1>d, <1>n, <1>m, <2>1, <2>2, <2>3
  <2>. QED  BY <1>f, <1>m, <2>3, <2>4, Kept
\* The writer takes a line from the queue.
<1>7. CASE WriterTakes
  <2>1. \A i \in Ids : Occurs(i, queue) = Occurs(i, queue') + (IF Head(queue) = i THEN 1 ELSE 0)
    BY <1>7, <1>q, OccursTail DEF WriterTakes
  <2>2. /\ UNCHANGED <<running, died, wire, got, handled, closed, writer>>
        /\ hand' = Head(queue) /\ hand = None
    BY <1>7 DEF WriterTakes
  <2>3. \A i \in Ids : Copies(i)' = Copies(i)
    BY <1>b, <1>c, <1>d, <1>n, <1>m, <2>1, <2>2
  <2>. QED  BY <1>f, <1>m, <2>2, <2>3, Kept
\* It writes the line, or loses it to a client that is gone.
<1>8. CASE WriterWrites
  <2>1. /\ UNCHANGED <<running, died, queue, got, handled>> /\ hand' = None
        /\ hand \in Lines /\ writer = "on"
    BY <1>8, <1>q DEF WriterWrites
  <2>2. CASE wire' = Append(wire, hand) /\ UNCHANGED <<closed, writer>>
    <3>1. \A i \in Ids : Occurs(i, wire') = Occurs(i, wire) + (IF hand = i THEN 1 ELSE 0)
      BY <1>q, <2>1, <2>2, OccursAppend
    <3>2. \A i \in Ids : Copies(i)' = Copies(i)
      BY <1>b, <1>c, <1>d, <1>n, <1>m, <2>1, <3>1
    <3>. QED  BY <1>f, <1>m, <2>1, <2>2, <3>2, Kept
  <2>3. CASE closed' = TRUE /\ UNCHANGED wire
    <3>1. \A i \in Ids : Copies(i)' <= Copies(i)
      BY <1>b, <1>c, <1>d, <1>n, <1>m, <2>1, <2>3
    <3>. QED  BY <1>m, <2>1, <2>3, <3>1, Kept
  <2>. QED  BY <1>8, <2>2, <2>3 DEF WriterWrites
<1>9. CASE WriterEnds
  <2>1. /\ UNCHANGED <<running, died, queue, hand, wire, got, handled, closed>>
        /\ writer = "on"
    BY <1>9 DEF WriterEnds
  <2>. QED  BY <1>e, <1>f, <1>m, <2>1, Kept
\* The writer is aborted with what it has in its hand.
<1>10. ASSUME UNCHANGED <<running, died, queue, wire, got, handled, closed>>,
              hand' = None, closed \/ writer' = "aborted"
       PROVE  OneAnswer' /\ Untouched'
  <2>1. \A i \in Ids : Copies(i)' <= Copies(i)
    BY <1>10, <1>b, <1>c, <1>d, <1>n, <1>m
  <2>. QED  BY <1>10, <1>m, <2>1, Kept
<1>11. CASE CleanUp
  <2>1. UNCHANGED <<running, died, queue, wire, got, handled, closed>>
    BY <1>11 DEF CleanUp
  <2>2. CASE (closed \/ failed) /\ hand' = None
                /\ writer' = (IF writer = "on" THEN "aborted" ELSE writer)
    <3>1. closed \/ writer' = "aborted"
      BY <1>11, <1>t, <2>2 DEF CleanUp, WriterLeaves
    <3>. QED  BY <1>10, <2>1, <2>2, <3>1
  <2>3. CASE UNCHANGED <<writer, hand>>
    BY <1>s, <2>1, <2>3
  <2>. QED  BY <1>11, <2>2, <2>3 DEF CleanUp
<1>12. CASE DrainTimeout
  BY <1>10, <1>12 DEF DrainTimeout
\* An event is no reply.
<1>13. CASE Forward
  <2>1. Send(Event) /\ Event \in Lines
    BY <1>13 DEF Forward, Lines
  <2>2. UNCHANGED <<running, died, hand, wire, got, handled, writer>>
    BY <1>13 DEF Forward
  <2>3. (closed' /\ queue' = queue) \/
        (~closed /\ ~closed' /\ \A i \in Ids : Occurs(i, queue') = Occurs(i, queue)
                                   + (IF Event = i THEN 1 ELSE 0))
    BY <1>t, <2>1, SendResult
  <2>4. \A i \in Ids : Occurs(i, queue') = Occurs(i, queue)
    BY <1>b, <1>n, <2>3
  <2>5. \A i \in Ids : Copies(i)' = Copies(i)
    BY <1>c, <1>d, <2>2, <2>4
  <2>6. ~closed' => ~closed
    BY <2>3
  <2>. QED  BY <1>f, <1>m, <2>2, <2>5, <2>6, Kept
\* The reply of a call passes from its task to the queue, or the connection closes.
<1>14. ASSUME NEW c \in Ids, CallEnds(c)
       PROVE  OneAnswer' /\ Untouched'
  <2>1. Send(c) /\ c \in Lines /\ c \in running /\ running' = running \ {c}
    BY <1>14, <1>b DEF CallEnds
  <2>2. UNCHANGED <<died, hand, wire, got, handled, writer>>
    BY <1>14 DEF CallEnds
  <2>3. CASE closed' /\ queue' = queue
    <3>1. \A i \in Ids : Copies(i)' <= Copies(i)
      BY <1>c, <1>d, <1>n, <1>m, <2>1, <2>2, <2>3
    <3>. QED  BY <1>m, <2>2, <2>3, <3>1, Kept
  <2>4. CASE ~closed' /\ ~closed /\ \A i \in Ids :
               Occurs(i, queue') = Occurs(i, queue) + (IF c = i THEN 1 ELSE 0)
    <3>1. \A i \in Ids : Copies(i)' = Copies(i)
      BY <1>c, <1>d, <1>n, <1>m, <2>1, <2>2, <2>4
    <3>. QED  BY <1>f, <1>m, <2>2, <2>4, <3>1, Kept
  <2>. QED  BY <1>t, <2>1, <2>3, <2>4, SendResult
\* A call that panics leaves its place to be counted.
<1>18. ASSUME NEW c \in Ids, CallPanics(c)
       PROVE  OneAnswer' /\ Untouched'
  <2>1. c \in running /\ running' = running \ {c} /\ died' = died \cup {c}
        /\ UNCHANGED <<queue, hand, wire, got, handled, closed, writer>>
    BY <1>18 DEF CallPanics, outVars
  <2>2. c \notin died
    <3>1. Copies(c) <= 1
      BY DEF IInv, ConnectionInv, OneAnswer
    <3>. QED  BY <1>d, <1>n, <2>1, <3>1
  <2>3. \A i \in Ids : Copies(i)' = Copies(i)
    BY <1>c, <1>d, <2>1, <2>2
  <2>. QED  BY <1>f, <1>m, <2>1, <2>3, Kept
\* A request that is answered in place, or refused for want of a slot.
<1>15. ASSUME Reads, Send(Head(inbox)), TakeUp, UNCHANGED running
       PROVE  OneAnswer' /\ Untouched'
  <2>1. PICK h \in Ids \ handled : h = Head(inbox)
    BY <1>15, <1>t, InboxHead DEF Reads
  <2>2. handled' = handled \cup {h} /\ UNCHANGED <<running, died, hand, wire, got, writer>>
    BY <1>15, <2>1 DEF TakeUp
  <2>3. h \in Lines /\ Send(h)
    BY <1>15, <1>b, <2>1
  <2>4. CASE closed' /\ queue' = queue
    <3>1. \A i \in Ids : Copies(i)' = Copies(i)
      BY <1>e, <2>2, <2>4
    <3>. QED  BY <2>1, <2>2, <2>4, <3>1, Taken
  <2>5. CASE ~closed' /\ ~closed /\ \A i \in Ids :
               Occurs(i, queue') = Occurs(i, queue) + (IF h = i THEN 1 ELSE 0)
    <3>1. \A i \in Ids : Copies(i)' = Copies(i) + (IF h = i THEN 1 ELSE 0)
      BY <1>c, <1>d, <1>n, <1>m, <2>2, <2>5
    <3>2. Copies(h)' = Copies(h) + 1
      BY <2>1, <3>1
    <3>3. \A i \in Ids \ {h} : Copies(i)' = Copies(i)
      BY <1>n, <3>1
    <3>. QED  BY <2>1, <2>2, <2>5, <3>2, <3>3, Taken
  <2>. QED  BY <1>t, <2>3, <2>4, <2>5, SendResult
<1>16. CASE HandleInPlace
  BY <1>15, <1>16 DEF HandleInPlace
\* A request that becomes a call.
<1>17. CASE HandleCall
  <2>1. CASE Send(Head(inbox)) /\ UNCHANGED running
    BY <1>15, <1>17, <2>1 DEF HandleCall
  <2>2. CASE running' = running \cup {Head(inbox)} /\ UNCHANGED <<queue, closed>>
    <3>1. PICK h \in Ids \ handled : h = Head(inbox)
      BY <1>17, <1>t, InboxHead DEF HandleCall, Reads
    <3>2. handled' = handled \cup {h} /\ UNCHANGED <<died, hand, wire, got, writer>>
      BY <1>17, <3>1 DEF HandleCall, TakeUp
    <3>3. h \notin running
      <4>1. Copies(h) = 0
        BY <3>1 DEF IInv, Untouched
      <4>. QED  BY <1>d, <1>n, <3>1, <4>1
    <3>4. running' = running \cup {h}
      BY <2>2, <3>1
    <3>5. Copies(h)' = Copies(h) + 1
      BY <1>c, <1>d, <1>n, <2>2, <3>1, <3>2, <3>3, <3>4
    <3>6. \A i \in Ids \ {h} : Copies(i)' = Copies(i)
      BY <1>c, <1>d, <2>2, <3>2, <3>4
    <3>. QED  BY <2>2, <3>1, <3>2, <3>5, <3>6, Taken
  <2>. QED  BY <1>17, <2>1, <2>2 DEF HandleCall
<1>. QED
  BY <1>1, <1>2, <1>3, <1>4, <1>5, <1>6, <1>7, <1>8, <1>9, <1>11, <1>12, <1>13, <1>14, <1>16,
     <1>17, <1>18 DEF Next, ReaderStep, WriterStep

-----------------------------------------------------------------------------
(* The theorems.                                                           *)

\* At the start nothing has been sent.
LEMMA InvInit == Init => IInv
<1>. SUFFICES ASSUME Init
              PROVE  IInv
  OBVIOUS
<1>1. TypeOK
  <2>1. Cardinality(running) = 0
    BY FS_EmptySet DEF Init
  <2>2. nextReq \in 1..(MaxRequests + 1) /\ Cardinality(running) <= MaxInflight
    BY <2>1, ConnectionAssumption DEF Init
  <2>3. /\ inbox \in Seq(Ids) /\ queue \in Seq(Lines) /\ wire \in Seq(Lines)
        /\ Len(queue) <= ClientQueue /\ Len(wire) <= SocketBuffer
    BY ConnectionAssumption DEF Init
  <2>4. got \in [Ids -> Nat]
    BY DEF Init
  <2>. QED  BY <2>2, <2>3, <2>4 DEF Init, TypeOK
<1>2. \A i \in Ids : Copies(i) = 0
  BY OccursEmpty, ConnectionAssumption DEF Init, Copies
<1>. QED
  BY <1>1, <1>2 DEF Init, IInv, ConnectionInv, OneAnswer, InboxIsNext, Untouched, WriterLeaves

\* Every step keeps all of it.
LEMMA InvStep == IInv /\ [Next]_vars => IInv'
<1>. SUFFICES ASSUME IInv, [Next]_vars
              PROVE  IInv'
  OBVIOUS
<1>1. TypeOK' /\ InboxIsNext' /\ WriterLeaves'
  BY TypeStep, OrderStep DEF IInv, ConnectionInv
<1>2. OneAnswer' /\ Untouched'
  BY <1>1, CountStep
<1>. QED  BY <1>1, <1>2 DEF IInv, ConnectionInv

\* The inductive invariant holds of every behaviour.
THEOREM Invariant == Spec => []IInv
BY InvInit, InvStep, PTL DEF Spec

\* No request is answered twice, and while the connection is sound every request that was
\* taken up has its answer in a task, a buffer or the client's hands, or its call has
\* panicked, for every limit on
\* the calls, every length of the queue and every number of requests (ClientOut::send and
\* the tasks of ipc/server.rs).
THEOREM RepliesAreKept == Spec => []ConnectionInv
<1>1. IInv => ConnectionInv
  BY DEF IInv
<1>. QED  BY <1>1, Invariant, PTL

\* A connection whose writer came to the end of its queue by itself has written the answer
\* to every request out, those of the calls that were still running when the client
\* stopped sending included and those whose call panicked excepted (the drain at the end of handle_client).
THEOREM OrderlyEnd == Spec => []OrderlyEndDelivers
<1>1. IInv => OrderlyEndDelivers
  <2>. SUFFICES ASSUME IInv, writer = "ended", ~closed
                PROVE  running = {} /\ \A i \in handled \ died : Occurs(i, wire) + got[i] = 1
    BY DEF OrderlyEndDelivers
  <2>1. running = {} /\ queue = <<>> /\ hand = None
    BY DEF IInv, WriterLeaves
  <2>2. ASSUME NEW i \in handled \ died
        PROVE  Occurs(i, wire) + got[i] = 1
    <3>1. i \in Ids /\ i # None
      BY <2>2, ConnectionAssumption DEF IInv, ConnectionInv, TypeOK
    <3>2. Copies(i) = 1
      BY <2>2, <3>1 DEF IInv, ConnectionInv, OneAnswer
    <3>3. Occurs(i, queue) = 0
      BY <2>1, OccursEmpty
    <3>4. Occurs(i, wire) \in Nat /\ got[i] \in Nat
      BY <3>1, PartsNat DEF IInv, ConnectionInv
    <3>. QED  BY <2>1, <2>2, <3>1, <3>2, <3>3, <3>4 DEF Copies
  <2>. QED  BY <2>1, <2>2
<1>. QED  BY <1>1, Invariant, PTL

-----------------------------------------------------------------------------
(* The child processes.                                                      *)

\* Nothing runs and nothing is written before the call (run, run_with_input).
LEMMA ChildInit == Child!SizesAssumption /\ Child!Init => Child!IInv
<1> SUFFICES ASSUME Child!SizesAssumption, Child!Init PROVE Child!IInv
  OBVIOUS
<1>1. Child!TypeOK
  <2>1. s6 \in 0..MaxOutput /\ s7 \in 0..s6
    BY DEF Child!SizesAssumption, Child!Init
  <2>2. s5 \in BOOLEAN
    BY DEF Child!Init
  <2> QED
    BY <2>1, <2>2 DEF Child!Init, Child!TypeOK
<1>2. QED BY <1>1 DEF Child!SizesAssumption, Child!Init, Child!IInv

\* Only the end of the pipe lets the thread go on to its message, and nobody can write
\* after that; only the message makes the call return an output.
LEMMA ChildNext == Child!SizesAssumption /\ Child!IInv /\ Child!Next => Child!IInv'
<1> SUFFICES ASSUME Child!SizesAssumption, Child!IInv, Child!Next PROVE Child!IInv'
  OBVIOUS
<1> USE DEF Child!SizesAssumption, Child!IInv, Child!TypeOK
<1>1. CASE Child!spawn
  BY <1>1 DEF Child!spawn, Child!Return, Child!thread
<1>2. CASE Child!run_with_input
  BY <1>2 DEF Child!run_with_input, Child!Return, Child!thread
<1>3. CASE Child!wait_for_output
  BY <1>3 DEF Child!wait_for_output, Child!processes
<1>4. CASE Child!Drain
  BY <1>4 DEF Child!Drain, Child!processes
<1>5. CASE Child!Reap
  BY <1>5 DEF Child!Reap, Child!Closed
<1>6. CASE Child!SendOutput
  BY <1>6 DEF Child!SendOutput, Child!processes
<1>7. CASE Child!Receive
  BY <1>7 DEF Child!Receive, Child!Return, Child!processes, Child!thread
<1>8. CASE Child!Kill
  BY <1>8 DEF Child!Kill, Child!Return, Child!thread
<1>9. CASE Child!Deadline
  BY <1>9 DEF Child!Deadline, Child!processes, Child!thread
<1>10. CASE Child!Write
  BY <1>10 DEF Child!Write, Child!Alive, Child!thread
<1>11. CASE Child!Fork
  BY <1>11 DEF Child!Fork, Child!thread
<1>12. CASE Child!ChildExits
  BY <1>12 DEF Child!ChildExits, Child!thread
<1>13. CASE Child!GrandchildActs
  <2>1. s5' \in BOOLEAN /\ (s5' => s5) /\ s4' \in {"none", "running", "left", "gone"}
    <3>1. CASE s4' = "gone" /\ s5' = FALSE
      BY <3>1, Zenon
    <3>2. CASE s4' = "left" /\ s5' = s5
      BY <3>2, Zenon
    <3>3. CASE s5' = FALSE /\ s4' = s4
      BY <3>3, Zenon
    <3> QED
      BY <1>13, <3>1, <3>2, <3>3, Zenon DEF Child!GrandchildActs
  <2> QED
    BY <1>13, <2>1 DEF Child!GrandchildActs, Child!thread
<1> QED
  BY <1>1, <1>2, <1>3, <1>4, <1>5, <1>6, <1>7, <1>8, <1>9, <1>10, <1>11, <1>12, <1>13
  DEF Child!Next, Child!Proc

\* Whatever the pipe holds and however much is written: a command that returns with an
\* output returns with all of it, and its child has been reaped (wait_with_output before
\* the message, proc.rs).
THEOREM AnswersAreWhole == ServicesSpec => []ChildOutputIsWhole
<1> DEFINE Inv == component = "child" => Child!IInv
<1>1. ServicesInit => Inv
  BY ChildInit, ServicesAssumption DEF ServicesInit, ServicesAssumption
<1>2. Inv /\ [ServicesNext]_all => Inv'
  <2>1. ASSUME Inv, ServicesNext PROVE Inv'
    BY <2>1, ChildNext, ServicesAssumption DEF ServicesNext, One, ServicesAssumption
  <2>2. ASSUME Inv, UNCHANGED all PROVE Inv'
    BY <2>2 DEF all, slots, Child!IInv, Child!TypeOK
  <2> QED
    BY <2>1, <2>2
<1>3. Inv => ChildOutputIsWhole
  BY DEF ChildOutputIsWhole, Child!OutputIsWhole, Child!IInv
<1> QED
  BY <1>1, <1>2, <1>3, PTL DEF ServicesSpec

-----------------------------------------------------------------------------
(* The clipboard's Wayland thread.                                           *)

\* A further event cancels its own source, if it is a cancellation, and no other.
LEMMA CancelledAppend ==
  ASSUME NEW M, NEW w \in Seq(M), NEW m \in M
  PROVE  Watcher!CancelledIds(Append(w, m))
           = Watcher!CancelledIds(w) \cup (IF m.kind = "cancelled" THEN {m.id} ELSE {})
<1> DEFINE a == Append(w, m)
<1>1. /\ DOMAIN a = DOMAIN w \cup {Len(w) + 1} /\ a[Len(w) + 1] = m
      /\ \A i \in DOMAIN w : a[i] = w[i]
  OBVIOUS
<1> QED
  BY <1>1, Zenon DEF Watcher!CancelledIds

\* The event taken from the wire cancels what those left over do not.
LEMMA CancelledTail ==
  ASSUME NEW M, NEW w \in Seq(M), w # <<>>
  PROVE  Watcher!CancelledIds(w) = Watcher!CancelledIds(Tail(w))
           \cup (IF Head(w).kind = "cancelled" THEN {Head(w).id} ELSE {})
<1> DEFINE t == Tail(w)
           D == {i \in DOMAIN w : w[i].kind = "cancelled"}
           E == {i \in DOMAIN t : t[i].kind = "cancelled"}
<1>1. /\ Len(w) \in Nat \ {0} /\ DOMAIN w = 1..Len(w) /\ DOMAIN t = 1..(Len(w) - 1) /\ w[1] = Head(w)
      /\ \A i \in DOMAIN t : t[i] = w[i + 1]
  OBVIOUS
<1>2. Watcher!CancelledIds(w) = {w[i].id : i \in D} /\ Watcher!CancelledIds(t) = {t[i].id : i \in E}
  BY Zenon DEF Watcher!CancelledIds
<1> HIDE DEF t
<1>3. ASSUME NEW i \in D PROVE i = 1 \/ (i - 1 \in E /\ t[i - 1] = w[i])
  BY <1>1, <1>3
<1>4. ASSUME NEW i \in E PROVE i + 1 \in D /\ w[i + 1] = t[i]
  BY <1>1, <1>4
<1>5. 1 \in D <=> Head(w).kind = "cancelled"
  BY <1>1
<1> HIDE DEF D, E
<1>6. ASSUME NEW n \in Watcher!CancelledIds(w)
      PROVE  n \in Watcher!CancelledIds(t) \cup (IF Head(w).kind = "cancelled" THEN {Head(w).id} ELSE {})
  <2>1. PICK i \in D : n = w[i].id
    BY <1>2, <1>6
  <2> QED
    BY <1>1, <1>2, <1>3, <1>5, <2>1
<1>7. \A i \in E : t[i].id \in Watcher!CancelledIds(w)
  BY <1>2, <1>4
<1>8. 1 \in D => w[1].id \in Watcher!CancelledIds(w)
  BY <1>2
<1> QED
  BY <1>1, <1>2, <1>5, <1>6, <1>7, <1>8 DEF t

\* What a request on its way can be.
LEMMA WatcherRequest ==
  ASSUME Watcher!IInv, NEW i \in DOMAIN s3
  PROVE  /\ s3[i] \in [kind : {"set", "receive"}, id : 1..s10, content : Contents \cup {None}]
         /\ s10 \in Nat /\ s3[i].id \in Nat /\ 0 < s3[i].id /\ s3[i].id <= s10
<1> DEFINE R == [kind : {"set", "receive"}, id : 1..s10, content : Contents \cup {None}]
<1>1. s3 \in Seq(R) /\ s10 \in Nat
  BY DEF Watcher!IInv, Watcher!WireTypeOK
<1>2. s3[i] \in R
  <2> HIDE DEF R
  <2> QED
    BY <1>1
<1> QED
  BY <1>1, <1>2

\* What an event on its way can be.
LEMMA WatcherEvent ==
  ASSUME Watcher!IInv, NEW i \in DOMAIN s2
  PROVE  /\ s2[i] \in [kind : {"selection", "send", "cancelled"}, id : 0..s10,
                        content : Contents \cup {None}]
         /\ s10 \in Nat /\ s2[i].id \in Nat /\ s2[i].id <= s10
<1> DEFINE M == [kind : {"selection", "send", "cancelled"}, id : 0..s10, content : Contents \cup {None}]
<1>1. s2 \in Seq(M) /\ s10 \in Nat
  BY DEF Watcher!IInv, Watcher!WireTypeOK
<1>2. s2[i] \in M
  <2> HIDE DEF M
  <2> QED
    BY <1>1
<1> QED
  BY <1>1, <1>2

\* A change of selection puts on the wire the cancellation of the one it replaces, if that
\* is the daemon's, and of no other.
LEMMA WatcherAnnounces ==
  ASSUME Watcher!IInv, NEW s, s \in [id : 0..s10, content : Contents \cup {None}],
         Watcher!Replace(s)
  PROVE  /\ s2' \in Seq([kind : {"selection", "send", "cancelled"}, id : 0..s10,
                         content : Contents \cup {None}])
         /\ \A i \in DOMAIN s2' : s2'[i].kind = "send" => s2'[i].id # 0
         /\ Watcher!CancelledIds(s2') \subseteq Watcher!CancelledIds(s2) \cup ({s1.id} \ {0})
<1> DEFINE M == [kind : {"selection", "send", "cancelled"}, id : 0..s10,
                 content : Contents \cup {None}]
           c == Watcher!Message("cancelled", s1.id, None)
           n == Watcher!Message("selection", s.id, s.content)
           w == IF s1.id = 0 THEN s2 ELSE Append(s2, c)
<1>1. s2 \in Seq(M) /\ c \in M /\ n \in M /\ c.kind = "cancelled" /\ c.id = s1.id /\ n.kind = "selection"
  BY DEF Watcher!IInv, Watcher!WireTypeOK, Watcher!Message
<1>2. s2' = Append(w, n)
  BY DEF Watcher!Replace
<1> HIDE DEF c, n, M
<1>3. w \in Seq(M)
  BY <1>1
<1>4. Watcher!CancelledIds(w) \subseteq Watcher!CancelledIds(s2) \cup ({s1.id} \ {0})
  BY <1>1, CancelledAppend
<1>5. Watcher!CancelledIds(s2') = Watcher!CancelledIds(w)
  <2> HIDE DEF w
  <2>1. Watcher!CancelledIds(Append(w, n))
          = Watcher!CancelledIds(w) \cup (IF n.kind = "cancelled" THEN {n.id} ELSE {})
    BY <1>1, <1>3, CancelledAppend, Zenon
  <2> QED
    BY <1>1, <1>2, <2>1
<1>6. \A i \in DOMAIN s2 : s2[i].kind = "send" => s2[i].id # 0
  BY DEF Watcher!IInv, Watcher!WireTypeOK
<1>7. \A i \in DOMAIN s2' : s2'[i].kind = "send" => s2'[i].id # 0
  BY <1>1, <1>2, <1>3, <1>6
<1>8. s2' \in Seq(M)
  BY <1>1, <1>2, <1>3
<1> QED
  BY <1>4, <1>5, <1>7, <1>8 DEF M

\* A further request sets a source or does not.
LEMMA SetsAppend ==
  ASSUME NEW M, NEW r \in Seq(M), NEW m \in M
  PROVE  Watcher!Sets(Append(r, m))
           = Watcher!Sets(r) \cup (IF m.kind = "set" THEN {Len(r) + 1} ELSE {})
<1> DEFINE a == Append(r, m)
<1>1. /\ DOMAIN a = DOMAIN r \cup {Len(r) + 1} /\ a[Len(r) + 1] = m
      /\ \A i \in DOMAIN r : a[i] = r[i]
      /\ Len(r) + 1 \notin DOMAIN r
  OBVIOUS
<1> QED
  BY <1>1, Zenon DEF Watcher!Sets

\* With the first request gone the others move up by one.
LEMMA SetsTail ==
  ASSUME NEW M, NEW r \in Seq(M), r # <<>>
  PROVE  /\ \A i \in Watcher!Sets(Tail(r)) : i + 1 \in Watcher!Sets(r)
         /\ \A i \in DOMAIN Tail(r) : i \in Nat \ {0} /\ i + 1 \in DOMAIN r /\ Tail(r)[i] = r[i + 1]
         /\ \A i \in DOMAIN r : i = 1 \/ i - 1 \in DOMAIN Tail(r)
BY DEF Watcher!Sets

\* The user's copy, or the owner's end, leaves the requests as they are.
LEMMA WatcherCopies ==
  ASSUME Watcher!SecretsAssumption, Watcher!NoneAssumption, Watcher!BoundAssumption, Watcher!IInv,
         NEW c \in Contents \cup {None}, Watcher!UserActs, Watcher!Replace(Watcher!Selection(0, c)),
         UNCHANGED <<s3, s4, s5, s6, s7, s8, s9, s10>>
  PROVE  Watcher!IInv'
<1> DEFINE s == Watcher!Selection(0, c)
<1>1. s \in [id : 0..s10, content : Contents \cup {None}] /\ s1' = s /\ s.id = 0
  BY DEF Watcher!IInv, Watcher!WireTypeOK, Watcher!Selection, Watcher!Replace
<1> HIDE DEF s
<1>2. /\ s2' \in Seq([kind : {"selection", "send", "cancelled"}, id : 0..s10,
                       content : Contents \cup {None}])
      /\ \A i \in DOMAIN s2' : s2'[i].kind = "send" => s2'[i].id # 0
      /\ Watcher!CancelledIds(s2') \subseteq Watcher!CancelledIds(s2) \cup ({s1.id} \ {0})
  BY <1>1, WatcherAnnounces DEF s
<1>3. Watcher!TypeOK'
  BY <1>1 DEF Watcher!IInv, Watcher!WireTypeOK, Watcher!TypeOK, Watcher!UserActs, Watcher!BoundAssumption
<1>4. Watcher!WireTypeOK'
  BY <1>1, <1>2 DEF Watcher!IInv, Watcher!WireTypeOK
<1>5. Watcher!InOrder'
  <2>1. \A i \in Watcher!Sets(s3) : s3[i].id \in Nat /\ 0 < s3[i].id
    BY WatcherRequest DEF Watcher!Sets
  <2> QED
    BY <1>1, <1>2, <2>1 DEF Watcher!IInv, Watcher!InOrder
<1>6. Watcher!Held'
  BY <1>1 DEF Watcher!IInv, Watcher!Held, Watcher!Asked, Watcher!NoSource
<1>7. Watcher!Unmarked'
  BY DEF Watcher!IInv, Watcher!Unmarked
<1> QED
  BY <1>3, <1>4, <1>5, <1>6, <1>7 DEF Watcher!IInv

\* Only what is in the history is asked for (Command::Copy).
LEMMA WatcherCopiesBack ==
  ASSUME Watcher!BoundAssumption, Watcher!IInv, NEW c \in Contents, Watcher!copy(c)
  PROVE  Watcher!IInv'
<1>1. c \in Contents \ Secrets
  BY DEF Watcher!IInv, Watcher!Unmarked, Watcher!copy, Watcher!ToSet
<1>2. s8' \in Seq(Contents \ Secrets) /\ s8' \in Seq(Contents)
  BY <1>1 DEF Watcher!IInv, Watcher!Unmarked, Watcher!TypeOK, Watcher!copy
<1>3. Watcher!TypeOK'
  BY <1>2 DEF Watcher!IInv, Watcher!TypeOK, Watcher!UserActs, Watcher!BoundAssumption, Watcher!copy,
     Watcher!compositor, Watcher!thread, Watcher!module
<1> QED
  BY <1>2, <1>3 DEF Watcher!IInv, Watcher!WireTypeOK, Watcher!InOrder, Watcher!Held, Watcher!Asked,
     Watcher!Unmarked, Watcher!copy, Watcher!compositor, Watcher!thread, Watcher!module

\* The compositor takes the daemon's sources in order, so the one it takes is newer than
\* any whose cancellation is on its way; if it is the newest, the thread still holds it.
LEMMA WatcherCompositor ==
  ASSUME Watcher!IInv, Watcher!Compositor
  PROVE  Watcher!IInv'
<1> DEFINE R == [kind : {"set", "receive"}, id : 1..s10, content : Contents \cup {None}]
           r == Head(s3)
           q == Tail(s3)
<1>1. s3 \in Seq(R) /\ s3 # <<>> /\ r = s3[1] /\ r \in R /\ q \in Seq(R) /\ s3' = q /\ 1 \in DOMAIN s3
  <2>1. s3 \in Seq(R) /\ s3 # <<>> /\ s3' = q
    BY DEF Watcher!IInv, Watcher!WireTypeOK, Watcher!Compositor
  <2> HIDE DEF R
  <2> QED
    BY <2>1
<1>2. /\ \A i \in Watcher!Sets(q) : i + 1 \in Watcher!Sets(s3)
      /\ \A i \in DOMAIN q : i \in Nat \ {0} /\ i + 1 \in DOMAIN s3 /\ q[i] = s3[i + 1]
      /\ \A i \in DOMAIN s3 : i = 1 \/ i - 1 \in DOMAIN q
  <2> HIDE DEF R
  <2> QED
    BY <1>1, SetsTail
<1>3. UNCHANGED <<s4, s5, s6, s7, s8, s9, s10, s11>>
  BY DEF Watcher!Compositor, Watcher!thread, Watcher!module
<1> HIDE DEF R, r, q
<1>4. Watcher!Sets(q) \subseteq DOMAIN q
  BY DEF Watcher!Sets
<1>5. /\ s2' \in Seq([kind : {"selection", "send", "cancelled"}, id : 0..s10,
                       content : Contents \cup {None}])
      /\ \A i \in DOMAIN s2' : s2'[i].kind = "send" => s2'[i].id # 0
      /\ IF r.kind = "set"
         THEN /\ Watcher!CancelledIds(s2') \subseteq Watcher!CancelledIds(s2) \cup ({s1.id} \ {0})
              /\ s1' = Watcher!Selection(r.id, r.content)
         ELSE Watcher!CancelledIds(s2') = Watcher!CancelledIds(s2) /\ s1' = s1
  <2>1. CASE r.kind = "set"
    <3>1. /\ Watcher!Replace(Watcher!Selection(r.id, r.content))
          /\ Watcher!Selection(r.id, r.content) \in [id : 0..s10, content : Contents \cup {None}]
      BY <1>1, <2>1 DEF Watcher!Compositor, r, R, Watcher!Selection, Watcher!IInv, Watcher!WireTypeOK
    <3> QED
      BY <2>1, <3>1, WatcherAnnounces DEF Watcher!Replace
  <2>2. CASE r.kind # "set"
    <3> DEFINE M == [kind : {"selection", "send", "cancelled"}, id : 0..s10, content : Contents \cup {None}]
               m == Watcher!Message("send", r.id, None)
    <3>1. s2' = Append(s2, m) /\ s1' = s1
      BY <2>2 DEF Watcher!Compositor, r
    <3>2. m \in M /\ m.kind = "send" /\ m.id # 0 /\ s2 \in Seq(M)
      BY <1>1 DEF R, Watcher!Message, Watcher!IInv, Watcher!WireTypeOK
    <3>3. \A i \in DOMAIN s2 : s2[i].kind = "send" => s2[i].id # 0
      BY DEF Watcher!IInv, Watcher!WireTypeOK
    <3> HIDE DEF m, M
    <3>4. Watcher!CancelledIds(s2') = Watcher!CancelledIds(s2)
      <4>1. Watcher!CancelledIds(Append(s2, m))
              = Watcher!CancelledIds(s2) \cup (IF m.kind = "cancelled" THEN {m.id} ELSE {})
        BY <3>2, CancelledAppend, Zenon
      <4> QED
        BY <3>1, <3>2, <4>1
    <3>5. s2' \in Seq(M) /\ \A i \in DOMAIN s2' : s2'[i].kind = "send" => s2'[i].id # 0
      BY <3>1, <3>2, <3>3
    <3> QED
      BY <2>2, <3>1, <3>4, <3>5 DEF M
  <2> QED
    BY <2>1, <2>2
<1>6. Watcher!TypeOK'
  BY <1>1, <1>3, <1>5 DEF R, Watcher!Selection, Watcher!IInv, Watcher!WireTypeOK, Watcher!TypeOK
<1>7. Watcher!WireTypeOK'
  BY <1>1, <1>3, <1>5 DEF R, Watcher!Selection, Watcher!IInv, Watcher!WireTypeOK
<1>8. r.kind = "set" => 1 \in Watcher!Sets(s3)
  BY <1>1 DEF Watcher!Sets
<1>12. ASSUME r.kind = "set", NEW i \in Watcher!Sets(q)
       PROVE  r.id < q[i].id
  <2>1. i + 1 \in Watcher!Sets(s3) /\ 1 < i + 1 /\ q[i] = s3[i + 1]
    BY <1>2, <1>4, <1>12
  <2> QED
    BY <1>1, <1>8, <1>12, <2>1 DEF Watcher!IInv, Watcher!InOrder
<1>9. Watcher!InOrder'
  <2>1. \A i, j \in Watcher!Sets(q) : i < j => q[i].id < q[j].id
    BY <1>2, <1>4 DEF Watcher!IInv, Watcher!InOrder
  <2>2. ASSUME r.kind = "set"
        PROVE  \A n \in {s1.id} \cup Watcher!CancelledIds(s2') : n < r.id
    BY <1>1, <1>5, <1>8, <2>2 DEF Watcher!IInv, Watcher!InOrder
  <2>4. \A i \in Watcher!Sets(q), n \in {s1'.id} \cup Watcher!CancelledIds(s2') : n < q[i].id
    <3> TAKE i \in Watcher!Sets(q)
    <3>1. \A n \in {s1.id} \cup Watcher!CancelledIds(s2) : n < q[i].id
      BY <1>2, <1>4 DEF Watcher!IInv, Watcher!InOrder
    <3>2. r.kind = "set" => r.id < q[i].id
      BY <1>12
    <3> QED
      BY <1>5, <3>1, <3>2 DEF Watcher!Selection
  <2>5. s1'.id # 0 => \A n \in Watcher!CancelledIds(s2') : n < s1'.id
    BY <1>5, <2>2 DEF Watcher!Selection, Watcher!IInv, Watcher!InOrder
  <2> QED
    BY <1>1, <2>1, <2>4, <2>5 DEF Watcher!InOrder
<1>10. Watcher!Held'
  <2>1. ASSUME Watcher!Asked, ~Watcher!Asked'
        PROVE  r = Watcher!Message("set", s4.id, s4.content)
    BY <1>1, <1>2, <1>3, <2>1 DEF Watcher!Asked
  <2>2. ASSUME Watcher!Sets(q) # {}
        PROVE  s4.id = s10 /\ Watcher!Asked'
    <3>1. PICK i \in Watcher!Sets(q) : TRUE
      BY <2>2
    <3>2. s4.id = s10 /\ Watcher!Asked
      BY <1>2, <3>1 DEF Watcher!IInv, Watcher!Held
    <3>3. r.kind = "set" => r.id < q[i].id
      BY <3>1, <1>12
    <3>4. q[i].id \in 1..s10
      BY <1>2, <1>4, <3>1, WatcherRequest
    <3>5. Watcher!Message("set", s4.id, s4.content).kind = "set" /\ Watcher!Message("set", s4.id, s4.content).id = s10
      BY <3>2 DEF Watcher!Message
    <3>6. s10 \in Nat
      BY DEF Watcher!IInv, Watcher!WireTypeOK
    <3> QED
      BY <2>1, <3>2, <3>3, <3>4, <3>5, <3>6
  <2>3. s1'.id # 0 => s4 = s1' \/ Watcher!Asked'
    <3>1. CASE r.kind = "set" /\ Watcher!Asked /\ ~Watcher!Asked'
      <4>1. s4 \in [id : 0..s10, content : Contents \cup {None}]
        BY DEF Watcher!IInv, Watcher!TypeOK
      <4> QED
        BY <1>5, <2>1, <3>1, <4>1 DEF Watcher!Message, Watcher!Selection
    <3>2. CASE r.kind = "set" /\ ~Watcher!Asked
      BY <1>8, <3>2 DEF Watcher!IInv, Watcher!Held
    <3>3. CASE r.kind # "set"
      <4>1. Watcher!Asked => Watcher!Asked'
        BY <2>1, <3>3 DEF Watcher!Message
      <4> QED
        BY <1>5, <3>3, <4>1 DEF Watcher!IInv, Watcher!Held
    <3> QED
      BY <3>1, <3>2, <3>3
  <2> QED
    BY <1>1, <1>3, <2>2, <2>3 DEF Watcher!IInv, Watcher!Held, Watcher!NoSource
<1>11. Watcher!Unmarked'
  BY <1>3 DEF Watcher!IInv, Watcher!Unmarked
<1> QED
  BY <1>6, <1>7, <1>9, <1>10, <1>11 DEF Watcher!IInv

\* A new source is newer than everything on its way.
LEMMA WatcherOffers ==
  ASSUME Watcher!SecretsAssumption, Watcher!NoneAssumption, Watcher!IInv, Watcher!event_loop_command
  PROVE  Watcher!IInv'
<1> DEFINE R == [kind : {"set", "receive"}, id : 1..s10', content : Contents \cup {None}]
           c == Head(s8)
           m == Watcher!Message("set", s10', c)
<1>1. s10 \in Nat /\ s10' = s10 + 1 /\ s4' = Watcher!Selection(s10', c) /\ s3' = Append(s3, m)
  BY DEF Watcher!event_loop_command, Watcher!IInv, Watcher!WireTypeOK
<1>2. c \in Contents \ Secrets /\ c \in Contents /\ s8' \in Seq(Contents \ Secrets) /\ s8' \in Seq(Contents)
  BY DEF Watcher!event_loop_command, Watcher!IInv, Watcher!Unmarked, Watcher!TypeOK
<1>3. UNCHANGED <<s1, s2, s5, s6, s7, s9, s11>>
  BY DEF Watcher!event_loop_command, Watcher!compositor, Watcher!module
<1>4. m \in R /\ m.kind = "set" /\ m.id = s10 + 1
  BY <1>1, <1>2 DEF Watcher!Message
<1>5. s3 \in Seq(R) /\ \A i \in DOMAIN s3 : s3[i].id \in 1..s10
  <2> DEFINE Q == [kind : {"set", "receive"}, id : 1..s10, content : Contents \cup {None}]
  <2>1. Q \subseteq R
    BY <1>1
  <2>2. s3 \in Seq(Q)
    BY DEF Watcher!IInv, Watcher!WireTypeOK
  <2>3. \A i \in DOMAIN s3 : s3[i].id \in 1..s10
    BY WatcherRequest
  <2> HIDE DEF Q, R
  <2> QED
    BY <2>1, <2>2, <2>3, SeqMonotonic
<1>6. s2 \in Seq([kind : {"selection", "send", "cancelled"}, id : 0..s10', content : Contents \cup {None}])
  <2> DEFINE M == [kind : {"selection", "send", "cancelled"}, id : 0..s10', content : Contents \cup {None}]
             L == [kind : {"selection", "send", "cancelled"}, id : 0..s10, content : Contents \cup {None}]
  <2>1. L \subseteq M
    BY <1>1
  <2>2. s2 \in Seq(L)
    BY DEF Watcher!IInv, Watcher!WireTypeOK
  <2> HIDE DEF L, M
  <2>3. s2 \in Seq(M)
    BY <2>1, <2>2, SeqMonotonic
  <2> QED
    BY <2>3 DEF M
<1>7. \A n \in {s1.id} \cup Watcher!CancelledIds(s2) : n \in 0..s10
  BY WatcherEvent DEF Watcher!IInv, Watcher!WireTypeOK, Watcher!CancelledIds
<1> HIDE DEF R, m, c
<1>8. Watcher!Sets(s3') = Watcher!Sets(s3) \cup {Len(s3) + 1} /\ Watcher!Sets(s3) \subseteq 1..Len(s3)
  BY <1>1, <1>4, <1>5, SetsAppend DEF Watcher!Sets
<1>9. /\ s3' \in Seq(R) /\ Len(s3') = Len(s3) + 1 /\ s3'[Len(s3) + 1] = m /\ Len(s3) \in Nat
      /\ \A i \in 1..Len(s3) : s3'[i] = s3[i]
  BY <1>1, <1>4, <1>5
<1>10. Watcher!TypeOK'
  BY <1>1, <1>2, <1>3 DEF Watcher!IInv, Watcher!TypeOK, Watcher!Selection
<1>11. Watcher!WireTypeOK'
  BY <1>1, <1>3, <1>6, <1>9 DEF R, Watcher!IInv, Watcher!WireTypeOK
<1>12. Watcher!InOrder'
  <2>1. \A i \in Watcher!Sets(s3) : s3'[i] = s3[i] /\ s3[i].id \in 1..s10 /\ i \in 1..Len(s3)
    BY <1>5, <1>8, <1>9
  <2>2. \A i, j \in Watcher!Sets(s3') : i < j => s3'[i].id < s3'[j].id
    BY <1>1, <1>4, <1>8, <1>9, <2>1 DEF Watcher!IInv, Watcher!InOrder
  <2>3. \A i \in Watcher!Sets(s3'), n \in {s1.id} \cup Watcher!CancelledIds(s2) : n < s3'[i].id
    BY <1>1, <1>4, <1>7, <1>8, <1>9, <2>1 DEF Watcher!IInv, Watcher!InOrder
  <2> QED
    BY <1>3, <2>2, <2>3 DEF Watcher!IInv, Watcher!InOrder
<1>13. Watcher!Held'
  <2>1. s4'.id = s10' /\ s10' # 0 /\ s4'.content = c
    BY <1>1 DEF Watcher!Selection
  <2>2. Watcher!Asked'
    BY <1>9, <2>1 DEF Watcher!Asked, m
  <2> QED
    BY <1>2, <2>1, <2>2 DEF Watcher!Held, Watcher!NoneAssumption
<1>14. Watcher!Unmarked'
  BY <1>1, <1>2, <1>3 DEF Watcher!IInv, Watcher!Unmarked, Watcher!Selection
<1> QED
  BY <1>10, <1>11, <1>12, <1>13, <1>14 DEF Watcher!IInv

\* What a new reader adds to those there are.
LEMMA ReadersAre ==
  ASSUME Watcher!IInv
  PROVE  /\ s6 \subseteq [own : BOOLEAN, content : Contents]
         /\ \A r \in s6 : r.content \notin Secrets
         /\ \A own \in BOOLEAN, c \in Contents \ Secrets :
              /\ Watcher!Reader(own, c) \in [own : BOOLEAN, content : Contents]
              /\ Watcher!Reader(own, c).content \notin Secrets
BY DEF Watcher!IInv, Watcher!TypeOK, Watcher!Unmarked, Watcher!Reader

\* A cancellation takes the thread's source away only if it is the newest source's: no
\* source is then to be set and the compositor has none of the daemon's.
LEMMA WatcherDispatches ==
  ASSUME Watcher!SecretsAssumption, Watcher!NoneAssumption, Watcher!IInv, Watcher!Dispatch
  PROVE  Watcher!IInv'
<1> DEFINE M == [kind : {"selection", "send", "cancelled"}, id : 0..s10, content : Contents \cup {None}]
           R == [kind : {"set", "receive"}, id : 1..s10, content : Contents \cup {None}]
           e == Head(s2)
<1>1. /\ s2 \in Seq(M) /\ s2 # <<>> /\ e \in M /\ s2' = Tail(s2) /\ s2' \in Seq(M) /\ s3 \in Seq(R)
      /\ s10 \in Nat
  <2>1. s2 \in Seq(M) /\ s2 # <<>> /\ s2' = Tail(s2) /\ s3 \in Seq(R) /\ s10 \in Nat
    BY DEF Watcher!Dispatch, Watcher!IInv, Watcher!WireTypeOK
  <2> HIDE DEF M, R
  <2> QED
    BY <2>1
<1>2. e.kind = "send" => e.id # 0
  BY <1>1 DEF Watcher!IInv, Watcher!WireTypeOK
<1>3. \A i \in DOMAIN s2' : s2'[i].kind = "send" => s2'[i].id # 0
  BY <1>1 DEF Watcher!IInv, Watcher!WireTypeOK
<1>4. UNCHANGED <<s1, s8, s9, s10, s11>>
  BY DEF Watcher!Dispatch
<1>5. \/ e.kind = "selection" /\ Watcher!on_selection(e) /\ UNCHANGED s4
      \/ e.kind = "send" /\ Watcher!Send(e) /\ UNCHANGED <<s4, s5, s3, s7>>
      \/ e.kind = "cancelled" /\ Watcher!Cancelled(e) /\ UNCHANGED <<s5, s6, s3, s7>>
  BY DEF Watcher!Dispatch
<1> HIDE DEF M, e
<1>6. /\ Watcher!CancelledIds(s2') \subseteq Watcher!CancelledIds(s2)
      /\ e.kind = "cancelled" => e.id \in Watcher!CancelledIds(s2)
  <2>1. Watcher!CancelledIds(s2)
          = Watcher!CancelledIds(Tail(s2)) \cup (IF e.kind = "cancelled" THEN {e.id} ELSE {})
    BY <1>1, CancelledTail, Zenon DEF e
  <2> QED
    BY <1>1, <2>1
<1>7. CASE e.kind = "selection" /\ Watcher!on_selection(e) /\ UNCHANGED s4
  <2>1. CASE e.content = None
    <3>1. UNCHANGED <<s3, s5, s6>>
          /\ s7' = IF s5 THEN Append(s7, Watcher!Message("cleared", 0, None)) ELSE s7
      BY <1>7, <2>1 DEF Watcher!on_selection
    <3>2. Watcher!Unmarked'
      BY <1>4, <1>7, <3>1 DEF Watcher!IInv, Watcher!Unmarked
    <3> QED
      BY <1>1, <1>3, <1>4, <1>6, <1>7, <3>1, <3>2
      DEF M, Watcher!IInv, Watcher!TypeOK, Watcher!WireTypeOK, Watcher!InOrder, Watcher!Held, Watcher!Asked
  <2>2. CASE e.content # None
    <3> DEFINE m == Watcher!Message("receive", e.id, None)
    <3>1. /\ s5' = TRUE /\ UNCHANGED s7
          /\ s6' = s6 \/ (s6' = s6 \cup {Watcher!Reader(FALSE, e.content)} /\ e.content \notin Secrets)
          /\ s3' = s3 \/ (s3' = Append(s3, m) /\ e.id # 0)
      BY <1>7, <2>2 DEF Watcher!on_selection, Watcher!choose_mime
    <3>2. e.content \in Contents /\ (e.id # 0 => m \in R) /\ m.kind = "receive"
      BY <1>1, <2>2 DEF M, Watcher!Message
    <3> HIDE DEF m, R
    <3>3. /\ s3' \in Seq(R) /\ Watcher!Sets(s3') = Watcher!Sets(s3)
          /\ \A i \in DOMAIN s3 : i \in DOMAIN s3' /\ s3'[i] = s3[i]
      <4>1. CASE s3' = s3
        BY <1>1, <4>1
      <4>2. CASE s3' = Append(s3, m) /\ e.id # 0
        <5>1. Watcher!Sets(Append(s3, m))
                = Watcher!Sets(s3) \cup (IF m.kind = "set" THEN {Len(s3) + 1} ELSE {})
          BY <1>1, <3>2, <4>2, SetsAppend
        <5> QED
          BY <1>1, <3>2, <4>2, <5>1
      <4> QED
        BY <3>1, <4>1, <4>2
    <3>4. Watcher!Sets(s3) \subseteq DOMAIN s3
      BY DEF Watcher!Sets
    <3>5. Watcher!TypeOK' /\ Watcher!Unmarked'
      <4>1. /\ s6' \subseteq [own : BOOLEAN, content : Contents]
            /\ \A r \in s6' : r.content \notin Secrets
        BY <3>1, <3>2, ReadersAre
      <4> QED
        BY <1>4, <1>7, <3>1, <4>1 DEF Watcher!IInv, Watcher!TypeOK, Watcher!Unmarked
    <3>6. Watcher!WireTypeOK'
      BY <1>1, <1>3, <1>4, <3>3 DEF M, R, Watcher!IInv, Watcher!WireTypeOK
    <3>7. Watcher!InOrder'
      BY <1>4, <1>6, <3>3, <3>4 DEF Watcher!IInv, Watcher!InOrder
    <3>8. Watcher!Held'
      BY <1>4, <1>7, <3>3 DEF Watcher!IInv, Watcher!Held, Watcher!Asked
    <3> QED
      BY <3>5, <3>6, <3>7, <3>8 DEF Watcher!IInv
  <2> QED
    BY <2>1, <2>2
<1>8. CASE e.kind = "send" /\ Watcher!Send(e) /\ UNCHANGED <<s4, s5, s3, s7>>
  <2>1. s6' = s6 \/ (s6' = s6 \cup {Watcher!Reader(TRUE, s4.content)} /\ s4.id # 0)
    BY <1>2, <1>8 DEF Watcher!Send
  <2>2. s6' \subseteq [own : BOOLEAN, content : Contents] /\ \A r \in s6' : r.content \notin Secrets
    <3>1. s4.content \notin Secrets /\ (s4.id # 0 => s4.content \in Contents)
      BY DEF Watcher!IInv, Watcher!TypeOK, Watcher!Unmarked, Watcher!Held
    <3> QED
      BY <2>1, <3>1, ReadersAre
  <2> QED
    BY <1>1, <1>3, <1>4, <1>6, <1>8, <2>2
    DEF M, Watcher!IInv, Watcher!TypeOK, Watcher!WireTypeOK, Watcher!InOrder, Watcher!Held, Watcher!Asked,
        Watcher!Unmarked
<1>9. CASE e.kind = "cancelled" /\ Watcher!Cancelled(e) /\ UNCHANGED <<s5, s6, s3, s7>>
  <2>1. CASE e.id = s4.id
    <3>1. s4' = Watcher!NoSource
      BY <1>9, <2>1 DEF Watcher!Cancelled
    <3>2. s4.id \in Watcher!CancelledIds(s2) /\ s4.id \in 0..s10
      BY <1>6, <1>9, <2>1 DEF Watcher!IInv, Watcher!TypeOK
    <3>3. ~Watcher!Asked
      <4> SUFFICES ASSUME Watcher!Asked PROVE FALSE
        OBVIOUS
      <4>1. PICK i \in DOMAIN s3 : s3[i] = Watcher!Message("set", s4.id, s4.content)
        BY DEF Watcher!Asked
      <4>2. i \in Watcher!Sets(s3) /\ s3[i].id = s4.id
        BY <4>1 DEF Watcher!Sets, Watcher!Message
      <4> QED
        BY <3>2, <4>2 DEF Watcher!IInv, Watcher!InOrder
    <3>4. Watcher!Sets(s3) = {} /\ s1.id = 0
      BY <3>2, <3>3 DEF Watcher!IInv, Watcher!Held, Watcher!InOrder
    <3> QED
      BY <1>1, <1>3, <1>4, <1>6, <1>9, <3>1, <3>4
      DEF M, Watcher!IInv, Watcher!TypeOK, Watcher!WireTypeOK, Watcher!InOrder, Watcher!Held,
          Watcher!Unmarked, Watcher!NoSource, Watcher!Selection, Watcher!SecretsAssumption,
          Watcher!NoneAssumption
  <2>2. CASE e.id # s4.id
    <3>1. s4' = s4
      BY <1>9, <2>2 DEF Watcher!Cancelled
    <3> QED
      BY <1>1, <1>3, <1>4, <1>6, <1>9, <3>1
      DEF M, Watcher!IInv, Watcher!TypeOK, Watcher!WireTypeOK, Watcher!InOrder, Watcher!Held, Watcher!Asked,
          Watcher!Unmarked
  <2> QED
    BY <2>1, <2>2
<1> QED
  BY <1>5, <1>7, <1>8, <1>9

\* A reader hands over what it was asked to read.
LEMMA WatcherReaderEnds ==
  ASSUME Watcher!SecretsAssumption, Watcher!IInv, NEW r \in s6, Watcher!ReaderEnds(r)
  PROVE  Watcher!IInv'
<1>1. Watcher!Message("captured", 0, r.content)
        \in [kind : {"captured"}, id : {0}, content : Contents \ Secrets]
  BY DEF Watcher!Message, Watcher!IInv, Watcher!TypeOK, Watcher!Unmarked
<1>2. Watcher!Unmarked'
  <2> DEFINE E == [kind : {"captured"}, id : {0}, content : Contents \ Secrets]
                    \cup {Watcher!Message("cleared", 0, None)}
             m == Watcher!Message("captured", 0, r.content)
  <2>1. s7 \in Seq(E) /\ m \in E /\ (s7' = Append(s7, m) \/ s7' = s7)
    BY <1>1 DEF Watcher!ReaderEnds, Watcher!IInv, Watcher!Unmarked
  <2> HIDE DEF E, m
  <2>2. s7' \in Seq(E)
    BY <2>1
  <2>3. UNCHANGED <<s4, s8, s9>> /\ \A x \in s6' : x \in s6
    BY DEF Watcher!ReaderEnds
  <2> QED
    BY <2>2, <2>3 DEF E, Watcher!IInv, Watcher!Unmarked
<1> QED
  BY <1>2 DEF Watcher!ReaderEnds, Watcher!IInv, Watcher!TypeOK, Watcher!WireTypeOK, Watcher!InOrder,
     Watcher!Held, Watcher!Asked, Watcher!compositor

\* The history and the restored selection are made of what was captured.
LEMMA WatcherHandles ==
  ASSUME Watcher!SecretsAssumption, Watcher!IInv, Watcher!Handle
  PROVE  Watcher!IInv'
<1> DEFINE E == [kind : {"captured"}, id : {0}, content : Contents \ Secrets]
                  \cup {Watcher!Message("cleared", 0, None)}
           C == Contents \ Secrets
           c == Head(s7).content
           i == Watcher!position(c)
<1>1. s7 \in Seq(E) /\ s7 # <<>> /\ s7' = Tail(s7) /\ s9 \in Seq(C) /\ s8 \in Seq(C)
  BY DEF Watcher!Handle, Watcher!IInv, Watcher!Unmarked
<1>2. Head(s7) \in E /\ s7' \in Seq(E)
  BY <1>1
<1>3. UNCHANGED <<s1, s2, s3, s4, s5, s6, s10, s11>>
  BY DEF Watcher!Handle, Watcher!compositor, Watcher!thread
<1>4. s9' \in Seq(C) /\ s8' \in Seq(C)
  <2>1. CASE Head(s7).kind = "captured"
    <3>1. c \in C /\ UNCHANGED s8
      BY <1>2, <2>1 DEF Watcher!Handle, Watcher!Message
    <3>2. s9' = <<c>> \o (IF c \in Watcher!ToSet(s9) THEN Watcher!RemoveAt(s9, i) ELSE s9)
      BY <2>1 DEF Watcher!Handle, Watcher!add
    <3>3. c \in Watcher!ToSet(s9) => i \in DOMAIN s9
      BY DEF Watcher!ToSet, Watcher!position
    <3> HIDE DEF c, i, C
    <3>4. c \in Watcher!ToSet(s9) => Watcher!RemoveAt(s9, i) \in Seq(C)
      BY <1>1, <3>3 DEF Watcher!RemoveAt
    <3> QED
      BY <1>1, <3>1, <3>2, <3>4
  <2>2. CASE Head(s7).kind # "captured"
    <3>1. s9' = s9 /\ s8' = IF s9 = <<>> THEN s8 ELSE Append(s8, Head(s9))
      BY <2>2 DEF Watcher!Handle
    <3> QED
      BY <1>1, <3>1
  <2> QED
    BY <2>1, <2>2
<1>5. s9' \in Seq(Contents) /\ s8' \in Seq(Contents)
  BY <1>4
<1>6. Watcher!Unmarked'
  BY <1>2, <1>3, <1>4 DEF Watcher!IInv, Watcher!Unmarked
<1> QED
  BY <1>3, <1>5, <1>6 DEF Watcher!IInv, Watcher!TypeOK, Watcher!WireTypeOK, Watcher!InOrder,
     Watcher!Held, Watcher!Asked

\* At the start nothing of the daemon's is on its way.
LEMMA WatcherInit ==
  Watcher!SecretsAssumption /\ Watcher!NoneAssumption /\ Watcher!BoundAssumption /\ Watcher!Init
    => Watcher!IInv
<1> SUFFICES ASSUME Watcher!SecretsAssumption, Watcher!NoneAssumption, Watcher!BoundAssumption,
                    Watcher!Init
             PROVE  Watcher!IInv
  OBVIOUS
<1>1. PICK c \in Contents \cup {None} :
        /\ s1 = Watcher!Selection(0, c)
        /\ s2 = IF c = None THEN <<>> ELSE <<Watcher!Message("selection", 0, c)>>
  BY DEF Watcher!Init
<1>2. s3 = <<>> /\ s8 = <<>> /\ s7 = <<>> /\ s4 = Watcher!NoSource /\ s10 = 0 /\ s5 = FALSE /\ s6 = {}
      /\ s9 = <<>> /\ s11 = 0
  BY DEF Watcher!Init
<1>3. Watcher!Sets(s3) = {}
  BY <1>2 DEF Watcher!Sets
<1>4. Watcher!TypeOK /\ Watcher!Unmarked
  <2>1. \A S : <<>> \in Seq(S)
    OBVIOUS
  <2> QED
    <3>1. s1 \in [id : Nat, content : Contents \cup {None}]
      BY <1>1 DEF Watcher!Selection
    <3>2. s4 \in [id : 0..s10, content : Contents \cup {None}] /\ s4.content = None
      BY <1>2 DEF Watcher!Selection, Watcher!NoSource
    <3>3. s4.content \notin Secrets /\ s11 \in 0..MaxUser
      BY <1>2, <3>2 DEF Watcher!SecretsAssumption, Watcher!NoneAssumption, Watcher!BoundAssumption
    <3>4. s5 \in BOOLEAN
      BY <1>2
    <3> QED
      BY <1>2, <2>1, <3>1, <3>2, <3>3, <3>4 DEF Watcher!TypeOK, Watcher!Unmarked
<1>5. Watcher!WireTypeOK
  <2> DEFINE M == [kind : {"selection", "send", "cancelled"}, id : 0..s10, content : Contents \cup {None}]
             m == Watcher!Message("selection", 0, c)
  <2>1. m \in M /\ m.kind = "selection"
    BY <1>2 DEF Watcher!Message
  <2>2. s2 = <<>> \/ s2 = <<m>>
    BY <1>1
  <2> HIDE DEF m, M
  <2>3. s2 \in Seq(M) /\ \A i \in DOMAIN s2 : s2[i].kind = "selection"
    <3>1. CASE s2 = <<>>
      BY <3>1
    <3>2. CASE s2 = <<m>>
      BY <2>1, <3>2
    <3> QED
      BY <2>2, <3>1, <3>2
  <2>4. s3 \in Seq([kind : {"set", "receive"}, id : 1..s10, content : Contents \cup {None}])
    BY <1>2
  <2> QED
    BY <1>1, <1>2, <2>3, <2>4 DEF M, Watcher!WireTypeOK, Watcher!Selection
<1>6. Watcher!InOrder /\ Watcher!Held
  BY <1>1, <1>2, <1>3 DEF Watcher!InOrder, Watcher!Held, Watcher!Selection, Watcher!NoSource,
     Watcher!NoneAssumption
<1> QED
  BY <1>4, <1>5, <1>6 DEF Watcher!IInv

\* Every step of the user, the compositor and the daemon.
LEMMA WatcherNext ==
  Watcher!SecretsAssumption /\ Watcher!NoneAssumption /\ Watcher!BoundAssumption
    /\ Watcher!IInv /\ Watcher!Next => Watcher!IInv'
<1> SUFFICES ASSUME Watcher!SecretsAssumption, Watcher!NoneAssumption, Watcher!BoundAssumption,
                    Watcher!IInv, Watcher!Next
             PROVE  Watcher!IInv'
  OBVIOUS
<1>1. CASE Watcher!Leaves
  BY <1>1, WatcherCopies DEF Watcher!Leaves, Watcher!thread, Watcher!module
<1>2. ASSUME NEW c \in Contents, Watcher!Copies(c) PROVE Watcher!IInv'
  BY <1>2, WatcherCopies DEF Watcher!Copies, Watcher!thread, Watcher!module
<1> QED
  BY <1>1, <1>2, WatcherCopiesBack, WatcherCompositor, WatcherOffers, WatcherDispatches,
     WatcherReaderEnds, WatcherHandles
  DEF Watcher!Next, Watcher!DaemonSteps, Watcher!ProgramLetsGo

\* For any contents and any number of copies, with requests and events on their way in
\* any number: a selection the compositor has from the daemon is the one the thread
\* serves, or a newer one is on its way; and nothing marked secret is read, stored or
\* offered (wayland.rs).
THEOREM SelectionsAreServed == ServicesSpec => []WatcherSelectionIsServed
<1> DEFINE Inv == component = "watcher" => Watcher!IInv
<1>1. ServicesInit => Inv
  BY WatcherInit, ServicesAssumption DEF ServicesInit, ServicesAssumption
<1>2. Inv /\ [ServicesNext]_all => Inv'
  <2>1. ASSUME Inv, ServicesNext PROVE Inv'
    BY <2>1, WatcherNext, ServicesAssumption DEF ServicesNext, One, ServicesAssumption
  <2>2. ASSUME Inv, UNCHANGED all PROVE Inv'
    BY <2>2 DEF all, slots, Watcher!IInv, Watcher!TypeOK, Watcher!WireTypeOK, Watcher!InOrder,
       Watcher!Held, Watcher!Asked, Watcher!Unmarked
  <2> QED
    BY <2>1, <2>2
<1>3. Inv => WatcherSelectionIsServed
  BY DEF WatcherSelectionIsServed, Watcher!SelectionIsServed, Watcher!IInv, Watcher!Held,
     Watcher!Unmarked, Watcher!Asked, Watcher!ToSet
<1> QED
  BY <1>1, <1>2, <1>3, PTL DEF ServicesSpec
=============================================================================
