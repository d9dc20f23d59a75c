------------------------------ MODULE HubProofs ------------------------------
(***************************************************************************)
(* What holds of Hub for every number of connections, every registry of    *)
(* topics and every list a client may send.                                *)
(*                                                                         *)
(* The counter of a topic is tied to the set of its holders by one         *)
(* inductive invariant, IInv of Hub.  Every step of the daemon either leaves what *)
(* every connection owes alone, or adds one topic to what one connection   *)
(* owes (only SubscribeAcquire), or takes one away (UnsubscribeRelease,    *)
(* CleanupRelease): the lemmas Joined and Departed say what that does to   *)
(* the cardinalities, and the rest is one step per action.                 *)
(***************************************************************************)
EXTENDS Hub, FiniteSetTheorems, SequenceTheorems, TLAPS

-----------------------------------------------------------------------------
(* Type correctness.                                                       *)

\* The rest of a list is a list of names, and its head is a name.
LEMMA ListParts ==
  ASSUME NEW s \in Seq(Names), s # << >>
  PROVE  Head(s) \in Names /\ Tail(s) \in Seq(Names)
BY HeadTailProperties

LEMMA TypeInit == Init => TypeOK
BY HubAssumption DEF Init, TypeOK, Phases, TaskStates, Names

\* The two critical sections of the runtimes mutex keep the types of the hub.
LEMMA CountersTyped ==
  ASSUME TypeOK, NEW t, Acquired(t) \/ Released(t)
  PROVE  /\ subscribers' \in [Topics -> Nat]
         /\ task' \in [Topics -> TaskStates]
         /\ backoff' \in [Topics -> RestartMin..RestartMax]
         /\ health' \in [Topics -> {"absent", "running", "idle", "restarting"}]
<1>1. CASE Acquired(t)
  <2> DEFINE n == subscribers[t] + 1
  <2>0. t \in Topics => n \in Nat
    BY DEF TypeOK
  <2>3. subscribers' = [subscribers EXCEPT ![t] = n]
    BY <1>1 DEF Acquired
  <2> HIDE DEF n
  <2>1. subscribers' \in [Topics -> Nat]
    BY <2>0, <2>3 DEF TypeOK
  <2>2. task' \in [Topics -> TaskStates]
    BY <1>1 DEF TypeOK, Acquired, TaskStates
  <2> QED BY <1>1, <2>1, <2>2 DEF TypeOK, Acquired
<1>2. CASE Released(t)
  <2> DEFINE n == IF subscribers[t] = 0 THEN 0 ELSE subscribers[t] - 1
  <2>1. t \in Topics => n \in Nat
    BY DEF TypeOK
  <2>2. subscribers' = [subscribers EXCEPT ![t] = n]
    BY <1>2 DEF Released
  <2> HIDE DEF n
  <2>3. subscribers' \in [Topics -> Nat]
    BY <2>1, <2>2 DEF TypeOK
  <2>4. task' \in [Topics -> TaskStates]
    BY <1>2 DEF TypeOK, Released, TaskStates
  <2> QED BY <1>2, <2>3, <2>4 DEF TypeOK, Released
<1> QED BY <1>1, <1>2

LEMMA TypeClient ==
  ASSUME TypeOK, NEW c \in Conns, ClientStep(c)
  PROVE  TypeOK'
<1>1. CASE Accept(c)
  BY <1>1 DEF Accept, GoTo, hubVars, TypeOK, Phases
<1>2. ASSUME NEW list \in Requests, Subscribe(c, list) \/ Unsubscribe(c, list)
      PROVE  TypeOK'
  BY <1>2, HubAssumption DEF Subscribe, Unsubscribe, GoTo, hubVars, TypeOK, Phases, Names
<1>3. CASE Disconnect(c)
  BY <1>3 DEF Disconnect, GoTo, hubVars, TypeOK, Phases
<1> QED BY <1>1, <1>2, <1>3 DEF ClientStep

\* What the reader task does to its own variables: any phase, and the rest of the
\* list where one is consumed.
LEMMA ReaderTyped ==
  ASSUME TypeOK, NEW c \in Conns, NEW p \in Phases, GoTo(c, p),
         todo' = todo \/ (todo[c] # << >> /\ Advance(c)),
         p \in {"acquire", "insert", "release"} => todo' = todo /\ todo[c] # << >>,
         subs' \in [Conns -> SUBSET Topics], left' \in [Conns -> SUBSET Topics]
  PROVE  /\ phase' \in [Conns -> Phases]
         /\ todo' \in [Conns -> Seq(Names)]
         /\ \A d \in Conns : phase'[d] \in {"acquire", "insert", "release"} => todo'[d] # << >>
<1>1. phase' \in [Conns -> Phases]
  BY DEF TypeOK, GoTo
<1>2. todo' \in [Conns -> Seq(Names)]
  <2>1. CASE todo' = todo
    BY <2>1 DEF TypeOK
  <2>2. CASE todo[c] # << >> /\ Advance(c)
    <3> DEFINE r == Tail(todo[c])
    <3>1. r \in Seq(Names)
      BY <2>2, ListParts DEF TypeOK
    <3>2. todo' = [todo EXCEPT ![c] = r]
      BY <2>2 DEF Advance
    <3> HIDE DEF r
    <3> QED BY <3>1, <3>2 DEF TypeOK
  <2> QED BY <2>1, <2>2
<1>3. ASSUME NEW d \in Conns, phase'[d] \in {"acquire", "insert", "release"}
      PROVE  todo'[d] # << >>
  <2>1. CASE d = c
    BY <1>3, <2>1 DEF TypeOK, GoTo
  <2>2. CASE d # c
    <3>1. phase'[d] = phase[d] /\ todo'[d] = todo[d]
      BY <2>2 DEF TypeOK, GoTo, Advance
    <3> QED BY <1>3, <3>1 DEF TypeOK
  <2> QED BY <2>1, <2>2
<1> QED BY <1>1, <1>2, <1>3

\* Steps of the reader task that leave the hub alone.
LEMMA ReaderOnlyTyped ==
  ASSUME TypeOK, NEW c \in Conns, NEW p \in Phases, GoTo(c, p),
         todo' = todo \/ (todo[c] # << >> /\ Advance(c)),
         p \in {"acquire", "insert", "release"} => todo' = todo /\ todo[c] # << >>,
         subs' \in [Conns -> SUBSET Topics], left' \in [Conns -> SUBSET Topics],
         UNCHANGED hubVars
  PROVE  TypeOK'
BY ReaderTyped DEF TypeOK, hubVars

LEMMA TypeHandle ==
  ASSUME TypeOK, Shape, NEW c \in Conns, Handle(c)
  PROVE  TypeOK'
<1>1. CASE SubscribeCheck(c)
  <2>1. PICK p \in {"ready", "check", "acquire"} : GoTo(c, p) /\ (p = "acquire" => todo' = todo /\ todo[c] # << >>)
    <3>1. UNCHANGED phase => GoTo(c, phase[c])
      BY DEF GoTo, TypeOK
    <3> QED BY <1>1, <3>1 DEF SubscribeCheck
  <2>2. todo' = todo \/ (todo[c] # << >> /\ Advance(c))
    BY <1>1 DEF SubscribeCheck
  <2>3. subs' \in [Conns -> SUBSET Topics] /\ left' \in [Conns -> SUBSET Topics] /\ UNCHANGED hubVars
    BY <1>1 DEF SubscribeCheck, TypeOK
  <2>4. p \in Phases
    BY DEF Phases
  <2> QED BY <2>1, <2>2, <2>3, <2>4, ReaderOnlyTyped
<1>2. CASE SubscribeAcquire(c)
  <2> DEFINE t == Head(todo[c])
  <2>0. todo[c] # << >> /\ subs' \in [Conns -> SUBSET Topics] /\ left' \in [Conns -> SUBSET Topics]
    BY <1>2 DEF SubscribeAcquire, TypeOK
  <2>1. CASE t \in Topics
    <3>1. Acquired(t) /\ GoTo(c, "insert") /\ todo' = todo
      BY <1>2, <2>1 DEF SubscribeAcquire
    <3>2. "insert" \in Phases
      BY DEF Phases
    <3> HIDE DEF t
    <3> QED BY <2>0, <2>1, <3>1, <3>2, ReaderTyped, CountersTyped DEF TypeOK
  <2>2. CASE t \notin Topics
    <3>1. Advance(c) /\ GoTo(c, "check") /\ UNCHANGED hubVars
      BY <1>2, <2>2 DEF SubscribeAcquire
    <3>2. "check" \in Phases
      BY DEF Phases
    <3> QED BY <2>0, <3>1, <3>2, ReaderOnlyTyped
  <2> QED BY <2>1, <2>2
<1>3. CASE SubscribeInsert(c)
  <2>1. Head(todo[c]) \in Topics
    BY <1>3 DEF Shape, SubscribeInsert
  <2>2. subs' \in [Conns -> SUBSET Topics] /\ left' \in [Conns -> SUBSET Topics]
    BY <1>3, <2>1 DEF SubscribeInsert, TypeOK
  <2>3. todo[c] # << >> /\ "check" \in Phases
    BY <1>3 DEF SubscribeInsert, TypeOK, Phases
  <2> QED BY <1>3, <2>2, <2>3, ReaderOnlyTyped DEF SubscribeInsert
<1>4. CASE UnsubscribeRemove(c)
  <2>1. PICK p \in {"ready", "remove", "release"} : GoTo(c, p) /\ (p = "release" => todo' = todo /\ todo[c] # << >>)
    <3>1. UNCHANGED phase => GoTo(c, phase[c])
      BY DEF GoTo, TypeOK
    <3> QED BY <1>4, <3>1 DEF UnsubscribeRemove
  <2>2. todo' = todo \/ (todo[c] # << >> /\ Advance(c))
    BY <1>4 DEF UnsubscribeRemove
  <2>3. subs' \in [Conns -> SUBSET Topics] /\ left' \in [Conns -> SUBSET Topics] /\ UNCHANGED hubVars
    BY <1>4 DEF UnsubscribeRemove, TypeOK
  <2>4. p \in Phases
    BY DEF Phases
  <2> QED BY <2>1, <2>2, <2>3, <2>4, ReaderOnlyTyped
<1>5. CASE UnsubscribeRelease(c)
  <2>1. Released(Head(todo[c])) /\ Advance(c) /\ GoTo(c, "remove") /\ UNCHANGED <<subs, left>>
    BY <1>5 DEF UnsubscribeRelease
  <2>2. todo[c] # << >> /\ "remove" \in Phases
    BY <1>5 DEF UnsubscribeRelease, TypeOK, Phases
  <2>3. subs' \in [Conns -> SUBSET Topics] /\ left' \in [Conns -> SUBSET Topics]
    BY <2>1 DEF TypeOK
  <2> QED BY <2>1, <2>2, <2>3, ReaderTyped, CountersTyped DEF TypeOK
<1>6. CASE CleanupRelease(c)
  <2>1. PICK t \in left[c] : Released(t) /\ left' = [left EXCEPT ![c] = @ \ {t}]
    BY <1>6 DEF CleanupRelease
  <2>2. t \in Topics /\ left' \in [Conns -> SUBSET Topics]
    BY <2>1 DEF TypeOK
  <2>3. UNCHANGED <<phase, todo, subs>>
    BY <1>6 DEF CleanupRelease
  <2> QED BY <2>1, <2>2, <2>3, CountersTyped DEF TypeOK
<1>7. CASE CleanupDone(c)
  <2>1. "drain" \in Phases
    BY DEF Phases
  <2> QED BY <1>7, <2>1, ReaderOnlyTyped DEF CleanupDone, TypeOK
<1>8. CASE FreeSlot(c)
  <2>1. "free" \in Phases /\ subs' \in [Conns -> SUBSET Topics]
    BY <1>8 DEF Phases, FreeSlot, TypeOK
  <2> QED BY <1>8, <2>1, ReaderOnlyTyped DEF FreeSlot, TypeOK
<1> QED BY <1>1, <1>2, <1>3, <1>4, <1>5, <1>6, <1>7, <1>8 DEF Handle

\* The supervisor's delay stays between its bounds.
LEMMA TypeLoop ==
  ASSUME TypeOK, NEW t \in Topics, LoopStep(t)
  PROVE  TypeOK'
<1>1. CASE LoopStart(t)
  BY <1>1, HubAssumption DEF LoopStart, SetTask, SetHealth, connVars, TypeOK, TaskStates
<1>2. CASE LoopReturns(t) \/ LoopFails(t) \/ LoopPanics(t)
  BY <1>2 DEF LoopReturns, LoopFails, LoopPanics, SetTask, SetHealth, connVars, TypeOK, TaskStates
<1>3. CASE LoopRestart(t)
  BY <1>3, HubAssumption DEF LoopRestart, SetTask, SetHealth, connVars, TypeOK, TaskStates
<1> QED BY <1>1, <1>2, <1>3 DEF LoopStep

LEMMA TypeNext == TypeOK /\ Shape /\ [Next]_vars => TypeOK'
<1> SUFFICES ASSUME TypeOK, Shape, [Next]_vars PROVE TypeOK'
  OBVIOUS
<1>1. CASE UNCHANGED vars
  BY <1>1 DEF vars, connVars, hubVars, TypeOK
<1>2. CASE Next
  BY <1>2, TypeClient, TypeHandle, TypeLoop DEF Next
<1> QED BY <1>1, <1>2

-----------------------------------------------------------------------------
(* One connection at a time.                                               *)

\* A step of one connection leaves the variables of the others alone.
LEMMA Frame ==
  ASSUME TypeOK, NEW c \in Conns, ClientStep(c) \/ Handle(c), NEW d \in Conns, d # c
  PROVE  /\ phase'[d] = phase[d] /\ todo'[d] = todo[d]
         /\ subs'[d] = subs[d] /\ left'[d] = left[d]
<1>1. CASE ClientStep(c)
  BY <1>1 DEF ClientStep, Accept, Subscribe, Unsubscribe, Disconnect, GoTo, TypeOK
<1>2. CASE SubscribeCheck(c) \/ SubscribeAcquire(c) \/ SubscribeInsert(c)
  BY <1>2 DEF SubscribeCheck, SubscribeAcquire, SubscribeInsert, GoTo, Advance, TypeOK
<1>3. CASE UnsubscribeRemove(c) \/ UnsubscribeRelease(c)
  BY <1>3 DEF UnsubscribeRemove, UnsubscribeRelease, GoTo, Advance, TypeOK
<1>4. CASE CleanupRelease(c) \/ CleanupDone(c) \/ FreeSlot(c)
  BY <1>4 DEF CleanupRelease, CleanupDone, FreeSlot, GoTo, TypeOK
<1> QED BY <1>1, <1>2, <1>3, <1>4 DEF Handle

LEMMA ShapeNext == TypeOK /\ Shape /\ [Next]_vars => Shape'
<1> SUFFICES ASSUME TypeOK, Shape, [Next]_vars PROVE Shape'
  OBVIOUS
<1> DEFINE Fits(d) == /\ phase[d] = "acquire" => Head(todo[d]) \notin subs[d]
                      /\ phase[d] \in {"insert", "release"} => Head(todo[d]) \in Topics \ subs[d]
                      /\ phase[d] = "free" => subs[d] = {}
<1>1. CASE UNCHANGED connVars
  BY <1>1 DEF connVars, Shape
<1>2. ASSUME NEW c \in Conns, ClientStep(c) \/ Handle(c)
      PROVE  Shape'
  <2>1. ASSUME NEW d \in Conns, d # c PROVE Fits(d)'
    BY <1>2, <2>1, Frame DEF Shape
  <2>2. Fits(c)'
    <3>1. CASE ClientStep(c)
      BY <3>1 DEF ClientStep, Accept, Subscribe, Unsubscribe, Disconnect, GoTo, TypeOK
    <3>2. CASE SubscribeCheck(c)
      BY <3>2 DEF SubscribeCheck, GoTo, TypeOK
    <3>3. CASE SubscribeAcquire(c)
      BY <3>3 DEF SubscribeAcquire, GoTo, Shape, TypeOK
    <3>4. CASE SubscribeInsert(c)
      BY <3>4 DEF SubscribeInsert, GoTo, TypeOK
    <3>5. CASE UnsubscribeRemove(c)
      BY <3>5 DEF UnsubscribeRemove, GoTo, TypeOK
    <3>6. CASE UnsubscribeRelease(c)
      BY <3>6 DEF UnsubscribeRelease, GoTo, TypeOK
    <3>7. CASE CleanupRelease(c)
      BY <3>7 DEF CleanupRelease, TypeOK
    <3>8. CASE CleanupDone(c)
      BY <3>8 DEF CleanupDone, GoTo, TypeOK
    <3>9. CASE FreeSlot(c)
      BY <3>9 DEF FreeSlot, GoTo, TypeOK
    <3> QED BY <1>2, <3>1, <3>2, <3>3, <3>4, <3>5, <3>6, <3>7, <3>8, <3>9 DEF Handle
  <2> QED BY <2>1, <2>2 DEF Shape
<1>3. ASSUME NEW t \in Topics, LoopStep(t) PROVE UNCHANGED connVars
  BY <1>3 DEF LoopStep, LoopStart, LoopReturns, LoopFails, LoopPanics, LoopRestart
<1> QED BY <1>1, <1>2, <1>3 DEF Next, vars

LEMMA ShapeInit == Init => Shape
BY DEF Init, Shape

\* The state of the daemon's connections and loops always has the type the code
\* gives it: the restart delay stays within RESTART_MIN..RESTART_MAX (hub.rs:24-25)
\* and a list under work is never used when it is empty.
THEOREM TypeCorrect == Spec => []TypeOK
<1>1. Init => TypeOK /\ Shape
  BY TypeInit, ShapeInit
<1>2. TypeOK /\ Shape /\ [Next]_vars => (TypeOK /\ Shape)'
  BY TypeNext, ShapeNext
<1> QED BY <1>1, <1>2, PTL DEF Spec

-----------------------------------------------------------------------------
(* What one step does to what a connection owes.                           *)

Kept(c)        == Owes(c)' = Owes(c) /\ UNCHANGED hubVars
Joined(c, t)   == t \notin Owes(c) /\ Owes(c)' = Owes(c) \cup {t} /\ Acquired(t)
Departed(c, t) == t \in Owes(c) /\ Owes(c)' = Owes(c) \ {t} /\ Released(t)

LEMMA OthersOwe ==
  ASSUME TypeOK, NEW c \in Conns, ClientStep(c) \/ Handle(c), NEW d \in Conns, d # c
  PROVE  Owes(d)' = Owes(d)
BY Frame DEF Owes

LEMMA OwesStep ==
  ASSUME TypeOK, Shape, NEW c \in Conns, ClientStep(c) \/ Handle(c)
  PROVE  Kept(c) \/ \E t \in Topics : Joined(c, t) \/ Departed(c, t)
<1>1. CASE Accept(c)
  BY <1>1 DEF Accept, GoTo, Kept, Owes, Shape, TypeOK
<1>2. CASE \E list \in Requests : Subscribe(c, list) \/ Unsubscribe(c, list)
  BY <1>2 DEF Subscribe, Unsubscribe, GoTo, Kept, Owes, TypeOK
<1>3. CASE Disconnect(c)
  BY <1>3 DEF Disconnect, GoTo, Kept, Owes, TypeOK
<1>4. CASE SubscribeCheck(c)
  BY <1>4 DEF SubscribeCheck, GoTo, Kept, Owes, TypeOK
<1>5. CASE SubscribeAcquire(c)
  <2> DEFINE t == Head(todo[c])
  <2>1. CASE t \in Topics
    <3>1. phase[c] = "acquire" /\ phase'[c] = "insert" /\ UNCHANGED <<todo, subs>> /\ Acquired(t)
      BY <1>5, <2>1 DEF SubscribeAcquire, GoTo, TypeOK
    <3>2. Owes(c) = subs[c] /\ Owes(c)' = subs[c] \cup {t} /\ t \notin subs[c]
      BY <3>1 DEF Owes, Shape
    <3> QED BY <2>1, <3>1, <3>2 DEF Joined
  <2>2. CASE t \notin Topics
    BY <1>5, <2>2 DEF SubscribeAcquire, GoTo, Kept, Owes, TypeOK
  <2> QED BY <2>1, <2>2
<1>6. CASE SubscribeInsert(c)
  BY <1>6 DEF SubscribeInsert, GoTo, Kept, Owes, TypeOK
<1>7. CASE UnsubscribeRemove(c)
  BY <1>7 DEF UnsubscribeRemove, GoTo, Kept, Owes, TypeOK
<1>8. CASE UnsubscribeRelease(c)
  <2> DEFINE t == Head(todo[c])
  <2>1. phase[c] = "release" /\ phase'[c] = "remove" /\ UNCHANGED subs /\ Released(t)
    BY <1>8 DEF UnsubscribeRelease, GoTo, TypeOK
  <2>2. Owes(c) = subs[c] \cup {t} /\ Owes(c)' = subs[c] /\ t \in Topics \ subs[c]
    BY <2>1 DEF Owes, Shape
  <2> HIDE DEF t
  <2>3. Departed(c, t)
    BY <2>1, <2>2 DEF Departed
  <2> QED BY <2>2, <2>3
<1>9. CASE CleanupRelease(c)
  <2>1. PICK t \in left[c] : Released(t) /\ left' = [left EXCEPT ![c] = @ \ {t}]
    BY <1>9 DEF CleanupRelease
  <2>2. phase[c] = "cleanup" /\ phase' = phase
    BY <1>9 DEF CleanupRelease
  <2>3. t \in Topics /\ Owes(c) = left[c] /\ Owes(c)' = left[c] \ {t}
    BY <2>1, <2>2 DEF Owes, TypeOK
  <2> QED BY <2>1, <2>3 DEF Departed
<1>10. CASE CleanupDone(c)
  BY <1>10 DEF CleanupDone, GoTo, Kept, Owes, TypeOK
<1>11. CASE FreeSlot(c)
  BY <1>11 DEF FreeSlot, GoTo, Kept, Owes, TypeOK
<1> QED BY <1>1, <1>2, <1>3, <1>4, <1>5, <1>6, <1>7, <1>8, <1>9, <1>10, <1>11
        DEF ClientStep, Handle

-----------------------------------------------------------------------------
(* Counting.                                                               *)

LEMMA HoldersFinite ==
  ASSUME NEW t
  PROVE  IsFiniteSet(Holders(t)) /\ Cardinality(Holders(t)) \in Nat
BY HubAssumption, FS_Subset, FS_CardinalityType DEF Holders

\* A connection that starts to owe a topic is one more holder of it.
LEMMA JoinedCount ==
  ASSUME TypeOK, CountIsHolders, LoopIffCounted, NEW c \in Conns, NEW t \in Topics,
         Joined(c, t), \A d \in Conns : d # c => Owes(d)' = Owes(d)
  PROVE  /\ \A u \in Topics : Holders(u)' = IF u = t THEN Holders(u) \cup {c} ELSE Holders(u)
         /\ CountIsHolders' /\ LoopIffCounted'
<1>1. \A u \in Topics : Holders(u)' = IF u = t THEN Holders(u) \cup {c} ELSE Holders(u)
  BY DEF Joined, Holders
<1>2. c \notin Holders(t)
  BY DEF Joined, Holders
<1>3. Cardinality(Holders(t) \cup {c}) = Cardinality(Holders(t)) + 1
  BY <1>2, HoldersFinite, FS_AddElement
<1>4. ASSUME NEW u \in Topics
      PROVE  subscribers'[u] = Cardinality(Holders(u)') + DaemonHold(u)
  <2>1. CASE u = t
    <3>1. subscribers'[t] = subscribers[t] + 1
      BY DEF Joined, Acquired, TypeOK
    <3>2. Cardinality(Holders(t)') = Cardinality(Holders(t)) + 1
      BY <1>1, <1>3
    <3> QED BY <2>1, <3>1, <3>2, HoldersFinite DEF CountIsHolders, DaemonHold
  <2>2. CASE u # t
    BY <1>1, <2>2 DEF Joined, Acquired, TypeOK, CountIsHolders
  <2> QED BY <2>1, <2>2
<1>5. CountIsHolders'
  BY <1>4 DEF CountIsHolders, DaemonHold
<1>6. ASSUME NEW u \in Topics
      PROVE  task'[u] # "none" <=> subscribers'[u] > 0
  BY DEF Joined, Acquired, TypeOK, LoopIffCounted
<1>7. LoopIffCounted'
  BY <1>6 DEF LoopIffCounted
<1> QED BY <1>1, <1>5, <1>7

\* A connection that stops owing a topic is one holder less, and the saturating
\* subtraction never saturates.
LEMMA DepartedCount ==
  ASSUME TypeOK, CountIsHolders, LoopIffCounted, NEW c \in Conns, NEW t \in Topics,
         Departed(c, t), \A d \in Conns : d # c => Owes(d)' = Owes(d)
  PROVE  /\ \A u \in Topics : Holders(u)' = IF u = t THEN Holders(u) \ {c} ELSE Holders(u)
         /\ subscribers[t] > 0
         /\ CountIsHolders' /\ LoopIffCounted'
<1>1. \A u \in Topics : Holders(u)' = IF u = t THEN Holders(u) \ {c} ELSE Holders(u)
  BY DEF Departed, Holders
<1>2. c \in Holders(t)
  BY DEF Departed, Holders
<1>3. /\ Cardinality(Holders(t) \ {c}) = Cardinality(Holders(t)) - 1
      /\ Cardinality(Holders(t) \ {c}) \in Nat
  BY <1>2, HoldersFinite, FS_RemoveElement, FS_CardinalityType
<1>0. subscribers[t] > 0
  BY <1>3, HoldersFinite DEF CountIsHolders, DaemonHold
<1>4. ASSUME NEW u \in Topics
      PROVE  subscribers'[u] = Cardinality(Holders(u)') + DaemonHold(u)
  <2>1. CASE u = t
    <3>1. subscribers'[t] = subscribers[t] - 1
      BY <1>0 DEF Departed, Released, TypeOK
    <3>2. Cardinality(Holders(t)') = Cardinality(Holders(t)) - 1
      BY <1>1, <1>3
    <3> QED BY <2>1, <3>1, <3>2, HoldersFinite DEF CountIsHolders, DaemonHold
  <2>2. CASE u # t
    BY <1>1, <2>2 DEF Departed, Released, TypeOK, CountIsHolders
  <2> QED BY <2>1, <2>2
<1>5. CountIsHolders'
  BY <1>4 DEF CountIsHolders, DaemonHold
<1>6. ASSUME NEW u \in Topics
      PROVE  task'[u] # "none" <=> subscribers'[u] > 0
  <2>1. CASE u = t
    <3>1. subscribers'[t] = subscribers[t] - 1
      BY <1>0 DEF Departed, Released, TypeOK
    <3>2. task'[t] = IF subscribers[t] <= 1 THEN "none" ELSE task[t]
      BY DEF Departed, Released, TypeOK
    <3>3. subscribers[t] \in Nat /\ task[t] # "none"
      BY <1>0 DEF TypeOK, LoopIffCounted
    <3> QED BY <1>0, <2>1, <3>1, <3>2, <3>3
  <2>2. CASE u # t
    BY <2>2 DEF Departed, Released, TypeOK, LoopIffCounted
  <2> QED BY <2>1, <2>2
<1>7. LoopIffCounted'
  BY <1>6 DEF LoopIffCounted
<1> QED BY <1>0, <1>1, <1>5, <1>7

\* A step of a supervisor changes neither a counter nor a holder, and a loop it
\* moves is owned before and after.
LEMMA LoopKeeps ==
  ASSUME TypeOK, NEW t \in Topics, LoopStep(t)
  PROVE  /\ UNCHANGED <<connVars, subscribers>>
         /\ \A u \in Topics : task'[u] # "none" <=> task[u] # "none"
BY DEF LoopStep, LoopStart, LoopReturns, LoopFails, LoopPanics, LoopRestart, SetTask, TypeOK

LEMMA CountNext == IInv /\ [Next]_vars => CountIsHolders' /\ LoopIffCounted'
<1> SUFFICES ASSUME IInv, [Next]_vars PROVE CountIsHolders' /\ LoopIffCounted'
  OBVIOUS
<1> USE DEF IInv
<1>1. CASE UNCHANGED vars
  BY <1>1 DEF vars, connVars, hubVars, CountIsHolders, LoopIffCounted, Holders, Owes, DaemonHold
<1>2. ASSUME NEW t \in Topics, LoopStep(t)
      PROVE  CountIsHolders' /\ LoopIffCounted'
  BY <1>2, LoopKeeps DEF connVars, CountIsHolders, LoopIffCounted, Holders, Owes, DaemonHold
<1>3. ASSUME NEW c \in Conns, ClientStep(c) \/ Handle(c)
      PROVE  CountIsHolders' /\ LoopIffCounted'
  <2>1. \A d \in Conns : d # c => Owes(d)' = Owes(d)
    BY <1>3, OthersOwe
  <2>2. CASE Kept(c)
    <3>1. \A t \in Topics : Holders(t)' = Holders(t)
      BY <2>1, <2>2 DEF Kept, Holders
    <3> QED BY <2>2, <3>1 DEF Kept, hubVars, CountIsHolders, LoopIffCounted, DaemonHold
  <2>3. ASSUME NEW t \in Topics, Joined(c, t) PROVE CountIsHolders' /\ LoopIffCounted'
    BY <2>1, <2>3, JoinedCount
  <2>4. ASSUME NEW t \in Topics, Departed(c, t) PROVE CountIsHolders' /\ LoopIffCounted'
    BY <2>1, <2>4, DepartedCount
  <2> QED BY <1>3, <2>2, <2>3, <2>4, OwesStep
<1> QED BY <1>1, <1>2, <1>3 DEF Next

LEMMA CountInit == Init => CountIsHolders /\ LoopIffCounted
<1> SUFFICES ASSUME Init PROVE CountIsHolders /\ LoopIffCounted
  OBVIOUS
<1>1. \A t \in Topics : Holders(t) = {}
  BY DEF Init, Holders, Owes
<1>2. \A t \in Topics : Cardinality(Holders(t)) = 0
  BY <1>1, FS_EmptySet
<1> QED BY <1>2 DEF Init, CountIsHolders, LoopIffCounted, DaemonHold

\* The inductive invariant: type correctness, what each connection in the middle of a
\* request or of its cleanup has left to do, exact counts, and a loop exactly while
\* the counter is positive.
THEOREM Invariant == Spec => []IInv
<1>1. Init => IInv
  BY TypeInit, ShapeInit, CountInit DEF IInv
<1>2. IInv /\ [Next]_vars => IInv'
  BY TypeNext, ShapeNext, CountNext DEF IInv
<1> QED BY <1>1, <1>2, PTL DEF Spec

\* Nothing is ever counted twice, lost or given back twice: for any number of
\* connections, any topic lists and any moment of leaving, the counter of a topic is
\* the number of connections that still owe it a release, plus the daemon's hold.
THEOREM CountExact == Spec => []CountIsHolders
BY Invariant, PTL DEF IInv

\* A topic owns a streaming loop exactly while its counter is positive.
THEOREM LoopExactlyCounted == Spec => []LoopIffCounted
BY Invariant, PTL DEF IInv

\* Once every client has left, only the always-on loops are owned by anybody.
THEOREM NoOrphans == Spec => []NoOrphanLoop
<1>1. IInv => NoOrphanLoop
  <2> SUFFICES ASSUME IInv, \A c \in Conns : phase[c] = "free",
                      NEW t \in Topics \ AlwaysOn
               PROVE  task[t] = "none"
    BY DEF NoOrphanLoop
  <2>1. Holders(t) = {}
    BY DEF Holders, Owes
  <2>2. subscribers[t] = 0
    BY <2>1, FS_EmptySet DEF IInv, CountIsHolders, DaemonHold
  <2> QED BY <2>2 DEF IInv, LoopIffCounted
<1> QED BY <1>1, Invariant, PTL

\* One client leaving never takes the stream from another: a loop is given up only
\* in a step after which no connection in service is subscribed to its topic.
THEOREM StopsOnlyWhenUnwanted == Spec => StopsOnlyForLast
<1> DEFINE Stops == \A t \in Topics :
             (task[t] # "none" /\ task'[t] = "none") =>
               ~ \E c \in Conns : phase'[c] \notin {"cleanup", "drain"} /\ t \in subs'[c]
<1>1. IInv /\ IInv' => Stops
  <2> SUFFICES ASSUME IInv', NEW t \in Topics, task'[t] = "none",
                      NEW c \in Conns, phase'[c] \notin {"cleanup", "drain"}, t \in subs'[c]
               PROVE  FALSE
    BY DEF IInv
  <2>1. t \in Owes(c)'
    BY DEF Owes, IInv, Shape
  <2>2. Holders(t)' # {}
    BY <2>1 DEF Holders
  <2>3. IsFiniteSet(Holders(t)')
    BY HubAssumption, FS_Subset DEF Holders
  <2>4. Cardinality(Holders(t)') \in Nat /\ Cardinality(Holders(t)') # 0
    BY <2>2, <2>3, FS_EmptySet, FS_CardinalityType
  <2>5. subscribers'[t] > 0
    BY <2>4 DEF IInv, CountIsHolders, DaemonHold
  <2> QED BY <2>5 DEF IInv, LoopIffCounted
<1> QED BY <1>1, Invariant, PTL DEF StopsOnlyForLast

-----------------------------------------------------------------------------
(* Counting interest implements knowing who is interested.                 *)

HoldersBar == [t \in Topics |-> Holders(t) \cup (IF t \in AlwaysOn THEN {Daemon} ELSE {})]
OnBar      == [t \in Topics |-> task[t] # "none"]

\* Somebody holds a topic exactly when it owns a loop.
OnIffHeld == \A t \in Topics : OnBar[t] <=> HoldersBar[t] # {}

LEMMA OnMeansHeld == IInv => OnIffHeld
<1> SUFFICES ASSUME IInv, NEW t \in Topics
             PROVE  OnBar[t] <=> HoldersBar[t] # {}
  BY DEF OnIffHeld
<1>1. Cardinality(Holders(t)) = 0 <=> Holders(t) = {}
  BY HoldersFinite, FS_EmptySet
<1>2. subscribers[t] > 0 <=> (Holders(t) # {} \/ t \in AlwaysOn)
  BY <1>1, HoldersFinite DEF IInv, CountIsHolders, DaemonHold
<1> QED BY <1>2 DEF OnBar, HoldersBar, IInv, LoopIffCounted

LEMMA OnMeansHeldNext == IInv' => OnIffHeld'
BY OnMeansHeld, PTL

LEMMA RefinesInit == Init => Lazy!Init
<1> SUFFICES ASSUME Init PROVE Lazy!Init
  OBVIOUS
<1>1. HoldersBar \in [Topics -> SUBSET (Conns \cup {Daemon})]
  BY DEF HoldersBar, Holders
<1>2. IInv
  BY TypeInit, ShapeInit, CountInit DEF IInv
<1>3. OnBar = [t \in Topics |-> HoldersBar[t] # {}]
  BY <1>2, OnMeansHeld DEF OnIffHeld, OnBar
<1> QED BY <1>1, <1>3 DEF Lazy!Init, HoldersBar, OnBar

LEMMA RefinesNext == IInv /\ IInv' /\ [Next]_vars => [Lazy!Next]_(Lazy!vars)
<1> SUFFICES ASSUME IInv, IInv', [Next]_vars PROVE [Lazy!Next]_(Lazy!vars)
  OBVIOUS
<1> USE DEF IInv
<1>1. CASE UNCHANGED vars
  BY <1>1 DEF vars, connVars, hubVars, Lazy!vars, Holders, Owes
<1>2. ASSUME NEW t \in Topics, LoopStep(t)
      PROVE  UNCHANGED Lazy!vars
  <2>1. \A u \in Topics : Holders(u)' = Holders(u)
    BY <1>2, LoopKeeps DEF connVars, Holders, Owes
  <2>2. HoldersBar' = HoldersBar
    BY <2>1 DEF HoldersBar
  <2>3. OnBar' = OnBar
    BY <1>2, LoopKeeps DEF OnBar
  <2> QED BY <2>2, <2>3 DEF Lazy!vars, HoldersBar, OnBar
<1>3. ASSUME NEW c \in Conns, ClientStep(c) \/ Handle(c)
      PROVE  [Lazy!Next]_(Lazy!vars)
  <2>1. \A d \in Conns : d # c => Owes(d)' = Owes(d)
    BY <1>3, OthersOwe
  <2>2. CASE Kept(c)
    <3>1. \A u \in Topics : Holders(u)' = Holders(u)
      BY <2>1, <2>2 DEF Kept, Holders
    <3> QED BY <2>2, <3>1 DEF Kept, hubVars, Lazy!vars
  <2>3. ASSUME NEW t \in Topics, Joined(c, t) PROVE Lazy!Join(c, t)
    <3>1. c \notin HoldersBar[t]
      BY <2>3, HubAssumption DEF HoldersBar, Holders, Joined
    <3>2. HoldersBar' = [HoldersBar EXCEPT ![t] = @ \cup {c}]
      <4>1. \A u \in Topics : Holders(u)' = IF u = t THEN Holders(u) \cup {c} ELSE Holders(u)
        BY <2>1, <2>3, JoinedCount
      <4> QED BY <4>1 DEF HoldersBar
    <3>3. \A u \in Topics : OnBar'[u] = [OnBar EXCEPT ![t] = TRUE][u]
      <4>1. task'[t] # "none"
        BY <2>3 DEF Joined, Acquired, TypeOK, LoopIffCounted
      <4>2. \A u \in Topics : u # t => task'[u] = task[u]
        BY <2>3 DEF Joined, Acquired, TypeOK
      <4> QED BY <4>1, <4>2 DEF OnBar
    <3>4. OnBar' = [OnBar EXCEPT ![t] = TRUE]
      BY <3>3 DEF OnBar
    <3> QED BY <3>1, <3>2, <3>4 DEF Lazy!Join, HoldersBar, OnBar
  <2>4. ASSUME NEW t \in Topics, Departed(c, t) PROVE Lazy!Leave(c, t)
    <3>1. c \in HoldersBar[t]
      BY <2>4 DEF HoldersBar, Holders, Departed
    <3>2. HoldersBar' = [HoldersBar EXCEPT ![t] = @ \ {c}]
      <4>1. \A u \in Topics : Holders(u)' = IF u = t THEN Holders(u) \ {c} ELSE Holders(u)
        BY <2>1, <2>4, DepartedCount
      <4> QED BY <4>1, HubAssumption DEF HoldersBar
    <3>3. \A u \in Topics : OnBar'[u] = [OnBar EXCEPT ![t] = HoldersBar[t] # {c}][u]
      <4>1. OnBar'[t] <=> HoldersBar'[t] # {}
        BY OnMeansHeldNext DEF OnIffHeld
      <4>2. HoldersBar'[t] # {} <=> HoldersBar[t] # {c}
        BY <3>1, <3>2 DEF HoldersBar
      <4>3. \A u \in Topics : u # t => task'[u] = task[u]
        BY <2>4 DEF Departed, Released, TypeOK
      <4> QED BY <4>1, <4>2, <4>3 DEF OnBar
    <3>4. OnBar' = [OnBar EXCEPT ![t] = HoldersBar[t] # {c}]
      BY <3>3 DEF OnBar
    <3> QED BY <3>1, <3>2, <3>4 DEF Lazy!Leave, HoldersBar, OnBar
  <2> QED BY <1>3, <2>2, <2>3, <2>4, OwesStep DEF Lazy!Next
<1> QED BY <1>1, <1>2, <1>3 DEF Next

\* The reference-counted hub implements the promise of lazy topics (hub.rs:3-8): the
\* loop of a topic is on exactly while somebody is interested in it.
THEOREM Refinement == Spec => ImplementsLazyTopics
<1>1. Init => Lazy!Init
  BY RefinesInit
<1>2. IInv /\ IInv' /\ [Next]_vars => [Lazy!Next]_(Lazy!vars)
  BY RefinesNext
<1> QED BY <1>1, <1>2, Invariant, PTL DEF Spec, Lazy!Spec, ImplementsLazyTopics
=============================================================================
