------------------------- MODULE BackendClientProofs -------------------------
(***************************************************************************)
(* What holds of BackendClient for every set of topics, every number of    *)
(* subscribers and calls, and a wire of any length.                        *)
(*                                                                         *)
(* Both parts of RequestsInv live on what a lost link leaves behind:       *)
(* nothing, on either side (Offline), so that the subscription of the next *)
(* connection starts from an empty set and no answer can come for a call   *)
(* whose callback has run.  That the link is not rebuilt while it is up is *)
(* TimerIsForLost.                                                         *)
(***************************************************************************)
EXTENDS BackendClient, Integers, TLAPS

\* Of a lost connection nothing is left: no line, no subscription, no waiting call.
Offline ==
  ~Linked => up = << >> /\ down = << >> /\ served = {} /\ inflight = {} /\ pending = {}

\* The reconnect timer runs for a Socket that is lost, never beside one that works.
TimerIsForLost == timer => socket = "lost"

\* Only a call that was made waits.
PendingWasMade == \A i \in pending : i < nextId

IInv ==
  /\ RequestsInv /\ NoMemoryShownAsState
  /\ Offline /\ TimerIsForLost /\ PendingWasMade

-----------------------------------------------------------------------------
(* What a sequence of requests makes of a subscription set.                *)

\* Nothing under way changes nothing.
LEMMA EmptyServes ==
  ASSUME NEW t, NEW S
  PROVE  ServedAfter(t, S, << >>) <=> t \in S
BY DEF ServedAfter

\* The youngest request has the last word.
LEMMA AppendServes ==
  ASSUME NEW R, NEW s \in Seq(R), NEW m \in R, NEW t, NEW S
  PROVE  /\ TurnsOn(t, m) => ServedAfter(t, S, Append(s, m))
         /\ TurnsOff(t, m) => ~ServedAfter(t, S, Append(s, m))
         /\ ~TurnsOn(t, m) /\ ~TurnsOff(t, m) =>
              (ServedAfter(t, S, Append(s, m)) <=> ServedAfter(t, S, s))
<1>. DEFINE r == Append(s, m)
            n == Len(s) + 1
<1>1. /\ Len(s) \in Nat /\ DOMAIN r = 1..n /\ DOMAIN s = 1..Len(s)
      /\ \A i \in 1..Len(s) : r[i] = s[i]
      /\ r[n] = m
  OBVIOUS
<1>2. ~(TurnsOn(t, m) /\ TurnsOff(t, m))
  BY DEF TurnsOn, TurnsOff
<1>. HIDE DEF r
<1>3. TurnsOn(t, m) => ServedAfter(t, S, r)
  BY <1>1, <1>2 DEF ServedAfter
<1>4. TurnsOff(t, m) => ~ServedAfter(t, S, r)
  BY <1>1, <1>2 DEF ServedAfter
<1>5. ASSUME ~TurnsOn(t, m), ~TurnsOff(t, m)
      PROVE  ServedAfter(t, S, r) <=> ServedAfter(t, S, s)
  <2>1. (\A i \in DOMAIN r : ~TurnsOff(t, r[i])) <=> (\A i \in DOMAIN s : ~TurnsOff(t, s[i]))
    BY <1>1, <1>5
  <2>2. (\E i \in DOMAIN r :
           TurnsOn(t, r[i]) /\ \A j \in DOMAIN r : j > i => ~TurnsOff(t, r[j]))
        <=> (\E i \in DOMAIN s :
               TurnsOn(t, s[i]) /\ \A j \in DOMAIN s : j > i => ~TurnsOff(t, s[j]))
    BY <1>1, <1>5
  <2>. QED  BY <2>1, <2>2 DEF ServedAfter
<1>. QED  BY <1>3, <1>4, <1>5 DEF r

\* Handling the oldest request moves its effect from the wire into the set.
LEMMA TailServes ==
  ASSUME NEW R, NEW s \in Seq(R), s # << >>, NEW t, NEW S, NEW S2,
         t \in S2 <=> TurnsOn(t, Head(s)) \/ (t \in S /\ ~TurnsOff(t, Head(s)))
  PROVE  ServedAfter(t, S2, Tail(s)) <=> ServedAfter(t, S, s)
<1>. DEFINE r == Tail(s)
            On(q, i) == TurnsOn(t, q[i])
            Off(q, i) == TurnsOff(t, q[i])
<1>1. /\ r \in Seq(R) /\ Len(s) \in Nat \ {0}
      /\ DOMAIN s = 1..Len(s) /\ DOMAIN r = 1..(Len(s) - 1)
      /\ \A i \in 1..(Len(s) - 1) : r[i] = s[i + 1]
      /\ Head(s) = s[1]
  OBVIOUS
<1>. HIDE DEF r
<1>2. \A i \in 2..Len(s) : i - 1 \in DOMAIN r /\ r[i - 1] = s[i]
  BY <1>1
<1>3. \A i \in DOMAIN r : i + 1 \in 2..Len(s) /\ s[i + 1] = r[i]
  BY <1>1
<1>4. \A i \in DOMAIN s : i = 1 \/ i \in 2..Len(s)
  BY <1>1
<1>5. 1 \in DOMAIN s /\ 2..Len(s) \subseteq DOMAIN s
  BY <1>1
<1>6. ~(On(s, 1) /\ Off(s, 1))
  BY DEF TurnsOn, TurnsOff
<1>7. t \in S2 <=> On(s, 1) \/ (t \in S /\ ~Off(s, 1))
  BY <1>1
\* The two disjuncts of ServedAfter, from the tail to the whole and back.
<1>8. (\A i \in DOMAIN r : ~Off(r, i)) <=> (\A i \in 2..Len(s) : ~Off(s, i))
  <2>1. ASSUME \A i \in DOMAIN r : ~Off(r, i), NEW i \in 2..Len(s)
        PROVE  ~Off(s, i)
    BY <1>2, <2>1
  <2>2. ASSUME \A i \in 2..Len(s) : ~Off(s, i), NEW i \in DOMAIN r
        PROVE  ~Off(r, i)
    BY <1>3, <2>2
  <2>. QED  BY <2>1, <2>2
<1>9. (\E i \in DOMAIN r : On(r, i) /\ \A j \in DOMAIN r : j > i => ~Off(r, j))
      <=> (\E i \in 2..Len(s) : On(s, i) /\ \A j \in DOMAIN s : j > i => ~Off(s, j))
  <2>1. ASSUME NEW i \in DOMAIN r, On(r, i), \A j \in DOMAIN r : j > i => ~Off(r, j)
        PROVE  \E k \in 2..Len(s) : On(s, k) /\ \A j \in DOMAIN s : j > k => ~Off(s, j)
    <3>1. i + 1 \in 2..Len(s) /\ On(s, i + 1)
      BY <1>3, <2>1
    <3>2. ASSUME NEW j \in DOMAIN s, j > i + 1
          PROVE  ~Off(s, j)
      <4>1. j \in 2..Len(s) /\ j - 1 > i
        BY <1>1, <1>4, <3>2
      <4>. QED  BY <1>2, <2>1, <4>1
    <3>. QED  BY <3>1, <3>2
  <2>2. ASSUME NEW i \in 2..Len(s), On(s, i), \A j \in DOMAIN s : j > i => ~Off(s, j)
        PROVE  \E k \in DOMAIN r : On(r, k) /\ \A j \in DOMAIN r : j > k => ~Off(r, j)
    <3>1. i - 1 \in DOMAIN r /\ On(r, i - 1)
      BY <1>2, <2>2
    <3>2. ASSUME NEW j \in DOMAIN r, j > i - 1
          PROVE  ~Off(r, j)
      <4>1. j + 1 \in DOMAIN s /\ j + 1 > i
        BY <1>1, <3>2
      <4>. QED  BY <1>3, <2>2, <4>1
    <3>. QED  BY <3>1, <3>2
  <2>. QED  BY <2>1, <2>2
<1>10. ServedAfter(t, S2, r) <=>
         \/ t \in S2 /\ \A i \in DOMAIN r : ~Off(r, i)
         \/ \E i \in DOMAIN r : On(r, i) /\ \A j \in DOMAIN r : j > i => ~Off(r, j)
  BY DEF ServedAfter
<1>11. ServedAfter(t, S, s) <=>
         \/ t \in S /\ \A i \in DOMAIN s : ~Off(s, i)
         \/ \E i \in DOMAIN s : On(s, i) /\ \A j \in DOMAIN s : j > i => ~Off(s, j)
  BY DEF ServedAfter
<1>12. (\A i \in DOMAIN s : ~Off(s, i)) <=> ~Off(s, 1) /\ \A i \in 2..Len(s) : ~Off(s, i)
  BY <1>4, <1>5
<1>13. (\E i \in DOMAIN s : On(s, i) /\ \A j \in DOMAIN s : j > i => ~Off(s, j))
       <=> \/ On(s, 1) /\ \A j \in 2..Len(s) : ~Off(s, j)
           \/ \E i \in 2..Len(s) : On(s, i) /\ \A j \in DOMAIN s : j > i => ~Off(s, j)
  <2>1. (\A j \in DOMAIN s : j > 1 => ~Off(s, j)) <=> \A j \in 2..Len(s) : ~Off(s, j)
    BY <1>1, <1>4, <1>5
  <2>. QED  BY <1>4, <1>5, <2>1
<1>. HIDE DEF On, Off
<1>. QED  BY <1>6, <1>7, <1>8, <1>9, <1>10, <1>11, <1>12, <1>13 DEF r

\* Calls are about no topic.
LEMMA CallsServe ==
  ASSUME NEW R, NEW s \in Seq(R), NEW b \in Seq(R), NEW t, NEW S,
         \A i \in DOMAIN b : ~TurnsOn(t, b[i]) /\ ~TurnsOff(t, b[i])
  PROVE  ServedAfter(t, S, s \o b) <=> ServedAfter(t, S, s)
<1>. DEFINE c == s \o b
            m == Len(s)
            n == Len(b)
<1>1. /\ m \in Nat /\ n \in Nat
      /\ DOMAIN s = 1..m /\ DOMAIN b = 1..n /\ DOMAIN c = 1..(m + n)
      /\ \A i \in 1..m : c[i] = s[i]
      /\ \A i \in 1..n : c[m + i] = b[i]
  OBVIOUS
<1>. HIDE DEF c, m, n
<1>2. \A i \in DOMAIN c : i \notin DOMAIN s => ~TurnsOn(t, c[i]) /\ ~TurnsOff(t, c[i])
  <2>. SUFFICES ASSUME NEW i \in 1..(m + n), i \notin 1..m
                PROVE  ~TurnsOn(t, c[i]) /\ ~TurnsOff(t, c[i])
    BY <1>1
  <2>1. i - m \in 1..n /\ m + (i - m) = i
    BY <1>1
  <2>. QED  BY <1>1, <2>1
<1>3. DOMAIN s \subseteq DOMAIN c /\ \A i \in DOMAIN s : c[i] = s[i]
  BY <1>1
<1>4. (\A i \in DOMAIN c : ~TurnsOff(t, c[i])) <=> (\A i \in DOMAIN s : ~TurnsOff(t, s[i]))
  BY <1>2, <1>3
<1>5. (\E i \in DOMAIN c :
         TurnsOn(t, c[i]) /\ \A j \in DOMAIN c : j > i => ~TurnsOff(t, c[j]))
      <=> (\E i \in DOMAIN s :
             TurnsOn(t, s[i]) /\ \A j \in DOMAIN s : j > i => ~TurnsOff(t, s[j]))
  <2>1. \A i \in DOMAIN s : (\A j \in DOMAIN c : j > i => ~TurnsOff(t, c[j]))
                        <=> (\A j \in DOMAIN s : j > i => ~TurnsOff(t, s[j]))
    BY <1>2, <1>3
  <2>. QED  BY <1>2, <1>3, <2>1
<1>. QED  BY <1>4, <1>5 DEF ServedAfter, c

-----------------------------------------------------------------------------
(* Types.                                                                  *)

\* A request says what it is about.
LEMMA RequestFacts ==
  /\ \A T \in SUBSET Topics : /\ [op |-> "subscribe", topics |-> T] \in Requests
                              /\ [op |-> "unsubscribe", topics |-> T] \in Requests
  /\ \A i \in Ids : [op |-> "call", id |-> i] \in Requests
  /\ \A m \in Requests :
       /\ m.op \in {"subscribe", "unsubscribe"} => m.topics \in SUBSET Topics
       /\ m.op = "call" => m.id \in Ids
<1>1. \A T \in SUBSET Topics : /\ [op |-> "subscribe", topics |-> T] \in Requests
                               /\ [op |-> "unsubscribe", topics |-> T] \in Requests
  BY DEF Requests
<1>2. \A i \in Ids : [op |-> "call", id |-> i] \in Requests
  BY DEF Requests
<1>3. \A m \in Requests :
        /\ m.op \in {"subscribe", "unsubscribe"} => m.topics \in SUBSET Topics
        /\ m.op = "call" => m.id \in Ids
  BY DEF Requests
<1>. QED  BY <1>1, <1>2, <1>3

\* A line of the daemon is an event or a reply.
LEMMA LineFacts ==
  /\ \A t \in Topics : [topic |-> t] \in Lines
  /\ \A i \in Ids : [id |-> i] \in Lines
  /\ \A l \in Lines : /\ "id" \in DOMAIN l => l.id \in Ids
                      /\ "topic" \in DOMAIN l => l.topic \in Topics
BY DEF Lines

\* The typing of the parts the steps below compute with.
LEMMA TypeParts ==
  TypeOK => /\ socket \in {"connecting", "connected", "lost"}
            /\ timer \in BOOLEAN /\ backoff \in BackoffMin..BackoffMax
            /\ refs \in [Topics -> 0..MaxRefs]
            /\ topics \in [Topics -> {"null", "current", "old"}]
            /\ nextId \in 1..(MaxCalls + 1)
            /\ pending \in SUBSET Ids /\ overdue \in SUBSET pending
            /\ sweep \in BOOLEAN /\ answers \in [Ids -> Nat]
            /\ up \in Seq(Requests) /\ down \in Seq(Lines)
            /\ served \in SUBSET Topics /\ inflight \in SUBSET Ids /\ daemon \in BOOLEAN
BY DEF TypeOK

\* The callbacks of `done` run and make `again` new calls: the ledger of calls stays
\* right, and the subscriptions under way are not touched.
LEMMA AnswersResult ==
  ASSUME TypeOK, AnsweredOnceOrPending, PendingWasMade,
         NEW done \in SUBSET pending, NEW again \in 0..MaxCalls, AnswersLinked(done, again)
  PROVE  /\ nextId' \in 1..(MaxCalls + 1)
         /\ pending' \in SUBSET Ids /\ overdue' \in SUBSET pending'
         /\ answers' \in [Ids -> Nat] /\ up' \in Seq(Requests)
         /\ AnsweredOnceOrPending' /\ PendingWasMade'
         /\ \A t, S : ServedAfter(t, S, up') <=> ServedAfter(t, S, up)
         /\ again = 0 /\ up = << >> => up' = << >>
         /\ again = 0 => pending' = pending \ done
<1>. DEFINE new == nextId..(nextId + again - 1)
            calls == [k \in 1..again |-> [op |-> "call", id |-> nextId + k - 1]]
<1>t. /\ nextId \in 1..(MaxCalls + 1) /\ pending \in SUBSET Ids /\ overdue \in SUBSET pending
      /\ answers \in [Ids -> Nat] /\ up \in Seq(Requests)
      /\ MaxCalls \in Nat /\ again \in Nat
  BY TypeParts, BackendAssumption
<1>1. /\ new \subseteq Ids
      /\ answers' = Ran(done) /\ nextId' = nextId + again
      /\ pending' = (pending \ done) \cup new /\ overdue' = overdue \ done
      /\ up' = up \o calls
  BY DEF AnswersLinked
<1>2. nextId' \in 1..(MaxCalls + 1)
  <2>1. CASE again = 0
    BY <1>t, <1>1, <2>1
  <2>2. CASE again # 0
    <3>1. nextId + again - 1 \in new
      BY <1>t, <2>2
    <3>2. nextId + again - 1 \in 1..MaxCalls
      BY <1>1, <3>1 DEF Ids
    <3>. QED  BY <1>t, <1>1, <3>2
  <2>. QED  BY <2>1, <2>2
<1>3. pending' \in SUBSET Ids /\ overdue' \in SUBSET pending'
  BY <1>t, <1>1
<1>4. \A i \in Ids : answers'[i] = answers[i] + (IF i \in done THEN 1 ELSE 0)
  BY <1>1 DEF Ran
<1>5. answers' \in [Ids -> Nat]
  BY <1>t, <1>1 DEF Ran
<1>6. AnsweredOnceOrPending'
  <2>. SUFFICES ASSUME NEW i \in Ids
                PROVE  answers'[i] = IF i < nextId' /\ i \notin pending' THEN 1 ELSE 0
    BY DEF AnsweredOnceOrPending
  <2>0. i \in Nat /\ (i \in new <=> nextId <= i /\ i < nextId + again)
    BY <1>t DEF Ids
  <2>1. answers[i] = IF i < nextId /\ i \notin pending THEN 1 ELSE 0
    BY DEF AnsweredOnceOrPending
  <2>2. i \in pending => i < nextId
    BY DEF PendingWasMade
  <2>3. i \in pending' <=> (i \in pending /\ i \notin done) \/ i \in new
    BY <1>1
  <2>4. i \in done => i \in pending
    OBVIOUS
  <2>. HIDE DEF new
  <2>. QED  BY <1>t, <1>1, <1>4, <2>0, <2>1, <2>2, <2>3, <2>4
<1>7. PendingWasMade'
  <2>. SUFFICES ASSUME NEW i \in pending'
                PROVE  i < nextId'
    BY DEF PendingWasMade
  <2>1. CASE i \in pending
    <3>1. i < nextId /\ i \in Nat
      BY <1>t, <2>1 DEF PendingWasMade, Ids
    <3>. QED  BY <1>t, <1>1, <3>1
  <2>2. CASE i \in new
    BY <1>t, <1>1, <2>2
  <2>. QED  BY <1>1, <2>1, <2>2
<1>8. calls \in Seq(Requests) /\ Len(calls) = again
  <2>1. \A k \in 1..again : nextId + k - 1 \in new
    BY <1>t
  <2>2. \A k \in 1..again : calls[k] \in Requests
    BY <1>1, <2>1, RequestFacts
  <2>. QED  BY <1>t, <2>2
<1>9. \A i \in DOMAIN calls : calls[i].op = "call"
  OBVIOUS
<1>. HIDE DEF calls
<1>10. up' \in Seq(Requests)
  BY <1>t, <1>1, <1>8
<1>11. \A t : \A i \in DOMAIN calls : ~TurnsOn(t, calls[i]) /\ ~TurnsOff(t, calls[i])
  BY <1>9 DEF TurnsOn, TurnsOff
<1>12. \A t, S : ServedAfter(t, S, up') <=> ServedAfter(t, S, up)
  BY <1>t, <1>1, <1>8, <1>11, CallsServe
<1>13. again = 0 /\ up = << >> => up' = << >>
  <2>1. again = 0 /\ up = << >> => Len(up') = 0
    BY <1>1, <1>8
  <2>. QED  BY <1>10, <2>1
<1>14. again = 0 => pending' = pending \ done
  BY <1>t, <1>1
<1>. QED
  BY <1>2, <1>3, <1>5, <1>6, <1>7, <1>10, <1>12, <1>13, <1>14

\* The pause before the next attempt stays within its bounds.
LEMMA BackoffStep ==
  ASSUME TypeOK
  PROVE  (IF backoff * 2 <= BackoffMax THEN backoff * 2 ELSE BackoffMax) \in BackoffMin..BackoffMax
<1>1. backoff \in BackoffMin..BackoffMax /\ BackoffMin \in Nat \ {0} /\ BackoffMax \in Nat
      /\ BackoffMin <= BackoffMax
  BY TypeParts, BackendAssumption
<1>. QED  BY <1>1

\* What a lost connection does to the ledger of calls: every waiting callback runs, and the
\* calls they make fail at once.
LEMMA LostResult ==
  ASSUME TypeOK, AnsweredOnceOrPending, PendingWasMade,
         NEW again \in 0..MaxCalls, OnDisconnected(again)
  PROVE  /\ nextId' \in 1..(MaxCalls + 1) /\ answers' \in [Ids -> Nat]
         /\ AnsweredOnceOrPending' /\ PendingWasMade'
<1>. DEFINE new == nextId..(nextId + again - 1)
<1>t. /\ nextId \in 1..(MaxCalls + 1) /\ pending \in SUBSET Ids
      /\ answers \in [Ids -> Nat] /\ MaxCalls \in Nat /\ again \in Nat
  BY TypeParts, BackendAssumption
<1>1. /\ nextId + again <= MaxCalls + 1 /\ nextId' = nextId + again
      /\ answers' = Ran(pending \cup new) /\ pending' = {}
  BY DEF OnDisconnected
<1>2. nextId' \in 1..(MaxCalls + 1)
  BY <1>t, <1>1
<1>3. answers' \in [Ids -> Nat]
  BY <1>t, <1>1 DEF Ran
<1>4. \A i \in Ids : answers'[i] = answers[i] + (IF i \in pending \/ i \in new THEN 1 ELSE 0)
  BY <1>1 DEF Ran
<1>5. AnsweredOnceOrPending'
  <2>. SUFFICES ASSUME NEW i \in Ids
                PROVE  answers'[i] = IF i < nextId' /\ i \notin pending' THEN 1 ELSE 0
    BY DEF AnsweredOnceOrPending
  <2>0. i \in Nat /\ (i \in new <=> nextId <= i /\ i < nextId + again)
    BY <1>t DEF Ids
  <2>1. answers[i] = IF i < nextId /\ i \notin pending THEN 1 ELSE 0
    BY DEF AnsweredOnceOrPending
  <2>2. i \in pending => i < nextId
    BY DEF PendingWasMade
  <2>. HIDE DEF new
  <2>. QED  BY <1>t, <1>1, <1>4, <2>0, <2>1, <2>2
<1>6. PendingWasMade'
  BY <1>1 DEF PendingWasMade
<1>. QED  BY <1>2, <1>3, <1>5, <1>6

\* The callbacks that run belong to calls that wait.
LEMMA ReplyIsLine ==
  ASSUME TypeOK, NEW again, OnReply(again)
  PROVE  /\ {Head(down).id} \cap pending \in SUBSET pending
         /\ Tail(down) \in Seq(Lines)
<1>1. down \in Seq(Lines)
  BY TypeParts
<1>. QED  BY <1>1 DEF OnReply

\* Types are kept by every step.
LEMMA TypeStep == IInv /\ [Next]_vars => TypeOK'
<1>. SUFFICES ASSUME IInv, [Next]_vars
              PROVE  TypeOK'
  OBVIOUS
<1>i. TypeOK /\ AnsweredOnceOrPending /\ PendingWasMade
  BY DEF IInv, RequestsInv
<1>t. /\ socket \in {"connecting", "connected", "lost"}
      /\ timer \in BOOLEAN /\ backoff \in BackoffMin..BackoffMax
      /\ refs \in [Topics -> 0..MaxRefs]
      /\ topics \in [Topics -> {"null", "current", "old"}]
      /\ nextId \in 1..(MaxCalls + 1)
      /\ pending \in SUBSET Ids /\ overdue \in SUBSET pending
      /\ sweep \in BOOLEAN /\ answers \in [Ids -> Nat]
      /\ up \in Seq(Requests) /\ down \in Seq(Lines)
      /\ served \in SUBSET Topics /\ inflight \in SUBSET Ids /\ daemon \in BOOLEAN
  BY <1>i, TypeParts
<1>a. MaxRefs \in Nat /\ MaxCalls \in Nat
  BY BackendAssumption
<1>p. ASSUME NEW m \in Requests, Post(m)
      PROVE  up' \in Seq(Requests)
  BY <1>p, <1>t DEF Post
<1>s. Schedule => timer' \in BOOLEAN /\ backoff' \in BackoffMin..BackoffMax
  BY <1>i, <1>t, BackoffStep DEF Schedule
<1>1. ASSUME NEW t \in Topics, Subscribe(t)
      PROVE  TypeOK'
  <2>1. up' \in Seq(Requests)
    BY <1>1, <1>p, <1>t, RequestFacts DEF Subscribe
  <2>2. refs' \in [Topics -> 0..MaxRefs]
    BY <1>1, <1>t, <1>a DEF Subscribe
  <2>. QED  BY <1>1, <1>t, <2>1, <2>2 DEF Subscribe, TypeOK, linkVars, callVars
<1>2. ASSUME NEW t \in Topics, Unsubscribe(t)
      PROVE  TypeOK'
  <2>1. up' \in Seq(Requests)
    BY <1>2, <1>p, <1>t, RequestFacts DEF Unsubscribe
  <2>2. refs' \in [Topics -> 0..MaxRefs]
    BY <1>2, <1>t, <1>a DEF Unsubscribe
  <2>. QED  BY <1>2, <1>t, <2>1, <2>2 DEF Unsubscribe, TypeOK, linkVars, callVars
<1>3. ASSUME NEW t \in Topics, Stream(t)
      PROVE  TypeOK'
  <2>1. down' \in Seq(Lines)
    BY <1>3, <1>t, LineFacts DEF Stream
  <2>. QED  BY <1>3, <1>t, <2>1 DEF Stream, TypeOK, linkVars, callVars
<1>4. ASSUME NEW i \in Ids, Overdue(i)
      PROVE  TypeOK'
  BY <1>4, <1>t DEF Overdue, TypeOK, linkVars, wireVars
<1>5. ASSUME NEW i \in Ids, Reply(i)
      PROVE  TypeOK'
  <2>1. down' \in Seq(Lines)
    BY <1>5, <1>t, LineFacts DEF Reply
  <2>2. inflight' \in SUBSET Ids
    BY <1>5, <1>t DEF Reply
  <2>. QED  BY <1>5, <1>t, <2>1, <2>2 DEF Reply, TypeOK, linkVars, callVars
<1>6. ASSUME NEW again \in 0..MaxCalls, OnReply(again)
      PROVE  TypeOK'
  <2>1. PICK done \in SUBSET pending : done = {Head(down).id} \cap pending
    BY <1>6, <1>i, ReplyIsLine
  <2>2. AnswersLinked(done, again)
    BY <1>6, <2>1 DEF OnReply
  <2>3. /\ nextId' \in 1..(MaxCalls + 1)
        /\ pending' \in SUBSET Ids /\ overdue' \in SUBSET pending'
        /\ answers' \in [Ids -> Nat] /\ up' \in Seq(Requests)
    BY <1>i, <2>2, AnswersResult
  <2>4. down' \in Seq(Lines)
    BY <1>6, <1>i, ReplyIsLine DEF OnReply
  <2>5. sweep' \in BOOLEAN
    BY <1>6 DEF OnReply
  <2>. QED  BY <1>6, <1>t, <2>3, <2>4, <2>5 DEF OnReply, TypeOK, linkVars
<1>7. ASSUME NEW again \in 0..MaxCalls, Sweep(again)
      PROVE  TypeOK'
  <2>1. PICK done \in SUBSET pending : done = overdue
    BY <1>t
  <2>2. AnswersLinked(done, again)
    BY <1>7, <2>1 DEF Sweep
  <2>3. /\ nextId' \in 1..(MaxCalls + 1)
        /\ pending' \in SUBSET Ids /\ overdue' \in SUBSET pending'
        /\ answers' \in [Ids -> Nat] /\ up' \in Seq(Requests)
    BY <1>i, <2>2, AnswersResult
  <2>4. sweep' \in BOOLEAN
    BY <1>7 DEF Sweep
  <2>. QED  BY <1>7, <1>t, <2>3, <2>4 DEF Sweep, TypeOK, linkVars
<1>8. ASSUME NEW again \in 0..MaxCalls, OnDisconnected(again)
      PROVE  TypeOK'
  <2>1. nextId' \in 1..(MaxCalls + 1) /\ answers' \in [Ids -> Nat]
    BY <1>8, <1>i, LostResult
  <2>2. topics' \in [Topics -> {"null", "current", "old"}]
    BY <1>8, <1>t DEF OnDisconnected
  <2>3. timer' \in BOOLEAN /\ backoff' \in BackoffMin..BackoffMax
    BY <1>8, <1>s DEF OnDisconnected
  <2>4. sweep' \in BOOLEAN /\ pending' = {} /\ overdue' = {} /\ served' = {} /\ inflight' = {}
    BY <1>8 DEF OnDisconnected
  <2>5. up' \in Seq(Requests) /\ down' \in Seq(Lines)
    BY <1>8 DEF OnDisconnected
  <2>. QED  BY <1>8, <1>t, <2>1, <2>2, <2>3, <2>4, <2>5 DEF OnDisconnected, TypeOK
<1>9. CASE Call
  <2>1. /\ nextId \in Ids /\ nextId' = nextId + 1
        /\ answers' = answers \/ answers' = Ran({nextId})
        /\ pending' \in SUBSET Ids /\ pending \subseteq pending'
        /\ up' \in Seq(Requests)
    BY <1>9, <1>p, <1>t, RequestFacts DEF Call
  <2>2. nextId' \in 1..(MaxCalls + 1)
    BY <1>a, <2>1 DEF Ids
  <2>3. answers' \in [Ids -> Nat]
    BY <1>t, <2>1 DEF Ran
  <2>. QED  BY <1>9, <1>t, <2>1, <2>2, <2>3 DEF Call, TypeOK, linkVars
<1>10. CASE OnEvent
  <2>1. down' \in Seq(Lines)
    BY <1>10, <1>t DEF OnEvent
  <2>2. topics' \in [Topics -> {"null", "current", "old"}]
    BY <1>10, <1>t DEF OnEvent
  <2>. QED  BY <1>10, <1>t, <2>1, <2>2 DEF OnEvent, TypeOK, linkVars, callVars
<1>11. CASE OnConnected
  <2>1. Wanted \in SUBSET Topics
    BY DEF Wanted
  <2>2. up' \in Seq(Requests)
    <3>1. [op |-> "subscribe", topics |-> Wanted] \in Requests
      BY <2>1, RequestFacts
    <3>2. << >> \in Seq(Requests) /\ << [op |-> "subscribe", topics |-> Wanted] >> \in Seq(Requests)
      BY <3>1
    <3>. QED  BY <1>11, <3>2 DEF OnConnected
  <2>3. backoff' \in BackoffMin..BackoffMax
    BY <1>11, BackendAssumption DEF OnConnected
  <2>. QED  BY <1>11, <1>t, <2>2, <2>3 DEF OnConnected, TypeOK, callVars
<1>12. CASE OnError
  BY <1>12, <1>s, <1>t DEF OnError, TypeOK, callVars, wireVars
<1>13. CASE Rebuild
  <2>1. backoff' \in BackoffMin..BackoffMax
    BY <1>13, <1>i, <1>t, BackoffStep DEF Rebuild
  <2>. QED  BY <1>13, <1>t, <2>1 DEF Rebuild, TypeOK, callVars, wireVars
<1>14. CASE Serve
  <2>1. Head(up) \in Requests /\ up' \in Seq(Requests)
    BY <1>14, <1>t DEF Serve
  <2>2. CASE /\ Head(up).op = "subscribe"
             /\ served' = served \cup Head(up).topics
             /\ \E snap \in {<< >>} \cup {<< [topic |-> t] >> : t \in Head(up).topics} :
                  down' = down \o snap
             /\ UNCHANGED inflight
    <3>1. Head(up).topics \in SUBSET Topics
      BY <2>1, <2>2, RequestFacts
    <3>2. \A snap \in {<< >>} \cup {<< [topic |-> t] >> : t \in Head(up).topics} :
            snap \in Seq(Lines)
      <4>1. << >> \in Seq(Lines)
        OBVIOUS
      <4>2. ASSUME NEW t \in Head(up).topics
            PROVE  << [topic |-> t] >> \in Seq(Lines)
        <5>1. [topic |-> t] \in Lines
          BY <3>1, LineFacts
        <5>. QED  BY <5>1
      <4>. QED  BY <4>1, <4>2
    <3>3. down' \in Seq(Lines)
      BY <1>t, <2>2, <3>2
    <3>4. served' \in SUBSET Topics
      BY <1>t, <2>2, <3>1
    <3>. QED  BY <1>14, <1>t, <2>1, <2>2, <3>3, <3>4 DEF Serve, TypeOK, linkVars, callVars
  <2>3. CASE served' = served \ Head(up).topics /\ UNCHANGED <<down, inflight>>
    BY <1>14, <1>t, <2>1, <2>3 DEF Serve, TypeOK, linkVars, callVars
  <2>4. CASE /\ Head(up).op = "call" /\ inflight' = inflight \cup {Head(up).id}
             /\ UNCHANGED <<down, served>>
    <3>1. inflight' \in SUBSET Ids
      BY <1>t, <2>1, <2>4, RequestFacts
    <3>. QED  BY <1>14, <1>t, <2>1, <2>4, <3>1 DEF Serve, TypeOK, linkVars, callVars
  <2>. QED  BY <1>14, <2>2, <2>3, <2>4 DEF Serve
<1>15. CASE DaemonTurns
  <2>1. daemon' \in BOOLEAN
    BY <1>15 DEF DaemonTurns
  <2>. QED  BY <1>15, <1>t, <2>1 DEF DaemonTurns, TypeOK, linkVars, callVars
<1>16. CASE UNCHANGED vars
  BY <1>16, <1>t DEF vars, linkVars, callVars, wireVars, TypeOK
<1>. QED
  BY <1>1, <1>2, <1>3, <1>4, <1>5, <1>6, <1>7, <1>8, <1>9, <1>10, <1>11, <1>12, <1>13, <1>14,
     <1>15, <1>16 DEF Next, SweepStep

-----------------------------------------------------------------------------
(* The ledger of calls.                                                    *)

\* Every step keeps it: a callback that runs belongs to a call that waited, and only once.
LEMMA LedgerStep ==
  IInv /\ [Next]_vars => AnsweredOnceOrPending' /\ PendingWasMade'
<1>. SUFFICES ASSUME IInv, [Next]_vars
              PROVE  AnsweredOnceOrPending' /\ PendingWasMade'
  OBVIOUS
<1>i. TypeOK /\ AnsweredOnceOrPending /\ PendingWasMade
  BY DEF IInv, RequestsInv
<1>t. /\ nextId \in 1..(MaxCalls + 1) /\ pending \in SUBSET Ids /\ answers \in [Ids -> Nat]
      /\ overdue \in SUBSET pending
  BY <1>i, TypeParts
<1>f. ASSUME UNCHANGED <<nextId, pending, answers>>
      PROVE  AnsweredOnceOrPending' /\ PendingWasMade'
  BY <1>f, <1>i DEF AnsweredOnceOrPending, PendingWasMade
<1>1. ASSUME NEW t \in Topics, Subscribe(t) \/ Unsubscribe(t) \/ Stream(t)
      PROVE  AnsweredOnceOrPending' /\ PendingWasMade'
  BY <1>1, <1>f DEF Subscribe, Unsubscribe, Stream, callVars
<1>2. ASSUME NEW i \in Ids, Overdue(i) \/ Reply(i)
      PROVE  AnsweredOnceOrPending' /\ PendingWasMade'
  BY <1>2, <1>f DEF Overdue, Reply, callVars
<1>3. ASSUME NEW again \in 0..MaxCalls, OnReply(again)
      PROVE  AnsweredOnceOrPending' /\ PendingWasMade'
  <2>1. PICK done \in SUBSET pending : done = {Head(down).id} \cap pending
    BY <1>3, <1>i, ReplyIsLine
  <2>2. AnswersLinked(done, again)
    BY <1>3, <2>1 DEF OnReply
  <2>. QED  BY <1>i, <2>2, AnswersResult
<1>4. ASSUME NEW again \in 0..MaxCalls, Sweep(again)
      PROVE  AnsweredOnceOrPending' /\ PendingWasMade'
  <2>1. PICK done \in SUBSET pending : done = overdue
    BY <1>t
  <2>2. AnswersLinked(done, again)
    BY <1>4, <2>1 DEF Sweep
  <2>. QED  BY <1>i, <2>2, AnswersResult
<1>5. ASSUME NEW again \in 0..MaxCalls, OnDisconnected(again)
      PROVE  AnsweredOnceOrPending' /\ PendingWasMade'
  BY <1>5, <1>i, LostResult
<1>6. CASE Call
  <2>0. nextId \in Ids /\ nextId' = nextId + 1 /\ nextId \notin pending /\ nextId \in Nat
    BY <1>6, <1>i, <1>t DEF Call, PendingWasMade, Ids
  <2>1. \A i \in Ids : /\ i \in Nat
                       /\ answers[i] = IF i < nextId /\ i \notin pending THEN 1 ELSE 0
                       /\ i \in pending => i < nextId
    BY <1>i, <1>t DEF AnsweredOnceOrPending, PendingWasMade, Ids
  <2>2. CASE pending' = pending \cup {nextId} /\ UNCHANGED answers
    BY <2>0, <2>1, <2>2, <1>t DEF AnsweredOnceOrPending, PendingWasMade
  <2>3. CASE answers' = Ran({nextId}) /\ UNCHANGED pending
    <3>1. \A i \in Ids : answers'[i] = answers[i] + (IF i = nextId THEN 1 ELSE 0)
      BY <2>3 DEF Ran
    <3>. QED  BY <2>0, <2>1, <2>3, <3>1, <1>t DEF AnsweredOnceOrPending, PendingWasMade
  <2>. QED  BY <1>6, <2>2, <2>3 DEF Call
<1>7. CASE OnEvent \/ OnConnected \/ OnError \/ Rebuild \/ Serve \/ DaemonTurns
  BY <1>7, <1>f DEF OnEvent, OnConnected, OnError, Rebuild, Serve, DaemonTurns, callVars
<1>8. CASE UNCHANGED vars
  BY <1>8, <1>f DEF vars, callVars
<1>. QED
  BY <1>1, <1>2, <1>3, <1>4, <1>5, <1>6, <1>7, <1>8 DEF Next, SweepStep

-----------------------------------------------------------------------------
(* The link and what is shown.                                             *)

\* Every step keeps what a lost link leaves behind.
LEMMA LinkStep ==
  IInv /\ [Next]_vars => Offline' /\ TimerIsForLost' /\ NoMemoryShownAsState'
<1>. SUFFICES ASSUME IInv, [Next]_vars
              PROVE  Offline' /\ TimerIsForLost' /\ NoMemoryShownAsState'
  OBVIOUS
<1>i. /\ TypeOK /\ AnsweredOnceOrPending /\ PendingWasMade
      /\ Offline /\ TimerIsForLost /\ NoMemoryShownAsState
  BY DEF IInv, RequestsInv
<1>t. /\ overdue \in SUBSET pending /\ served \in SUBSET Topics /\ inflight \in SUBSET Ids
      /\ topics \in [Topics -> {"null", "current", "old"}] /\ Volatile \subseteq Topics
      /\ timer \in BOOLEAN
  BY <1>i, TypeParts, BackendAssumption
\* The link stays as it is, and lines go over one that is up.
<1>f. ASSUME UNCHANGED <<socket, timer, topics>>,
             Linked \/ UNCHANGED <<up, down, served, inflight, pending>>
      PROVE  Offline' /\ TimerIsForLost' /\ NoMemoryShownAsState'
  BY <1>f, <1>i DEF Offline, TimerIsForLost, NoMemoryShownAsState, Linked
<1>1. ASSUME NEW t \in Topics, Subscribe(t) \/ Unsubscribe(t)
      PROVE  Offline' /\ TimerIsForLost' /\ NoMemoryShownAsState'
  <2>1. UNCHANGED <<socket, timer, topics, down, served, inflight, pending>>
    BY <1>1 DEF Subscribe, Unsubscribe, linkVars, callVars
  <2>2. Linked \/ UNCHANGED up
    BY <1>1 DEF Subscribe, Unsubscribe, Post
  <2>. QED  BY <1>f, <2>1, <2>2
<1>2. ASSUME NEW t \in Topics, Stream(t)
      PROVE  Offline' /\ TimerIsForLost' /\ NoMemoryShownAsState'
  BY <1>2, <1>f, <1>i DEF Stream, Offline, linkVars, callVars
<1>3. ASSUME NEW i \in Ids, Overdue(i) \/ Reply(i)
      PROVE  Offline' /\ TimerIsForLost' /\ NoMemoryShownAsState'
  BY <1>3, <1>f, <1>i DEF Overdue, Reply, Offline, linkVars, callVars, wireVars
<1>4. ASSUME NEW again \in 0..MaxCalls, OnReply(again)
      PROVE  Offline' /\ TimerIsForLost' /\ NoMemoryShownAsState'
  BY <1>4, <1>f DEF OnReply, linkVars
<1>5. ASSUME NEW again \in 0..MaxCalls, Sweep(again)
      PROVE  Offline' /\ TimerIsForLost' /\ NoMemoryShownAsState'
  <2>0. UNCHANGED <<socket, timer, topics, down, served, inflight>> /\ (Linked \/ again = 0)
    BY <1>5 DEF Sweep, linkVars
  <2>1. CASE Linked
    BY <1>f, <2>0, <2>1
  <2>2. CASE ~Linked
    <3>1. PICK done \in SUBSET pending : done = overdue
      BY <1>t
    <3>2. AnswersLinked(done, again)
      BY <1>5, <3>1 DEF Sweep
    <3>3. again = 0 /\ up = << >> /\ pending = {}
      BY <1>i, <2>0, <2>2 DEF Offline
    <3>4. up' = << >> /\ pending' = pending \ done
      BY <1>i, <3>2, <3>3, AnswersResult
    <3>. QED  BY <1>f, <2>0, <3>3, <3>4
  <2>. QED  BY <2>1, <2>2
<1>6. ASSUME NEW again \in 0..MaxCalls, OnDisconnected(again)
      PROVE  Offline' /\ TimerIsForLost' /\ NoMemoryShownAsState'
  <2>1. \A t \in Volatile : topics'[t] = "null"
    BY <1>6, <1>t DEF OnDisconnected
  <2>. QED  BY <1>6, <2>1 DEF OnDisconnected, Offline, TimerIsForLost, NoMemoryShownAsState
<1>7. CASE Call
  <2>1. UNCHANGED <<socket, timer, topics, down, served, inflight>>
    BY <1>7 DEF Call, linkVars
  <2>2. Linked \/ UNCHANGED <<up, pending>>
    BY <1>7 DEF Call
  <2>. QED  BY <1>f, <2>1, <2>2
<1>8. CASE OnEvent
  <2>1. Linked /\ UNCHANGED <<socket, timer>>
        /\ topics' = [topics EXCEPT ![Head(down).topic] = "current"]
    BY <1>8 DEF OnEvent, linkVars
  <2>2. \A t \in Volatile : topics'[t] = "current" \/ topics'[t] = topics[t]
    BY <1>t, <2>1
  <2>3. Linked'
    BY <2>1 DEF Linked
  <2>. QED  BY <1>i, <2>1, <2>2, <2>3 DEF Offline, TimerIsForLost, NoMemoryShownAsState
<1>9. CASE OnConnected
  <2>1. Linked' /\ ~timer' /\ UNCHANGED topics
    BY <1>9 DEF OnConnected, Linked
  <2>. QED  BY <1>i, <2>1 DEF Offline, TimerIsForLost, NoMemoryShownAsState
<1>10. CASE OnError
  <2>1. /\ ~Linked /\ ~Linked' /\ socket' = "lost"
        /\ UNCHANGED <<topics, up, down, served, inflight, pending>>
    BY <1>10 DEF OnError, Linked, callVars, wireVars
  <2>. QED  BY <1>i, <2>1 DEF Offline, TimerIsForLost, NoMemoryShownAsState
<1>11. CASE Rebuild
  <2>1. /\ ~Linked /\ UNCHANGED <<topics, up, down, served, inflight, pending>>
        /\ \/ socket' = "connecting" /\ timer' = FALSE
           \/ socket' = "lost" /\ timer' = TRUE
    BY <1>11, <1>i DEF Rebuild, Linked, TimerIsForLost, callVars, wireVars
  <2>2. ~Linked'
    BY <2>1 DEF Linked
  <2>. QED  BY <1>i, <2>1, <2>2 DEF Offline, TimerIsForLost, NoMemoryShownAsState
<1>12. CASE Serve
  BY <1>12, <1>f DEF Serve, linkVars, callVars
<1>13. CASE DaemonTurns
  BY <1>13, <1>f DEF DaemonTurns, linkVars, callVars
<1>14. CASE UNCHANGED vars
  BY <1>14, <1>f DEF vars, linkVars, callVars, wireVars
<1>. QED
  BY <1>1, <1>2, <1>3, <1>4, <1>5, <1>6, <1>7, <1>8, <1>9, <1>10, <1>11, <1>12, <1>13, <1>14
     DEF Next, SweepStep

-----------------------------------------------------------------------------
(* The subscriptions.                                                      *)

\* Every step keeps the daemon's set, as it will be, what the controllers want.
LEMMA ServeStep ==
  IInv /\ [Next]_vars => ServedWillBeWanted'
<1>. SUFFICES ASSUME IInv, [Next]_vars, Linked', NEW t \in Topics
              PROVE  refs'[t] > 0 <=> ServedAfter(t, served', up')
  BY DEF ServedWillBeWanted, Wanted
<1>i. TypeOK /\ AnsweredOnceOrPending /\ PendingWasMade /\ Offline
  BY DEF IInv, RequestsInv
<1>t. /\ refs \in [Topics -> 0..MaxRefs] /\ MaxRefs \in Nat /\ overdue \in SUBSET pending
      /\ up \in Seq(Requests) /\ served \in SUBSET Topics
  BY <1>i, TypeParts, BackendAssumption
<1>w. Linked => (refs[t] > 0 <=> ServedAfter(t, served, up))
  BY DEF IInv, RequestsInv, ServedWillBeWanted, Wanted
<1>f. ASSUME Linked, refs' = refs, served' = served,
             ServedAfter(t, served, up') <=> ServedAfter(t, served, up)
      PROVE  refs'[t] > 0 <=> ServedAfter(t, served', up')
  BY <1>f, <1>w
<1>1. ASSUME NEW x \in Topics, Subscribe(x)
      PROVE  refs'[t] > 0 <=> ServedAfter(t, served', up')
  <2>1. /\ Linked /\ served' = served /\ refs' = [refs EXCEPT ![x] = @ + 1]
        /\ IF refs[x] = 0 THEN Post([op |-> "subscribe", topics |-> {x}]) ELSE UNCHANGED up
    BY <1>1 DEF Subscribe, Linked, linkVars
  <2>2. refs'[t] = (IF t = x THEN refs[x] + 1 ELSE refs[t]) /\ refs[t] \in Nat /\ refs[x] \in Nat
    BY <1>t, <2>1
  <2>3. CASE refs[x] = 0
    <3>1. PICK m \in Requests : m = [op |-> "subscribe", topics |-> {x}]
      BY RequestFacts
    <3>2. up' = Append(up, m)
      BY <2>1, <2>3, <3>1 DEF Post
    <3>3. /\ t = x => TurnsOn(t, m)
          /\ t # x => ~TurnsOn(t, m) /\ ~TurnsOff(t, m)
      BY <3>1 DEF TurnsOn, TurnsOff
    <3>4. /\ TurnsOn(t, m) => ServedAfter(t, served, up')
          /\ ~TurnsOn(t, m) /\ ~TurnsOff(t, m) =>
               (ServedAfter(t, served, up') <=> ServedAfter(t, served, up))
      BY <1>t, <3>2, AppendServes
    <3>. QED  BY <1>w, <2>1, <2>2, <2>3, <3>3, <3>4
  <2>4. CASE refs[x] # 0
    BY <1>w, <2>1, <2>2, <2>4
  <2>. QED  BY <2>3, <2>4
<1>2. ASSUME NEW x \in Topics, Unsubscribe(x)
      PROVE  refs'[t] > 0 <=> ServedAfter(t, served', up')
  <2>1. /\ Linked /\ served' = served /\ refs' = [refs EXCEPT ![x] = @ - 1] /\ refs[x] > 0
        /\ IF refs[x] = 1 THEN Post([op |-> "unsubscribe", topics |-> {x}]) ELSE UNCHANGED up
    BY <1>2 DEF Unsubscribe, Linked, linkVars
  <2>2. refs'[t] = (IF t = x THEN refs[x] - 1 ELSE refs[t]) /\ refs[t] \in Nat /\ refs[x] \in Nat
    BY <1>t, <2>1
  <2>3. CASE refs[x] = 1
    <3>1. PICK m \in Requests : m = [op |-> "unsubscribe", topics |-> {x}]
      BY RequestFacts
    <3>2. up' = Append(up, m)
      BY <2>1, <2>3, <3>1 DEF Post
    <3>3. /\ t = x => TurnsOff(t, m)
          /\ t # x => ~TurnsOn(t, m) /\ ~TurnsOff(t, m)
      BY <3>1 DEF TurnsOn, TurnsOff
    <3>4. /\ TurnsOff(t, m) => ~ServedAfter(t, served, up')
          /\ ~TurnsOn(t, m) /\ ~TurnsOff(t, m) =>
               (ServedAfter(t, served, up') <=> ServedAfter(t, served, up))
      BY <1>t, <3>2, AppendServes
    <3>. QED  BY <1>w, <2>1, <2>2, <2>3, <3>3, <3>4
  <2>4. CASE refs[x] # 1
    BY <1>w, <2>1, <2>2, <2>4
  <2>. QED  BY <2>3, <2>4
<1>3. ASSUME NEW x \in Topics, Stream(x)
      PROVE  refs'[t] > 0 <=> ServedAfter(t, served', up')
  BY <1>3, <1>f DEF Stream, Linked, linkVars
<1>4. ASSUME NEW i \in Ids, Overdue(i) \/ Reply(i)
      PROVE  refs'[t] > 0 <=> ServedAfter(t, served', up')
  BY <1>4, <1>f DEF Overdue, Reply, Linked, linkVars, wireVars
<1>5. ASSUME NEW again \in 0..MaxCalls, OnReply(again)
      PROVE  refs'[t] > 0 <=> ServedAfter(t, served', up')
  <2>1. PICK done \in SUBSET pending : done = {Head(down).id} \cap pending
    BY <1>5, <1>i, ReplyIsLine
  <2>2. AnswersLinked(done, again) /\ Linked /\ refs' = refs /\ served' = served
    BY <1>5, <2>1 DEF OnReply
  <2>3. ServedAfter(t, served, up') <=> ServedAfter(t, served, up)
    BY <1>i, <2>2, AnswersResult
  <2>. QED  BY <1>f, <2>2, <2>3
<1>6. ASSUME NEW again \in 0..MaxCalls, Sweep(again)
      PROVE  refs'[t] > 0 <=> ServedAfter(t, served', up')
  <2>1. PICK done \in SUBSET pending : done = overdue
    BY <1>t
  <2>2. AnswersLinked(done, again) /\ Linked /\ refs' = refs /\ served' = served
    BY <1>6, <2>1 DEF Sweep, Linked, linkVars
  <2>3. ServedAfter(t, served, up') <=> ServedAfter(t, served, up)
    BY <1>i, <2>2, AnswersResult
  <2>. QED  BY <1>f, <2>2, <2>3
<1>7. ASSUME NEW again \in 0..MaxCalls, OnDisconnected(again)
      PROVE  refs'[t] > 0 <=> ServedAfter(t, served', up')
  BY <1>7 DEF OnDisconnected, Linked
<1>8. CASE Call
  <2>1. Linked /\ refs' = refs /\ served' = served /\ nextId \in Ids
    BY <1>8 DEF Call, Linked, linkVars
  <2>2. PICK m \in Requests : m = [op |-> "call", id |-> nextId]
    BY <2>1, RequestFacts
  <2>3. up' = Append(up, m)
    BY <1>8, <2>1, <2>2 DEF Call, Post
  <2>4. ~TurnsOn(t, m) /\ ~TurnsOff(t, m)
    BY <2>2 DEF TurnsOn, TurnsOff
  <2>5. ServedAfter(t, served, up') <=> ServedAfter(t, served, up)
    BY <1>t, <2>3, <2>4, AppendServes
  <2>. QED  BY <1>f, <2>1, <2>5
<1>9. CASE OnConnected
  <2>1. served = {} /\ served' = {} /\ refs' = refs
    BY <1>9, <1>i DEF OnConnected, Offline, Linked
  <2>2. CASE Wanted = {}
    <3>1. up' = << >> /\ t \notin Wanted
      BY <1>9, <2>2 DEF OnConnected
    <3>2. ~(refs[t] > 0)
      BY <3>1 DEF Wanted
    <3>. QED  BY <2>1, <3>1, <3>2, EmptyServes
  <2>3. CASE Wanted # {}
    <3>1. PICK m \in Requests : m = [op |-> "subscribe", topics |-> Wanted]
      <4>1. Wanted \in SUBSET Topics
        BY DEF Wanted
      <4>. QED  BY <4>1, RequestFacts
    <3>2. up' = << m >>
      BY <1>9, <2>3, <3>1 DEF OnConnected
    <3>3. TurnsOn(t, m) <=> refs[t] > 0
      BY <3>1 DEF TurnsOn, Wanted
    <3>4. ~TurnsOff(t, m)
      BY <3>1 DEF TurnsOff
    <3>5. ServedAfter(t, {}, << m >>) <=> TurnsOn(t, m)
      BY <3>4 DEF ServedAfter
    <3>. QED  BY <2>1, <3>2, <3>3, <3>5
  <2>. QED  BY <2>2, <2>3
<1>10. CASE Serve
  <2>1. Linked /\ refs' = refs /\ up # << >> /\ up' = Tail(up)
    BY <1>10 DEF Serve, linkVars
  <2>2. t \in served' <=> TurnsOn(t, Head(up)) \/ (t \in served /\ ~TurnsOff(t, Head(up)))
    BY <1>10 DEF Serve, TurnsOn, TurnsOff
  <2>3. ServedAfter(t, served', up') <=> ServedAfter(t, served, up)
    <3>1. \A S2 : (t \in S2 <=> TurnsOn(t, Head(up)) \/ (t \in served /\ ~TurnsOff(t, Head(up))))
                  => (ServedAfter(t, S2, Tail(up)) <=> ServedAfter(t, served, up))
      BY <1>t, <2>1, TailServes
    <3>. QED  BY <2>1, <2>2, <3>1
  <2>. QED  BY <1>w, <2>1, <2>3
<1>11. CASE OnEvent \/ DaemonTurns
  BY <1>11, <1>f DEF OnEvent, DaemonTurns, Linked, linkVars
<1>12. CASE OnError \/ Rebuild
  BY <1>12 DEF OnError, Rebuild, Linked
<1>13. CASE UNCHANGED vars
  BY <1>13, <1>f DEF vars, Linked, linkVars, wireVars
<1>. QED
  BY <1>1, <1>2, <1>3, <1>4, <1>5, <1>6, <1>7, <1>8, <1>9, <1>10, <1>11, <1>12, <1>13
     DEF Next, SweepStep

-----------------------------------------------------------------------------
(* The theorems.                                                           *)

\* At the start no call was made, and the first Socket is still connecting.
LEMMA InvInit == Init => IInv
<1>. SUFFICES ASSUME Init
              PROVE  IInv
  OBVIOUS
<1>a. MaxRefs \in Nat /\ MaxCalls \in Nat /\ BackoffMin \in BackoffMin..BackoffMax
      /\ Volatile \subseteq Topics
  BY BackendAssumption
<1>1. TypeOK
  <2>1. refs \in [Topics -> 0..MaxRefs] /\ answers \in [Ids -> Nat]
    BY <1>a DEF Init
  <2>2. nextId \in 1..(MaxCalls + 1)
    BY <1>a DEF Init
  <2>3. topics \in [Topics -> {"null", "current", "old"}]
    BY DEF Init
  <2>4. up \in Seq(Requests) /\ down \in Seq(Lines)
    BY DEF Init
  <2>. QED  BY <1>a, <2>1, <2>2, <2>3, <2>4 DEF Init, TypeOK
<1>2. AnsweredOnceOrPending
  BY DEF Init, AnsweredOnceOrPending, Ids
<1>3. ServedWillBeWanted /\ Offline
  BY DEF Init, ServedWillBeWanted, Linked, Offline
<1>4. NoMemoryShownAsState
  BY <1>a DEF Init, NoMemoryShownAsState
<1>5. TimerIsForLost /\ PendingWasMade
  BY DEF Init, TimerIsForLost, PendingWasMade
<1>. QED  BY <1>1, <1>2, <1>3, <1>4, <1>5 DEF IInv, RequestsInv

\* Every step keeps all of it.
LEMMA InvStep == IInv /\ [Next]_vars => IInv'
<1>. SUFFICES ASSUME IInv, [Next]_vars
              PROVE  IInv'
  OBVIOUS
<1>. QED  BY TypeStep, LedgerStep, LinkStep, ServeStep DEF IInv, RequestsInv

\* The inductive invariant holds of every behaviour.
THEOREM Invariant == Spec => []IInv
BY InvInit, InvStep, PTL DEF Spec

\* A call's callback runs once and no more, and while the link is up what the daemon will
\* have subscribed is what the controllers want, through time-outs, late answers, lost
\* links, callbacks that call again and releases that cross a reconnection (Backend.qml:
\* call, _onLine, pendingSweep, _onDisconnected, _onConnected).
THEOREM CallsAndSubscriptions == Spec => []RequestsInv
<1>1. IInv => RequestsInv
  BY DEF IInv
<1>. QED  BY <1>1, Invariant, PTL

\* A topic that must not outlive the daemon is never shown without it, nor from before
\* (Backend.qml: volatileTopics and _onDisconnected).
THEOREM NothingRemembered == Spec => []NoMemoryShownAsState
<1>1. IInv => NoMemoryShownAsState
  BY DEF IInv
<1>. QED  BY <1>1, Invariant, PTL

=============================================================================
