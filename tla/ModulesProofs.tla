---------------------------- MODULE ModulesProofs ----------------------------
(***************************************************************************)
(* What holds of the clipboard's store for any contents, clients and       *)
(* limits and after any number of deaths of the daemon, and of the other   *)
(* parts of Modules for every value of their constants.                    *)
(***************************************************************************)
EXTENDS Modules, FiniteSetTheorems, TLAPS

-----------------------------------------------------------------------------
(* The clipboard's store: positions and ranks.                               *)

\* Positions can be counted.
LEMMA PositionsFinite ==
  ASSUME NEW n \in Nat, NEW K \in SUBSET (1..n)
  PROVE  IsFiniteSet(K) /\ Cardinality(K) \in Nat
<1>1. IsFiniteSet(1..n)
  BY FS_Interval
<1> QED
  BY <1>1, FS_Subset, FS_CardinalityType

\* Of two positions the later has the higher rank.
LEMMA RankGrows ==
  ASSUME NEW n \in Nat, NEW K \in SUBSET (1..n), NEW i \in K, NEW j \in K, i < j
  PROVE  Rank(K, i) < Rank(K, j)
<1> DEFINE A == {x \in K : x <= i}
           B == {x \in K : x <= j}
<1>1. A \subseteq B /\ j \in B \ A
  <2>1. \A x \in K : x \in Int
    OBVIOUS
  <2>2. j \in B /\ j \notin A
    BY <2>1
  <2>3. \A x \in K : x <= i => x <= j
    BY <2>1
  <2>4. A \subseteq B
    BY <2>3
  <2> QED
    BY <2>2, <2>4
<1>2. IsFiniteSet(B) /\ Cardinality(B) \in Nat /\ Cardinality(A) \in Nat
  BY <1>1, PositionsFinite
<1>3. Cardinality(A) <= Cardinality(B) /\ Cardinality(A) # Cardinality(B)
  BY <1>1, <1>2, FS_Subset
<1> QED
  BY <1>2, <1>3 DEF Rank

\* Ranks count from one to the number of positions.
LEMMA RankType ==
  ASSUME NEW n \in Nat, NEW K \in SUBSET (1..n), NEW i \in K
  PROVE  Rank(K, i) \in 1..Cardinality(K)
<1> DEFINE A == {x \in K : x <= i}
<1>1. A \subseteq K /\ i \in A
  OBVIOUS
<1>2. IsFiniteSet(K) /\ IsFiniteSet(A) /\ Cardinality(K) \in Nat /\ Cardinality(A) \in Nat
  BY <1>1, PositionsFinite
<1>3. Cardinality(A) <= Cardinality(K) /\ Cardinality(A) # 0
  BY <1>1, <1>2, FS_Subset, FS_EmptySet
<1> QED
  BY <1>2, <1>3 DEF Rank

\* At every place there is one position, and it has that rank.
LEMMA NthFacts ==
  ASSUME NEW n \in Nat, NEW K \in SUBSET (1..n)
  PROVE  /\ \A k \in 1..Cardinality(K) : Nth(K, k) \in K /\ Rank(K, Nth(K, k)) = k
         /\ \A i \in K : Nth(K, Rank(K, i)) = i
<1> DEFINE N == Cardinality(K)
           rank == [i \in K |-> Rank(K, i)]
<1>1. IsFiniteSet(K) /\ N \in Nat
  BY PositionsFinite
<1>2. IsFiniteSet(1..N) /\ Cardinality(1..N) = N
  <2>1. IsFiniteSet(1..N) /\ Cardinality(1..N) = IF 1 > N THEN 0 ELSE N - 1 + 1
    BY <1>1, FS_Interval
  <2> QED
    BY <1>1, <2>1
<1>3. \A i, j \in K : Rank(K, i) = Rank(K, j) => i = j
  <2> SUFFICES ASSUME NEW i \in K, NEW j \in K, i # j
               PROVE  Rank(K, i) # Rank(K, j)
    OBVIOUS
  <2>1. i < j \/ j < i
    OBVIOUS
  <2>2. Rank(K, i) < Rank(K, j) \/ Rank(K, j) < Rank(K, i)
    BY <2>1, RankGrows
  <2>3. Rank(K, i) \in Int /\ Rank(K, j) \in Int
    BY <1>1, RankType
  <2> QED
    BY <2>2, <2>3
<1>4. rank \in Injection(K, 1..N)
  BY <1>3, RankType DEF Injection, IsInjective
<1>5. rank \in Surjection(K, 1..N)
  BY <1>1, <1>2, <1>4, FS_Injection
<1>6. \A k \in 1..N : \E i \in K : Rank(K, i) = k
  BY <1>5 DEF Surjection
<1>7. \A k \in 1..N : Nth(K, k) \in K /\ Rank(K, Nth(K, k)) = k
  BY <1>6 DEF Nth
<1>8. \A i \in K : Nth(K, Rank(K, i)) = i
  BY <1>3, <1>7, RankType
<1> QED
  BY <1>7, <1>8

\* Of positions, the one at the last place is the greatest.
LEMMA Greatest ==
  ASSUME NEW n \in Nat, NEW K \in SUBSET (1..n), K # {}
  PROVE  \E m \in K : \A i \in K : i <= m
<1>1. Cardinality(K) \in Nat /\ Cardinality(K) # 0
  BY PositionsFinite, FS_EmptySet
<1>2. PICK m \in K : Rank(K, m) = Cardinality(K)
  <2>1. Cardinality(K) \in 1..Cardinality(K)
    BY <1>1
  <2> QED
    BY <2>1, NthFacts
<1>3. ASSUME NEW i \in K PROVE i <= m
  <2>1. Rank(K, i) \in 1..Cardinality(K)
    BY RankType
  <2>2. ~(m < i)
    BY <1>1, <1>2, <2>1, RankGrows
  <2>3. i \in Int /\ m \in Int
    OBVIOUS
  <2> QED
    BY <2>2, <2>3
<1> QED
  BY <1>3

-----------------------------------------------------------------------------
(* Lists of entries.                                                       *)

\* No id and no content is in the list twice.
Distinct(h) ==
  \A i, j \in DOMAIN h : h[i].id = h[j].id \/ h[i].data = h[j].data => i = j

PinnedOf(h)   == {e \in Entries(h) : e.pinned}
UnpinnedOf(h) == {e \in Entries(h) : ~e.pinned}

\* A list as the history may be.
Tidy(h) ==
  /\ h \in Seq(Entry) /\ Distinct(h)
  /\ Cardinality(UnpinnedOf(h)) <= MaxHistory /\ Cardinality(PinnedOf(h)) <= MaxPinned

\* The positions of a list.
LEMMA Positions ==
  ASSUME NEW h \in Seq(Entry)
  PROVE  /\ Len(h) \in Nat /\ DOMAIN h = 1..Len(h)
         /\ \A i \in DOMAIN h : h[i] \in Entry
         /\ Entries(h) \subseteq Entry
         /\ IdsOf(h) = {e.id : e \in Entries(h)} /\ IdsOf(h) \subseteq Ids
<1>1. Len(h) \in Nat /\ DOMAIN h = 1..Len(h) /\ \A i \in DOMAIN h : h[i] \in Entry
  OBVIOUS
<1>2. Entries(h) \subseteq Entry
  BY <1>1 DEF Entries
<1>3. IdsOf(h) = {e.id : e \in Entries(h)}
  BY DEF Entries, IdsOf
<1>4. \A e \in Entry : e.id \in Ids
  BY DEF Entry
<1>5. IdsOf(h) \subseteq Ids
  BY <1>2, <1>3, <1>4
<1> QED
  BY <1>1, <1>2, <1>3, <1>5

\* What is picked are the entries at the positions, each of them once.
LEMMA PickedFacts ==
  ASSUME NEW h \in Seq(Entry), NEW K \in SUBSET DOMAIN h
  PROVE  /\ Picked(h, K) \in Seq(Entry)
         /\ Entries(Picked(h, K)) = {h[i] : i \in K}
         /\ Distinct(h) => Distinct(Picked(h, K))
<1> DEFINE N == Cardinality(K)
           g == Picked(h, K)
<1>1. K \in SUBSET (1..Len(h)) /\ Len(h) \in Nat /\ \A i \in K : h[i] \in Entry
  BY Positions
<1>2. N \in Nat
  BY <1>1, PositionsFinite
<1>3. \A k \in 1..N : Nth(K, k) \in K /\ Rank(K, Nth(K, k)) = k
  BY <1>1, NthFacts
<1>4. \A i \in K : Rank(K, i) \in 1..N /\ Nth(K, Rank(K, i)) = i
  BY <1>1, NthFacts, RankType
<1>5. g = [k \in 1..N |-> h[Nth(K, k)]]
  BY DEF Picked
<1>6. g \in Seq(Entry) /\ DOMAIN g = 1..N /\ \A k \in 1..N : g[k] = h[Nth(K, k)]
  <2>1. g \in [1..N -> Entry]
    BY <1>1, <1>3, <1>5
  <2> QED
    BY <1>2, <1>5, <2>1
<1>7. Entries(g) = {h[i] : i \in K}
  <2>1. \A k \in 1..N : g[k] \in {h[i] : i \in K}
    BY <1>3, <1>6
  <2>2. \A i \in K : h[i] = g[Rank(K, i)] /\ Rank(K, i) \in DOMAIN g
    BY <1>4, <1>6
  <2> HIDE DEF g
  <2> QED
    BY <1>6, <2>1, <2>2 DEF Entries
<1>8. ASSUME Distinct(h) PROVE Distinct(g)
  <2>1. SUFFICES ASSUME NEW a \in 1..N, NEW b \in 1..N,
                        g[a].id = g[b].id \/ g[a].data = g[b].data
                 PROVE  a = b
    BY <1>6 DEF Distinct
  <2>2. Nth(K, a) = Nth(K, b)
    BY <1>3, <1>6, <1>8, <2>1 DEF Distinct
  <2> QED
    BY <1>3, <2>2
<1> QED
  BY <1>6, <1>7, <1>8

\* Every position picked, the list is the same.
LEMMA PickedAll ==
  ASSUME NEW h \in Seq(Entry)
  PROVE  Picked(h, DOMAIN h) = h
<1> DEFINE n == Len(h)
           K == 1..n
<1>1. n \in Nat /\ DOMAIN h = K /\ K \in SUBSET (1..n)
  BY Positions
<1>2. \A i \in K : Rank(K, i) = i
  <2> SUFFICES ASSUME NEW i \in K PROVE Rank(K, i) = i
    OBVIOUS
  <2>1. {j \in K : j <= i} = 1..i /\ i \in Nat /\ i >= 1
    BY <1>1
  <2>2. Cardinality(1..i) = i
    BY <2>1, FS_Interval
  <2> QED
    BY <2>1, <2>2 DEF Rank
<1>3. Cardinality(K) = n
  <2>1. Cardinality(K) = IF 1 > n THEN 0 ELSE n - 1 + 1
    BY <1>1, FS_Interval
  <2> QED
    BY <1>1, <2>1
<1>4. \A k \in K : Nth(K, k) = k
  <2>1. \A i \in K : Nth(K, Rank(K, i)) = i
    BY <1>1, NthFacts
  <2> QED
    BY <1>2, <2>1
<1>5. Picked(h, K) = [k \in K |-> h[k]]
  BY <1>3, <1>4 DEF Picked
<1>6. h = [k \in K |-> h[k]]
  BY <1>1
<1> QED
  BY <1>1, <1>5, <1>6

\* Positions picked and positions left part the entries of a list.
LEMMA PickedParts ==
  ASSUME NEW h \in Seq(Entry), Distinct(h), NEW K \in SUBSET DOMAIN h,
         NEW kept, NEW gone, kept = Picked(h, K), gone = Picked(h, DOMAIN h \ K)
  PROVE  /\ kept \in Seq(Entry) /\ Distinct(kept) /\ gone \in Seq(Entry)
         /\ Entries(kept) = {h[i] : i \in K}
         /\ Entries(gone) = {h[i] : i \in DOMAIN h \ K}
         /\ Entries(h) = Entries(kept) \cup Entries(gone)
         /\ IdsOf(kept) \cap IdsOf(gone) = {}
<1>1. Entries(kept) = {h[i] : i \in K} /\ Entries(gone) = {h[i] : i \in DOMAIN h \ K}
  BY PickedFacts
<1>2. kept \in Seq(Entry) /\ Distinct(kept) /\ gone \in Seq(Entry)
  BY PickedFacts
<1>3. Entries(h) = Entries(kept) \cup Entries(gone)
  BY <1>1 DEF Entries
<1>4. \A i \in K, j \in DOMAIN h \ K : h[i].id # h[j].id
  BY DEF Distinct
<1>5. \A e \in Entries(kept), f \in Entries(gone) : e.id # f.id
  BY <1>1, <1>4
<1>6. IdsOf(kept) \cap IdsOf(gone) = {}
  BY <1>2, <1>5, Positions
<1> QED
  BY <1>1, <1>2, <1>3, <1>6

\* Without two entries of the same id, a set of entries is as large as that of their
\* positions.
LEMMA CountedOnce ==
  ASSUME NEW h \in Seq(Entry), Distinct(h), NEW K \in SUBSET DOMAIN h
  PROVE  /\ IsFiniteSet({h[i] : i \in K})
         /\ Cardinality({h[i] : i \in K}) = Cardinality(K)
         /\ Cardinality(K) \in Nat
<1> DEFINE S == {h[i] : i \in K}
           f == [i \in K |-> h[i]]
<1>1. IsFiniteSet(K) /\ Cardinality(K) \in Nat
  BY Positions, PositionsFinite
<1>2. f \in Surjection(K, S)
  BY DEF Surjection
<1>3. f \in Injection(K, S)
  BY DEF Injection, IsInjective, Distinct
<1>4. IsFiniteSet(S) /\ Cardinality(S) = Cardinality(K)
  BY <1>1, <1>2, <1>3, FS_Surjection
<1> QED
  BY <1>1, <1>4

\* The pinned and the unpinned entries of a list, counted.
LEMMA Counted ==
  ASSUME NEW h \in Seq(Entry), Distinct(h)
  PROVE  /\ IsFiniteSet(PinnedOf(h)) /\ IsFiniteSet(UnpinnedOf(h))
         /\ Cardinality(PinnedOf(h)) \in Nat /\ Cardinality(UnpinnedOf(h)) \in Nat
         /\ Cardinality(PinnedOf(h)) = Cardinality(Pins(h))
         /\ Cardinality(UnpinnedOf(h)) = Cardinality(Loose(h))
<1>1. PinnedOf(h) = {h[i] : i \in Pins(h)} /\ Pins(h) \in SUBSET DOMAIN h
  BY DEF PinnedOf, Pins, Entries
<1>2. UnpinnedOf(h) = {h[i] : i \in Loose(h)} /\ Loose(h) \in SUBSET DOMAIN h
  BY DEF UnpinnedOf, Loose, Entries
<1>3. /\ IsFiniteSet({h[i] : i \in Pins(h)})
      /\ Cardinality({h[i] : i \in Pins(h)}) = Cardinality(Pins(h))
      /\ Cardinality(Pins(h)) \in Nat
  BY <1>1, CountedOnce
<1>4. /\ IsFiniteSet({h[i] : i \in Loose(h)})
      /\ Cardinality({h[i] : i \in Loose(h)}) = Cardinality(Loose(h))
      /\ Cardinality(Loose(h)) \in Nat
  BY <1>2, CountedOnce
<1> QED
  BY <1>1, <1>2, <1>3, <1>4

\* A list with no more entries than a tidy one is tidy.
LEMMA FewerAreTidy ==
  ASSUME NEW h, Tidy(h), NEW g \in Seq(Entry), Distinct(g), Entries(g) \subseteq Entries(h)
  PROVE  Tidy(g)
<1>1. /\ IsFiniteSet(PinnedOf(h)) /\ IsFiniteSet(UnpinnedOf(h))
      /\ Cardinality(PinnedOf(h)) \in Nat /\ Cardinality(UnpinnedOf(h)) \in Nat
  BY Counted DEF Tidy
<1>2. PinnedOf(g) \in SUBSET PinnedOf(h) /\ UnpinnedOf(g) \in SUBSET UnpinnedOf(h)
  BY DEF PinnedOf, UnpinnedOf
<1>3. Cardinality(PinnedOf(g)) <= Cardinality(PinnedOf(h))
  BY <1>1, <1>2, FS_Subset
<1>4. Cardinality(UnpinnedOf(g)) <= Cardinality(UnpinnedOf(h))
  BY <1>1, <1>2, FS_Subset
<1>5. Cardinality(PinnedOf(g)) \in Nat /\ Cardinality(UnpinnedOf(g)) \in Nat
  BY Counted
<1> QED
  BY <1>1, <1>3, <1>4, <1>5, ClipboardAssumption DEF Tidy

\* A tidy list without some of its entries is tidy.
LEMMA PickedTidy ==
  ASSUME NEW h, Tidy(h), NEW K \in SUBSET DOMAIN h
  PROVE  Tidy(Picked(h, K)) /\ Entries(Picked(h, K)) \subseteq Entries(h)
<1>1. h \in Seq(Entry) /\ Distinct(h)
  BY DEF Tidy
<1>2. /\ Picked(h, K) \in Seq(Entry) /\ Distinct(Picked(h, K))
      /\ Entries(Picked(h, K)) = {h[i] : i \in K}
  BY <1>1, PickedFacts
<1>3. Entries(Picked(h, K)) \subseteq Entries(h)
  BY <1>2 DEF Entries
<1> QED
  BY <1>2, <1>3, FewerAreTidy

\* Trimming leaves at most MaxHistory unpinned entries, and all that are pinned.
LEMMA TrimFacts ==
  ASSUME NEW h \in Seq(Entry), Distinct(h), Cardinality(PinnedOf(h)) <= MaxPinned,
         NEW kept, kept = Picked(h, DOMAIN h \ TooOld(h))
  PROVE  Tidy(kept) /\ PinnedOf(kept) = PinnedOf(h)
<1> DEFINE L == Loose(h)
           K == DOMAIN h \ TooOld(h)
           Young == L \ TooOld(h)
<1>1. /\ L \in SUBSET DOMAIN h /\ L \in SUBSET (1..Len(h)) /\ Len(h) \in Nat
      /\ K \in SUBSET DOMAIN h /\ Young \in SUBSET DOMAIN h
  BY Positions DEF Loose
<1>2. MaxHistory \in Nat
  BY ClipboardAssumption
<1>3. kept \in Seq(Entry) /\ Distinct(kept) /\ Entries(kept) = {h[i] : i \in K}
  BY <1>1, PickedFacts
<1>4. UnpinnedOf(kept) = {h[i] : i \in Young}
  BY <1>1, <1>3 DEF UnpinnedOf, Loose
<1>5. PinnedOf(kept) = PinnedOf(h)
  BY <1>1, <1>3 DEF PinnedOf, TooOld, Loose, Entries
<1>6. Cardinality(Young) <= MaxHistory
  <2> DEFINE rank == [i \in Young |-> Rank(L, i)]
  <2>1. \A i \in Young : Rank(L, i) \in 1..MaxHistory
    <3> SUFFICES ASSUME NEW i \in Young PROVE Rank(L, i) \in 1..MaxHistory
      OBVIOUS
    <3>1. i \in L /\ ~(Rank(L, i) > MaxHistory)
      BY DEF TooOld
    <3>2. Rank(L, i) \in 1..Cardinality(L) /\ Cardinality(L) \in Nat
      BY <1>1, <3>1, RankType, PositionsFinite
    <3> QED
      BY <1>2, <3>1, <3>2
  <2>2. \A i, j \in L : Rank(L, i) = Rank(L, j) => i = j
    <3>1. \A i \in L : Nth(L, Rank(L, i)) = i
      BY <1>1, NthFacts
    <3> QED
      BY <3>1
  <2>3. rank \in Injection(Young, 1..MaxHistory)
    BY <2>1, <2>2 DEF Injection, IsInjective
  <2>4. IsFiniteSet(1..MaxHistory) /\ Cardinality(1..MaxHistory) = MaxHistory
    <3>1. /\ IsFiniteSet(1..MaxHistory)
          /\ Cardinality(1..MaxHistory) = IF 1 > MaxHistory THEN 0 ELSE MaxHistory - 1 + 1
      BY <1>2, FS_Interval
    <3> QED
      BY <1>2, <3>1
  <2>5. Cardinality(Young) <= Cardinality(1..MaxHistory)
    BY <2>3, <2>4, FS_Injection
  <2> QED
    BY <2>4, <2>5
<1>7. Cardinality(UnpinnedOf(kept)) <= MaxHistory
  <2>1. Cardinality({h[i] : i \in Young}) = Cardinality(Young)
    BY <1>1, CountedOnce
  <2> QED
    BY <1>4, <1>6, <2>1
<1> QED
  BY <1>3, <1>5, <1>7 DEF Tidy

\* An entry in front of a list.
LEMMA InFront ==
  ASSUME NEW e \in Entry, NEW h \in Seq(Entry), Distinct(h),
         \A f \in Entries(h) : f.id # e.id /\ f.data # e.data
  PROVE  /\ <<e>> \o h \in Seq(Entry) /\ Distinct(<<e>> \o h)
         /\ Entries(<<e>> \o h) = {e} \cup Entries(h)
<1> DEFINE g == <<e>> \o h
<1>1. /\ g \in Seq(Entry) /\ Len(g) = 1 + Len(h) /\ Len(h) \in Nat
      /\ g[1] = e /\ \A i \in 1..Len(h) : g[i + 1] = h[i]
  OBVIOUS
<1>2. DOMAIN g = 1..(Len(h) + 1) /\ DOMAIN h = 1..Len(h)
  BY <1>1
<1>3. \A i \in DOMAIN g : i = 1 \/ (i - 1 \in DOMAIN h /\ g[i] = h[i - 1])
  <2>1. \A i \in DOMAIN g : i = 1 \/ (i - 1 \in 1..Len(h) /\ (i - 1) + 1 = i)
    BY <1>1, <1>2
  <2> QED
    BY <1>1, <1>2, <2>1
<1>4. \A i \in DOMAIN h : i + 1 \in DOMAIN g /\ g[i + 1] = h[i]
  BY <1>1, <1>2
<1>5. 1 \in DOMAIN g /\ g[1] = e
  BY <1>1, <1>2
<1> HIDE DEF g
<1>6. Entries(g) = {e} \cup Entries(h)
  BY <1>3, <1>4, <1>5 DEF Entries
<1>7. \A j \in DOMAIN h : h[j].id # e.id /\ h[j].data # e.data
  BY DEF Entries
<1>8. Distinct(g)
  <2> SUFFICES ASSUME NEW i \in DOMAIN g, NEW j \in DOMAIN g,
                      g[i].id = g[j].id \/ g[i].data = g[j].data
               PROVE  i = j
    BY DEF Distinct
  <2>1. CASE i = 1 /\ j = 1
    BY <2>1
  <2>2. CASE i = 1 /\ j # 1
    BY <1>3, <1>5, <1>7, <2>2
  <2>3. CASE i # 1 /\ j = 1
    BY <1>3, <1>5, <1>7, <2>3
  <2>4. CASE i # 1 /\ j # 1
    <3>1. i - 1 = j - 1
      BY <1>3, <2>4 DEF Distinct
    <3> QED
      BY <1>2, <3>1
  <2> QED
    BY <2>1, <2>2, <2>3, <2>4
<1> QED
  BY <1>1, <1>6, <1>8 DEF g

\* A list without one of its entries.
LEMMA WithoutFacts ==
  ASSUME NEW h, Tidy(h), NEW e \in Entries(h)
  PROVE  /\ Tidy(Without(h, e.id))
         /\ Entries(Without(h, e.id)) = Entries(h) \ {e}
         /\ \A f \in Entries(Without(h, e.id)) : f.id # e.id /\ f.data # e.data
<1> DEFINE K == {i \in DOMAIN h : h[i].id # e.id}
<1>1. h \in Seq(Entry) /\ Distinct(h)
  BY DEF Tidy
<1>2. PICK n \in DOMAIN h : h[n] = e
  BY DEF Entries
<1>3. \A i \in DOMAIN h : i # n => h[i].id # e.id /\ h[i].data # e.data /\ h[i] # e
  BY <1>1, <1>2 DEF Distinct
<1>4. Entries(Picked(h, K)) = {h[i] : i \in K}
  BY <1>1, PickedFacts
<1>5. \A i \in K : i # n
  BY <1>2
<1>6. Entries(Picked(h, K)) = Entries(h) \ {e}
  BY <1>2, <1>3, <1>4, <1>5 DEF Entries
<1>7. \A f \in Entries(Picked(h, K)) : f.id # e.id /\ f.data # e.data
  BY <1>3, <1>4, <1>5
<1>8. Tidy(Picked(h, K))
  BY PickedTidy
<1>9. Without(h, e.id) = Picked(h, K)
  BY DEF Without
<1> QED
  BY <1>6, <1>7, <1>8, <1>9

\* An entry that moves to the front.
LEMMA MovedFacts ==
  ASSUME NEW h, Tidy(h), NEW e \in Entries(h)
  PROVE  /\ Tidy(<<e>> \o Without(h, e.id))
         /\ Entries(<<e>> \o Without(h, e.id)) = Entries(h)
<1> DEFINE g == Without(h, e.id)
<1>1. /\ Tidy(g) /\ Entries(g) = Entries(h) \ {e}
      /\ \A f \in Entries(g) : f.id # e.id /\ f.data # e.data
  BY WithoutFacts
<1>2. e \in Entry /\ g \in Seq(Entry) /\ Distinct(g)
  BY <1>1, Positions DEF Tidy
<1> HIDE DEF g
<1>3. /\ <<e>> \o g \in Seq(Entry) /\ Distinct(<<e>> \o g)
      /\ Entries(<<e>> \o g) = {e} \cup Entries(g)
  BY <1>1, <1>2, InFront
<1>4. Entries(<<e>> \o g) = Entries(h)
  BY <1>1, <1>3
<1>5. Tidy(<<e>> \o g)
  BY <1>3, <1>4, FewerAreTidy
<1> QED
  BY <1>4, <1>5 DEF g

\* An entry that is pinned or unpinned stays where it is and who it is.
LEMMA RepinnedFacts ==
  ASSUME Tidy(history), NEW e \in Entries(history), NEW p \in BOOLEAN
  PROVE  /\ Repinned(e, p) \in Seq(Entry) /\ Distinct(Repinned(e, p))
         /\ Entries(Repinned(e, p)) = (Entries(history) \ {e}) \cup {[e EXCEPT !.pinned = p]}
         /\ \A f \in Entries(history) \ {e} : f.id # e.id /\ f.data # e.data
<1> DEFINE h == history
           g == Repinned(e, p)
           c == [e EXCEPT !.pinned = p]
<1>1. h \in Seq(Entry) /\ Distinct(h)
  BY DEF Tidy
<1>2. Len(h) \in Nat /\ DOMAIN h = 1..Len(h) /\ \A i \in DOMAIN h : h[i] \in Entry
  BY <1>1
<1>3. PICK n \in DOMAIN h : h[n] = e
  BY DEF Entries
<1>4. c \in Entry /\ c.id = e.id /\ c.data = e.data /\ c.pinned = p
  BY <1>2, <1>3 DEF Entry
<1>5. \A i \in DOMAIN h : i # n => h[i].id # e.id /\ h[i].data # e.data /\ h[i] # e
  BY <1>1, <1>3 DEF Distinct
<1>6. g = [i \in DOMAIN h |-> IF h[i] = e THEN c ELSE h[i]]
  BY DEF Repinned
<1>7. /\ DOMAIN g = DOMAIN h /\ g[n] = c
      /\ \A i \in DOMAIN h : i # n => g[i] = h[i]
  BY <1>3, <1>5, <1>6
<1>8. g \in Seq(Entry)
  <2>1. g \in [1..Len(h) -> Entry]
    BY <1>2, <1>4, <1>6
  <2> QED
    BY <1>2, <2>1
<1> HIDE DEF g, c
<1>9. \A i \in DOMAIN g : g[i].id = h[i].id /\ g[i].data = h[i].data
  BY <1>3, <1>4, <1>7
<1>10. Distinct(g)
  BY <1>1, <1>7, <1>9 DEF Distinct
<1>11. Entries(g) = (Entries(h) \ {e}) \cup {c}
  BY <1>3, <1>5, <1>7 DEF Entries
<1>12. \A f \in Entries(h) \ {e} : f.id # e.id /\ f.data # e.data
  BY <1>3, <1>5 DEF Entries
<1> QED
  BY <1>8, <1>10, <1>11, <1>12 DEF g, c

\* The first id after a start is above all that are in use.
LEMMA FreshFacts ==
  ASSUME NEW h \in Seq(Entry)
  PROVE  FreshId(h) \in 1..(MaxId + 1) /\ \A id \in IdsOf(h) : id < FreshId(h)
<1>1. MaxId \in Nat /\ IdsOf(h) \in SUBSET (1..MaxId)
  BY Positions, ClipboardAssumption DEF Ids
<1>2. CASE h = <<>>
  BY <1>1, <1>2 DEF FreshId, IdsOf
<1>3. CASE h # <<>>
  <2> DEFINE m == CHOOSE m \in IdsOf(h) : \A id \in IdsOf(h) : id <= m
  <2>1. IdsOf(h) # {}
    <3>1. 1 \in DOMAIN h
      BY <1>3
    <3> QED
      BY <3>1 DEF IdsOf
  <2>2. \E x \in IdsOf(h) : \A id \in IdsOf(h) : id <= x
    BY <1>1, <2>1, Greatest
  <2>3. m \in IdsOf(h) /\ \A id \in IdsOf(h) : id <= m
    BY <2>2
  <2>4. FreshId(h) = 1 + m
    BY <1>3 DEF FreshId
  <2> HIDE DEF m
  <2> QED
    BY <1>1, <2>3, <2>4
<1> QED
  BY <1>2, <1>3

-----------------------------------------------------------------------------
(* Lists of writes.                                                        *)

Todo(s) == {s[k] : k \in DOMAIN s}

\* A blob is written first, if at all.
BlobFirst(s) == \A k \in DOMAIN s : k > 1 => s[k].what # "blob"

\* As the writes of an operation may be: the index is saved at the end, and only there.
Shape(s) ==
  /\ s \in Seq(Write) /\ s # <<>>
  /\ \A k \in DOMAIN s : s[k] = Save <=> k = Len(s)
  /\ BlobFirst(s)

\* Two lists of writes, one after the other.
LEMMA TodoJoin ==
  ASSUME NEW s \in Seq(Write), NEW t \in Seq(Write)
  PROVE  s \o t \in Seq(Write) /\ Todo(s \o t) = Todo(s) \cup Todo(t)
<1> DEFINE g == s \o t
<1>1. /\ g \in Seq(Write) /\ Len(g) = Len(s) + Len(t) /\ Len(s) \in Nat /\ Len(t) \in Nat
      /\ DOMAIN g = 1..Len(g) /\ DOMAIN s = 1..Len(s) /\ DOMAIN t = 1..Len(t)
  OBVIOUS
<1>2. /\ \A k \in DOMAIN s : g[k] = s[k]
      /\ \A k \in DOMAIN g : k > Len(s) => g[k] = t[k - Len(s)]
  BY <1>1
<1> HIDE DEF g
<1>3. \A k \in DOMAIN s : k \in DOMAIN g
  BY <1>1
<1>4. \A k \in DOMAIN t : k + Len(s) \in DOMAIN g /\ g[k + Len(s)] = t[k]
  BY <1>1, <1>2
<1>5. ASSUME NEW k \in DOMAIN g PROVE k \in DOMAIN s \/ (k > Len(s) /\ k - Len(s) \in DOMAIN t)
  <2>1. k \in Int /\ 1 <= k /\ k <= Len(s) + Len(t)
    BY <1>1
  <2> QED
    BY <1>1, <2>1
<1>6. Todo(g) = Todo(s) \cup Todo(t)
  BY <1>2, <1>3, <1>4, <1>5 DEF Todo
<1> QED
  BY <1>1, <1>6 DEF g

\* A list of writes begins with the next one.
LEMMA TodoTail ==
  ASSUME NEW s \in Seq(Write), s # <<>>
  PROVE  /\ Head(s) \in Write /\ Tail(s) \in Seq(Write)
         /\ Todo(s) = {Head(s)} \cup Todo(Tail(s))
<1> DEFINE t == Tail(s)
<1>1. /\ Len(s) \in Nat /\ Len(s) >= 1 /\ DOMAIN s = 1..Len(s)
      /\ t \in Seq(Write) /\ Len(t) = Len(s) - 1 /\ DOMAIN t = 1..(Len(s) - 1)
      /\ Head(s) = s[1] /\ s[1] \in Write
  OBVIOUS
<1>2. \A k \in DOMAIN t : t[k] = s[k + 1]
  BY <1>1
<1> HIDE DEF t
<1>3. \A k \in DOMAIN t : k + 1 \in DOMAIN s
  BY <1>1
<1>4. \A k \in DOMAIN s : k = 1 \/ (k - 1 \in DOMAIN t /\ t[k - 1] = s[k])
  <2> SUFFICES ASSUME NEW k \in DOMAIN s, k # 1
               PROVE  k - 1 \in DOMAIN t /\ t[k - 1] = s[k]
    OBVIOUS
  <2>1. k - 1 \in DOMAIN t /\ (k - 1) + 1 = k
    BY <1>1
  <2> QED
    BY <1>2, <2>1
<1>5. Todo(s) = {Head(s)} \cup Todo(t)
  BY <1>1, <1>2, <1>3, <1>4 DEF Todo
<1> QED
  BY <1>1, <1>5 DEF t

\* After a write that is not the last, the rest has the same shape and no blob.
LEMMA ShapeTail ==
  ASSUME NEW s, Shape(s), Head(s) # Save
  PROVE  Shape(Tail(s)) /\ \A w \in Todo(Tail(s)) : w.what # "blob"
<1> DEFINE t == Tail(s)
<1>1. /\ Len(s) \in Nat /\ Len(s) >= 1 /\ DOMAIN s = 1..Len(s)
      /\ t \in Seq(Write) /\ Len(t) = Len(s) - 1 /\ DOMAIN t = 1..(Len(s) - 1)
      /\ Head(s) = s[1] /\ s \in Seq(Write)
  BY DEF Shape
<1>2. \A k \in DOMAIN t : t[k] = s[k + 1] /\ k + 1 \in DOMAIN s /\ k + 1 > 1
  BY <1>1
<1>3. Len(s) # 1
  BY <1>1 DEF Shape
<1>4. t # <<>>
  BY <1>1, <1>3
<1> HIDE DEF t
<1>5. \A k \in DOMAIN t : t[k].what # "blob"
  BY <1>2 DEF Shape, BlobFirst
<1>6. \A k \in DOMAIN t : t[k] = Save <=> k = Len(t)
  <2> SUFFICES ASSUME NEW k \in DOMAIN t PROVE t[k] = Save <=> k = Len(t)
    OBVIOUS
  <2>1. s[k + 1] = Save <=> k + 1 = Len(s)
    BY <1>2 DEF Shape
  <2> QED
    BY <1>1, <1>2, <2>1
<1>7. Shape(t)
  BY <1>1, <1>4, <1>5, <1>6 DEF Shape, BlobFirst
<1> QED
  BY <1>5, <1>7 DEF Todo, t

\* The index is saved last: then there is nothing else to do.
LEMMA SaveIsLast ==
  ASSUME NEW s, Shape(s), Head(s) = Save
  PROVE  Todo(s) = {Save} /\ Len(s) = 1
<1>1. Len(s) \in Nat /\ Len(s) >= 1 /\ DOMAIN s = 1..Len(s) /\ Head(s) = s[1]
  BY DEF Shape
<1>2. Len(s) = 1
  BY <1>1 DEF Shape
<1> QED
  BY <1>1, <1>2 DEF Todo

\* The next write is a blob, or there is none to write.
LEMMA BlobNext ==
  ASSUME NEW s, Shape(s), NEW w \in Todo(s), w.what = "blob"
  PROVE  w = Head(s)
<1>1. PICK k \in DOMAIN s : s[k] = w
  BY DEF Todo
<1>2. Len(s) \in Nat /\ DOMAIN s = 1..Len(s) /\ Head(s) = s[1]
  BY DEF Shape
<1>3. k = 1
  BY <1>1, <1>2 DEF Shape, BlobFirst
<1> QED
  BY <1>1, <1>2, <1>3

\* Writes in front of a list that has the shape.
LEMMA ShapeJoin ==
  ASSUME NEW s \in Seq(Write), Save \notin Todo(s), BlobFirst(s),
         NEW t, Shape(t), \A w \in Todo(t) : w.what # "blob"
  PROVE  Shape(s \o t)
<1> DEFINE g == s \o t
<1>1. /\ t \in Seq(Write) /\ Len(s) \in Nat /\ Len(t) \in Nat /\ Len(t) >= 1
      /\ DOMAIN s = 1..Len(s) /\ DOMAIN t = 1..Len(t)
  BY DEF Shape
<1>2. g \in Seq(Write) /\ Len(g) = Len(s) + Len(t) /\ DOMAIN g = 1..(Len(s) + Len(t))
  BY <1>1
<1>3. /\ \A k \in DOMAIN s : g[k] = s[k]
      /\ \A k \in DOMAIN g : k > Len(s) => g[k] = t[k - Len(s)]
  BY <1>1
<1>4. g # <<>>
  BY <1>1, <1>2
<1> HIDE DEF g
<1>5. ASSUME NEW k \in DOMAIN g PROVE k \in DOMAIN s \/ (k > Len(s) /\ k - Len(s) \in DOMAIN t)
  <2>1. k \in Int /\ 1 <= k /\ k <= Len(s) + Len(t)
    BY <1>2
  <2> QED
    BY <1>1, <2>1
<1>6. \A k \in DOMAIN g : g[k] = Save <=> k = Len(g)
  <2> SUFFICES ASSUME NEW k \in DOMAIN g PROVE g[k] = Save <=> k = Len(g)
    OBVIOUS
  <2>1. CASE k \in DOMAIN s
    BY <1>1, <1>2, <1>3, <2>1 DEF Todo
  <2>2. CASE k > Len(s) /\ k - Len(s) \in DOMAIN t
    <3>1. t[k - Len(s)] = Save <=> k - Len(s) = Len(t)
      BY <2>2 DEF Shape
    <3>2. k \in Int
      BY <1>2
    <3>3. k - Len(s) = Len(t) <=> k = Len(g)
      BY <1>1, <1>2, <3>2
    <3> QED
      BY <1>3, <2>2, <3>1, <3>3
  <2> QED
    BY <1>5, <2>1, <2>2
<1>7. BlobFirst(g)
  <2> SUFFICES ASSUME NEW k \in DOMAIN g, k > 1 PROVE g[k].what # "blob"
    BY DEF BlobFirst
  <2>1. CASE k \in DOMAIN s
    BY <1>3, <2>1 DEF BlobFirst
  <2>2. CASE k > Len(s) /\ k - Len(s) \in DOMAIN t
    BY <1>3, <2>2 DEF Todo
  <2> QED
    BY <1>5, <2>1, <2>2
<1> QED
  BY <1>2, <1>4, <1>6, <1>7 DEF Shape, g

\* The writes that remove the files of a list of entries.
LEMMA UnlinksFacts ==
  ASSUME NEW h \in Seq(Entry)
  PROVE  /\ Unlinks(h) \in Seq(Write)
         /\ Todo(Unlinks(h)) = {Do("unlinkBlob", id) : id \in IdsOf(h)}
                                 \cup {Do("unlinkThumb", id) : id \in IdsOf(h)}
<1> DEFINE n == Len(h)
           u == Unlinks(h)
<1>1. n \in Nat /\ DOMAIN h = 1..n /\ \A i \in 1..n : h[i] \in Entry /\ h[i].id \in Ids
  BY Positions DEF Entry
<1>2. u = [k \in 1..(2 * n) |-> IF k % 2 = 1 THEN Do("unlinkBlob", h[(k + 1) \div 2].id)
                                          ELSE Do("unlinkThumb", h[k \div 2].id)]
  BY DEF Unlinks
<1>3. \A k \in 1..(2 * n) : /\ k % 2 = 1 => (k + 1) \div 2 \in 1..n
                            /\ k % 2 # 1 => k \div 2 \in 1..n
  BY <1>1
<1>4. \A i \in 1..n : /\ 2 * i \in 1..(2 * n) /\ (2 * i) % 2 # 1 /\ (2 * i) \div 2 = i
                      /\ 2 * i - 1 \in 1..(2 * n) /\ (2 * i - 1) % 2 = 1
                      /\ ((2 * i - 1) + 1) \div 2 = i
  BY <1>1
<1>5. \A id \in Ids : Do("unlinkBlob", id) \in Write /\ Do("unlinkThumb", id) \in Write
  BY DEF Do, Write
<1>6. \A k \in 1..(2 * n) : /\ u[k] \in Write
                            /\ \E i \in 1..n : \/ u[k] = Do("unlinkBlob", h[i].id)
                                               \/ u[k] = Do("unlinkThumb", h[i].id)
  BY <1>1, <1>2, <1>3, <1>5
<1>7. \A i \in 1..n : /\ u[2 * i] = Do("unlinkThumb", h[i].id)
                      /\ u[2 * i - 1] = Do("unlinkBlob", h[i].id)
  BY <1>2, <1>4
<1>8. u \in Seq(Write) /\ DOMAIN u = 1..(2 * n)
  BY <1>1, <1>2, <1>6
<1> HIDE DEF u
<1>9. Todo(u) = {Do("unlinkBlob", h[i].id) : i \in 1..n} \cup {Do("unlinkThumb", h[i].id) : i \in 1..n}
  <2>1. \A k \in DOMAIN u : \E i \in 1..n : \/ u[k] = Do("unlinkBlob", h[i].id)
                                           \/ u[k] = Do("unlinkThumb", h[i].id)
    BY <1>6, <1>8
  <2>2. \A i \in 1..n : \E k \in DOMAIN u : u[k] = Do("unlinkBlob", h[i].id)
    BY <1>4, <1>7, <1>8
  <2>3. \A i \in 1..n : \E k \in DOMAIN u : u[k] = Do("unlinkThumb", h[i].id)
    BY <1>4, <1>7, <1>8
  <2> DEFINE A == {Do("unlinkBlob", h[i].id) : i \in 1..n}
             B == {Do("unlinkThumb", h[i].id) : i \in 1..n}
  <2>4. Todo(u) \subseteq A \cup B
    BY <2>1 DEF Todo
  <2>5. A \subseteq Todo(u)
    BY <2>2 DEF Todo
  <2>6. B \subseteq Todo(u)
    BY <2>3 DEF Todo
  <2> HIDE DEF A, B
  <2>7. Todo(u) = A \cup B
    BY <2>4, <2>5, <2>6
  <2> QED
    BY <2>7 DEF A, B
<1>10. Todo(u) = {Do("unlinkBlob", id) : id \in IdsOf(h)}
                   \cup {Do("unlinkThumb", id) : id \in IdsOf(h)}
  BY <1>1, <1>9 DEF IdsOf
<1> QED
  BY <1>8, <1>10 DEF u

-----------------------------------------------------------------------------
(* The inductive invariant.                                                *)

Lists == Tidy(history) /\ Tidy(index)

\* What an operation under way has still to do, and what it will have done.
JobShape ==
  job # None =>
    /\ Shape(job.steps) /\ Tidy(job.new)
    /\ \A id \in IdsOf(job.new) : id < nextId
    /\ Memory \in Todo(job.steps) \/ history = job.new
    /\ \A id \in Ids : Do("blob", id) \in Todo(job.steps) => id \notin IdsOf(history)
    /\ \A e \in Entries(job.new) : e.data = job.pin => e.pinned

\* Every entry of the operation has its file or will get it, and will not lose it.
Covered ==
  job # None =>
    \A id \in IdsOf(job.new) :
      /\ blobs[id] # None \/ Do("blob", id) \in Todo(job.steps)
      /\ Do("unlinkBlob", id) \notin Todo(job.steps)

\* Without failures, files that are not those of an entry of the operation will go.
Swept ==
  calm /\ job # None =>
    /\ \A id \in Ids :
         blobs[id] # None => id \in IdsOf(job.new) \/ Do("unlinkBlob", id) \in Todo(job.steps)
    /\ \A id \in Ids :
         id \in thumbs => id \in IdsOf(job.new) \/ Do("unlinkThumb", id) \in Todo(job.steps)
    /\ \A id \in Ids : Do("thumb", id) \in Todo(job.steps) => id \in IdsOf(job.new)

\* Between two operations, and until the blob of a new content is written: without it
\* the operation ends and has changed nothing.
Quiet == job = None \/ Next1.what = "blob"

AtRest ==
  Quiet => /\ \A id \in IdsOf(history) : blobs[id] # None
           /\ ~unsaved => Opened = history
           /\ pushing = {} /\ ~untold => shown = Snapshot(history)

\* A promised content has its entry in the index and in memory, and keeps it.
PromisesKept ==
  \A d \in promised : \E e \in Entries(index) :
    /\ e.data = d /\ e.pinned /\ blobs[e.id] = d
    /\ e \in Entries(history)
    /\ job # None => e \in Entries(job.new)

IInv ==
  /\ TypeOK /\ NothingLeaks
  /\ Lists /\ JobShape /\ Covered /\ Swept /\ AtRest /\ PromisesKept

-----------------------------------------------------------------------------
(* Steps.                                                                  *)

\* Everything a step of the program may be.
LEMMA Cases ==
  ASSUME Next
  PROVE  \/ \E d \in Contents : AddKnown(Runner, d) \/ AddNew(Runner, d)
         \/ \E c \in Clients : Clear(c)
         \/ \E c \in Clients, e \in Entries(history) :
              Delete(c, e) \/ Pin(c, e) \/ Unpin(c, e) \/ Answer(c, e)
         \/ \E w \in Workers : Push(w)
         \/ InMemory \/ WriteBlob \/ WriteBlobFails \/ WriteThumb \/ Unlink \/ Saved \/ SaveFails
         \/ Crash
BY DEF Next, Capture, Call, Step

\* What the writes are, and that they differ.
LEMMA Writes ==
  /\ \A id \in Ids : /\ Do("blob", id) \in Write /\ Do("thumb", id) \in Write
                     /\ Do("unlinkBlob", id) \in Write /\ Do("unlinkThumb", id) \in Write
  /\ Memory \in Write /\ Save \in Write
  /\ \A what, id : Do(what, id).what = what /\ Do(what, id).id = id
  /\ \A w \in Write : \/ w = Memory \/ w = Save
                      \/ w.id \in Ids /\ \/ w = Do("blob", w.id) \/ w = Do("thumb", w.id)
                                         \/ w = Do("unlinkBlob", w.id)
                                         \/ w = Do("unlinkThumb", w.id)
BY DEF Do, Write, Memory, Save

\* What is true of the store depends on these variables.
LEMMA Unchanged ==
  ASSUME UNCHANGED <<history, disk>>
  PROVE  Opened' = Opened /\ Snapshot(history)' = Snapshot(history)
BY DEF Opened, Snapshot, disk

\* An operation that takes the mutex.  Its entries are those of the history, or get
\* their file; what it drops loses its files; it drops no promised entry.
LEMMA Begins ==
  ASSUME IInv, calm' = calm, UNCHANGED <<history, disk, pushing, shown, unsaved, untold, crashes>>,
         NEW w, Idle(w), w \in Workers,
         NEW steps, Shape(steps), Memory \in Todo(steps),
         NEW new, Tidy(new), NEW pin \in Contents \cup {None}, Work(w, steps, new, pin),
         nextId' \in 1..(MaxId + 1), nextId <= nextId', \A id \in IdsOf(new) : id < nextId',
         promised' \subseteq promised,
         \A id \in IdsOf(new) :
           /\ id \in IdsOf(history) \/ Do("blob", id) \in Todo(steps)
           /\ Do("unlinkBlob", id) \notin Todo(steps),
         \A id \in IdsOf(history) \ IdsOf(new) :
           Do("unlinkBlob", id) \in Todo(steps) /\ Do("unlinkThumb", id) \in Todo(steps),
         \A id \in Ids : /\ Do("thumb", id) \in Todo(steps) => id \in IdsOf(new)
                         /\ Do("blob", id) \in Todo(steps) => id \notin IdsOf(history),
         \A e \in Entries(history) : e.pinned /\ e.data \in promised' => e \in Entries(new),
         \A e \in Entries(new) : e.data = pin => e.pinned
  PROVE  IInv'
<1>1. TypeOK /\ NothingLeaks /\ Lists /\ AtRest /\ PromisesKept
  BY DEF IInv
<1>2. job = None /\ w \notin pushing /\ Quiet
  BY DEF Idle, Quiet
<1>3. job' = [by |-> w, steps |-> steps, new |-> new, pin |-> pin]
  BY DEF Work
<1>4. job' \in Job /\ job' # None
  BY <1>3, NoJobAssumption DEF Job, Shape, Tidy
<1>5. job'.by = w /\ job'.steps = steps /\ job'.new = new /\ job'.pin = pin
  BY <1>3
<1>6. history \in Seq(Entry) /\ IdsOf(history) \subseteq Ids
  BY <1>1, Positions DEF TypeOK
<1>7. TypeOK'
  <2>1. job'.by \notin pushing' /\ job'.steps # <<>>
    BY <1>2, <1>5 DEF Shape
  <2>2. nextId \in 1..(MaxId + 1) /\ \A i \in DOMAIN history : history[i].id < nextId
    BY <1>1 DEF TypeOK
  <2>3. \A i \in DOMAIN history : history[i].id \in Int
    <3>1. \A i \in DOMAIN history : history[i] \in Entry
      BY <1>6, Positions
    <3> QED
      BY <3>1 DEF Ids, Entry
  <2>4. \A i \in DOMAIN history' : history'[i].id < nextId'
    BY <2>2, <2>3, ClipboardAssumption
  <2> QED
    BY <1>1, <1>4, <2>1, <2>4 DEF TypeOK, disk
<1>8. NothingLeaks'
  BY <1>4 DEF NothingLeaks
<1>9. Lists'
  BY <1>1 DEF Lists, disk, Tidy, Distinct, PinnedOf, UnpinnedOf, Entries
<1>10. JobShape'
  BY <1>5, <1>6 DEF JobShape
<1>11. Covered'
  <2>1. \A id \in IdsOf(history) : blobs[id] # None
    BY <1>1, <1>2 DEF AtRest
  <2> QED
    BY <1>5, <2>1 DEF Covered, disk
<1>12. Swept'
  <2>1. calm => /\ \A id \in Ids : blobs[id] # None => id \in IdsOf(history)
                /\ \A id \in Ids : id \in thumbs => id \in IdsOf(history)
    BY <1>1, <1>2 DEF NothingLeaks
  <2> QED
    BY <1>5, <2>1 DEF Swept, disk
<1>13. AtRest'
  <2>1. Opened' = Opened /\ Snapshot(history)' = Snapshot(history)
    BY Unchanged
  <2> QED
    BY <1>1, <1>2, <2>1 DEF AtRest, disk
<1>14. PromisesKept'
  BY <1>1, <1>2, <1>5 DEF PromisesKept, disk
<1> QED
  BY <1>7, <1>8, <1>9, <1>10, <1>11, <1>12, <1>13, <1>14 DEF IInv

\* The writes at the end of most operations, and of Delete.
LEMMA Endings ==
  /\ Shape(<<Memory, Save>>) /\ Todo(<<Memory, Save>>) = {Memory, Save}
  /\ Shape(<<Save>>) /\ Todo(<<Save>>) = {Save}
  /\ <<Memory>> \in Seq(Write) /\ Todo(<<Memory>>) = {Memory}
<1>1. Memory \in Write /\ Save \in Write /\ Memory # Save
      /\ Memory.what # "blob" /\ Save.what # "blob"
  BY DEF Memory, Save, Do, Write
<1>2. <<Memory, Save>> \in Seq(Write) /\ <<Save>> \in Seq(Write) /\ <<Memory>> \in Seq(Write)
  BY <1>1
<1>3. Todo(<<Memory, Save>>) = {Memory, Save} /\ Todo(<<Save>>) = {Save} /\ Todo(<<Memory>>) = {Memory}
  BY DEF Todo
<1>4. Shape(<<Memory, Save>>) /\ Shape(<<Save>>)
  BY <1>1, <1>2 DEF Shape, BlobFirst
<1> QED
  BY <1>2, <1>3, <1>4

\* The writes of an operation that first writes some files, then removes those of some
\* entries, and then changes the entries in memory and in the index.
LEMMA Plan ==
  ASSUME NEW first \in Seq(Write), Save \notin Todo(first), BlobFirst(first),
         NEW gone \in Seq(Entry),
         NEW steps, steps = first \o Unlinks(gone) \o <<Memory, Save>>
  PROVE  Shape(steps) /\ Todo(steps) = Todo(first) \cup Todo(Unlinks(gone)) \cup {Memory, Save}
<1> DEFINE u == Unlinks(gone)
           a == first \o u
           end == <<Memory, Save>>
<1>1. /\ u \in Seq(Write)
      /\ Todo(u) = {Do("unlinkBlob", id) : id \in IdsOf(gone)}
                     \cup {Do("unlinkThumb", id) : id \in IdsOf(gone)}
  BY UnlinksFacts
<1>2. IdsOf(gone) \subseteq Ids
  BY Positions
<1>3. Save \notin Todo(u) /\ \A w \in Todo(u) : w.what # "blob"
  <2>1. \A w \in Todo(u) : w.what = "unlinkBlob" \/ w.what = "unlinkThumb"
    BY <1>1 DEF Do
  <2>2. Save.what = "save"
    BY DEF Save, Do
  <2> QED
    BY <2>1, <2>2
<1> HIDE DEF u
<1>4. a \in Seq(Write) /\ Todo(a) = Todo(first) \cup Todo(u)
  BY <1>1, TodoJoin
<1>5. BlobFirst(a)
  <2>1. /\ Len(first) \in Nat /\ Len(u) \in Nat /\ DOMAIN a = 1..(Len(first) + Len(u))
        /\ DOMAIN first = 1..Len(first) /\ DOMAIN u = 1..Len(u)
        /\ \A k \in DOMAIN first : a[k] = first[k]
        /\ \A k \in DOMAIN a : k > Len(first) => a[k] = u[k - Len(first)]
    BY <1>1
  <2> HIDE DEF a
  <2> SUFFICES ASSUME NEW k \in DOMAIN a, k > 1 PROVE a[k].what # "blob"
    BY DEF BlobFirst
  <2>2. CASE k <= Len(first)
    BY <2>1, <2>2 DEF BlobFirst
  <2>3. CASE k > Len(first)
    <3>1. k - Len(first) \in DOMAIN u
      BY <2>1, <2>3
    <3> QED
      BY <1>3, <2>1, <2>3, <3>1 DEF Todo
  <2> QED
    BY <2>1, <2>2, <2>3
<1>6. Save \notin Todo(a)
  BY <1>3, <1>4
<1>7. Shape(end) /\ Todo(end) = {Memory, Save} /\ \A w \in Todo(end) : w.what # "blob"
  BY Endings DEF Memory, Save, Do
<1> HIDE DEF a, end
<1>8. steps = a \o end
  BY DEF a, u, end
<1>9. Shape(steps)
  BY <1>4, <1>5, <1>6, <1>7, <1>8, ShapeJoin
<1>10. Todo(steps) = Todo(first) \cup Todo(u) \cup {Memory, Save}
  BY <1>4, <1>7, <1>8, TodoJoin DEF Shape
<1> QED
  BY <1>9, <1>10 DEF u

\* Which of the files' writes are among them.
LEMMA FileWrites ==
  ASSUME NEW gone \in Seq(Entry), NEW id \in Ids
  PROVE  /\ Do("unlinkBlob", id) \in Todo(Unlinks(gone)) <=> id \in IdsOf(gone)
         /\ Do("unlinkThumb", id) \in Todo(Unlinks(gone)) <=> id \in IdsOf(gone)
         /\ Do("blob", id) \notin Todo(Unlinks(gone)) /\ Do("thumb", id) \notin Todo(Unlinks(gone))
         /\ {Do("blob", id), Do("thumb", id), Do("unlinkBlob", id), Do("unlinkThumb", id)}
              \cap {Memory, Save} = {}
<1>1. Todo(Unlinks(gone)) = {Do("unlinkBlob", i) : i \in IdsOf(gone)}
                              \cup {Do("unlinkThumb", i) : i \in IdsOf(gone)}
  BY UnlinksFacts
<1>2. {Do("blob", id), Do("thumb", id), Do("unlinkBlob", id), Do("unlinkThumb", id)}
        \cap {Memory, Save} = {}
  BY DEF Do, Memory, Save
<1>3. /\ Do("unlinkBlob", id) \in Todo(Unlinks(gone)) <=> id \in IdsOf(gone)
      /\ Do("unlinkThumb", id) \in Todo(Unlinks(gone)) <=> id \in IdsOf(gone)
      /\ Do("blob", id) \notin Todo(Unlinks(gone)) /\ Do("thumb", id) \notin Todo(Unlinks(gone))
  BY <1>1 DEF Do
<1> QED
  BY <1>2, <1>3

\* An operation that only changes the entries.
LEMMA PlainPlan ==
  ASSUME NEW steps, steps = <<Memory, Save>>
  PROVE  /\ Shape(steps) /\ Memory \in Todo(steps)
         /\ \A id \in Ids : /\ Do("unlinkBlob", id) \notin Todo(steps)
                            /\ Do("blob", id) \notin Todo(steps)
                            /\ Do("thumb", id) \notin Todo(steps)
BY Endings DEF Do, Memory, Save

-----------------------------------------------------------------------------
(* The operations begin.                                                   *)

\* What holds when an operation takes the mutex.
LEMMA Beginning ==
  ASSUME IInv, NEW w, Idle(w)
  PROVE  /\ Tidy(history) /\ history \in Seq(Entry) /\ Distinct(history) /\ job = None
         /\ nextId \in 1..(MaxId + 1) /\ MaxId \in Nat
         /\ \A id \in IdsOf(history) : id < nextId /\ id \in Ids
         /\ IdsOf(history) = {e.id : e \in Entries(history)}
         /\ \A e \in Entries(history) : e \in Entry /\ e.data # None
<1>1. Tidy(history) /\ history \in Seq(Entry) /\ Distinct(history)
  BY DEF IInv, Lists, Tidy
<1>2. nextId \in 1..(MaxId + 1) /\ \A id \in IdsOf(history) : id < nextId
  BY DEF IInv, TypeOK, IdsOf
<1>3. /\ IdsOf(history) = {e.id : e \in Entries(history)} /\ IdsOf(history) \subseteq Ids
      /\ Entries(history) \subseteq Entry
  BY <1>1, Positions
<1>4. \A e \in Entry : e.data # None
  BY ClipboardAssumption DEF Entry
<1> QED
  BY <1>1, <1>2, <1>3, <1>4, ClipboardAssumption DEF Idle

\* A known content moves to the front.
LEMMA AddKnownStep ==
  ASSUME IInv, calm' = calm, NEW d \in Contents, AddKnown(Runner, d)
  PROVE  IInv'
<1>1. Idle(Runner) /\ Runner \in Workers
  BY DEF AddKnown, Workers
<1>2. PICK e \in Entries(history) :
        Work(Runner, <<Memory, Save>>, <<e>> \o Without(history, e.id), None)
  BY DEF AddKnown
<1> DEFINE new == <<e>> \o Without(history, e.id)
           steps == <<Memory, Save>>
<1>3. /\ Tidy(history) /\ nextId \in 1..(MaxId + 1)
      /\ \A id \in IdsOf(history) : id < nextId /\ id \in Ids
      /\ \A f \in Entries(history) : f.data # None
  BY <1>1, Beginning
<1>4. Tidy(new) /\ Entries(new) = Entries(history)
  BY <1>3, MovedFacts
<1> HIDE DEF new
<1>5. IdsOf(new) = IdsOf(history)
  <2>1. new \in Seq(Entry) /\ history \in Seq(Entry)
    BY <1>3, <1>4 DEF Tidy
  <2> QED
    BY <1>4, <2>1, Positions
<1>6. /\ Shape(steps) /\ Memory \in Todo(steps)
      /\ \A id \in Ids : /\ Do("unlinkBlob", id) \notin Todo(steps)
                         /\ Do("blob", id) \notin Todo(steps)
                         /\ Do("thumb", id) \notin Todo(steps)
  BY PlainPlan
<1> HIDE DEF steps
<1>7. /\ UNCHANGED <<history, disk, pushing, shown, unsaved, untold, crashes>>
      /\ nextId' = nextId /\ promised' = promised
  BY DEF AddKnown, ghosts
<1>8. Work(Runner, steps, new, None)
  BY <1>2 DEF new, steps
<1>9. nextId' \in 1..(MaxId + 1) /\ nextId <= nextId' /\ \A id \in IdsOf(new) : id < nextId'
  BY <1>3, <1>5, <1>7
<1>10. \A id \in IdsOf(new) : id \in IdsOf(history) /\ Do("unlinkBlob", id) \notin Todo(steps)
  BY <1>3, <1>5, <1>6
<1>11. \A f \in Entries(new) : f.data = None => f.pinned
  BY <1>3, <1>4
<1> QED
  BY <1>1, <1>4, <1>5, <1>6, <1>7, <1>8, <1>9, <1>10, <1>11, Begins

\* The writes of Delete, which forgets the entry before it removes its files.
LEMMA DeletePlan ==
  ASSUME NEW e \in Entry, NEW steps, steps = <<Memory>> \o Unlinks(<<e>>) \o <<Save>>
  PROVE  /\ Shape(steps) /\ Memory \in Todo(steps)
         /\ \A id \in Ids :
              /\ Do("unlinkBlob", id) \in Todo(steps) <=> id = e.id
              /\ Do("unlinkThumb", id) \in Todo(steps) <=> id = e.id
              /\ Do("blob", id) \notin Todo(steps) /\ Do("thumb", id) \notin Todo(steps)
<1> DEFINE u == Unlinks(<<e>>)
           a == <<Memory>> \o u
<1>1. <<e>> \in Seq(Entry) /\ IdsOf(<<e>>) = {e.id} /\ e.id \in Ids
  BY DEF IdsOf, Entry
<1>2. u \in Seq(Write) /\ Todo(u) = {Do("unlinkBlob", e.id), Do("unlinkThumb", e.id)}
  <2>1. /\ u \in Seq(Write)
        /\ Todo(u) = {Do("unlinkBlob", id) : id \in IdsOf(<<e>>)}
                       \cup {Do("unlinkThumb", id) : id \in IdsOf(<<e>>)}
    BY <1>1, UnlinksFacts
  <2> QED
    BY <1>1, <2>1
<1> HIDE DEF u
<1>3. a \in Seq(Write) /\ Todo(a) = {Memory} \cup Todo(u)
  BY <1>2, Endings, TodoJoin
<1>4. \A w \in Todo(a) : w.what # "blob" /\ w # Save
  BY <1>2, <1>3 DEF Do, Memory, Save
<1>5. BlobFirst(a)
  BY <1>4 DEF BlobFirst, Todo
<1> HIDE DEF a
<1>6. Shape(<<Save>>) /\ Todo(<<Save>>) = {Save} /\ \A w \in Todo(<<Save>>) : w.what # "blob"
  BY Endings DEF Save, Do
<1>7. steps = a \o <<Save>>
  BY DEF a, u
<1>8. Shape(steps)
  BY <1>3, <1>4, <1>5, <1>6, <1>7, ShapeJoin
<1>9. Todo(steps) = {Memory, Do("unlinkBlob", e.id), Do("unlinkThumb", e.id), Save}
  <2>1. Todo(steps) = Todo(a) \cup Todo(<<Save>>)
    BY <1>3, <1>6, <1>7, TodoJoin DEF Shape
  <2> QED
    BY <1>2, <1>3, <1>6, <2>1
<1> QED
  BY <1>8, <1>9 DEF Do, Memory, Save

\* An entry is deleted.
LEMMA DeleteStep ==
  ASSUME IInv, calm' = calm, NEW c \in Clients, NEW e \in Entries(history), Delete(c, e)
  PROVE  IInv'
<1> DEFINE new == Without(history, e.id)
           steps == <<Memory>> \o Unlinks(<<e>>) \o <<Save>>
<1>1. Idle(c) /\ c \in Workers /\ Work(c, steps, new, None)
  BY DEF Delete, Workers
<1>2. /\ UNCHANGED <<history, disk, pushing, shown, unsaved, untold, crashes>>
      /\ nextId' = nextId /\ promised' = promised \ {e.data}
  BY DEF Delete
<1>3. /\ Tidy(history) /\ history \in Seq(Entry) /\ nextId \in 1..(MaxId + 1)
      /\ \A id \in IdsOf(history) : id < nextId /\ id \in Ids
      /\ \A f \in Entries(history) : f \in Entry /\ f.data # None
      /\ IdsOf(history) = {f.id : f \in Entries(history)}
  BY <1>1, Beginning
<1>4. /\ Tidy(new) /\ Entries(new) = Entries(history) \ {e}
      /\ \A f \in Entries(new) : f.id # e.id /\ f.data # e.data
  BY <1>3, WithoutFacts
<1>5. /\ Shape(steps) /\ Memory \in Todo(steps)
      /\ \A id \in Ids :
           /\ Do("unlinkBlob", id) \in Todo(steps) <=> id = e.id
           /\ Do("unlinkThumb", id) \in Todo(steps) <=> id = e.id
           /\ Do("blob", id) \notin Todo(steps) /\ Do("thumb", id) \notin Todo(steps)
  BY <1>3, DeletePlan
<1> HIDE DEF new, steps
<1>6. IdsOf(new) = {f.id : f \in Entries(new)}
  BY <1>4, Positions DEF Tidy
<1>7. IdsOf(new) = IdsOf(history) \ {e.id}
  BY <1>3, <1>4, <1>6
<1>8. \A id \in IdsOf(new) : id \in IdsOf(history) /\ Do("unlinkBlob", id) \notin Todo(steps)
  BY <1>3, <1>5, <1>7
<1>9. \A id \in IdsOf(history) \ IdsOf(new) :
        Do("unlinkBlob", id) \in Todo(steps) /\ Do("unlinkThumb", id) \in Todo(steps)
  BY <1>3, <1>5, <1>7
<1>10. \A f \in Entries(history) : f.pinned /\ f.data \in promised' => f \in Entries(new)
  BY <1>2, <1>4
<1>11. \A f \in Entries(new) : f.data = None => f.pinned
  BY <1>3, <1>4
<1>12. /\ nextId' \in 1..(MaxId + 1) /\ nextId <= nextId' /\ \A id \in IdsOf(new) : id < nextId'
       /\ promised' \subseteq promised
  BY <1>2, <1>3, <1>7
<1> QED
  BY <1>1, <1>2, <1>4, <1>5, <1>8, <1>9, <1>10, <1>11, <1>12, Begins

\* The history is cleared.
LEMMA ClearStep ==
  ASSUME IInv, calm' = calm, NEW c \in Clients, Clear(c)
  PROVE  IInv'
<1> DEFINE new == Picked(history, Pins(history))
           gone == Picked(history, Loose(history))
           steps == Unlinks(gone) \o <<Memory, Save>>
<1>1. Idle(c) /\ c \in Workers /\ Work(c, steps, new, None)
  BY DEF Clear, Workers
<1>2. /\ UNCHANGED <<history, disk, pushing, shown, unsaved, untold, crashes>>
      /\ nextId' = nextId /\ promised' = promised
  BY DEF Clear, ghosts
<1>3. /\ Tidy(history) /\ history \in Seq(Entry) /\ Distinct(history) /\ nextId \in 1..(MaxId + 1)
      /\ \A id \in IdsOf(history) : id < nextId /\ id \in Ids
      /\ \A f \in Entries(history) : f \in Entry /\ f.data # None
      /\ IdsOf(history) = {f.id : f \in Entries(history)}
  BY <1>1, Beginning
<1>4. Pins(history) \in SUBSET DOMAIN history /\ Loose(history) = DOMAIN history \ Pins(history)
  BY DEF Pins, Loose
<1>5. /\ gone \in Seq(Entry) /\ Entries(new) = {history[i] : i \in Pins(history)}
      /\ Entries(gone) = {history[i] : i \in Loose(history)}
      /\ Entries(history) = Entries(new) \cup Entries(gone)
      /\ IdsOf(new) \cap IdsOf(gone) = {}
  <2>1. gone = Picked(history, DOMAIN history \ Pins(history)) /\ new = Picked(history, Pins(history))
    BY <1>4
  <2> HIDE DEF gone, new
  <2>2. /\ gone \in Seq(Entry) /\ Entries(new) = {history[i] : i \in Pins(history)}
        /\ Entries(gone) = {history[i] : i \in DOMAIN history \ Pins(history)}
        /\ Entries(history) = Entries(new) \cup Entries(gone)
        /\ IdsOf(new) \cap IdsOf(gone) = {}
    BY <1>3, <1>4, <2>1, PickedParts
  <2> QED
    BY <1>4, <2>2
<1>6. Tidy(new)
  BY <1>3, <1>4, PickedTidy
<1>7. \A f \in Entries(gone) : ~f.pinned
  BY <1>5 DEF Loose
<1> HIDE DEF new, gone
<1>8. IdsOf(new) = {f.id : f \in Entries(new)} /\ IdsOf(gone) = {f.id : f \in Entries(gone)}
  BY <1>5, <1>6, Positions DEF Tidy
<1>9. IdsOf(history) = IdsOf(new) \cup IdsOf(gone)
  BY <1>3, <1>5, <1>8
<1>10. /\ Shape(steps) /\ Memory \in Todo(steps)
       /\ \A id \in Ids :
            /\ Do("unlinkBlob", id) \in Todo(steps) <=> id \in IdsOf(gone)
            /\ Do("unlinkThumb", id) \in Todo(steps) <=> id \in IdsOf(gone)
            /\ Do("blob", id) \notin Todo(steps) /\ Do("thumb", id) \notin Todo(steps)
  <2>1. <<>> \in Seq(Write) /\ Todo(<<>>) = {} /\ BlobFirst(<<>>)
    BY DEF Todo, BlobFirst
  <2>2. <<>> \o Unlinks(gone) \o <<Memory, Save>> = steps
    BY <1>5, UnlinksFacts
  <2>3. Save \notin Todo(<<>>)
    BY <2>1
  <2> HIDE DEF steps
  <2>4. Shape(steps) /\ Todo(steps) = Todo(<<>>) \cup Todo(Unlinks(gone)) \cup {Memory, Save}
    BY <1>5, <2>1, <2>2, <2>3, Plan
  <2>5. Todo(steps) = Todo(Unlinks(gone)) \cup {Memory, Save}
    BY <2>1, <2>4
  <2> QED
    BY <1>5, <2>4, <2>5, FileWrites
<1> HIDE DEF steps
<1>11. \A id \in IdsOf(new) : id \in IdsOf(history) /\ Do("unlinkBlob", id) \notin Todo(steps)
  BY <1>3, <1>5, <1>9, <1>10
<1>12. \A id \in IdsOf(history) \ IdsOf(new) :
         Do("unlinkBlob", id) \in Todo(steps) /\ Do("unlinkThumb", id) \in Todo(steps)
  BY <1>3, <1>9, <1>10
<1>13. \A f \in Entries(history) : f.pinned /\ f.data \in promised' => f \in Entries(new)
  BY <1>5, <1>7
<1>14. \A f \in Entries(new) : f.data = None => f.pinned
  BY <1>3, <1>5
<1>15. /\ nextId' \in 1..(MaxId + 1) /\ nextId <= nextId' /\ \A id \in IdsOf(new) : id < nextId'
       /\ promised' \subseteq promised
  BY <1>2, <1>3, <1>9
<1> QED
  BY <1>1, <1>2, <1>6, <1>10, <1>11, <1>12, <1>13, <1>14, <1>15, Begins

\* An entry is pinned.
LEMMA PinStep ==
  ASSUME IInv, calm' = calm, NEW c \in Clients, NEW e \in Entries(history), Pin(c, e)
  PROVE  IInv'
<1> DEFINE new == Repinned(e, TRUE)
           steps == <<Memory, Save>>
           copy == [e EXCEPT !.pinned = TRUE]
<1>1. /\ Idle(c) /\ c \in Workers /\ Work(c, steps, new, e.data)
      /\ ~e.pinned /\ Cardinality(Pins(history)) < MaxPinned
  BY DEF Pin, Workers
<1>2. /\ UNCHANGED <<history, disk, pushing, shown, unsaved, untold, crashes>>
      /\ nextId' = nextId /\ promised' = promised
  BY DEF Pin, ghosts
<1>3. /\ Tidy(history) /\ history \in Seq(Entry) /\ Distinct(history) /\ nextId \in 1..(MaxId + 1)
      /\ \A id \in IdsOf(history) : id < nextId /\ id \in Ids
      /\ \A f \in Entries(history) : f \in Entry /\ f.data # None
      /\ IdsOf(history) = {f.id : f \in Entries(history)}
  BY <1>1, Beginning
<1>4. /\ new \in Seq(Entry) /\ Distinct(new)
      /\ Entries(new) = (Entries(history) \ {e}) \cup {copy}
      /\ \A f \in Entries(history) \ {e} : f.id # e.id /\ f.data # e.data
  BY <1>3, RepinnedFacts
<1>5. copy.id = e.id /\ copy.data = e.data /\ copy.pinned /\ e.data \in Contents
  BY <1>3 DEF Entry
<1> HIDE DEF new, copy
<1>6. Tidy(new)
  <2>1. /\ IsFiniteSet(PinnedOf(history)) /\ Cardinality(PinnedOf(history)) \in Nat
        /\ IsFiniteSet(UnpinnedOf(history)) /\ Cardinality(UnpinnedOf(history)) \in Nat
        /\ Cardinality(PinnedOf(history)) = Cardinality(Pins(history))
    BY <1>3, Counted
  <2>2. PinnedOf(new) = PinnedOf(history) \cup {copy}
    BY <1>1, <1>4, <1>5 DEF PinnedOf
  <2>3. Cardinality(PinnedOf(history) \cup {copy}) <= Cardinality(PinnedOf(history)) + 1
    <3>1. Cardinality(PinnedOf(history) \cup {copy}) =
            IF copy \in PinnedOf(history) THEN Cardinality(PinnedOf(history))
                                         ELSE Cardinality(PinnedOf(history)) + 1
      BY <2>1, FS_AddElement
    <3> QED
      BY <2>1, <3>1
  <2>4. Cardinality(PinnedOf(new)) <= MaxPinned
    <3>1. Cardinality(PinnedOf(new)) \in Nat
      BY <1>4, Counted
    <3> QED
      BY <1>1, <2>1, <2>2, <2>3, <3>1, ClipboardAssumption
  <2>5. UnpinnedOf(new) \in SUBSET UnpinnedOf(history)
    BY <1>4, <1>5 DEF UnpinnedOf
  <2>6. Cardinality(UnpinnedOf(new)) <= Cardinality(UnpinnedOf(history))
    BY <2>1, <2>5, FS_Subset
  <2>7. Cardinality(UnpinnedOf(new)) \in Nat
    BY <1>4, Counted
  <2> QED
    BY <1>3, <1>4, <2>1, <2>4, <2>6, <2>7, ClipboardAssumption DEF Tidy
<1>7. IdsOf(new) = IdsOf(history)
  <2>1. IdsOf(new) = {f.id : f \in Entries(new)}
    BY <1>4, Positions
  <2>2. \A id \in IdsOf(new) : id \in IdsOf(history)
    BY <1>3, <1>4, <1>5, <2>1
  <2>3. \A id \in IdsOf(history) : id \in IdsOf(new)
    BY <1>3, <1>4, <1>5, <2>1
  <2> QED
    BY <2>2, <2>3
<1>8. /\ Shape(steps) /\ Memory \in Todo(steps)
      /\ \A id \in Ids : /\ Do("unlinkBlob", id) \notin Todo(steps)
                         /\ Do("blob", id) \notin Todo(steps)
                         /\ Do("thumb", id) \notin Todo(steps)
  BY PlainPlan
<1> HIDE DEF steps
<1>9. nextId' \in 1..(MaxId + 1) /\ nextId <= nextId' /\ \A id \in IdsOf(new) : id < nextId'
  BY <1>2, <1>3, <1>7
<1>10. \A id \in IdsOf(new) : id \in IdsOf(history) /\ Do("unlinkBlob", id) \notin Todo(steps)
  BY <1>3, <1>7, <1>8
<1>11. \A f \in Entries(history) : f.pinned /\ f.data \in promised' => f \in Entries(new)
  BY <1>1, <1>4
<1>12. \A f \in Entries(new) : f.data = e.data => f.pinned
  BY <1>4, <1>5
<1> QED
  BY <1>1, <1>2, <1>5, <1>6, <1>7, <1>8, <1>9, <1>10, <1>11, <1>12, Begins

\* Trimming parts a list in what stays and what is too old.
LEMMA TrimParts ==
  ASSUME NEW h \in Seq(Entry), Distinct(h), Cardinality(PinnedOf(h)) <= MaxPinned,
         NEW kept, kept = Picked(h, DOMAIN h \ TooOld(h)),
         NEW gone, gone = Picked(h, TooOld(h))
  PROVE  /\ Tidy(kept) /\ PinnedOf(kept) = PinnedOf(h) /\ gone \in Seq(Entry)
         /\ Entries(h) = Entries(kept) \cup Entries(gone)
         /\ IdsOf(h) = IdsOf(kept) \cup IdsOf(gone) /\ IdsOf(kept) \cap IdsOf(gone) = {}
         /\ h # <<>> /\ ~h[1].pinned => h[1] \in Entries(kept)
<1> DEFINE K == DOMAIN h \ TooOld(h)
<1>1. K \in SUBSET DOMAIN h /\ DOMAIN h \ K = TooOld(h)
  BY DEF TooOld, Loose
<1>2. Tidy(kept) /\ PinnedOf(kept) = PinnedOf(h)
  BY TrimFacts
<1>3. kept = Picked(h, K) /\ gone = Picked(h, DOMAIN h \ K)
  BY <1>1
<1> HIDE DEF K
<1>4. /\ gone \in Seq(Entry) /\ Entries(h) = Entries(kept) \cup Entries(gone)
      /\ Entries(kept) = {h[i] : i \in K} /\ IdsOf(kept) \cap IdsOf(gone) = {}
  <2>1. /\ kept \in Seq(Entry) /\ Distinct(kept) /\ gone \in Seq(Entry)
        /\ Entries(kept) = {h[i] : i \in K}
        /\ Entries(gone) = {h[i] : i \in DOMAIN h \ K}
        /\ Entries(h) = Entries(kept) \cup Entries(gone)
        /\ IdsOf(kept) \cap IdsOf(gone) = {}
    BY <1>1, <1>3, PickedParts
  <2> QED
    BY <2>1
<1>5. IdsOf(h) = IdsOf(kept) \cup IdsOf(gone)
  <2>1. /\ IdsOf(h) = {e.id : e \in Entries(h)}
        /\ IdsOf(kept) = {e.id : e \in Entries(kept)} /\ IdsOf(gone) = {e.id : e \in Entries(gone)}
    BY <1>2, <1>4, Positions DEF Tidy
  <2> QED
    BY <1>4, <2>1
<1>6. ASSUME h # <<>>, ~h[1].pinned PROVE h[1] \in Entries(kept)
  <2>1. 1 \in DOMAIN h /\ DOMAIN h = 1..Len(h)
    BY <1>6
  <2>2. 1 \in Loose(h) /\ \A i \in Loose(h) : i <= 1 => i = 1
    BY <1>6, <2>1 DEF Loose
  <2>3. {j \in Loose(h) : j <= 1} = {1}
    BY <2>2
  <2>4. Rank(Loose(h), 1) = 1
    BY <2>3, FS_Singleton DEF Rank
  <2>5. 1 \in K
    BY <2>1, <2>4, ClipboardAssumption DEF K, TooOld
  <2> QED
    BY <1>4, <2>5
<1> QED
  BY <1>2, <1>4, <1>5, <1>6

\* An entry is unpinned, and the oldest unpinned ones may have to go.
LEMMA UnpinStep ==
  ASSUME IInv, calm' = calm, NEW c \in Clients, NEW e \in Entries(history), Unpin(c, e)
  PROVE  IInv'
<1> DEFINE mid == Repinned(e, FALSE)
           copy == [e EXCEPT !.pinned = FALSE]
           new == Picked(mid, DOMAIN mid \ TooOld(mid))
           gone == Picked(mid, TooOld(mid))
           steps == <<>> \o Unlinks(gone) \o <<Memory, Save>>
<1>1. Idle(c) /\ c \in Workers /\ Work(c, steps, new, None) /\ e.pinned
  BY DEF Unpin, Changes, Workers
<1>2. /\ UNCHANGED <<history, disk, pushing, shown, unsaved, untold, crashes>>
      /\ nextId' = nextId /\ promised' = promised \ {e.data}
  BY DEF Unpin
<1>3. /\ Tidy(history) /\ history \in Seq(Entry) /\ Distinct(history) /\ nextId \in 1..(MaxId + 1)
      /\ \A id \in IdsOf(history) : id < nextId /\ id \in Ids
      /\ \A f \in Entries(history) : f \in Entry /\ f.data # None
      /\ IdsOf(history) = {f.id : f \in Entries(history)}
  BY <1>1, Beginning
<1>4. /\ mid \in Seq(Entry) /\ Distinct(mid)
      /\ Entries(mid) = (Entries(history) \ {e}) \cup {copy}
  BY <1>3, RepinnedFacts
<1>5. copy.id = e.id /\ copy.data = e.data /\ ~copy.pinned
  BY <1>3 DEF Entry
<1> HIDE DEF mid, copy
<1>6. Cardinality(PinnedOf(mid)) <= MaxPinned
  <2>1. PinnedOf(mid) \in SUBSET PinnedOf(history)
    BY <1>4, <1>5 DEF PinnedOf
  <2>2. IsFiniteSet(PinnedOf(history)) /\ Cardinality(PinnedOf(history)) \in Nat
    BY <1>3, Counted
  <2>3. Cardinality(PinnedOf(mid)) <= Cardinality(PinnedOf(history))
    BY <2>1, <2>2, FS_Subset
  <2>4. Cardinality(PinnedOf(mid)) \in Nat /\ Cardinality(PinnedOf(history)) <= MaxPinned
    BY <1>3, <1>4, Counted DEF Tidy
  <2> QED
    BY <2>2, <2>3, <2>4, ClipboardAssumption
<1>7. /\ Tidy(new) /\ PinnedOf(new) = PinnedOf(mid) /\ gone \in Seq(Entry)
      /\ Entries(mid) = Entries(new) \cup Entries(gone)
      /\ IdsOf(mid) = IdsOf(new) \cup IdsOf(gone) /\ IdsOf(new) \cap IdsOf(gone) = {}
  BY <1>4, <1>6, TrimParts
<1> HIDE DEF new, gone
<1>8. IdsOf(mid) = IdsOf(history)
  <2>1. IdsOf(mid) = {f.id : f \in Entries(mid)}
    BY <1>4, Positions
  <2>2. \A id \in IdsOf(mid) : id \in IdsOf(history)
    BY <1>3, <1>4, <1>5, <2>1
  <2>3. \A id \in IdsOf(history) : id \in IdsOf(mid)
    BY <1>3, <1>4, <1>5, <2>1
  <2> QED
    BY <2>2, <2>3
<1>9. Shape(steps) /\ Todo(steps) = Todo(Unlinks(gone)) \cup {Memory, Save}
  <2>1. <<>> \in Seq(Write) /\ Todo(<<>>) = {} /\ BlobFirst(<<>>)
    BY DEF Todo, BlobFirst
  <2>2. Save \notin Todo(<<>>)
    BY <2>1
  <2>3. Shape(steps) /\ Todo(steps) = Todo(<<>>) \cup Todo(Unlinks(gone)) \cup {Memory, Save}
    BY <1>7, <2>1, <2>2, Plan
  <2> HIDE DEF steps
  <2> QED
    BY <2>1, <2>3
<1> HIDE DEF steps
<1>10. \A id \in Ids :
         /\ Do("unlinkBlob", id) \in Todo(steps) <=> id \in IdsOf(gone)
         /\ Do("unlinkThumb", id) \in Todo(steps) <=> id \in IdsOf(gone)
         /\ Do("blob", id) \notin Todo(steps) /\ Do("thumb", id) \notin Todo(steps)
  BY <1>7, <1>9, FileWrites
<1>11. \A id \in IdsOf(new) : id \in IdsOf(history) /\ Do("unlinkBlob", id) \notin Todo(steps)
  BY <1>3, <1>7, <1>8, <1>10
<1>12. \A id \in IdsOf(history) \ IdsOf(new) :
         Do("unlinkBlob", id) \in Todo(steps) /\ Do("unlinkThumb", id) \in Todo(steps)
  BY <1>3, <1>7, <1>8, <1>10
<1>13. \A f \in Entries(history) : f.pinned /\ f.data \in promised' => f \in Entries(new)
  <2> SUFFICES ASSUME NEW f \in Entries(history), f.pinned, f.data \in promised'
               PROVE  f \in Entries(new)
    OBVIOUS
  <2>1. f \in PinnedOf(mid)
    BY <1>2, <1>4 DEF PinnedOf
  <2> QED
    BY <1>7, <2>1 DEF PinnedOf
<1>14. \A f \in Entries(new) : f.data # None
  BY <1>3, <1>4, <1>5, <1>7
<1>15. /\ nextId' \in 1..(MaxId + 1) /\ nextId <= nextId' /\ \A id \in IdsOf(new) : id < nextId'
       /\ promised' \subseteq promised
  BY <1>2, <1>3, <1>7, <1>8
<1>16. Memory \in Todo(steps)
  BY <1>9
<1> QED
  BY <1>1, <1>2, <1>7, <1>9, <1>10, <1>11, <1>12, <1>13, <1>14, <1>15, <1>16, Begins

\* A new content is stored.
LEMMA AddNewStep ==
  ASSUME IInv, calm' = calm, NEW d \in Contents, AddNew(Runner, d)
  PROVE  IInv'
<1> DEFINE e == [id |-> nextId, data |-> d, pinned |-> FALSE]
           mid == <<e>> \o history
           first == <<Do("blob", nextId)>> \o (IF d \in Decodable THEN <<Do("thumb", nextId)>> ELSE <<>>)
           new == Picked(mid, DOMAIN mid \ TooOld(mid))
           gone == Picked(mid, TooOld(mid))
           steps == first \o Unlinks(gone) \o <<Memory, Save>>
<1>1. /\ Idle(Runner) /\ Runner \in Workers /\ Work(Runner, steps, new, None)
      /\ nextId \in Ids /\ \A f \in Entries(history) : f.data # d
  BY DEF AddNew, Changes, Workers
<1>2. /\ UNCHANGED <<history, disk, pushing, shown, unsaved, untold, crashes>>
      /\ nextId' = nextId + 1 /\ promised' = promised
  BY DEF AddNew, ghosts
<1>3. /\ Tidy(history) /\ history \in Seq(Entry) /\ Distinct(history) /\ nextId \in 1..(MaxId + 1)
      /\ \A id \in IdsOf(history) : id < nextId /\ id \in Ids
      /\ \A f \in Entries(history) : f \in Entry /\ f.data # None
      /\ IdsOf(history) = {f.id : f \in Entries(history)}
  BY <1>1, Beginning
<1>4. /\ Do("blob", nextId) \in Write /\ Do("thumb", nextId) \in Write
      /\ Do("blob", nextId).what = "blob" /\ Do("thumb", nextId).what = "thumb"
  BY <1>1 DEF Do, Write
<1>5. /\ first \in Seq(Write) /\ BlobFirst(first)
      /\ Todo(first) \in SUBSET {Do("blob", nextId), Do("thumb", nextId)}
      /\ Do("blob", nextId) \in Todo(first)
  <2>1. CASE d \in Decodable
    <3> DEFINE b == Do("blob", nextId)
               t == Do("thumb", nextId)
    <3>1. first = <<b>> \o <<t>>
      BY <2>1
    <3>2. b \in Write /\ t \in Write /\ b.what = "blob" /\ t.what = "thumb"
      BY <1>4
    <3> HIDE DEF first, b, t
    <3>3. <<b>> \in Seq(Write) /\ <<t>> \in Seq(Write)
      BY <3>2
    <3>4. /\ first \in Seq(Write) /\ Len(first) = 2 /\ DOMAIN first = 1..2
          /\ first[1] = b /\ first[2] = t
      BY <3>1, <3>3
    <3>5. BlobFirst(first) /\ Todo(first) \in SUBSET {b, t} /\ b \in Todo(first)
      BY <3>2, <3>4 DEF Todo, BlobFirst
    <3> QED
      BY <3>4, <3>5 DEF b, t
  <2>2. CASE d \notin Decodable
    <3>1. first = <<Do("blob", nextId)>>
      BY <2>2
    <3> HIDE DEF first
    <3> QED
      BY <1>4, <3>1 DEF Todo, BlobFirst
  <2> QED
    BY <2>1, <2>2
<1> HIDE DEF first
<1>6. nextId \notin IdsOf(history)
  BY <1>1, <1>3 DEF Ids
<1>7. e \in Entry /\ ~e.pinned /\ e.id = nextId /\ e.data = d
  BY <1>1 DEF Entry
<1> HIDE DEF e
<1>8. \A f \in Entries(history) : f.id # e.id /\ f.data # e.data
  BY <1>1, <1>3, <1>6, <1>7
<1>9. mid \in Seq(Entry) /\ Distinct(mid) /\ Entries(mid) = {e} \cup Entries(history)
  BY <1>3, <1>7, <1>8, InFront
<1>10. mid # <<>> /\ mid[1] = e
  BY <1>3, <1>7
<1> HIDE DEF mid
<1>11. PinnedOf(mid) = PinnedOf(history) /\ Cardinality(PinnedOf(mid)) <= MaxPinned
  <2>1. PinnedOf(mid) = PinnedOf(history)
    BY <1>7, <1>9 DEF PinnedOf
  <2> QED
    BY <1>3, <2>1 DEF Tidy
<1>12. /\ Tidy(new) /\ PinnedOf(new) = PinnedOf(mid) /\ gone \in Seq(Entry)
       /\ Entries(mid) = Entries(new) \cup Entries(gone)
       /\ IdsOf(mid) = IdsOf(new) \cup IdsOf(gone) /\ IdsOf(new) \cap IdsOf(gone) = {}
       /\ mid # <<>> /\ ~mid[1].pinned => mid[1] \in Entries(new)
  BY <1>9, <1>11, TrimParts
<1> HIDE DEF new, gone
<1>13. e \in Entries(new)
  BY <1>7, <1>10, <1>12
<1>14. IdsOf(mid) = IdsOf(history) \cup {nextId} /\ nextId \in IdsOf(new)
  <2>1. /\ IdsOf(mid) = {f.id : f \in Entries(mid)}
        /\ IdsOf(new) = {f.id : f \in Entries(new)}
    BY <1>9, <1>12, Positions DEF Tidy
  <2> QED
    BY <1>3, <1>7, <1>9, <1>13, <2>1
<1>15. Shape(steps) /\ Todo(steps) = Todo(first) \cup Todo(Unlinks(gone)) \cup {Memory, Save}
  <2>1. Save \notin Todo(first)
    BY <1>4, <1>5 DEF Save, Do
  <2> QED
    BY <1>5, <1>12, <2>1, Plan
<1> HIDE DEF steps
<1>16. ASSUME NEW id \in Ids
       PROVE  /\ Do("unlinkBlob", id) \in Todo(steps) <=> id \in IdsOf(gone)
              /\ Do("unlinkThumb", id) \in Todo(steps) <=> id \in IdsOf(gone)
              /\ Do("blob", id) \in Todo(steps) <=> id = nextId
              /\ Do("thumb", id) \in Todo(steps) => id = nextId
  <2>1. /\ Do("unlinkBlob", id) \notin Todo(first) /\ Do("unlinkThumb", id) \notin Todo(first)
        /\ Do("blob", id) \in Todo(first) <=> id = nextId
        /\ Do("thumb", id) \in Todo(first) => id = nextId
    BY <1>5 DEF Do
  <2>2. /\ Do("unlinkBlob", id) \in Todo(Unlinks(gone)) <=> id \in IdsOf(gone)
        /\ Do("unlinkThumb", id) \in Todo(Unlinks(gone)) <=> id \in IdsOf(gone)
        /\ Do("blob", id) \notin Todo(Unlinks(gone)) /\ Do("thumb", id) \notin Todo(Unlinks(gone))
        /\ {Do("blob", id), Do("thumb", id), Do("unlinkBlob", id), Do("unlinkThumb", id)}
             \cap {Memory, Save} = {}
    BY <1>12, FileWrites
  <2> QED
    BY <1>15, <2>1, <2>2
<1>17. \A id \in IdsOf(new) :
         /\ id \in IdsOf(history) \/ Do("blob", id) \in Todo(steps)
         /\ Do("unlinkBlob", id) \notin Todo(steps)
  BY <1>1, <1>3, <1>12, <1>14, <1>16
<1>18. \A id \in IdsOf(history) \ IdsOf(new) :
         Do("unlinkBlob", id) \in Todo(steps) /\ Do("unlinkThumb", id) \in Todo(steps)
  BY <1>3, <1>12, <1>14, <1>16
<1>19. \A id \in Ids : /\ Do("thumb", id) \in Todo(steps) => id \in IdsOf(new)
                       /\ Do("blob", id) \in Todo(steps) => id \notin IdsOf(history)
  BY <1>6, <1>14, <1>16
<1>20. \A f \in Entries(history) : f.pinned => f \in Entries(new)
  BY <1>11, <1>12 DEF PinnedOf
<1>21. \A f \in Entries(new) : f.data # None
  BY <1>3, <1>7, <1>9, <1>12, ClipboardAssumption
<1>22. /\ nextId' \in 1..(MaxId + 1) /\ nextId <= nextId' /\ \A id \in IdsOf(new) : id < nextId'
       /\ promised' \subseteq promised
  <2>1. \A id \in IdsOf(new) : id \in IdsOf(history) \/ id = nextId
    BY <1>12, <1>14
  <2> QED
    BY <1>1, <1>2, <1>3, <2>1, ClipboardAssumption DEF Ids
<1>23. Memory \in Todo(steps)
  BY <1>15
<1> QED
  BY <1>1, <1>2, <1>12, <1>15, <1>17, <1>18, <1>19, <1>20, <1>21, <1>22, <1>23, Begins

-----------------------------------------------------------------------------
(* The operations go on.                                                   *)

\* What holds of an operation under way.
LEMMA UnderWay ==
  ASSUME IInv, job # None
  PROVE  /\ job \in Job /\ job.by \in Workers /\ job.by \notin pushing
         /\ Shape(job.steps) /\ job.steps \in Seq(Write) /\ job.steps # <<>>
         /\ Next1 \in Write /\ Next1 \in Todo(job.steps)
         /\ job.new \in Seq(Entry) /\ IdsOf(job.new) = {e.id : e \in Entries(job.new)}
         /\ IdsOf(job.new) \subseteq Ids
         /\ history \in Seq(Entry) /\ IdsOf(history) = {e.id : e \in Entries(history)}
         /\ blobs \in [Ids -> Contents \cup {None}] /\ thumbs \in SUBSET Ids
<1>1. TypeOK /\ JobShape
  BY DEF IInv
<1>2. /\ job \in Job /\ job.by \in Workers /\ job.by \notin pushing /\ job.steps # <<>>
      /\ job.steps \in Seq(Write) /\ job.new \in Seq(Entry)
  BY <1>1 DEF TypeOK, Job
<1>3. Shape(job.steps)
  BY <1>1 DEF JobShape
<1>4. Next1 \in Write /\ Next1 \in Todo(job.steps)
  BY <1>2, TodoTail DEF Next1
<1>5. /\ IdsOf(job.new) = {e.id : e \in Entries(job.new)} /\ IdsOf(job.new) \subseteq Ids
      /\ history \in Seq(Entry) /\ IdsOf(history) = {e.id : e \in Entries(history)}
  BY <1>1, <1>2, Positions DEF TypeOK
<1>6. blobs \in [Ids -> Contents \cup {None}] /\ thumbs \in SUBSET Ids
  BY <1>1 DEF TypeOK
<1> QED
  BY <1>2, <1>3, <1>4, <1>5, <1>6

\* An operation that has done a write other than the last.
LEMMA Continues ==
  ASSUME IInv, job # None, Next1 # Save, Rest
  PROVE  /\ job' \in Job /\ job' # None /\ job'.by = job.by /\ job'.new = job.new
         /\ job'.pin = job.pin
         /\ Shape(job'.steps) /\ job'.steps # <<>> /\ \A w \in Todo(job'.steps) : w.what # "blob"
         /\ Todo(job.steps) = {Next1} \cup Todo(job'.steps)
         /\ ~Quiet'
<1>1. /\ job \in Job /\ Shape(job.steps) /\ job.steps \in Seq(Write) /\ job.steps # <<>>
  BY UnderWay
<1>2. job' = [job EXCEPT !.steps = Tail(job.steps)]
  BY DEF Rest
<1>3. Shape(Tail(job.steps)) /\ \A w \in Todo(Tail(job.steps)) : w.what # "blob"
  BY <1>1, ShapeTail DEF Next1
<1>4. Tail(job.steps) \in Seq(Write) /\ Todo(job.steps) = {Next1} \cup Todo(Tail(job.steps))
  BY <1>1, TodoTail DEF Next1
<1>5. /\ job' \in Job /\ job'.by = job.by /\ job'.new = job.new /\ job'.pin = job.pin
      /\ job'.steps = Tail(job.steps)
  BY <1>1, <1>2, <1>4 DEF Job
<1>6. job' # None
  BY <1>5, NoJobAssumption
<1>7. Head(job'.steps) \in Todo(job'.steps)
  BY <1>3, <1>5, TodoTail DEF Shape
<1>8. ~Quiet'
  BY <1>3, <1>5, <1>6, <1>7 DEF Quiet, Next1
<1> QED
  BY <1>3, <1>4, <1>5, <1>6, <1>8 DEF Shape

\* Which write is next, by its name.
LEMMA NextWrite ==
  ASSUME IInv, job # None
  PROVE  /\ Next1.what = "memory" => Next1 = Memory /\ Next1 # Save
         /\ Next1.what = "save" => Next1 = Save
         /\ Next1.what = "blob" => Next1 = Do("blob", Next1.id) /\ Next1.id \in Ids /\ Next1 # Save
         /\ Next1.what = "thumb" => Next1 = Do("thumb", Next1.id) /\ Next1.id \in Ids /\ Next1 # Save
         /\ Next1.what = "unlinkBlob" =>
              Next1 = Do("unlinkBlob", Next1.id) /\ Next1.id \in Ids /\ Next1 # Save
         /\ Next1.what = "unlinkThumb" =>
              Next1 = Do("unlinkThumb", Next1.id) /\ Next1.id \in Ids /\ Next1 # Save
<1>1. Next1 \in Write
  BY UnderWay
<1> HIDE DEF Next1
<1>2. \/ Next1 = Memory \/ Next1 = Save
      \/ Next1.id \in Ids /\ \/ Next1 = Do("blob", Next1.id) \/ Next1 = Do("thumb", Next1.id)
                             \/ Next1 = Do("unlinkBlob", Next1.id)
                             \/ Next1 = Do("unlinkThumb", Next1.id)
  BY <1>1, Writes
<1>3. Memory.what = "memory" /\ Save.what = "save"
  BY DEF Memory, Save, Do
<1>4. \A what, id : Do(what, id).what = what
  BY DEF Do
<1> QED
  BY <1>2, <1>3, <1>4

\* The entries in memory become those of the operation.
LEMMA InMemoryStep ==
  ASSUME IInv, calm' = calm, InMemory
  PROVE  IInv'
<1>1. job # None /\ Next1 = Memory /\ Next1 # Save /\ history' = job.new
  BY NextWrite DEF InMemory
<1>2. /\ UNCHANGED <<nextId, disk, shown, ghosts, crashes>>
  BY DEF InMemory
<1>3. /\ Shape(job.steps) /\ job.new \in Seq(Entry) /\ job.by \notin pushing
      /\ IdsOf(job.new) = {e.id : e \in Entries(job.new)} /\ IdsOf(job.new) \subseteq Ids
  BY <1>1, UnderWay
<1>4. Rest /\ pushing' = pushing
  <2>1. Len(job.steps) # 1
    BY <1>1, <1>3 DEF Shape, Next1
  <2> QED
    BY <2>1 DEF InMemory
<1>5. /\ job' \in Job /\ job' # None /\ job'.by = job.by /\ job'.new = job.new
      /\ job'.pin = job.pin
      /\ Shape(job'.steps) /\ job'.steps # <<>> /\ \A w \in Todo(job'.steps) : w.what # "blob"
      /\ Todo(job.steps) = {Next1} \cup Todo(job'.steps)
      /\ ~Quiet'
  BY <1>1, <1>4, Continues
<1>6. /\ TypeOK /\ Lists /\ JobShape /\ Covered /\ Swept /\ PromisesKept
  BY DEF IInv
<1>7. Tidy(job.new) /\ \A id \in IdsOf(job.new) : id < nextId
  BY <1>1, <1>6 DEF JobShape
<1>8. \A what, id : Do(what, id) # Memory \/ what = "memory"
  BY DEF Do, Memory
<1>9. TypeOK'
  <2>1. \A i, j \in DOMAIN job.new : job.new[i].id = job.new[j].id => i = j
    BY <1>7 DEF Tidy, Distinct
  <2>2. \A i \in DOMAIN job.new : job.new[i].id < nextId
    BY <1>7 DEF IdsOf
  <2> QED
    BY <1>1, <1>2, <1>3, <1>4, <1>5, <1>6, <2>1, <2>2 DEF TypeOK, disk, ghosts
<1>10. NothingLeaks'
  BY <1>5 DEF NothingLeaks
<1>11. Lists'
  <2>1. Tidy(job.new) /\ Tidy(index) /\ index' = index
    BY <1>2, <1>6, <1>7 DEF Lists, disk
  <2> QED
    BY <1>1, <2>1 DEF Lists, Tidy, Distinct, PinnedOf, UnpinnedOf, Entries
<1>12. JobShape'
  <2>1. \A id \in Ids : Do("blob", id) \notin Todo(job'.steps)
    BY <1>5 DEF Do
  <2>2. \A f \in Entries(job.new) : f.data = job.pin => f.pinned
    BY <1>1, <1>6 DEF JobShape
  <2> QED
    BY <1>1, <1>2, <1>5, <1>7, <2>1, <2>2 DEF JobShape, ghosts
<1>13. Covered'
  <2>1. \A id \in IdsOf(job.new) :
          /\ blobs[id] # None \/ Do("blob", id) \in Todo(job.steps)
          /\ Do("unlinkBlob", id) \notin Todo(job.steps)
    BY <1>1, <1>6 DEF Covered
  <2>2. \A id \in IdsOf(job.new) : blobs[id] # None /\ Do("unlinkBlob", id) \notin Todo(job'.steps)
    BY <1>1, <1>5, <1>8, <2>1 DEF Do
  <2> QED
    BY <1>2, <1>5, <2>2 DEF Covered, disk
<1>14. Swept'
  BY <1>1, <1>2, <1>5, <1>6, <1>8 DEF Swept, disk
<1>15. AtRest'
  BY <1>5 DEF AtRest
<1>16. PromisesKept'
  BY <1>1, <1>2, <1>5, <1>6 DEF PromisesKept, disk, ghosts
<1> QED
  BY <1>9, <1>10, <1>11, <1>12, <1>13, <1>14, <1>15, <1>16 DEF IInv

\* A file is written or removed: what does not depend on the files.
LEMMA FileStep ==
  ASSUME IInv, calm' = calm, job # None, Next1 # Save, Next1 # Memory, Rest,
         UNCHANGED <<history, nextId, index, pushing, shown, ghosts, crashes>>,
         blobs' \in [Ids -> Contents \cup {None}], thumbs' \in SUBSET Ids
  PROVE  TypeOK' /\ NothingLeaks' /\ Lists' /\ JobShape' /\ AtRest'
<1>1. job.by \notin pushing
  BY UnderWay
<1>2. /\ job' \in Job /\ job' # None /\ job'.by = job.by /\ job'.new = job.new
      /\ job'.pin = job.pin
      /\ Shape(job'.steps) /\ job'.steps # <<>> /\ \A w \in Todo(job'.steps) : w.what # "blob"
      /\ Todo(job.steps) = {Next1} \cup Todo(job'.steps)
      /\ ~Quiet'
  BY Continues
<1>3. TypeOK /\ Lists /\ JobShape
  BY DEF IInv
<1>4. TypeOK'
  BY <1>1, <1>2, <1>3 DEF TypeOK, ghosts
<1>5. NothingLeaks'
  BY <1>2 DEF NothingLeaks
<1>6. Lists'
  BY <1>3 DEF Lists, Tidy, Distinct, PinnedOf, UnpinnedOf, Entries
<1>7. JobShape'
  <2>1. \A id \in Ids : Do("blob", id) \notin Todo(job'.steps)
    BY <1>2 DEF Do
  <2>2. /\ Tidy(job.new) /\ \A id \in IdsOf(job.new) : id < nextId
        /\ Memory \in Todo(job.steps) \/ history = job.new
        /\ \A f \in Entries(job.new) : f.data = job.pin => f.pinned
    BY <1>3 DEF JobShape
  <2>3. Memory \in Todo(job'.steps) \/ history = job.new
    BY <1>2, <2>2
  <2> QED
    BY <1>2, <2>1, <2>2, <2>3 DEF JobShape, ghosts
<1>8. AtRest'
  BY <1>2 DEF AtRest
<1> QED
  BY <1>4, <1>5, <1>6, <1>7, <1>8

\* A blob is written.
LEMMA WriteBlobStep ==
  ASSUME IInv, calm' = calm, WriteBlob
  PROVE  IInv'
<1>1. PICK e \in Entries(job.new) : e.id = Next1.id /\ blobs' = [blobs EXCEPT ![e.id] = e.data]
  BY DEF WriteBlob
<1>2. /\ job # None /\ Next1 = Do("blob", e.id) /\ e.id \in Ids /\ Next1 # Save /\ Rest
      /\ UNCHANGED <<history, nextId, index, thumbs, pushing, shown, ghosts, crashes>>
  BY <1>1, NextWrite DEF WriteBlob
<1>3. Next1 # Memory
  BY <1>2 DEF Do, Memory
<1>4. /\ blobs \in [Ids -> Contents \cup {None}] /\ thumbs \in SUBSET Ids
      /\ Next1 \in Todo(job.steps)
      /\ IdsOf(job.new) = {f.id : f \in Entries(job.new)} /\ IdsOf(job.new) \subseteq Ids
      /\ IdsOf(history) = {f.id : f \in Entries(history)} /\ job.new \in Seq(Entry)
  BY <1>2, UnderWay
<1>5. e.data \in Contents /\ e.data # None /\ e.id \in IdsOf(job.new)
  <2>1. e \in Entry
    BY <1>4, Positions
  <2> QED
    BY <1>4, <2>1, ClipboardAssumption DEF Entry
<1>6. blobs' \in [Ids -> Contents \cup {None}] /\ blobs'[e.id] # None
      /\ \A id \in Ids : id # e.id => blobs'[id] = blobs[id]
  BY <1>1, <1>2, <1>4, <1>5
<1>7. TypeOK' /\ NothingLeaks' /\ Lists' /\ JobShape' /\ AtRest'
  BY <1>2, <1>3, <1>4, <1>6, FileStep
<1>8. /\ job' # None /\ job'.new = job.new /\ Todo(job.steps) = {Next1} \cup Todo(job'.steps)
  BY <1>2, Continues
<1>9. JobShape /\ Covered /\ Swept /\ PromisesKept
  BY DEF IInv
<1>10. \A what, id : Do(what, id) = Next1 => what = "blob" /\ id = e.id
  BY <1>2 DEF Do
<1>11. Covered'
  <2>1. \A id \in IdsOf(job.new) :
          /\ blobs[id] # None \/ Do("blob", id) \in Todo(job.steps)
          /\ Do("unlinkBlob", id) \notin Todo(job.steps)
    BY <1>2, <1>9 DEF Covered
  <2>2. \A id \in IdsOf(job.new) :
          /\ blobs'[id] # None \/ Do("blob", id) \in Todo(job'.steps)
          /\ Do("unlinkBlob", id) \notin Todo(job'.steps)
    BY <1>4, <1>6, <1>8, <1>10, <2>1
  <2> QED
    BY <1>8, <2>2 DEF Covered
<1>12. Swept'
  <2> SUFFICES ASSUME calm
               PROVE  /\ \A id \in Ids : blobs'[id] # None =>
                           id \in IdsOf(job.new) \/ Do("unlinkBlob", id) \in Todo(job'.steps)
                      /\ \A id \in Ids : id \in thumbs =>
                           id \in IdsOf(job.new) \/ Do("unlinkThumb", id) \in Todo(job'.steps)
                      /\ \A id \in Ids : Do("thumb", id) \in Todo(job'.steps) => id \in IdsOf(job.new)
    BY <1>2, <1>8 DEF Swept
  <2>1. /\ \A id \in Ids : blobs[id] # None =>
             id \in IdsOf(job.new) \/ Do("unlinkBlob", id) \in Todo(job.steps)
        /\ \A id \in Ids : id \in thumbs =>
             id \in IdsOf(job.new) \/ Do("unlinkThumb", id) \in Todo(job.steps)
        /\ \A id \in Ids : Do("thumb", id) \in Todo(job.steps) => id \in IdsOf(job.new)
    BY <1>2, <1>9 DEF Swept
  <2> QED
    BY <1>5, <1>6, <1>8, <1>10, <2>1
<1>13. PromisesKept'
  <2>1. e.id \notin IdsOf(history)
    BY <1>2, <1>4, <1>9 DEF JobShape
  <2>2. \A f \in Entries(history) : f.id # e.id /\ f.id \in Ids
    <3>1. \A f \in Entries(history) : f.id # e.id
      BY <1>4, <2>1
    <3>2. history \in Seq(Entry)
      BY <1>2, UnderWay
    <3>3. IdsOf(history) \subseteq Ids
      BY <3>2, Positions
    <3> QED
      BY <1>4, <3>1, <3>3
  <2>3. \A f \in Entries(history) : blobs'[f.id] = blobs[f.id]
    BY <1>6, <2>2
  <2> QED
    BY <1>2, <1>8, <1>9, <2>3 DEF PromisesKept, Entries, ghosts
<1> QED
  BY <1>7, <1>11, <1>12, <1>13 DEF IInv

\* A thumbnail is written, or could not be.
LEMMA WriteThumbStep ==
  ASSUME IInv, calm' = calm, WriteThumb
  PROVE  IInv'
<1> DEFINE id == Next1.id
<1>1. /\ job # None /\ Next1 = Do("thumb", id) /\ id \in Ids /\ Next1 # Save /\ Rest
      /\ UNCHANGED <<history, nextId, index, blobs, pushing, shown, ghosts, crashes>>
      /\ thumbs' = thumbs \cup {id} \/ (~calm /\ thumbs' = thumbs)
  BY NextWrite DEF WriteThumb
<1> HIDE DEF id
<1>2. Next1 # Memory
  BY <1>1 DEF Do, Memory
<1>3. /\ blobs \in [Ids -> Contents \cup {None}] /\ thumbs \in SUBSET Ids
      /\ Next1 \in Todo(job.steps)
  BY <1>1, UnderWay
<1>4. TypeOK' /\ NothingLeaks' /\ Lists' /\ JobShape' /\ AtRest'
  <2>1. thumbs' \in SUBSET Ids /\ blobs' \in [Ids -> Contents \cup {None}]
    BY <1>1, <1>3
  <2> QED
    BY <1>1, <1>2, <2>1, FileStep
<1>5. /\ job' # None /\ job'.new = job.new /\ Todo(job.steps) = {Next1} \cup Todo(job'.steps)
  BY <1>1, Continues
<1>6. Covered /\ Swept /\ PromisesKept
  BY DEF IInv
<1>7. \A what, i : Do(what, i) = Next1 => what = "thumb" /\ i = id
  BY <1>1 DEF Do
<1>8. Covered'
  BY <1>1, <1>5, <1>6, <1>7 DEF Covered
<1>9. Swept'
  BY <1>1, <1>3, <1>5, <1>6, <1>7 DEF Swept
<1>10. PromisesKept'
  BY <1>1, <1>5, <1>6 DEF PromisesKept, Entries, ghosts
<1> QED
  BY <1>4, <1>8, <1>9, <1>10 DEF IInv

\* A file is removed, or could not be.
LEMMA UnlinkStep ==
  ASSUME IInv, calm' = calm, Unlink
  PROVE  IInv'
<1> DEFINE id == Next1.id
<1>1. /\ job # None /\ id \in Ids /\ Next1 # Save /\ Rest
      /\ UNCHANGED <<history, nextId, index, pushing, shown, ghosts, crashes>>
      /\ \/ /\ Next1 = Do("unlinkBlob", id) /\ thumbs' = thumbs
            /\ blobs' = [blobs EXCEPT ![id] = None] \/ (~calm /\ blobs' = blobs)
         \/ /\ Next1 = Do("unlinkThumb", id) /\ blobs' = blobs
            /\ thumbs' = thumbs \ {id} \/ (~calm /\ thumbs' = thumbs)
  BY NextWrite DEF Unlink
<1> HIDE DEF id
<1>2. Next1 # Memory
  BY <1>1 DEF Do, Memory
<1>3. /\ blobs \in [Ids -> Contents \cup {None}] /\ thumbs \in SUBSET Ids
      /\ Next1 \in Todo(job.steps)
      /\ IdsOf(job.new) = {f.id : f \in Entries(job.new)} /\ IdsOf(job.new) \subseteq Ids
  BY <1>1, UnderWay
<1>4. TypeOK' /\ NothingLeaks' /\ Lists' /\ JobShape' /\ AtRest'
  <2>1. thumbs' \in SUBSET Ids /\ blobs' \in [Ids -> Contents \cup {None}]
    BY <1>1, <1>3
  <2> QED
    BY <1>1, <1>2, <2>1, FileStep
<1>5. /\ job' # None /\ job'.new = job.new /\ Todo(job.steps) = {Next1} \cup Todo(job'.steps)
  BY <1>1, Continues
<1>6. Covered /\ Swept /\ PromisesKept
  BY DEF IInv
<1>7. \A i \in Ids : i # id => blobs'[i] = blobs[i]
  BY <1>1, <1>3
<1>8. \A i \in IdsOf(job.new) : blobs'[i] = blobs[i]
  <2>1. Next1 = Do("unlinkBlob", id) => id \notin IdsOf(job.new)
    BY <1>1, <1>3, <1>6 DEF Covered
  <2> QED
    BY <1>1, <1>3, <1>7, <2>1
<1>9. \A i : Do("blob", i) # Next1 /\ Do("thumb", i) # Next1
  BY <1>1 DEF Do
<1>10. Covered'
  <2>1. \A i \in IdsOf(job.new) :
          /\ blobs[i] # None \/ Do("blob", i) \in Todo(job.steps)
          /\ Do("unlinkBlob", i) \notin Todo(job.steps)
    BY <1>1, <1>6 DEF Covered
  <2> QED
    BY <1>5, <1>8, <1>9, <2>1 DEF Covered
<1>11. Swept'
  <2> SUFFICES ASSUME calm
               PROVE  /\ \A i \in Ids : blobs'[i] # None =>
                           i \in IdsOf(job.new) \/ Do("unlinkBlob", i) \in Todo(job'.steps)
                      /\ \A i \in Ids : i \in thumbs' =>
                           i \in IdsOf(job.new) \/ Do("unlinkThumb", i) \in Todo(job'.steps)
                      /\ \A i \in Ids : Do("thumb", i) \in Todo(job'.steps) => i \in IdsOf(job.new)
    BY <1>5 DEF Swept
  <2>1. /\ \A i \in Ids : blobs[i] # None =>
             i \in IdsOf(job.new) \/ Do("unlinkBlob", i) \in Todo(job.steps)
        /\ \A i \in Ids : i \in thumbs =>
             i \in IdsOf(job.new) \/ Do("unlinkThumb", i) \in Todo(job.steps)
        /\ \A i \in Ids : Do("thumb", i) \in Todo(job.steps) => i \in IdsOf(job.new)
    BY <1>1, <1>6 DEF Swept
  <2>2. CASE Next1 = Do("unlinkBlob", id)
    <3>1. blobs'[id] = None /\ thumbs' = thumbs
      BY <1>1, <1>3, <2>2 DEF Do
    <3>2. \A i : /\ Do("unlinkBlob", i) = Next1 => i = id
                 /\ Do("unlinkThumb", i) # Next1
      BY <2>2 DEF Do
    <3> QED
      BY <1>5, <1>7, <2>1, <3>1, <3>2
  <2>3. CASE Next1 = Do("unlinkThumb", id)
    <3>1. id \notin thumbs' /\ thumbs' \subseteq thumbs /\ blobs' = blobs
      BY <1>1, <1>3, <2>3 DEF Do
    <3>2. \A i : /\ Do("unlinkThumb", i) = Next1 => i = id
                 /\ Do("unlinkBlob", i) # Next1
      BY <2>3 DEF Do
    <3> QED
      BY <1>5, <2>1, <3>1, <3>2
  <2> QED
    BY <1>1, <2>2, <2>3
<1>12. PromisesKept'
  <2>1. \A f \in Entries(job.new) : blobs'[f.id] = blobs[f.id]
    BY <1>3, <1>8
  <2> QED
    BY <1>1, <1>5, <1>6, <2>1 DEF PromisesKept, Entries, ghosts
<1> QED
  BY <1>4, <1>10, <1>11, <1>12 DEF IInv

-----------------------------------------------------------------------------
(* The operations end.                                                     *)

\* What an operation has reached when only the index is still to be saved.
LEMMA BeforeSave ==
  ASSUME IInv, job # None, Next1 = Save
  PROVE  /\ history = job.new /\ Tidy(history) /\ \A id \in IdsOf(history) : blobs[id] # None
         /\ calm => \A id \in Ids : blobs[id] # None \/ id \in thumbs => id \in IdsOf(history)
         /\ \A e \in Entries(history) : e.data = job.pin => e.pinned
<1>1. JobShape /\ Covered /\ Swept
  BY DEF IInv
<1>2. Todo(job.steps) = {Save}
  BY UnderWay, SaveIsLast DEF Next1
<1>3. \A what, id : Do(what, id) \in Todo(job.steps) => what = "save"
  BY <1>2 DEF Do, Save
<1>4. history = job.new
  <2>1. Memory \notin Todo(job.steps)
    BY <1>2 DEF Memory, Save, Do
  <2> QED
    BY <1>1, <2>1 DEF JobShape
<1>5. \A id \in IdsOf(history) : blobs[id] # None
  BY <1>1, <1>3, <1>4 DEF Covered
<1>6. calm => \A id \in Ids : blobs[id] # None \/ id \in thumbs => id \in IdsOf(history)
  BY <1>1, <1>3, <1>4 DEF Swept
<1>7. Tidy(history) /\ \A e \in Entries(history) : e.data = job.pin => e.pinned
  BY <1>1, <1>4 DEF JobShape
<1> QED
  BY <1>4, <1>5, <1>6, <1>7

\* The index is saved.
LEMMA SavedStep ==
  ASSUME IInv, calm' = calm, Saved
  PROVE  IInv'
<1>1. job # None /\ Next1 = Save
  BY NextWrite DEF Saved
<1>2. /\ index' = history /\ job' = None /\ pushing' = pushing \cup {job.by} /\ unsaved' = FALSE
      /\ UNCHANGED <<history, nextId, blobs, thumbs, shown, untold, crashes>>
      /\ promised' = promised \cup
           {d \in {job.pin} : \E e \in Entries(history) : e.data = d /\ blobs[e.id] = d}
  BY <1>1 DEF Saved, Done
<1>3. /\ history = job.new /\ Tidy(history) /\ \A id \in IdsOf(history) : blobs[id] # None
      /\ calm => \A id \in Ids : blobs[id] # None \/ id \in thumbs => id \in IdsOf(history)
      /\ \A e \in Entries(history) : e.data = job.pin => e.pinned
  BY <1>1, BeforeSave
<1>4. job.by \in Workers /\ history \in Seq(Entry) /\ IdsOf(history) \subseteq Ids
  BY <1>1, <1>3, UnderWay
<1>5. TypeOK /\ Lists /\ PromisesKept
  BY DEF IInv
<1>6. TypeOK'
  <2>1. promised' \in SUBSET Contents
    <3>1. \A e \in Entries(history) : e.data \in Contents
      BY <1>4, Positions DEF Entry
    <3> QED
      BY <1>2, <1>5, <3>1 DEF TypeOK
  <2> QED
    BY <1>2, <1>4, <1>5, <2>1 DEF TypeOK
<1>7. NothingLeaks'
  <2>1. calm => {id \in Ids : blobs[id] # None} = IdsOf(history) /\ thumbs \subseteq IdsOf(history)
    BY <1>3, <1>4, <1>5 DEF TypeOK
  <2> QED
    BY <1>2, <2>1 DEF NothingLeaks, IdsOf
<1>8. Lists'
  BY <1>2, <1>3 DEF Lists, Tidy, Distinct, PinnedOf, UnpinnedOf, Entries
<1>9. JobShape' /\ Covered' /\ Swept'
  BY <1>2 DEF JobShape, Covered, Swept
<1>10. AtRest'
  <2>1. Opened' = history'
    <3>1. {i \in DOMAIN history : blobs[history[i].id] # None} = DOMAIN history
      BY <1>3 DEF IdsOf
    <3>2. Opened' = Picked(history, {i \in DOMAIN history : blobs[history[i].id] # None})
      BY <1>2 DEF Opened
    <3> QED
      BY <1>2, <1>4, <3>1, <3>2, PickedAll
  <2>2. pushing' # {}
    BY <1>2
  <2>3. \A id \in IdsOf(history)' : blobs'[id] # None
    BY <1>2, <1>3 DEF IdsOf
  <2> QED
    BY <2>1, <2>2, <2>3 DEF AtRest
<1>11. PromisesKept'
  <2> SUFFICES ASSUME NEW d \in promised'
               PROVE  \E e \in Entries(history) : e.data = d /\ e.pinned /\ blobs[e.id] = d
    BY <1>2 DEF PromisesKept, Entries
  <2>1. CASE d \in promised
    BY <1>5, <2>1 DEF PromisesKept
  <2>2. CASE d \notin promised
    BY <1>2, <1>3, <2>2
  <2> QED
    BY <2>1, <2>2
<1> QED
  BY <1>6, <1>7, <1>8, <1>9, <1>10, <1>11 DEF IInv

\* The index cannot be saved.
LEMMA SaveFailsStep ==
  ASSUME IInv, calm' = calm, SaveFails
  PROVE  IInv'
<1>1. job # None /\ Next1 = Save
  BY NextWrite DEF SaveFails
<1>2. /\ ~calm /\ job' = None /\ unsaved' = TRUE /\ untold' = TRUE
      /\ UNCHANGED <<history, nextId, disk, pushing, shown, promised, crashes>>
  BY <1>1 DEF SaveFails, Fail
<1>3. \A id \in IdsOf(history) : blobs[id] # None
  BY <1>1, BeforeSave
<1>4. TypeOK /\ Lists /\ PromisesKept
  BY DEF IInv
<1>5. TypeOK'
  BY <1>2, <1>4 DEF TypeOK, disk
<1>6. NothingLeaks'
  BY <1>2 DEF NothingLeaks
<1>7. Lists'
  BY <1>2, <1>4 DEF Lists, Tidy, Distinct, PinnedOf, UnpinnedOf, Entries, disk
<1>8. JobShape' /\ Covered' /\ Swept'
  BY <1>2 DEF JobShape, Covered, Swept
<1>9. AtRest'
  <2>1. \A id \in IdsOf(history)' : blobs'[id] # None
    BY <1>2, <1>3 DEF IdsOf, disk
  <2> QED
    BY <1>2, <2>1 DEF AtRest
<1>10. PromisesKept'
  BY <1>2, <1>4 DEF PromisesKept, Entries, disk
<1> QED
  BY <1>5, <1>6, <1>7, <1>8, <1>9, <1>10 DEF IInv

\* The blob of a new content cannot be written.
LEMMA WriteBlobFailsStep ==
  ASSUME IInv, calm' = calm, WriteBlobFails
  PROVE  IInv'
<1>1. /\ ~calm /\ job # None /\ Next1.what = "blob" /\ job' = None
      /\ UNCHANGED <<history, nextId, disk, pushing, shown, ghosts, crashes>>
  BY DEF WriteBlobFails, Fail
<1>2. TypeOK /\ Lists /\ AtRest /\ PromisesKept
  BY DEF IInv
<1>3. TypeOK'
  BY <1>1, <1>2 DEF TypeOK, disk, ghosts
<1>4. NothingLeaks'
  BY <1>1 DEF NothingLeaks
<1>5. Lists'
  BY <1>1, <1>2 DEF Lists, Tidy, Distinct, PinnedOf, UnpinnedOf, Entries, disk
<1>6. JobShape' /\ Covered' /\ Swept'
  BY <1>1 DEF JobShape, Covered, Swept
<1>7. AtRest'
  <2>1. Quiet
    BY <1>1 DEF Quiet
  <2>2. Opened' = Opened /\ Snapshot(history)' = Snapshot(history)
    BY <1>1, Unchanged
  <2>3. /\ \A id \in IdsOf(history) : blobs[id] # None
        /\ ~unsaved => Opened = history
        /\ pushing = {} /\ ~untold => shown = Snapshot(history)
    BY <1>2, <2>1 DEF AtRest
  <2>4. IdsOf(history)' = IdsOf(history)
    BY <1>1 DEF IdsOf
  <2> QED
    BY <1>1, <2>2, <2>3, <2>4 DEF AtRest, disk, ghosts
<1>8. PromisesKept'
  BY <1>1, <1>2 DEF PromisesKept, Entries, disk, ghosts
<1> QED
  BY <1>3, <1>4, <1>5, <1>6, <1>7, <1>8 DEF IInv

\* The store stays as it is; who has to push, and what is shown, may change.
LEMMA SameStore ==
  ASSUME IInv, calm' = calm, UNCHANGED <<history, nextId, disk, job, promised, unsaved, crashes>>,
         pushing' \in SUBSET Workers, job = None \/ pushing' = pushing, untold' \in BOOLEAN
  PROVE  /\ TypeOK' /\ NothingLeaks' /\ Lists' /\ JobShape' /\ Covered' /\ Swept' /\ PromisesKept'
         /\ (pushing' = {} /\ ~untold' /\ Quiet => shown' = Snapshot(history)) => AtRest'
<1>1. TypeOK /\ NothingLeaks /\ Lists /\ JobShape /\ Covered /\ Swept /\ AtRest /\ PromisesKept
  BY DEF IInv
<1>2. TypeOK'
  BY <1>1 DEF TypeOK, disk
<1>3. NothingLeaks'
  BY <1>1 DEF NothingLeaks, IdsOf, disk
<1>4. Lists'
  BY <1>1 DEF Lists, Tidy, Distinct, PinnedOf, UnpinnedOf, Entries, disk
<1>5. JobShape'
  BY <1>1 DEF JobShape
<1>6. Covered'
  BY <1>1 DEF Covered, disk
<1>7. Swept'
  BY <1>1 DEF Swept, disk
<1>8. PromisesKept'
  BY <1>1 DEF PromisesKept, Entries, disk
<1>9. ASSUME pushing' = {} /\ ~untold' /\ Quiet => shown' = Snapshot(history)
      PROVE  AtRest'
  <2>1. Opened' = Opened /\ Snapshot(history)' = Snapshot(history) /\ Quiet' = Quiet
    BY Unchanged DEF Quiet, Next1
  <2>2. Quiet => /\ \A id \in IdsOf(history) : blobs[id] # None
                 /\ ~unsaved => Opened = history
    BY <1>1 DEF AtRest
  <2>3. IdsOf(history)' = IdsOf(history)
    BY DEF IdsOf
  <2> QED
    BY <1>9, <2>1, <2>2, <2>3 DEF AtRest, disk
<1> QED
  BY <1>2, <1>3, <1>4, <1>5, <1>6, <1>7, <1>8, <1>9

\* A call that changes nothing asks for a push.
LEMMA AnswerStep ==
  ASSUME IInv, calm' = calm, NEW c \in Clients, NEW e, Answer(c, e)
  PROVE  IInv'
<1>1. /\ job = None /\ pushing' = pushing \cup {c}
      /\ UNCHANGED <<history, nextId, disk, job, shown, ghosts, crashes>>
  BY DEF Answer, Idle
<1>2. pushing' \in SUBSET Workers /\ pushing' # {} /\ untold' \in BOOLEAN
  BY <1>1 DEF IInv, TypeOK, Workers, ghosts
<1>3. UNCHANGED <<history, nextId, disk, job, promised, unsaved, crashes>>
  BY <1>1 DEF ghosts
<1> QED
  BY <1>1, <1>2, <1>3, SameStore DEF IInv

\* A snapshot is pushed.
LEMMA PushStep ==
  ASSUME IInv, calm' = calm, NEW w \in Workers, Push(w)
  PROVE  IInv'
<1>1. /\ job = None /\ pushing' = pushing \ {w} /\ shown' = Snapshot(history) /\ untold' = FALSE
      /\ UNCHANGED <<history, nextId, disk, job, unsaved, promised, crashes>>
  BY DEF Push
<1>2. pushing' \in SUBSET Workers
  BY <1>1 DEF IInv, TypeOK
<1> QED
  BY <1>1, <1>2, SameStore DEF IInv

\* Nothing happens.
LEMMA Stutters ==
  ASSUME IInv, UNCHANGED vars
  PROVE  IInv'
<1>1. /\ calm' = calm /\ pushing' = pushing /\ untold' = untold /\ shown' = shown
      /\ UNCHANGED <<history, nextId, disk, job, promised, unsaved, crashes>>
  BY DEF vars, ghosts
<1>2. pushing' \in SUBSET Workers /\ untold' \in BOOLEAN
  BY <1>1 DEF IInv, TypeOK
<1>3. pushing' = {} /\ ~untold' /\ Quiet => shown' = Snapshot(history)
  BY <1>1 DEF IInv, AtRest
<1> QED
  BY <1>1, <1>2, <1>3, SameStore DEF IInv

\* The daemon dies and is started again.
LEMMA CrashStep ==
  ASSUME IInv, calm' = calm, Crash
  PROVE  IInv'
<1>1. /\ ~calm /\ crashes < MaxCrashes /\ crashes' = crashes + 1
      /\ history' = Opened /\ nextId' = FreshId(Opened) /\ pushing' = {} /\ job' = None
      /\ shown' = Snapshot(Opened) /\ unsaved' = FALSE /\ untold' = FALSE
      /\ UNCHANGED <<disk, promised>>
  BY DEF Crash
<1>2. TypeOK /\ Tidy(index) /\ PromisesKept
  BY DEF IInv, Lists
<1> DEFINE K == {i \in DOMAIN index : blobs[index[i].id] # None}
<1>3. Opened = Picked(index, K) /\ K \in SUBSET DOMAIN index
  BY DEF Opened
<1>4. index \in Seq(Entry)
  BY <1>2 DEF Tidy
<1>5. Tidy(Opened) /\ Entries(Opened) = {index[i] : i \in K}
  BY <1>2, <1>3, <1>4, PickedTidy, PickedFacts
<1>6. Opened \in Seq(Entry) /\ Distinct(Opened)
  BY <1>5 DEF Tidy
<1>7. \A id \in IdsOf(Opened) : blobs[id] # None
  <2>1. \A e \in Entries(Opened) : blobs[e.id] # None
    BY <1>5
  <2> HIDE DEF K
  <2> QED
    BY <1>6, <2>1, Positions
<1> HIDE DEF K
<1>8. FreshId(Opened) \in 1..(MaxId + 1) /\ \A id \in IdsOf(Opened) : id < FreshId(Opened)
  BY <1>6, FreshFacts
<1>9. Opened' = Opened /\ Snapshot(Opened)' = Snapshot(Opened)
  BY <1>1 DEF Opened, Snapshot, disk
<1>10. TypeOK'
  <2>1. \A i, j \in DOMAIN Opened : Opened[i].id = Opened[j].id => i = j
    BY <1>6 DEF Distinct
  <2>2. \A i \in DOMAIN Opened : Opened[i].id < FreshId(Opened)
    BY <1>8 DEF IdsOf
  <2>3. crashes' \in 0..MaxCrashes
    BY <1>1, <1>2, ClipboardAssumption DEF TypeOK
  <2> QED
    BY <1>1, <1>2, <1>6, <1>8, <2>1, <2>2, <2>3 DEF TypeOK, disk
<1>11. NothingLeaks' /\ JobShape' /\ Covered' /\ Swept'
  BY <1>1 DEF NothingLeaks, JobShape, Covered, Swept
<1>12. Lists'
  BY <1>1, <1>2, <1>5 DEF Lists, Tidy, Distinct, PinnedOf, UnpinnedOf, Entries, disk
<1>13. AtRest'
  <2>1. \A id \in IdsOf(history)' : blobs'[id] # None
    BY <1>1, <1>7 DEF IdsOf, disk
  <2>2. shown' = Snapshot(history)'
    BY <1>1 DEF Snapshot, disk
  <2> QED
    BY <1>1, <1>9, <2>1, <2>2 DEF AtRest
<1>14. PromisesKept'
  <2>1. \A d \in promised : d # None
    BY <1>2, ClipboardAssumption DEF TypeOK
  <2>2. \A e \in Entries(index) : blobs[e.id] # None => e \in Entries(Opened)
    BY <1>5 DEF Entries, K
  <2> QED
    BY <1>1, <1>2, <2>1, <2>2 DEF PromisesKept, Entries, disk
<1> QED
  BY <1>10, <1>11, <1>12, <1>13, <1>14 DEF IInv

-----------------------------------------------------------------------------
(* The theorems.                                                           *)

\* Nothing is stored yet.
LEMMA InitIInv == Init => IInv
<1> SUFFICES ASSUME Init PROVE IInv
  OBVIOUS
<1>1. /\ history = <<>> /\ nextId = 1 /\ index = <<>> /\ blobs = [id \in Ids |-> None]
      /\ thumbs = {} /\ pushing = {} /\ job = None /\ shown = <<>> /\ unsaved = FALSE
      /\ untold = FALSE /\ promised = {} /\ crashes = 0 /\ calm \in BOOLEAN
  BY DEF Init
<1>2. history \in Seq(Entry) /\ index \in Seq(Entry) /\ DOMAIN history = {} /\ DOMAIN index = {}
  BY <1>1
<1>3. TypeOK
  <2>1. 1 \in 1..(MaxId + 1) /\ 0 \in 0..MaxCrashes
    BY ClipboardAssumption
  <2>2. blobs \in [Ids -> Contents \cup {None}]
    BY <1>1
  <2> QED
    BY <1>1, <1>2, <2>1, <2>2 DEF TypeOK
<1>4. IdsOf(history) = {} /\ Entries(history) = {} /\ Entries(index) = {}
  BY <1>2 DEF IdsOf, Entries
<1>5. NothingLeaks
  BY <1>1, <1>4 DEF NothingLeaks
<1>6. Lists
  <2>1. Cardinality({}) = 0
    BY FS_EmptySet
  <2>2. /\ PinnedOf(history) = {} /\ UnpinnedOf(history) = {}
        /\ PinnedOf(index) = {} /\ UnpinnedOf(index) = {}
    BY <1>4 DEF PinnedOf, UnpinnedOf
  <2>3. Distinct(history) /\ Distinct(index)
    BY <1>2 DEF Distinct
  <2> QED
    BY <1>2, <2>1, <2>2, <2>3, ClipboardAssumption DEF Lists, Tidy
<1>7. JobShape /\ Covered /\ Swept /\ PromisesKept
  BY <1>1 DEF JobShape, Covered, Swept, PromisesKept
<1>8. AtRest
  <2>1. Opened = history
    <3>1. {i \in DOMAIN index : blobs[index[i].id] # None} = DOMAIN index
      BY <1>2
    <3> QED
      BY <1>1, <1>2, <3>1, PickedAll DEF Opened
  <2>2. shown = Snapshot(history)
    BY <1>1, <1>2 DEF Snapshot
  <2> QED
    BY <1>4, <2>1, <2>2 DEF AtRest
<1> QED
  BY <1>3, <1>5, <1>6, <1>7, <1>8 DEF IInv

\* Every step keeps the invariant.
LEMMA NextIInv == IInv /\ [Next]_vars => IInv'
<1>1. ASSUME IInv, Next PROVE IInv'
  <2>1. calm' = calm
    BY <1>1 DEF Next
  <2>2. CASE \E d \in Contents : AddKnown(Runner, d) \/ AddNew(Runner, d)
    BY <1>1, <2>1, <2>2, AddKnownStep, AddNewStep
  <2>3. CASE \E c \in Clients : Clear(c)
    BY <1>1, <2>1, <2>3, ClearStep
  <2>4. CASE \E c \in Clients, e \in Entries(history) :
               Delete(c, e) \/ Pin(c, e) \/ Unpin(c, e) \/ Answer(c, e)
    BY <1>1, <2>1, <2>4, DeleteStep, PinStep, UnpinStep, AnswerStep
  <2>5. CASE \E w \in Workers : Push(w)
    BY <1>1, <2>1, <2>5, PushStep
  <2>6. CASE InMemory
    BY <1>1, <2>1, <2>6, InMemoryStep
  <2>7. CASE WriteBlob
    BY <1>1, <2>1, <2>7, WriteBlobStep
  <2>8. CASE WriteBlobFails
    BY <1>1, <2>1, <2>8, WriteBlobFailsStep
  <2>9. CASE WriteThumb
    BY <1>1, <2>1, <2>9, WriteThumbStep
  <2>10. CASE Unlink
    BY <1>1, <2>1, <2>10, UnlinkStep
  <2>11. CASE Saved
    BY <1>1, <2>1, <2>11, SavedStep
  <2>12. CASE SaveFails
    BY <1>1, <2>1, <2>12, SaveFailsStep
  <2>13. CASE Crash
    BY <1>1, <2>1, <2>13, CrashStep
  <2> QED
    BY <1>1, <2>2, <2>3, <2>4, <2>5, <2>6, <2>7, <2>8, <2>9, <2>10, <2>11, <2>12, <2>13, Cases
<1>2. ASSUME IInv, UNCHANGED vars PROVE IInv'
  BY <1>2, Stutters
<1> QED
  BY <1>1, <1>2

\* The inductive invariant holds throughout: an operation always has left to do what
\* makes its entries, and only them, have their files.
THEOREM Invariant == Spec => []IInv
BY InitIInv, NextIInv, PTL DEF Spec

\* Between operations every entry can be copied, the limits hold at every moment, and
\* without failures no file is left behind.
THEOREM StoreIsSound == Spec => []StoreInv
<1>1. IInv => StoreInv
  <2> SUFFICES ASSUME IInv PROVE StoreInv
    OBVIOUS
  <2>1. TypeOK /\ NothingLeaks /\ Tidy(history) /\ Tidy(index) /\ AtRest
    BY DEF IInv, Lists
  <2>2. AllCopyable
    BY <2>1 DEF AllCopyable, AtRest, Quiet
  <2>3. ASSUME NEW h, Tidy(h)
        PROVE  /\ Cardinality(Loose(h)) <= MaxHistory /\ Cardinality(Pins(h)) <= MaxPinned
               /\ \A i, j \in DOMAIN h : h[i].data = h[j].data => i = j
    BY <2>3, Counted DEF Tidy, Distinct
  <2>4. WithinLimits
    BY <2>1, <2>3 DEF WithinLimits
  <2> QED
    BY <2>1, <2>2, <2>4 DEF StoreInv
<1> QED
  BY <1>1, Invariant, PTL

\* What was pinned stays on the disk, pinned and complete, until it is unpinned or
\* deleted, however often the daemon dies.
THEOREM PinsAreSafe == Spec => []PinnedIsSafe
<1>1. IInv => PinnedIsSafe
  BY DEF IInv, PromisesKept, PinnedIsSafe, Entries
<1> QED
  BY <1>1, Invariant, PTL

\* A restart between operations gives back the history in memory.
THEOREM RestartsAreInvisible == Spec => []RestartIsInvisible
<1>1. IInv => RestartIsInvisible
  BY DEF IInv, AtRest, Quiet, RestartIsInvisible
<1> QED
  BY <1>1, Invariant, PTL

\* When nobody is working, the panel shows the store.
THEOREM FeedAgrees == Spec => []FeedIsCurrent
<1>1. IInv => FeedIsCurrent
  BY DEF IInv, AtRest, Quiet, FeedIsCurrent
<1> QED
  BY <1>1, Invariant, PTL

-----------------------------------------------------------------------------
(* The levels of a panel.                                                    *)

\* A product grows with its factor.
LEMMA TimesMonotone ==
  ASSUME NEW a \in Int, NEW b \in Int, NEW m \in Nat, a <= b
  PROVE  a * m <= b * m
OBVIOUS

\* A quotient, by its remainder.
LEMMA DivBounds ==
  ASSUME NEW x \in Int, NEW m \in Nat \ {0}
  PROVE  x \div m \in Int /\ (x \div m) * m <= x /\ x < (x \div m) * m + m
OBVIOUS

\* The remainder's bounds determine the quotient.
LEMMA DivIs ==
  ASSUME NEW x \in Int, NEW m \in Nat \ {0}, NEW q \in Int, q * m <= x, x < q * m + m
  PROVE  x \div m = q
<1> DEFINE d == x \div m
<1>1. d \in Int /\ d * m <= x /\ x < d * m + m
  BY DivBounds
<1> HIDE DEF d
<1>2. CASE d < q
  <2>1. (d + 1) * m <= q * m
    BY <1>1, <1>2, TimesMonotone
  <2>2. (d + 1) * m = d * m + m
    BY <1>1
  <2> QED
    BY <1>1, <2>1, <2>2
<1>3. CASE q < d
  <2>1. (q + 1) * m <= d * m
    BY <1>1, <1>3, TimesMonotone
  <2>2. (q + 1) * m = q * m + m
    OBVIOUS
  <2> QED
    BY <1>1, <2>1, <2>2
<1> QED
  BY <1>1, <1>2, <1>3 DEF d

\* A level's percent is the nearest one (to_percent).
LEMMA PercentOf ==
  ASSUME s1 \in Nat \ {0}, NEW l \in 0..s1, NEW t, t = Panel!to_percent(l)
  PROVE  /\ t \in 0..100
         /\ t * s1 <= 100 * l + s1 \div 2
         /\ 100 * l + s1 \div 2 < t * s1 + s1
<1> DEFINE x == l * 100 + s1 \div 2
           h == s1 \div 2
<1>1. h \in Nat /\ 2 * h <= s1 /\ s1 <= 2 * h + 1
  OBVIOUS
<1> HIDE DEF h
<1>2. t = x \div s1 /\ x \in Nat /\ x = 100 * l + h
  BY <1>1 DEF Panel!to_percent, h
<1> HIDE DEF x
<1>3. t \in Int /\ t * s1 <= x /\ x < t * s1 + s1
  BY <1>2, DivBounds
<1>4. 0 <= t
  <2>1. CASE t <= -1
    <3>1. t * s1 <= (-1) * s1
      BY <1>3, <2>1, TimesMonotone
    <3> QED
      BY <1>2, <1>3, <3>1
  <2> QED
    BY <1>3, <2>1
<1>5. t <= 100
  <2>1. CASE 101 <= t
    <3>1. 101 * s1 <= t * s1
      BY <1>3, <2>1, TimesMonotone
    <3> QED
      BY <1>1, <1>2, <1>3, <3>1
  <2> QED
    BY <1>3, <2>1
<1> QED
  BY <1>2, <1>3, <1>4, <1>5 DEF h

\* A percent's level is the nearest one, but never black (from_percent).
LEMMA LevelFor ==
  ASSUME s1 \in Nat \ {0}, NEW p \in 0..100, NEW l, l = Panel!from_percent(p)
  PROVE  /\ l \in 1..s1
         /\ p \in {0, 1} => l = Panel!from_percent(0)
         /\ p = 100 => l = s1
         /\ p > 0 => p * s1 < 100 * l + 50
         /\ p > 0 => l = 1 \/ 100 * l <= p * s1 + 50
<1> DEFINE q == IF p = 0 THEN 1 ELSE p
           x == (q * s1 + 50) \div 100
<1>1. l = Panel!Clamp(x, 1, s1) /\ q \in 1..100
  BY DEF Panel!from_percent, Panel!Clamp, Panel!MIN_PERCENT
<1>2. q * s1 \in Nat /\ s1 <= q * s1 /\ q * s1 <= 100 * s1
  <2>1. 1 * s1 <= q * s1 /\ q * s1 <= 100 * s1
    BY <1>1, TimesMonotone
  <2> QED
    BY <1>1, <2>1
<1>3. x \in Nat /\ 100 * x <= q * s1 + 50 /\ q * s1 + 50 < 100 * x + 100
  BY <1>2
<1>4. Panel!from_percent(0) = Panel!Clamp((1 * s1 + 50) \div 100, 1, s1)
  BY DEF Panel!from_percent, Panel!Clamp, Panel!MIN_PERCENT
<1> HIDE DEF x
<1>5. x <= s1
  BY <1>2, <1>3
<1>6. l = IF x < 1 THEN 1 ELSE x
  BY <1>1, <1>3, <1>5 DEF Panel!Clamp
<1>7. l \in 1..s1
  BY <1>3, <1>5, <1>6
<1>8. p \in {0, 1} => l = Panel!from_percent(0)
  BY <1>1, <1>4 DEF x
<1>9. p = 100 => l = s1
  BY <1>3, <1>6
<1>10. p > 0 => p * s1 < 100 * l + 50
  <2>1. CASE p > 0
    <3>1. p * s1 = q * s1
      BY <2>1
    <3> QED
      BY <1>2, <1>3, <1>6, <3>1
  <2> QED
    BY <2>1
<1>11. p > 0 => l = 1 \/ 100 * l <= p * s1 + 50
  BY <1>3, <1>6
<1> QED
  BY <1>7, <1>8, <1>9, <1>10, <1>11

\* The level for a percent more is not below the present one; where it is the same, the
\* step of one level is taken.
LEMMA PressUp ==
  ASSUME s1 \in Nat \ {0}, NEW l \in 0..s1, NEW d \in 1..100
  PROVE  Panel!stepped(l, d) \in 1..s1 /\ (Panel!stepped(l, d) > l \/ l = s1)
<1> DEFINE next == Panel!stepped(l, d)
           t == Panel!to_percent(l)
           p == Panel!Clamp(t + d, 0, 100)
           target == Panel!from_percent(p)
<1>1. next = IF target # l THEN target ELSE Panel!Clamp(l + 1, 1, s1)
  BY DEF Panel!stepped
<1> HIDE DEF next
<1>2. t \in 0..100 /\ 100 * l + s1 \div 2 < t * s1 + s1
  BY PercentOf
<1> HIDE DEF t
<1>3. p \in 1..100 /\ (p = 100 \/ t + 1 <= p)
  BY <1>2 DEF Panel!Clamp
<1> HIDE DEF p
<1>4. /\ target \in 1..s1
      /\ p = 100 => target = s1
      /\ p * s1 < 100 * target + 50
  BY <1>3, LevelFor
<1> HIDE DEF target
<1>5. l <= target
  <2>1. CASE p = 100
    BY <1>4, <2>1
  <2>2. CASE t + 1 <= p
    <3>1. (t + 1) * s1 <= p * s1 /\ (t + 1) * s1 = t * s1 + s1
      BY <1>2, <1>3, <2>2, TimesMonotone
    <3>2. s1 \div 2 \in Nat /\ p * s1 \in Int /\ t * s1 \in Int
      BY <1>2, <1>3
    <3> QED
      BY <1>2, <1>4, <3>1, <3>2
  <2> QED
    BY <1>3, <2>1, <2>2
<1>6. next \in 1..s1 /\ (next > l \/ l = s1)
  BY <1>1, <1>4, <1>5 DEF Panel!Clamp
<1> QED
  BY <1>6 DEF next

\* The level for a percent less is not above the present one, unless that is darker than
\* the least percent.
LEMMA PressDown ==
  ASSUME s1 \in Nat \ {0}, NEW l \in 0..s1, NEW d \in -100..-1
  PROVE  /\ Panel!stepped(l, d) \in 1..s1
         /\ l > Panel!from_percent(0) => Panel!stepped(l, d) < l
         /\ l <= Panel!from_percent(0) => Panel!stepped(l, d) <= Panel!from_percent(0)
<1> DEFINE next == Panel!stepped(l, d)
           t == Panel!to_percent(l)
           p == Panel!Clamp(t + d, 0, 100)
           target == Panel!from_percent(p)
           least == Panel!from_percent(0)
<1>1. next = IF target # l THEN target ELSE Panel!Clamp(l - 1, 1, s1)
  BY DEF Panel!stepped
<1> HIDE DEF next
<1>2. t \in 0..100 /\ t * s1 <= 100 * l + s1 \div 2
  BY PercentOf
<1> HIDE DEF t
<1>3. p \in 0..100 /\ (p = 0 \/ p + 1 <= t)
  BY <1>2 DEF Panel!Clamp
<1> HIDE DEF p
<1>4. /\ target \in 1..s1
      /\ p = 0 => target = least
      /\ p > 0 => target = 1 \/ 100 * target <= p * s1 + 50
  BY <1>3, LevelFor
<1>5. least \in 1..s1
  BY LevelFor
<1> HIDE DEF target, least
<1>6. target <= l \/ target = least \/ target = 1
  <2>1. CASE p > 0 /\ target # 1
    <3>1. (p + 1) * s1 <= t * s1 /\ (p + 1) * s1 = p * s1 + s1
      BY <1>2, <1>3, <2>1, TimesMonotone
    <3>2. s1 \div 2 \in Nat /\ 2 * (s1 \div 2) <= s1 /\ p * s1 \in Int /\ t * s1 \in Int
      BY <1>2, <1>3
    <3> QED
      BY <1>2, <1>4, <2>1, <3>1, <3>2
  <2> QED
    BY <1>3, <1>4, <2>1
<1>7. /\ next \in 1..s1
      /\ l > least => next < l
      /\ l <= least => next <= least
  BY <1>1, <1>4, <1>5, <1>6 DEF Panel!Clamp
<1> QED
  BY <1>7 DEF next, least

\* Where a percent is a level at least, the slider's percent survives both roundings.
LEMMA SliderStays ==
  ASSUME s1 \in Nat \ {0}, s1 >= 100, NEW p \in 1..100
  PROVE  Panel!to_percent(Panel!from_percent(p)) = p
<1> DEFINE l == Panel!from_percent(p)
           h == s1 \div 2
           x == l * 100 + h
<1>1. l \in 1..s1 /\ p * s1 < 100 * l + 50 /\ (l = 1 \/ 100 * l <= p * s1 + 50)
  BY LevelFor
<1>2. h \in Nat /\ 2 * h <= s1 /\ s1 <= 2 * h + 1
  OBVIOUS
<1>3. Panel!to_percent(l) = x \div s1
  BY DEF Panel!to_percent
<1> HIDE DEF l, h
<1>4. p * s1 \in Nat /\ s1 <= p * s1
  <2>1. 1 * s1 <= p * s1
    BY TimesMonotone
  <2> QED
    BY <2>1
<1>5. 100 * l <= p * s1 + 50
  BY <1>1, <1>4
<1>6. p * s1 <= x
  BY <1>1, <1>2, <1>4
<1>7. x < p * s1 + s1
  <2>1. CASE s1 = 100
    BY <1>1, <1>2, <1>5, <2>1
  <2>2. CASE s1 > 100
    BY <1>1, <1>2, <1>4, <1>5, <2>2
  <2> QED
    BY <2>1, <2>2
<1>8. x \in Int
  BY <1>1, <1>2
<1> HIDE DEF x
<1>9. x \div s1 = p
  BY <1>6, <1>7, <1>8, DivIs
<1> QED
  BY <1>3, <1>9 DEF l

\* Nothing sets a level the panel does not have.
LEMMA PanelNext ==
  Panel!PanelsAssumption /\ Panel!AskedAssumption /\ Panel!InRange /\ Panel!Next => Panel!InRange'
<1> SUFFICES ASSUME Panel!PanelsAssumption, Panel!AskedAssumption, Panel!InRange, Panel!Next
             PROVE  Panel!InRange'
  OBVIOUS
<1>1. s1 \in Nat \ {0} /\ s1 \in Panels /\ s2 \in 0..s1
  BY DEF Panel!PanelsAssumption, Panel!InRange
<1>2. CASE Panel!set
  <2>1. PICK percent \in Asked : s2' = Panel!from_percent(percent) /\ s1' = s1
    BY <1>2 DEF Panel!set, Panel!Apply
  <2>2. percent \in 0..100
    BY DEF Panel!AskedAssumption
  <2>3. s2' \in 1..s1
    BY <1>1, <2>1, <2>2, LevelFor
  <2> QED
    BY <1>1, <2>1, <2>3 DEF Panel!InRange
<1>3. CASE Panel!Elsewhere
  <2>1. PICK percent \in 0..100 : s2' = (percent * s1) \div 100 /\ s1' = s1
    BY <1>3 DEF Panel!Elsewhere, Panel!Apply
  <2>2. 0 * s1 <= percent * s1 /\ percent * s1 <= 100 * s1
    BY <1>1, TimesMonotone
  <2>3. s2' \in 0..s1
    BY <1>1, <2>1, <2>2
  <2> QED
    BY <1>1, <2>1, <2>3 DEF Panel!InRange
<1>4. ASSUME NEW delta \in Deltas, Panel!step(delta) PROVE Panel!InRange'
  <2>1. s2' = Panel!stepped(s2, delta) /\ s1' = s1
    BY <1>4 DEF Panel!step, Panel!Apply
  <2>2. delta \in -100..100
    BY DEF Panel!AskedAssumption
  <2>3. CASE delta = 0
    <3>1. s2' = Panel!from_percent(Panel!Clamp(Panel!to_percent(s2), 0, 100))
      BY <2>1, <2>3, <1>1, PercentOf DEF Panel!stepped
    <3>2. Panel!Clamp(Panel!to_percent(s2), 0, 100) \in 0..100
      BY <1>1, PercentOf DEF Panel!Clamp
    <3>3. s2' \in 1..s1
      BY <1>1, <3>1, <3>2, LevelFor
    <3> QED
      BY <1>1, <2>1, <3>3 DEF Panel!InRange
  <2>4. CASE delta \in 1..100
    <3>1. s2' \in 1..s1
      BY <1>1, <2>1, <2>4, PressUp
    <3> QED
      BY <1>1, <2>1, <3>1 DEF Panel!InRange
  <2>5. CASE delta \in -100..-1
    <3>1. s2' \in 1..s1
      BY <1>1, <2>1, <2>5, PressDown
    <3> QED
      BY <1>1, <2>1, <3>1 DEF Panel!InRange
  <2> QED
    BY <2>2, <2>3, <2>4, <2>5
<1> QED
  BY <1>2, <1>3, <1>4 DEF Panel!Next

\* The three lemmas above, for the deltas and percents that are looked at.
LEMMA PanelPresses ==
  Panel!PanelsAssumption /\ Panel!AskedAssumption /\ Panel!InRange => Panel!PressMoves
<1> SUFFICES ASSUME Panel!PanelsAssumption, Panel!AskedAssumption, Panel!InRange
             PROVE  Panel!PressMoves
  OBVIOUS
<1>1. s1 \in Nat \ {0} /\ s2 \in 0..s1
  BY DEF Panel!PanelsAssumption, Panel!InRange
<1>2. ASSUME NEW delta \in Deltas, NEW next, next = Panel!stepped(s2, delta)
      PROVE  /\ next \in 1..s1
             /\ delta > 0 => next > s2 \/ s2 = s1
             /\ delta < 0 /\ s2 > Panel!from_percent(0) => next < s2
             /\ delta < 0 /\ s2 <= Panel!from_percent(0) => next <= Panel!from_percent(0)
  <2>1. delta \in -100..100
    BY DEF Panel!AskedAssumption
  <2>2. CASE delta = 0
    <3>1. next = Panel!from_percent(Panel!Clamp(Panel!to_percent(s2), 0, 100))
      BY <1>1, <1>2, <2>2, PercentOf DEF Panel!stepped
    <3>2. Panel!Clamp(Panel!to_percent(s2), 0, 100) \in 0..100
      BY <1>1, PercentOf DEF Panel!Clamp
    <3> QED
      BY <1>1, <2>2, <3>1, <3>2, LevelFor
  <2>3. CASE delta \in 1..100
    <3>1. Panel!stepped(s2, delta) \in 1..s1
      BY <1>1, <2>3, PressUp
    <3>2. Panel!stepped(s2, delta) > s2 \/ s2 = s1
      BY <1>1, <2>3, PressUp
    <3>3. delta > 0 /\ ~(delta < 0)
      BY <2>3
    <3> QED
      BY <1>2, <3>1, <3>2, <3>3
  <2>4. CASE delta \in -100..-1
    <3>1. Panel!stepped(s2, delta) \in 1..s1
      BY <1>1, <2>4, PressDown
    <3>2. /\ s2 > Panel!from_percent(0) => Panel!stepped(s2, delta) < s2
          /\ s2 <= Panel!from_percent(0) => Panel!stepped(s2, delta) <= Panel!from_percent(0)
      BY <1>1, <2>4, PressDown
    <3>3. delta < 0 /\ ~(delta > 0)
      BY <2>4
    <3> QED
      BY <1>2, <3>1, <3>2, <3>3
  <2> QED
    BY <2>1, <2>2, <2>3, <2>4
<1>3. ASSUME NEW percent \in Asked
      PROVE  /\ Panel!from_percent(percent) \in 1..s1
             /\ s1 >= 100 /\ percent >= Panel!MIN_PERCENT
                  => Panel!to_percent(Panel!from_percent(percent)) = percent
  <2>1. percent \in 0..100
    BY DEF Panel!AskedAssumption
  <2> QED
    BY <1>1, <2>1, LevelFor, SliderStays DEF Panel!MIN_PERCENT
<1> QED
  BY <1>1, <1>2, <1>3 DEF Panel!PressMoves

\* On a panel of any number of levels, from any of them: a press of a key moves the level
\* its own way, neither keys nor slider reach black, and the slider stays where it is put
\* (brightness.rs).
THEOREM PressesMove == ModulesSpec => []PanelPressMoves
<1> DEFINE Inv == component = "panel" => Panel!InRange
<1>1. ModulesInit => Inv
  <2> SUFFICES ASSUME ModulesInit, component = "panel" PROVE Panel!InRange
    OBVIOUS
  <2>1. Panel!Init
    BY DEF ModulesInit
  <2>2. Panel!PanelsAssumption
    BY ModulesAssumption DEF ModulesAssumption
  <2> QED
    BY <2>1, <2>2 DEF Panel!Init, Panel!InRange, Panel!PanelsAssumption
<1>2. Inv /\ [ModulesNext]_all => Inv'
  <2>1. ASSUME Inv, ModulesNext PROVE Inv'
    BY <2>1, PanelNext, ModulesAssumption DEF ModulesNext, One, ModulesAssumption
  <2>2. ASSUME Inv, UNCHANGED all PROVE Inv'
    BY <2>2 DEF all, slots, Panel!InRange
  <2> QED
    BY <2>1, <2>2
<1>3. Inv => PanelPressMoves
  BY PanelPresses, ModulesAssumption DEF PanelPressMoves, ModulesAssumption
<1> QED
  BY <1>1, <1>2, <1>3, PTL DEF ModulesSpec

-----------------------------------------------------------------------------
(* The VPN state.                                                            *)

\* At the start nothing is known and nothing is shown.
LEMMA VpnInit == Vpn!NoneAssumption /\ Vpn!Init => Vpn!IInv
<1> SUFFICES ASSUME Vpn!NoneAssumption, Vpn!Init PROVE Vpn!IInv
  OBVIOUS
<1>1. Vpn!TypeOK
  <2>1. s5 \in BOOLEAN /\ s7 \in BOOLEAN /\ s9 \in BOOLEAN /\ s10 \in BOOLEAN
    BY Zenon DEF Vpn!Init
  <2>2. Vpn!Blank \in Vpn!State
    BY DEF Vpn!Blank, Vpn!State, Vpn!Tunnels
  <2>3. s6 \in [Slots -> Vpn!Job]
    BY DEF Vpn!Init, Vpn!NoJob, Vpn!Job, Vpn!Commands, Vpn!Tunnels
  <2> QED
    BY <2>1, <2>2, <2>3 DEF Vpn!Init, Vpn!TypeOK, Vpn!Cache, Vpn!Tunnels
<1> QED
  BY <1>1 DEF Vpn!Init, Vpn!IInv, Vpn!TunnelIsNetworkManagers, Vpn!Done, Vpn!NoJob, Vpn!Blank

\* A command's answer is pushed with what it writes; it makes the cache differ from the
\* loop's reading only where that is marked (late).
LEMMA VpnAnswer ==
  ASSUME Vpn!NoneAssumption, Vpn!IInv, NEW i \in Slots, NEW new \in Vpn!Cache,
         new.state.active <=> new.state.raw # None,
         Vpn!Answer(i, new),
         s10' \in BOOLEAN, ~s10' => ~s10 /\ new.state.raw = s2.state.raw
  PROVE  Vpn!IInv'
<1> USE DEF Vpn!IInv, Vpn!TunnelIsNetworkManagers, Vpn!Answer
<1>1. /\ s2' = new /\ s8' = new.state /\ new.state \in Vpn!State
      /\ UNCHANGED <<s1, s3, s4, s5, s7, s9>>
  BY DEF Vpn!bounds, Vpn!Cache
<1>2. s6' \in [Slots -> Vpn!Job] /\ \A k \in Slots : s6'[k] = s6[k] \/ s6'[k] = Vpn!NoJob
  BY DEF Vpn!TypeOK, Vpn!NoJob, Vpn!Job, Vpn!Commands, Vpn!Tunnels
<1>3. Vpn!TypeOK'
  BY <1>1, <1>2 DEF Vpn!TypeOK
<1>4. \A k \in Slots : Vpn!Done(k, "connect")' => s6'[k].tunnel \in Servers
  BY <1>2 DEF Vpn!Done, Vpn!NoJob
<1> QED
  BY <1>1, <1>3, <1>4 DEF Vpn!TypeOK

\* A command that changes the tunnel has it signalled, and one that has connected says
\* where to.
LEMMA VpnCommand ==
  ASSUME Vpn!IInv, NEW i \in Slots, Vpn!run_cli_result(i)
  PROVE  Vpn!IInv'
<1> USE DEF Vpn!IInv, Vpn!TunnelIsNetworkManagers
<1>1. s6 \in [Slots -> Vpn!Job] /\ s1 \in Vpn!Tunnels /\ s5 \in BOOLEAN
  BY DEF Vpn!TypeOK
<1>2. UNCHANGED <<s2, s3, s4, s7, s8, s9, s10>>
  BY DEF Vpn!run_cli_result, Vpn!bounds
<1>3. CASE s6' = [s6 EXCEPT ![i].outcome = "failed"] /\ UNCHANGED <<s1, s5>>
  <2>1. s6' \in [Slots -> Vpn!Job]
    BY <1>1, <1>3 DEF Vpn!Job
  <2>2. \A k \in Slots : Vpn!Done(k, "connect")' => s6'[k].tunnel \in Servers
    BY <1>1, <1>3 DEF Vpn!Done
  <2> QED
    BY <1>2, <1>3, <2>1, <2>2 DEF Vpn!TypeOK
<1>4. CASE /\ s1' \in CASE s6[i].command = "connect"    -> Servers
                        [] s6[i].command = "disconnect" -> {None}
                        [] OTHER                        -> {s1}
           /\ s6' = [s6 EXCEPT ![i].outcome = "done", ![i].tunnel = s1']
           /\ s5' = (s5 \/ s1' # s1)
  <2>1. s1' \in Vpn!Tunnels /\ (s6[i].command = "connect" => s1' \in Servers)
    BY <1>1, <1>4 DEF Vpn!Tunnels
  <2>2. s6' \in [Slots -> Vpn!Job]
    BY <1>1, <1>4, <2>1 DEF Vpn!Job
  <2>3. \A k \in Slots : Vpn!Done(k, "connect")' => s6'[k].tunnel \in Servers
    <3> TAKE k \in Slots
    <3>1. CASE k = i
      BY <1>1, <1>4, <2>1, <3>1 DEF Vpn!Done, Vpn!Job
    <3>2. CASE k # i
      BY <1>1, <1>4, <3>2 DEF Vpn!Done
    <3> QED
      BY <3>1, <3>2
  <2>4. s5' \in BOOLEAN /\ (~s5' => ~s5 /\ s1' = s1)
    BY <1>4, Zenon
  <2>5. Vpn!TypeOK'
    BY <1>2, <2>1, <2>2, <2>4 DEF Vpn!TypeOK
  <2> QED
    BY <1>2, <2>3, <2>4, <2>5
<1> QED
  BY <1>3, <1>4, Zenon DEF Vpn!run_cli_result

\* A command that begins has answered nothing yet.
LEMMA VpnBegin ==
  ASSUME Vpn!IInv, NEW i \in Slots, NEW command \in Vpn!Commands, Vpn!Begin(i, command)
  PROVE  Vpn!IInv'
<1> USE DEF Vpn!IInv, Vpn!TunnelIsNetworkManagers, Vpn!Begin
<1>1. s6' \in [Slots -> Vpn!Job]
  BY DEF Vpn!TypeOK, Vpn!Job
<1>2. \A k \in Slots : Vpn!Done(k, "connect")' => s6'[k].tunnel \in Servers
  BY DEF Vpn!Done, Vpn!NoJob, Vpn!TypeOK, Vpn!Job
<1> QED
  BY <1>1, <1>2 DEF Vpn!TypeOK

\* What the loop reads and writes is the tunnel, unless a signal is left or NetworkManager
\* did not answer.
LEMMA VpnLoop ==
  ASSUME Vpn!NoneAssumption, Vpn!IInv, Vpn!Loop
  PROVE  Vpn!IInv'
<1> USE DEF Vpn!IInv, Vpn!TunnelIsNetworkManagers
<1>1. CASE Vpn!Read
  <2>1. /\ s4' \in Vpn!Tunnels /\ s10' \in BOOLEAN /\ (~s10' => s4' = s1)
    <3>1. CASE s4' = s1 /\ s10' = FALSE
      BY <3>1 DEF Vpn!TypeOK
    <3>2. CASE s4' = None /\ s10' = (s1 # None)
      BY <3>2, Zenon DEF Vpn!Tunnels
    <3> QED
      BY <1>1, <3>1, <3>2, Zenon DEF Vpn!Read, Vpn!active_links
  <2>2. s3' = "write" /\ UNCHANGED <<s1, s2, s5, s6, s7, s8, s9>>
    BY <1>1 DEF Vpn!Read
  <2> QED
    BY <2>1, <2>2 DEF Vpn!TypeOK, Vpn!Done
<1>2. CASE Vpn!Write
  <2>1. /\ s3 = "write" /\ s3' = "wait" /\ s7' = FALSE
        /\ UNCHANGED <<s1, s4, s5, s6, s9, s10>>
    BY <1>2 DEF Vpn!Write
  <2>2. s2' \in Vpn!Cache /\ s2'.state.raw = s4 /\ (s2'.state.active <=> s2'.state.raw # None)
    <3>1. CASE s2.state.raw = s4
      BY <1>2, <3>1 DEF Vpn!Write, Vpn!TypeOK
    <3>2. CASE s2.state.raw # s4
      <4>1. s2' = Vpn!Followed(s2, s4) /\ s2 \in Vpn!Cache /\ s4 \in Vpn!Tunnels
        BY <1>2, <3>2 DEF Vpn!Write, Vpn!TypeOK
      <4> QED
        BY <4>1 DEF Vpn!Followed, Vpn!Cache, Vpn!State
    <3> QED
      BY <3>1, <3>2
  <2>3. s8' = s2'.state
    BY <1>2 DEF Vpn!Write
  <2>4. Vpn!TypeOK'
    BY <2>1, <2>2, <2>3 DEF Vpn!TypeOK, Vpn!Cache
  <2> QED
    BY <2>1, <2>2, <2>3, <2>4 DEF Vpn!Done
<1>3. CASE Vpn!Wake
  BY <1>3 DEF Vpn!Wake, Vpn!TypeOK, Vpn!Done
<1> QED
  BY <1>1, <1>2, <1>3 DEF Vpn!Loop

\* Every step of the tunnel, the loop and the calls.
LEMMA VpnNext == Vpn!NoneAssumption /\ Vpn!IInv /\ Vpn!Next => Vpn!IInv'
<1> SUFFICES ASSUME Vpn!NoneAssumption, Vpn!IInv, Vpn!Next PROVE Vpn!IInv'
  OBVIOUS
<1>1. CASE Vpn!Change
  BY <1>1 DEF Vpn!Change, Vpn!IInv, Vpn!TunnelIsNetworkManagers, Vpn!TypeOK, Vpn!Done
<1>2. ASSUME NEW i \in Slots, Vpn!CallSteps(i) PROVE Vpn!IInv'
  <2>1. CASE \E command \in Vpn!Commands : Vpn!Begin(i, command)
    BY <2>1, VpnBegin
  <2>2. CASE Vpn!run_cli_result(i)
    BY <2>2, VpnCommand
  <2>3. CASE Vpn!Failed(i)
    <3>1. s6' \in [Slots -> Vpn!Job] /\ \A k \in Slots : s6'[k] = s6[k] \/ s6'[k] = Vpn!NoJob
      BY <2>3 DEF Vpn!Failed, Vpn!IInv, Vpn!TunnelIsNetworkManagers, Vpn!TypeOK, Vpn!NoJob, Vpn!Job,
         Vpn!Commands, Vpn!Tunnels
    <3>2. s8' = s8 \/ s8' = s2.state
      BY <2>3 DEF Vpn!Failed
    <3>3. UNCHANGED <<s1, s2, s3, s4, s5, s7, s9, s10>>
      BY <2>3 DEF Vpn!Failed
    <3>4. \A k \in Slots : Vpn!Done(k, "connect")' => s6'[k].tunnel \in Servers
      BY <3>1 DEF Vpn!IInv, Vpn!Done, Vpn!NoJob
    <3>5. Vpn!TypeOK'
      BY <3>1, <3>2, <3>3 DEF Vpn!IInv, Vpn!TunnelIsNetworkManagers, Vpn!TypeOK, Vpn!Cache
    <3> QED
      BY <3>2, <3>3, <3>4, <3>5 DEF Vpn!IInv, Vpn!TunnelIsNetworkManagers
  <2>4. s2 \in Vpn!Cache /\ s6[i] \in Vpn!Job /\ s9 \in BOOLEAN /\ s10 \in BOOLEAN
        /\ (s2.state.active <=> s2.state.raw # None)
    BY DEF Vpn!IInv, Vpn!TunnelIsNetworkManagers, Vpn!TypeOK
  <2>5. CASE Vpn!Details(i)
    <3> DEFINE at == s6[i].tunnel
               new == [s2 EXCEPT !.key = s2.state.raw, !.fresh = TRUE,
                                 !.state.connected = at # None,
                                 !.state.server = IF at # None THEN at
                                                  ELSE IF s2.state.raw = None THEN None ELSE @]
    <3>1. Vpn!Answer(i, new) /\ s10' = s10
      BY <2>5 DEF Vpn!Details
    <3>2. new \in Vpn!Cache /\ new.state.active = s2.state.active /\ new.state.raw = s2.state.raw
      BY <2>4 DEF Vpn!Cache, Vpn!State, Vpn!Job, Vpn!Tunnels
    <3> HIDE DEF new
    <3> QED
      BY <2>4, <3>1, <3>2, VpnAnswer
  <2>6. CASE Vpn!Config(i)
    <3>1. PICK known \in BOOLEAN :
            Vpn!Answer(i, [s2 EXCEPT !.config = known, !.state.selection = known /\ s9])
      BY <2>6 DEF Vpn!Config
    <3> DEFINE chosen == known /\ s9
               new == [s2 EXCEPT !.config = known, !.state.selection = chosen]
    <3>2. chosen \in BOOLEAN /\ Vpn!Answer(i, new) /\ s10' = s10
      BY <2>4, <2>6, <3>1, Zenon DEF Vpn!Config
    <3> HIDE DEF chosen
    <3>3. new \in Vpn!Cache /\ new.state.active = s2.state.active /\ new.state.raw = s2.state.raw
      BY <2>4, <3>2 DEF Vpn!Cache, Vpn!State
    <3> HIDE DEF new
    <3> QED
      BY <2>4, <3>2, <3>3, VpnAnswer
  <2>7. CASE Vpn!Countries(i)
    <3>1. PICK some \in BOOLEAN : Vpn!Answer(i, [s2 EXCEPT !.state.countries = some])
      BY <2>7 DEF Vpn!Countries
    <3> DEFINE new == [s2 EXCEPT !.state.countries = some]
    <3>2. s10' = s10
      BY <2>7 DEF Vpn!Countries
    <3>3. new \in Vpn!Cache /\ new.state.active = s2.state.active /\ new.state.raw = s2.state.raw
      BY <2>4 DEF Vpn!Cache, Vpn!State
    <3> HIDE DEF new
    <3>4. Vpn!Answer(i, new)
      BY <3>1 DEF new
    <3> QED
      BY <2>4, <3>2, <3>3, <3>4, VpnAnswer
  <2>8. CASE Vpn!Connected(i)
    <3> DEFINE at == s6[i].tunnel
               new == [s2 EXCEPT !.key = at, !.fresh = TRUE, !.state.raw = at, !.state.active = TRUE,
                                 !.state.connected = TRUE, !.state.server = at]
    <3>1. Vpn!Answer(i, new) /\ s10' = TRUE
      BY <2>8 DEF Vpn!Connected
    <3>2. at \in Servers
      BY <2>8 DEF Vpn!Connected, Vpn!IInv
    <3>3. new \in Vpn!Cache /\ new.state.active = TRUE /\ new.state.raw = at
      BY <2>4, <3>2 DEF Vpn!Cache, Vpn!State, Vpn!Tunnels
    <3>4. at # None
      BY <3>2 DEF Vpn!NoneAssumption
    <3> HIDE DEF new, at
    <3> QED
      BY <3>1, <3>3, <3>4, VpnAnswer
  <2>9. CASE Vpn!Disconnected(i)
    <3> DEFINE new == [s2 EXCEPT !.key = None, !.fresh = FALSE,
                                 !.state = [Vpn!Blank EXCEPT !.selection = s2.state.selection,
                                                             !.countries = s2.state.countries]]
    <3>1. Vpn!Answer(i, new) /\ s10' = TRUE
      BY <2>9 DEF Vpn!Disconnected
    <3>2. new \in Vpn!Cache /\ new.state.active = FALSE /\ new.state.raw = None
      BY <2>4 DEF Vpn!Blank, Vpn!Cache, Vpn!State, Vpn!Tunnels
    <3> HIDE DEF new
    <3> QED
      BY <3>1, <3>2, VpnAnswer
  <2>10. CASE Vpn!Unrecognised(i)
    BY <2>4, <2>10, VpnAnswer DEF Vpn!Unrecognised
  <2>11. (\E command \in Vpn!Commands : Vpn!Begin(i, command))
         \/ Vpn!run_cli_result(i) \/ Vpn!Failed(i) \/ Vpn!Details(i) \/ Vpn!Config(i)
         \/ Vpn!Countries(i) \/ Vpn!Connected(i) \/ Vpn!Disconnected(i) \/ Vpn!Unrecognised(i)
    BY <1>2 DEF Vpn!CallSteps, Vpn!details, Vpn!config, Vpn!countries, Vpn!connect, Vpn!disconnect,
       Vpn!Commands
  <2> QED
    BY <2>1, <2>2, <2>3, <2>5, <2>6, <2>7, <2>8, <2>9, <2>10, <2>11
<1> QED
  BY <1>1, <1>2, VpnLoop DEF Vpn!Next

\* For any servers, any number of calls and of changes: at rest the tunnel that is shown is
\* NetworkManager's but for the documented exceptions, active goes with a name, and the
\* subscribers have what the cache has (vpn.rs).
THEOREM TunnelShown == ModulesSpec => []VpnTunnelIsNetworkManagers
<1> DEFINE Inv == component = "vpn" => Vpn!IInv
<1>1. ModulesInit => Inv
  BY VpnInit, ModulesAssumption DEF ModulesAssumption, ModulesInit
<1>2. Inv /\ [ModulesNext]_all => Inv'
  <2>1. ASSUME Inv, ModulesNext PROVE Inv'
    BY <2>1, VpnNext, ModulesAssumption DEF ModulesNext, One, ModulesAssumption
  <2>2. ASSUME Inv, UNCHANGED all PROVE Inv'
    BY <2>2 DEF all, slots, Vpn!IInv, Vpn!TunnelIsNetworkManagers, Vpn!TypeOK, Vpn!Done
  <2> QED
    BY <2>1, <2>2
<1>3. Inv => VpnTunnelIsNetworkManagers
  BY DEF VpnTunnelIsNetworkManagers, Vpn!IInv
<1> QED
  BY <1>1, <1>2, <1>3, PTL DEF ModulesSpec

-----------------------------------------------------------------------------
(* The theme.                                                                *)

\* At the start every output has the colours of the theme recorded.
LEMMA ThemeInit ==
  Theme!ThemesAssumption /\ Theme!NoneAssumption /\ Theme!Init => Theme!IInv
<1> SUFFICES ASSUME Theme!ThemesAssumption, Theme!NoneAssumption, Theme!Init
             PROVE  Theme!IInv
  OBVIOUS
<1>1. Theme!TypeOK
  BY DEF Theme!ThemesAssumption, Theme!Init, Theme!TypeOK, Theme!Palette
<1> QED
  BY <1>1 DEF Theme!Init, Theme!IInv, Theme!ChangesDoNotMix, Theme!Waiters

\* A change that ends gives the lock back and leaves nothing staged; what it says it left
\* behind is all that may differ from the record.
LEMMA ThemeEnds ==
  ASSUME Theme!IInv, NEW c \in Calls, Theme!End(c), s6 \in {None, c},
         s1' \in [theme: Themes, wall: Walls \cup {None}], s2' \in Walls \cup {None},
         s3' \in [Theme!Outputs -> Themes \X (Walls \cup {None})], s4' \in Walls \cup {None},
         s11' \subseteq Theme!Everything,
         s10' = None \/ s10' \in [theme: Themes, wall: Walls \cup {None},
                                  palette: Themes \X (Walls \cup {None})],
         \A g \in Theme!Outputs \ s11' : s3'[g] = Theme!Palette(s1'.theme, s2'),
         "portrait" \notin s11' /\ s1'.wall # None => s4' = s1'.wall,
         "feed" \notin s11' /\ s10' # None => s10' = Theme!snapshot(s1', s2')
  PROVE  Theme!IInv'
<1>1. s6' = None /\ s5' = {} /\ s8' = <<>> /\ s9' = {} /\ s7' = [s7 EXCEPT ![c] = Theme!NoJob]
  BY DEF Theme!End
<1>2. Theme!Waiters'
  BY <1>1 DEF Theme!IInv, Theme!Waiters
<1>3. Theme!TypeOK'
  BY <1>1 DEF Theme!TypeOK
<1> QED
  BY <1>1, <1>2, <1>3 DEF Theme!IInv, Theme!ChangesDoNotMix

\* What changes neither record nor outputs.
LEMMA ThemeCalls ==
  ASSUME Theme!IInv, Theme!NoneAssumption, NEW c \in Calls, Theme!Call(c)
  PROVE  Theme!IInv'
<1>1. s7[c] = Theme!NoJob /\ s7' = [s7 EXCEPT ![c] = Theme!Waiting]
  BY DEF Theme!Call
<1>2. UNCHANGED <<s1, s2, s3, s4, s5, s6, s8, s9, s10, s11>>
  BY DEF Theme!Call, Theme!files
<1>3. s6 # c
  <2>1. s6 = c => s7[c].op = "apply"
    BY DEF Theme!IInv, Theme!AtWork, Theme!Working, Theme!NoneAssumption
  <2> QED
    BY <1>1, <2>1 DEF Theme!NoJob
<1>4. Theme!Waiters'
  BY <1>1, <1>2, <1>3 DEF Theme!IInv, Theme!Waiters
<1>5. s6 # None => s7'[s6] = s7[s6]
  BY <1>1, <1>3 DEF Theme!IInv, Theme!Waiters
<1>6. (s6 # None => Theme!AtWork)'
  BY <1>2, <1>5 DEF Theme!IInv, Theme!AtWork, Theme!Painted, Theme!Copied, Theme!Source,
     Theme!required_failures
<1> QED
  BY <1>2, <1>4, <1>6 DEF Theme!IInv, Theme!ChangesDoNotMix, Theme!TypeOK, Theme!snapshot

\* The module's loop pushes how things stand.
LEMMA ThemeRun ==
  ASSUME Theme!IInv, Theme!Run
  PROVE  Theme!IInv'
<1>1. s10' = Theme!snapshot(s1, s2) /\ UNCHANGED <<s1, s2, s3, s4, s5, s6, s7, s8, s9, s11>>
  BY DEF Theme!Run, Theme!files
<1>2. s10' \in [theme: Themes, wall: Walls \cup {None}, palette: Themes \X (Walls \cup {None})]
  BY <1>1 DEF Theme!snapshot, Theme!Palette, Theme!IInv, Theme!ChangesDoNotMix, Theme!TypeOK
<1>3. Theme!Waiters' /\ (s6 # None => Theme!AtWork)'
  BY <1>1 DEF Theme!IInv, Theme!Waiters, Theme!AtWork, Theme!Painted, Theme!Copied, Theme!Source,
     Theme!required_failures
<1> QED
  BY <1>1, <1>2, <1>3 DEF Theme!IInv, Theme!ChangesDoNotMix, Theme!TypeOK, Theme!snapshot

\* A death in the middle of a change leaves everything behind the record.
LEMMA ThemeRestart ==
  ASSUME Theme!IInv, Theme!Restart
  PROVE  Theme!IInv'
<1>1. /\ s11' = IF s6 = None THEN s11 ELSE Theme!Everything
      /\ s5' = {} /\ s6' = None /\ s8' = <<>> /\ s9' = {} /\ s10' = None
      /\ s7' = [c \in Calls |-> Theme!NoJob]
      /\ UNCHANGED <<s1, s2, s3, s4>>
  BY DEF Theme!Restart, Theme!files
<1>2. Theme!TypeOK' /\ Theme!Waiters'
  BY <1>1 DEF Theme!IInv, Theme!ChangesDoNotMix, Theme!TypeOK, Theme!Waiters
<1> QED
  BY <1>1, <1>2 DEF Theme!IInv, Theme!ChangesDoNotMix, Theme!Everything

\* An apply that has the lock has painted nothing yet, and a dynamic theme's file is made from
\* the wallpaper it will record.
LEMMA ThemePrepare ==
  ASSUME Theme!ThemesAssumption, Theme!NoneAssumption, Theme!IInv, NEW c \in Calls, Theme!Prepare(c)
  PROVE  Theme!IInv'
<1>1. PICK r \in Theme!Applies :
        /\ r.theme = Dynamic => Theme!Source(r) # None
        /\ Theme!generate(r)
        /\ s7' = [s7 EXCEPT ![c] = r]
  BY DEF Theme!Prepare
<1>2. /\ s6 = None /\ s6' = c /\ s8' = Theme!Generators /\ s9' = {}
      /\ UNCHANGED <<s1, s3, s4, s5, s10, s11>>
  BY DEF Theme!Prepare, Theme!Acquire
<1>3. r \in Theme!Working /\ r.step = "generate"
  BY DEF Theme!Applies, Theme!Working
<1>4. Theme!Source(r) \in Walls \cup {None} /\ s2' = IF r.theme = Dynamic THEN Theme!Source(r) ELSE s2
  BY <1>1, <1>3 DEF Theme!Source, Theme!Working, Theme!generate, Theme!IInv, Theme!ChangesDoNotMix,
     Theme!TypeOK
<1>5. Theme!TypeOK'
  BY <1>2, <1>4 DEF Theme!IInv, Theme!ChangesDoNotMix, Theme!TypeOK, Theme!Generators, Theme!Outputs
<1>6. s7'[c] = r /\ Theme!Waiters'
  BY <1>1, <1>2, <1>3 DEF Theme!IInv, Theme!Waiters, Theme!NoneAssumption
<1>7. Theme!AtWork'
  <2>1. Theme!Source(s7[s6])' = Theme!Source(r)
    BY <1>2, <1>6 DEF Theme!Source
  <2>2. Theme!Generators # <<>>
    BY DEF Theme!Generators
  <2> QED
    BY <1>2, <1>3, <1>4, <1>6, <2>1, <2>2 DEF Theme!AtWork
<1>8. c # None
  BY DEF Theme!NoneAssumption
<1> QED
  BY <1>2, <1>5, <1>6, <1>7, <1>8 DEF Theme!IInv, Theme!ChangesDoNotMix

\* A call that is past waiting is the one with the lock.
LEMMA ThemeTurn ==
  ASSUME Theme!NoneAssumption, Theme!IInv, NEW c \in Calls, s7[c].step \notin {"idle", "wait"}
  PROVE  s6 = c /\ c # None /\ Theme!AtWork
BY DEF Theme!IInv, Theme!Waiters, Theme!NoJob, Theme!Waiting, Theme!NoneAssumption

\* An apply that fails leaves everything behind, and the record as it was.
LEMMA ThemeFails ==
  ASSUME Theme!NoneAssumption, Theme!IInv, NEW c \in Calls, s6 = c, Theme!Fails(c), UNCHANGED s1
  PROVE  Theme!IInv'
<1>1. Theme!End(c) /\ s11' = Theme!Everything /\ UNCHANGED <<s2, s3, s4, s10>>
  BY DEF Theme!Fails
<1>2. Theme!Outputs \ Theme!Everything = {} /\ "portrait" \in Theme!Everything /\ "feed" \in Theme!Everything
  BY DEF Theme!Everything
<1> QED
  BY <1>1, <1>2, ThemeEnds DEF Theme!IInv, Theme!ChangesDoNotMix, Theme!TypeOK

\* Going on to its next step, an apply keeps what it was asked.
LEMMA ThemeStep ==
  ASSUME Theme!NoneAssumption, Theme!IInv, NEW c \in Calls, s6 = c, s6' = c, Theme!AtWork,
         NEW step \in {"theme", "wall", "answer"}, Theme!Step(c, step)
  PROVE  /\ Theme!Waiters' /\ s7'[c] \in Theme!Working /\ s7'[c].step = step
         /\ s7'[c].theme = s7[c].theme /\ s7'[c].wall = s7[c].wall
<1>1. s7[c] \in Theme!Working /\ s7' = [s7 EXCEPT ![c] = [s7[c] EXCEPT !.step = step]]
  BY DEF Theme!AtWork, Theme!Step
<1>2. [s7[c] EXCEPT !.step = step] \in Theme!Working
  BY <1>1 DEF Theme!Working
<1>3. /\ [s7[c] EXCEPT !.step = step].step = step
      /\ [s7[c] EXCEPT !.step = step].theme = s7[c].theme
      /\ [s7[c] EXCEPT !.step = step].wall = s7[c].wall
  BY <1>1 DEF Theme!Working
<1>4. Theme!Waiters' /\ s7'[c] = [s7[c] EXCEPT !.step = step]
  BY <1>1, <1>2 DEF Theme!IInv, Theme!Waiters
<1> QED
  BY <1>2, <1>3, <1>4

\* A generator paints with the colours that will be recorded, or is among the failed.
LEMMA ThemeGenerate ==
  ASSUME Theme!ThemesAssumption, Theme!NoneAssumption, Theme!IInv, NEW c \in Calls, Theme!Generate(c)
  PROVE  Theme!IInv'
<1> DEFINE r == s7[c]
           g == Head(s8)
           wall == IF g = "greeter" THEN Theme!Source(r) ELSE None
<1>1. s6 = c /\ c # None /\ Theme!AtWork /\ r.step = "generate" /\ s8 # <<>>
  BY ThemeTurn DEF Theme!Generate
<1>2. PICK painted \in BOOLEAN, copied \in Theme!Copies(wall) :
        /\ s3' = IF painted THEN [s3 EXCEPT ![g] = Theme!Applied(c)] ELSE s3
        /\ Theme!sync_background(wall, copied)
        /\ s9' = s9 \cup Theme!Without(painted, g) \cup Theme!Without(copied \/ wall = None, "portrait")
  BY DEF Theme!Generate
<1>3. s8' = Tail(s8) /\ UNCHANGED <<s1, s2, s5, s6, s7, s10, s11>>
  BY DEF Theme!Generate
<1>4. \/ s8 = Theme!Generators /\ g = "gtk" /\ s8' = <<"greeter">>
      \/ s8 = <<"greeter">> /\ g = "greeter" /\ s8' = <<>>
  <2>1. s8 \in {Theme!Generators, <<"greeter">>, <<>>}
    BY <1>1 DEF Theme!AtWork
  <2>2. CASE s8 = Theme!Generators
    <3>1. Head(<<"gtk", "greeter">>) = "gtk" /\ Tail(<<"gtk", "greeter">>) = <<"greeter">>
      OBVIOUS
    <3> QED
      BY <1>3, <2>2, <3>1 DEF Theme!Generators
  <2>3. CASE s8 = <<"greeter">>
    <3>1. Head(<<"greeter">>) = "greeter" /\ Tail(<<"greeter">>) = <<>>
      OBVIOUS
    <3> QED
      BY <1>3, <2>3, <3>1
  <2> QED
    BY <1>1, <2>1, <2>2, <2>3
<1>5. r \in Theme!Working /\ Theme!Source(r) \in Walls \cup {None}
  BY <1>1 DEF Theme!AtWork, Theme!Working, Theme!Source, Theme!IInv, Theme!ChangesDoNotMix, Theme!TypeOK
<1>6. Theme!Applied(c) = Theme!Palette(r.theme, s2) /\ Theme!Applied(c) \in Themes \X (Walls \cup {None})
  BY <1>1, <1>5 DEF Theme!Applied, Theme!Palette, Theme!AtWork, Theme!Working
<1>7. s3 \in [Theme!Outputs -> Themes \X (Walls \cup {None})] /\ g \in Theme!Outputs
  BY <1>4 DEF Theme!IInv, Theme!ChangesDoNotMix, Theme!TypeOK, Theme!Outputs
<1>8. /\ s3' \in [Theme!Outputs -> Themes \X (Walls \cup {None})]
      /\ painted => s3'[g] = Theme!Palette(r.theme, s2)
      /\ \A h \in Theme!Outputs : h # g => s3'[h] = s3[h]
  BY <1>2, <1>6, <1>7
<1>9. /\ s9' \subseteq Theme!Outputs \cup {"portrait"} /\ s9 \subseteq s9'
      /\ painted \/ g \in s9'
      /\ copied \/ wall = None \/ "portrait" \in s9'
  BY <1>1, <1>2, <1>7 DEF Theme!AtWork, Theme!Without
<1>10. /\ copied \in BOOLEAN /\ (copied => wall # None)
       /\ s4' = IF copied THEN wall ELSE s4
  BY <1>2 DEF Theme!Copies, Theme!sync_background
<1>11. s4' \in Walls \cup {None}
  BY <1>5, <1>10 DEF Theme!IInv, Theme!ChangesDoNotMix, Theme!TypeOK
<1>12. Theme!Source(r)' = Theme!Source(r)
  BY <1>3 DEF Theme!Source
<1> HIDE DEF g, wall
<1>13. Theme!TypeOK'
  <2>1. s8' \in Seq(Theme!Outputs)
    <3>1. <<"greeter">> \in Seq(Theme!Outputs) /\ <<>> \in Seq(Theme!Outputs)
      BY DEF Theme!Outputs
    <3> QED
      BY <1>4, <3>1
  <2>2. s9' \subseteq Theme!Everything
    BY <1>9 DEF Theme!Everything
  <2> QED
    BY <1>3, <1>8, <1>11, <2>1, <2>2 DEF Theme!IInv, Theme!ChangesDoNotMix, Theme!TypeOK
<1>14. Theme!Waiters'
  BY <1>3 DEF Theme!IInv, Theme!Waiters
<1>15. Theme!AtWork'
  <2>1. /\ s8 = Theme!Generators => Theme!Painted("gtk")'
        /\ s8 = <<"greeter">> => Theme!Painted("greeter")' /\ Theme!Painted("gtk")' /\ Theme!Copied'
    <3>1. ASSUME NEW h \in Theme!Outputs, g = h PROVE Theme!Painted(h)'
      <4>1. h \in s9' \/ s3'[h] = Theme!Palette(r.theme, s2)
        BY <1>8, <1>9, <3>1
      <4> QED
        BY <1>1, <1>3, <4>1 DEF Theme!Painted
    <3>2. s8 = <<"greeter">> => Theme!Painted("gtk")'
      <4>1. <<"greeter">> # Theme!Generators
        BY DEF Theme!Generators
      <4>2. s8 = <<"greeter">> => Theme!Painted("gtk") /\ g # "gtk"
        BY <1>1, <1>4, <4>1 DEF Theme!AtWork
      <4> QED
        BY <1>1, <1>3, <1>8, <1>9, <4>2 DEF Theme!Painted, Theme!Outputs
    <3>3. s8 = <<"greeter">> => Theme!Copied'
      <4>1. <<"greeter">> # Theme!Generators
        BY DEF Theme!Generators
      <4>2. s8 = <<"greeter">> => wall = Theme!Source(r)
        BY <1>4, <4>1 DEF wall, g
      <4> QED
        BY <1>1, <1>3, <1>9, <1>10, <1>12, <4>2 DEF Theme!Copied
    <3>4. <<"greeter">> # Theme!Generators
      BY DEF Theme!Generators
    <3>5. s8 = Theme!Generators => Theme!Painted("gtk")'
      BY <1>4, <3>1, <3>4 DEF Theme!Outputs
    <3>6. s8 = <<"greeter">> => Theme!Painted("greeter")'
      BY <1>4, <3>1, <3>4 DEF Theme!Outputs
    <3> QED
      BY <3>2, <3>3, <3>5, <3>6
  <2>2. r.step = "generate" /\ (r.theme = Dynamic => s2 = Theme!Source(r))
    BY <1>1 DEF Theme!AtWork
  <2>3. s8' \in {Theme!Generators, <<"greeter">>, <<>>} /\ (s8' = <<>> => s8 = <<"greeter">>)
    BY <1>4
  <2> QED
    BY <1>1, <1>3, <1>4, <1>5, <1>9, <1>12, <2>1, <2>2, <2>3 DEF Theme!AtWork
<1> QED
  BY <1>1, <1>3, <1>13, <1>14, <1>15 DEF Theme!IInv, Theme!ChangesDoNotMix

\* The files of the record take their place one after the other, under the lock.
LEMMA ThemeCommits ==
  ASSUME Theme!NoneAssumption, Theme!IInv, NEW c \in Calls,
         Theme!commit_state(c) \/ Theme!CommitTheme(c) \/ Theme!CommitWall(c)
  PROVE  Theme!IInv'
<1> DEFINE r == s7[c]
<1>1. s6 = c /\ c # None /\ Theme!AtWork /\ r \in Theme!Working
  BY ThemeTurn DEF Theme!commit_state, Theme!CommitTheme, Theme!CommitWall, Theme!AtWork
<1>2. CASE Theme!Fails(c) /\ UNCHANGED s1
  BY <1>1, <1>2, ThemeFails
<1>3. ASSUME UNCHANGED <<s2, s3, s4, s6, s8, s9, s10, s11>>, s8 = <<>>,
             s5' \subseteq {"theme", "wall"}, s1' \in [theme: Themes, wall: Walls \cup {None}],
             NEW step \in {"theme", "wall", "answer"}, Theme!Step(c, step),
             Theme!required_failures = {},
             step = "theme" => s5' = {"theme"} \cup (IF r.wall = None THEN {} ELSE {"wall"}),
             step = "wall" => s5' = {"wall"} /\ r.wall # None,
             step \in {"wall", "answer"} => s1'.theme = r.theme,
             step = "answer" => s5' = {} /\ r.wall \in {None, s1'.wall},
             r.wall = None => s1'.wall = s1.wall
      PROVE  Theme!IInv'
  <2>1. /\ Theme!Waiters' /\ s7'[c] \in Theme!Working /\ s7'[c].step = step
        /\ s7'[c].theme = r.theme /\ s7'[c].wall = r.wall
    BY <1>1, <1>3, ThemeStep
  <2>2. Theme!Source(s7[s6])' = Theme!Source(r)
    BY <1>1, <1>3, <2>1 DEF Theme!Source
  <2>3. Theme!Painted("gtk")' /\ Theme!Painted("greeter")' /\ Theme!Copied'
    <3>1. Theme!Painted("gtk") /\ Theme!Painted("greeter") /\ Theme!Copied
      BY <1>1, <1>3 DEF Theme!AtWork, Theme!Generators
    <3> QED
      BY <1>1, <1>3, <2>1, <2>2, <3>1 DEF Theme!Painted, Theme!Copied
  <2>4. Theme!AtWork'
    BY <1>1, <1>3, <2>1, <2>2, <2>3 DEF Theme!AtWork, Theme!required_failures
  <2>5. Theme!TypeOK'
    BY <1>3 DEF Theme!IInv, Theme!ChangesDoNotMix, Theme!TypeOK
  <2> QED
    BY <1>1, <1>3, <2>1, <2>4, <2>5 DEF Theme!IInv, Theme!ChangesDoNotMix
<1>4. CASE Theme!commit_state(c) /\ ~(Theme!Fails(c) /\ UNCHANGED s1)
  <2>1. /\ s8 = <<>> /\ Theme!required_failures = {} /\ Theme!Step(c, "theme")
        /\ s5' = {"theme"} \cup (IF r.wall = None THEN {} ELSE {"wall"})
        /\ UNCHANGED <<s1, s2, s3, s4, s6, s8, s9, s10, s11>>
    BY <1>4 DEF Theme!commit_state, Theme!files
  <2> QED
    BY <1>3, <2>1 DEF Theme!IInv, Theme!ChangesDoNotMix, Theme!TypeOK
<1>5. CASE Theme!CommitTheme(c) /\ ~(Theme!Fails(c) /\ UNCHANGED s1)
  <2> DEFINE step == IF "wall" \in s5 THEN "wall" ELSE "answer"
  <2>1. /\ r.step = "theme" /\ s1' = [s1 EXCEPT !.theme = r.theme] /\ s5' = s5 \ {"theme"}
        /\ Theme!Step(c, step)
        /\ UNCHANGED <<s2, s3, s4, s6, s8, s9, s10, s11>>
    BY <1>5 DEF Theme!CommitTheme
  <2>2. /\ s5 = {"theme"} \cup (IF r.wall = None THEN {} ELSE {"wall"})
        /\ s8 = <<>> /\ Theme!required_failures = {}
    BY <1>1, <2>1 DEF Theme!AtWork
  <2>3. /\ s1' \in [theme: Themes, wall: Walls \cup {None}] /\ s1'.theme = r.theme
        /\ s1'.wall = s1.wall
    BY <1>1, <2>1 DEF Theme!Working, Theme!IInv, Theme!ChangesDoNotMix, Theme!TypeOK
  <2>4. /\ step \in {"theme", "wall", "answer"} /\ step # "theme"
        /\ step = "wall" => s5' = {"wall"} /\ r.wall # None
        /\ step = "answer" => s5' = {} /\ r.wall = None
        /\ s5' \subseteq {"theme", "wall"}
    BY <2>1, <2>2
  <2> HIDE DEF step
  <2> QED
    BY <1>3, <2>1, <2>2, <2>3, <2>4
<1>6. CASE Theme!CommitWall(c) /\ ~(Theme!Fails(c) /\ UNCHANGED s1)
  <2>1. /\ r.step = "wall" /\ s1' = [s1 EXCEPT !.wall = r.wall] /\ s5' = s5 \ {"wall"}
        /\ Theme!Step(c, "answer")
        /\ UNCHANGED <<s2, s3, s4, s6, s8, s9, s10, s11>>
    BY <1>6 DEF Theme!CommitWall
  <2>2. /\ s5' = {} /\ r.wall # None /\ s8 = <<>> /\ Theme!required_failures = {}
        /\ s1.theme = r.theme
    BY <1>1, <2>1 DEF Theme!AtWork
  <2>3. /\ s1' \in [theme: Themes, wall: Walls \cup {None}] /\ s1'.theme = r.theme
        /\ s1'.wall = r.wall
    BY <1>1, <2>1, <2>2 DEF Theme!Working, Theme!IInv, Theme!ChangesDoNotMix, Theme!TypeOK
  <2> QED
    BY <1>3, <2>1, <2>2, <2>3
<1> QED
  BY <1>2, <1>4, <1>5, <1>6

\* An apply that is answered has recorded what it painted.
LEMMA ThemeAnswers ==
  ASSUME Theme!NoneAssumption, Theme!IInv, NEW c \in Calls, Theme!Answer(c)
  PROVE  Theme!IInv'
<1> DEFINE r == s7[c]
<1>1. s6 = c /\ c # None /\ Theme!AtWork /\ r \in Theme!Working /\ r.step = "answer"
  BY ThemeTurn DEF Theme!Answer, Theme!AtWork
<1>2. /\ Theme!End(c) /\ s10' = Theme!snapshot(s1, s2) /\ s11' = s9
      /\ UNCHANGED <<s1, s2, s3, s4>>
  BY DEF Theme!Answer, Theme!files
<1>3. /\ s8 = <<>> /\ s1.theme = r.theme /\ Theme!Source(r) = s1.wall
      /\ s9 \subseteq Theme!Outputs \cup {"portrait"}
  BY <1>1 DEF Theme!AtWork, Theme!Source
<1>4. Theme!Painted("gtk") /\ Theme!Painted("greeter") /\ Theme!Copied
  BY <1>1, <1>3 DEF Theme!AtWork, Theme!Generators
<1>5. \A g \in Theme!Outputs \ s9 : s3[g] = Theme!Palette(s1.theme, s2)
  BY <1>1, <1>3, <1>4 DEF Theme!Painted, Theme!Outputs
<1>6. "portrait" \notin s9 /\ s1.wall # None => s4 = s1.wall
  BY <1>1, <1>3, <1>4 DEF Theme!Copied
<1>7. s10' \in [theme: Themes, wall: Walls \cup {None}, palette: Themes \X (Walls \cup {None})]
  BY <1>2 DEF Theme!snapshot, Theme!Palette, Theme!IInv, Theme!ChangesDoNotMix, Theme!TypeOK
<1>8. s9 \subseteq Theme!Everything
  BY <1>3 DEF Theme!Everything
<1>9. Theme!TypeOK
  BY DEF Theme!IInv, Theme!ChangesDoNotMix
<1>10. /\ s1' \in [theme: Themes, wall: Walls \cup {None}] /\ s2' \in Walls \cup {None}
       /\ s3' \in [Theme!Outputs -> Themes \X (Walls \cup {None})] /\ s4' \in Walls \cup {None}
  BY <1>2, <1>9 DEF Theme!TypeOK
<1>11. s10' = Theme!snapshot(s1', s2')
  BY <1>2
<1> QED
  BY <1>1, <1>2, <1>5, <1>6, <1>7, <1>8, <1>10, <1>11, ThemeEnds

\* A refusal changes nothing.
LEMMA ThemeRefuse ==
  ASSUME Theme!IInv, NEW c \in Calls, Theme!Refuse(c)
  PROVE  Theme!IInv'
<1>1. s6 = None /\ Theme!End(c) /\ UNCHANGED <<s1, s2, s3, s4, s10, s11>>
  BY DEF Theme!Refuse, Theme!Acquire, Theme!files
<1>2. Theme!ChangesDoNotMix
  BY DEF Theme!IInv
<1>3. Theme!snapshot(s1', s2') = Theme!snapshot(s1, s2)
  BY <1>1
<1> QED
  BY <1>1, <1>2, <1>3, ThemeEnds DEF Theme!ChangesDoNotMix, Theme!TypeOK

\* The wallpaper alone: the theme and its palette stay.
LEMMA ThemeSetWallpaper ==
  ASSUME Theme!ThemesAssumption, Theme!NoneAssumption, Theme!IInv, NEW c \in Calls,
         Theme!SetWallpaper(c)
  PROVE  Theme!IInv'
<1>1. s6 = None /\ Theme!End(c) /\ Theme!ChangesDoNotMix /\ Theme!TypeOK
  BY DEF Theme!SetWallpaper, Theme!Acquire, Theme!IInv, Theme!ChangesDoNotMix
<1>2. CASE /\ \E w \in {s1.wall, None} : s1' = [s1 EXCEPT !.wall = w]
           /\ s11' = s11 \cup {"feed"}
           /\ UNCHANGED <<s2, s3, s4, s10>>
  <2>1. /\ s1' \in [theme: Themes, wall: Walls \cup {None}] /\ s1'.theme = s1.theme
        /\ s1'.wall \in {s1.wall, None}
    BY <1>1, <1>2 DEF Theme!TypeOK
  <2>2. s11' \subseteq Theme!Everything
    BY <1>1, <1>2 DEF Theme!TypeOK, Theme!Everything
  <2>3. \A g \in Theme!Outputs \ s11' : s3'[g] = Theme!Palette(s1'.theme, s2')
    BY <1>1, <1>2, <2>1 DEF Theme!ChangesDoNotMix
  <2>4. "portrait" \notin s11' /\ s1'.wall # None => s4' = s1'.wall
    BY <1>1, <1>2, <2>1 DEF Theme!ChangesDoNotMix
  <2> QED
    BY <1>1, <1>2, <2>1, <2>2, <2>3, <2>4, ThemeEnds DEF Theme!TypeOK
<1>3. CASE /\ \E w \in Walls : s1' = [s1 EXCEPT !.wall = w]
           /\ s10' = Theme!snapshot(s1', s2)
           /\ \E painted, copied \in BOOLEAN :
                /\ s3' = IF painted THEN [s3 EXCEPT !["greeter"] = Theme!Palette(s1.theme, s2)]
                         ELSE s3
                /\ Theme!sync_background(s1'.wall, copied)
                /\ s11' = (s11 \cap {"gtk"}) \cup Theme!Without(painted, "greeter")
                                            \cup Theme!Without(copied, "portrait")
           /\ UNCHANGED s2
  <2>1. PICK painted \in BOOLEAN, copied \in BOOLEAN :
           /\ s3' = IF painted THEN [s3 EXCEPT !["greeter"] = Theme!Palette(s1.theme, s2)] ELSE s3
           /\ Theme!sync_background(s1'.wall, copied)
           /\ s11' = (s11 \cap {"gtk"}) \cup Theme!Without(painted, "greeter")
                                       \cup Theme!Without(copied, "portrait")
    BY <1>3
  <2>2. /\ s1' \in [theme: Themes, wall: Walls \cup {None}] /\ s1'.theme = s1.theme
        /\ s1'.wall \in Walls
    BY <1>1, <1>3 DEF Theme!TypeOK
  <2>3. Theme!Palette(s1.theme, s2) \in Themes \X (Walls \cup {None})
    BY <1>1 DEF Theme!Palette, Theme!TypeOK
  <2>4. /\ s3' \in [Theme!Outputs -> Themes \X (Walls \cup {None})]
        /\ s3'["gtk"] = s3["gtk"]
        /\ painted => s3'["greeter"] = Theme!Palette(s1.theme, s2)
    BY <1>1, <2>1, <2>3 DEF Theme!TypeOK, Theme!Outputs
  <2>5. /\ s11' \subseteq Theme!Everything /\ "feed" \notin s11'
        /\ "gtk" \notin s11' => "gtk" \notin s11
        /\ "greeter" \notin s11' => painted
        /\ "portrait" \notin s11' => copied
    BY <2>1 DEF Theme!Without, Theme!Everything, Theme!Outputs
  <2>6. s4' = IF copied THEN s1'.wall ELSE s4
    BY <2>1 DEF Theme!sync_background
  <2>7. s10' \in [theme: Themes, wall: Walls \cup {None}, palette: Themes \X (Walls \cup {None})]
    BY <1>3, <2>2, <2>3 DEF Theme!snapshot
  <2>8. \A g \in Theme!Outputs \ s11' : s3'[g] = Theme!Palette(s1'.theme, s2')
    <3>1. "gtk" \notin s11 => s3["gtk"] = Theme!Palette(s1.theme, s2)
      BY <1>1 DEF Theme!ChangesDoNotMix, Theme!Outputs
    <3>2. Theme!Palette(s1'.theme, s2') = Theme!Palette(s1.theme, s2)
      BY <1>3, <2>2
    <3> QED
      BY <2>4, <2>5, <3>1, <3>2 DEF Theme!Outputs
  <2>9. s4' \in Walls \cup {None} /\ ("portrait" \notin s11' => s4' = s1'.wall)
    BY <1>1, <2>2, <2>5, <2>6 DEF Theme!TypeOK
  <2>10. s10' = Theme!snapshot(s1', s2') /\ s2' \in Walls \cup {None}
    BY <1>1, <1>3 DEF Theme!TypeOK
  <2> QED
    BY <1>1, <2>2, <2>4, <2>5, <2>7, <2>8, <2>9, <2>10, ThemeEnds
<1> QED
  BY <1>2, <1>3 DEF Theme!SetWallpaper

\* Every step of the loop, the calls and the apply.
LEMMA ThemeNext ==
  ASSUME Theme!ThemesAssumption, Theme!NoneAssumption, Theme!IInv, Theme!Next
  PROVE  Theme!IInv'
<1>1. ASSUME NEW c \in Calls, Theme!Work(c) PROVE Theme!IInv'
  BY <1>1, ThemeRefuse, ThemePrepare, ThemeGenerate, ThemeCommits, ThemeAnswers, ThemeSetWallpaper
     DEF Theme!Work
<1> QED
  BY <1>1, ThemeRun, ThemeRestart, ThemeCalls DEF Theme!Next

\* Only the commit of an apply whose required generator has not failed records a theme.
LEMMA ThemeRecords ==
  ASSUME Theme!NoneAssumption, Theme!IInv, Theme!Next
  PROVE  Theme!RecordsApplied
<1>1. CASE \E c \in Calls : Theme!CommitTheme(c)
  <2> PICK c \in Calls : Theme!CommitTheme(c)
    BY <1>1
  <2>1. s7[c].step = "theme"
    BY DEF Theme!CommitTheme
  <2>2. s6 = c /\ Theme!AtWork
    BY <2>1, ThemeTurn
  <2>3. s3["gtk"] = Theme!Palette(s7[c].theme, s2)
    BY <2>1, <2>2 DEF Theme!AtWork, Theme!Painted, Theme!required_failures, Theme!Generators
  <2>4. s1'.theme \in {s1.theme, s7[c].theme}
    BY DEF Theme!CommitTheme, Theme!IInv, Theme!ChangesDoNotMix, Theme!TypeOK
  <2> QED
    BY <2>3, <2>4 DEF Theme!RecordsApplied
<1>2. CASE \E c \in Calls : Theme!CommitWall(c) \/ Theme!SetWallpaper(c)
  <2>1. \/ UNCHANGED s1
        \/ \E w : s1' = [s1 EXCEPT !.wall = w]
    BY <1>2 DEF Theme!CommitWall, Theme!SetWallpaper
  <2> QED
    BY <2>1 DEF Theme!RecordsApplied, Theme!IInv, Theme!ChangesDoNotMix, Theme!TypeOK
<1>3. CASE \E c \in Calls : \/ Theme!Refuse(c) \/ Theme!Prepare(c) \/ Theme!Generate(c)
                           \/ Theme!commit_state(c) \/ Theme!Answer(c)
  <2>1. UNCHANGED s1
    BY <1>3 DEF Theme!Refuse, Theme!Prepare, Theme!Generate, Theme!commit_state, Theme!Answer,
       Theme!files
  <2> QED
    BY <2>1 DEF Theme!RecordsApplied
<1>4. CASE Theme!Run \/ Theme!Restart \/ \E c \in Calls : Theme!Call(c)
  <2>1. UNCHANGED s1
    BY <1>4 DEF Theme!Run, Theme!Restart, Theme!Call, Theme!files
  <2> QED
    BY <2>1 DEF Theme!RecordsApplied
<1> QED
  BY <1>1, <1>2, <1>3, <1>4 DEF Theme!Next, Theme!Work

\* The theme's inductive invariant holds throughout.
LEMMA ThemeInvariant == ModulesSpec => [](component = "theme" => Theme!IInv)
<1> DEFINE Inv == component = "theme" => Theme!IInv
<1>1. ModulesInit => Inv
  BY ThemeInit, ModulesAssumption DEF ModulesAssumption, ModulesInit
<1>2. Inv /\ [ModulesNext]_all => Inv'
  <2>1. ASSUME Inv, ModulesNext PROVE Inv'
    BY <2>1, ThemeNext, ModulesAssumption DEF ModulesNext, One, ModulesAssumption
  <2>2. ASSUME Inv, UNCHANGED all PROVE Inv'
    BY <2>2 DEF all, slots, Theme!IInv, Theme!ChangesDoNotMix, Theme!TypeOK, Theme!Waiters,
       Theme!AtWork, Theme!Painted, Theme!Copied, Theme!Source, Theme!required_failures, Theme!snapshot
  <2> QED
    BY <2>1, <2>2
<1> QED
  BY <1>1, <1>2, PTL DEF ModulesSpec

\* For any calls, themes and wallpapers: whenever no change is under way, the outputs, the
\* greeter's wallpaper and what the subscribers know are those of the record, but for what a
\* failure or a death left behind (theme/mod.rs).
THEOREM ChangesAreWhole == ModulesSpec => []ThemeChangesDoNotMix
<1>1. (component = "theme" => Theme!IInv) => ThemeChangesDoNotMix
  BY DEF ThemeChangesDoNotMix, Theme!IInv
<1> QED
  BY <1>1, ThemeInvariant, PTL

\* However applies fail and whenever the daemon dies, a theme is recorded only once what must
\* be painted has its colours (theme/mod.rs, theme/render.rs).
THEOREM RecordsFollowPainting == ModulesSpec => ThemeRecordedWasApplied
<1> DEFINE Inv == component = "theme" => Theme!IInv
<1>1. Inv /\ [ModulesNext]_all => [component = "theme" => Theme!RecordsApplied]_slots
  <2>1. ASSUME Inv, ModulesNext, component = "theme" PROVE Theme!RecordsApplied
    BY <2>1, ThemeRecords, ModulesAssumption DEF ModulesNext, One, ModulesAssumption
  <2>2. UNCHANGED all => UNCHANGED slots
    BY DEF all
  <2> QED
    BY <2>1, <2>2
<1> QED
  BY <1>1, ThemeInvariant, PTL DEF ModulesSpec, ThemeRecordedWasApplied

-----------------------------------------------------------------------------
(* The calendar's dates.  Long numbers have names of their own: the provers go *)
(* astray where they meet them in a step that is not about numbers.          *)

\* The years of an era, which begin in March: the first day of each, and its days.
YearStart(y) == 365 * y + y \div 4 - y \div 100

YearDays(y) == IF y % 4 = 3 /\ (y % 100 # 99 \/ y = 399) THEN 366 ELSE 365

\* A day of an era by its century, its cycle of four years and its day there; a year by them
\* and its place in the cycle.
LastOfEra == 146096
Centuries == 0..3
Cycles == 0..24
CycleDays == 0..1460
IsYear(y, c, k, b) == y = 100 * c + 4 * k + b
InYear(j, b) == j - 365 * b \in 0..365 /\ (j - 365 * b = 365 => b = 3)

InCycle(d, c, k, j) == d = 36524 * c + 1461 * k + j /\ (k = 24 => j < 1460)

\* The year the code gives a day of an era.
YearOf(d) == (d - d \div 1460 + d \div 36524 - d \div 146096) \div 365

\* A day of an era but the last is in a century, a cycle of four years of it, and a day of that.
LEMMA CycleOf ==
  ASSUME NEW d \in Nat, d < LastOfEra
  PROVE  \E c \in Centuries, k \in Cycles, j \in CycleDays : InCycle(d, c, k, j)
<1>1. PICK c \in Int : c = d \div 36524
  BY SMT
<1>2. PICK r \in Int : r = d - 36524 * c
  BY SMT
<1>3. c >= 0 /\ c <= 3 /\ r >= 0 /\ r <= 36523
  BY <1>1, <1>2, SMT DEF LastOfEra
<1>4. PICK k \in Int : k = r \div 1461
  BY SMT
<1>5. PICK j \in Int : j = r - 1461 * k
  BY SMT
<1>6. k >= 0 /\ k <= 24 /\ j >= 0 /\ j <= 1460 /\ (k = 24 => j < 1460)
  BY <1>3, <1>4, <1>5, SMT
<1>7. d = 36524 * c + 1461 * k + j
  BY <1>2, <1>5, SMT
<1>8. c \in Centuries /\ k \in Cycles /\ j \in CycleDays
  BY <1>3, <1>6, SMT DEF Centuries, Cycles, CycleDays
<1>9. InCycle(d, c, k, j)
  BY <1>6, <1>7, SMT DEF InCycle
<1> QED
  BY <1>8, <1>9

\* The code's year of a day is that of its century, cycle and place in the cycle.
LEMMA YearOfCycle ==
  ASSUME NEW d \in Nat, d < LastOfEra, NEW c \in Centuries, NEW k \in Cycles, NEW j \in CycleDays, NEW b \in 0..3,
         InCycle(d, c, k, j), InYear(j, b), NEW y \in Int, IsYear(y, c, k, b)
  PROVE  YearOf(d) = y
<1>. USE DEF Centuries, Cycles, CycleDays, IsYear, InYear
<1>0. d = 36524 * c + 1461 * k + j /\ (k = 24 => j < 1460)
  BY SMT DEF InCycle
<1>1. PICK e \in 0..1 : e = IF 24 * c + k + j >= 1460 THEN 1 ELSE 0
  BY SMT
<1>2. d \div 1460 = 25 * c + k + e
  BY <1>0, <1>1, SMT
<1>3. d \div 36524 = c /\ d \div 146096 = 0
  BY <1>0, SMT DEF LastOfEra
<1>4. d - d \div 1460 + d \div 36524 - d \div 146096 = 365 * (100 * c + 4 * k + b) + (j - 365 * b - e)
  BY <1>0, <1>2, <1>3, SMT
<1>5. j - 365 * b - e >= 0 /\ j - 365 * b - e < 365
  BY <1>0, <1>1, SMT
<1>6. PICK q \in Int, t \in Int : q = 100 * c + 4 * k + b /\ t = j - 365 * b - e
  BY SMT
<1>7. (365 * q + t) \div 365 = q
  BY <1>5, <1>6, SMT
<1> QED
  BY <1>4, <1>6, <1>7, SMT DEF YearOf

\* The code's year is one of the era's, and the day is one of that year's.
LEMMA YearOfEra ==
  ASSUME NEW d \in Nat, d <= LastOfEra
  PROVE  /\ YearOf(d) \in 0..399
         /\ d - YearStart(YearOf(d)) >= 0 /\ d - YearStart(YearOf(d)) < YearDays(YearOf(d))
<1>1. CASE d = LastOfEra
  <2>1. YearOf(146096) = 399
    BY SMT DEF YearOf
  <2>2. 146096 - YearStart(399) = 365 /\ YearDays(399) = 366
    BY SMT DEF YearStart, YearDays
  <2> QED
    BY <1>1, <2>1, <2>2, SMT DEF LastOfEra
<1>2. CASE d < LastOfEra
  <2>1. PICK c \in Centuries, k \in Cycles, j \in CycleDays : InCycle(d, c, k, j)
    BY <1>2, CycleOf
  <2>10. d = 36524 * c + 1461 * k + j /\ (k = 24 => j < 1460)
    BY <2>1, SMT DEF InCycle
  <2>2. PICK b \in 0..3 : InYear(j, b)
    BY SMT DEF InYear, CycleDays
  <2>3. PICK y \in Int : IsYear(y, c, k, b)
    BY SMT DEF IsYear, Centuries, Cycles
  <2>4. YearOf(d) = y
    BY <1>2, <2>1, <2>2, <2>3, YearOfCycle
  <2>5. y \div 4 = 25 * c + k /\ y \div 100 = c /\ y % 4 = b /\ y >= 0 /\ y <= 399
        /\ (y % 100 = 99 => k = 24)
    BY <2>3, SMT DEF IsYear, Centuries, Cycles
  <2>6. d - YearStart(y) = j - 365 * b
    BY <2>3, <2>5, <2>10, SMT DEF YearStart, IsYear, Centuries, Cycles, CycleDays
  <2>7. j - 365 * b = 365 => y % 4 = 3 /\ y % 100 # 99
    BY <2>2, <2>5, <2>10, SMT DEF InYear, CycleDays, Cycles
  <2>8. j - 365 * b >= 0 /\ j - 365 * b < YearDays(y)
    BY <2>2, <2>7, SMT DEF YearDays, InYear, CycleDays
  <2> QED
    BY <2>4, <2>5, <2>6, <2>8, SMT
<1> QED
  BY <1>1, <1>2, SMT DEF LastOfEra

\* A day that is one of a year's has that year.
LEMMA YearOfDay ==
  ASSUME NEW y \in 0..399, NEW e \in Nat, e < YearDays(y)
  PROVE  /\ YearStart(y) + e >= 0 /\ YearStart(y) + e <= LastOfEra
         /\ YearOf(YearStart(y) + e) = y
<1>1. PICK d \in Int : d = YearStart(y) + e
  BY SMT DEF YearStart
<1>2. CASE y = 399 /\ e = 365
  <2>1. YearStart(399) + 365 = 146096 /\ YearOf(146096) = 399
    BY SMT DEF YearOf, YearStart
  <2> QED
    BY <1>2, <2>1, SMT DEF LastOfEra
<1>3. CASE ~(y = 399 /\ e = 365)
  <2>1. PICK c \in Int : c = y \div 100
    BY SMT
  <2>2. PICK k \in Int : k = (y % 100) \div 4
    BY SMT
  <2>3. PICK b \in Int : b = y % 4
    BY SMT
  <2>4. c >= 0 /\ c <= 3 /\ k >= 0 /\ k <= 24 /\ b >= 0 /\ b <= 3 /\ y = 100 * c + 4 * k + b
        /\ y \div 4 = 25 * c + k
    BY <2>1, <2>2, <2>3, SMT
  <2>5. PICK j \in Int : j = 365 * b + e
    BY SMT
  <2>6. e <= 365 /\ (e = 365 => y % 4 = 3 /\ (y % 100 # 99 \/ y = 399))
    BY SMT DEF YearDays
  <2>7. j >= 0 /\ j <= 1460 /\ (e = 365 => b = 3) /\ (k = 24 => j < 1460)
    BY <1>3, <2>3, <2>4, <2>5, <2>6, SMT
  <2>8. d = 36524 * c + 1461 * k + j
    BY <1>1, <2>1, <2>4, <2>5, SMT DEF YearStart
  <2>9. c \in Centuries /\ k \in Cycles /\ j \in CycleDays /\ b \in 0..3
    BY <2>4, <2>7, SMT DEF Centuries, Cycles, CycleDays
  <2>10. InCycle(d, c, k, j)
    BY <2>7, <2>8, SMT DEF InCycle
  <2>11. InYear(j, b)
    BY <2>5, <2>6, <2>7, SMT DEF InYear
  <2>12. IsYear(y, c, k, b) /\ y \in Int
    BY <2>4, SMT DEF IsYear
  <2>13. d \in Nat /\ d < LastOfEra
    BY <2>4, <2>7, <2>8, SMT DEF LastOfEra
  <2>14. YearOf(d) = y
    BY <2>9, <2>10, <2>11, <2>12, <2>13, YearOfCycle
  <2> QED
    BY <1>1, <2>13, <2>14, SMT DEF LastOfEra
<1> QED
  BY <1>2, <1>3

\* One year begins where the one before it ends.
LEMMA YearsFollow ==
  ASSUME NEW y \in 0..398
  PROVE  YearStart(y + 1) = YearStart(y) + YearDays(y)
BY SMT DEF YearStart, YearDays

\* The months, from March on: the first day of each, and its days, of February the most.
MonthStart(mp) == (153 * mp + 2) \div 5

MonthDays(mp) == IF mp \in {1, 3, 6, 8} THEN 30 ELSE IF mp = 11 THEN 29 ELSE 31

\* Every day of a year is in a month.
LEMMA MonthOfYear ==
  ASSUME NEW doy \in 0..365
  PROVE  \E mp \in 0..11 : \E e \in 0..30 : doy = MonthStart(mp) + e /\ e < MonthDays(mp)
<1>1. PICK mp \in Int : mp = (5 * doy + 2) \div 153
  BY SMT
<1>2. PICK e \in Int : e = doy - MonthStart(mp)
  BY SMT DEF MonthStart
<1>3. mp \in 0..11
  BY <1>1, SMT
<1>4. e >= 0 /\ e < MonthDays(mp)
  BY <1>1, <1>2, <1>3, SMT DEF MonthStart, MonthDays
<1>5. e \in 0..30 /\ doy = MonthStart(mp) + e
  BY <1>2, <1>3, <1>4, SMT DEF MonthDays, MonthStart
<1> QED
  BY <1>3, <1>4, <1>5

\* A day that is one of a month's has that month.
LEMMA MonthOfDay ==
  ASSUME NEW mp \in 0..11, NEW e \in 0..30, e < MonthDays(mp)
  PROVE  (5 * (MonthStart(mp) + e) + 2) \div 153 = mp
BY SMT DEF MonthStart, MonthDays

\* The number of a day by its era, its year and its day of the year.
MarchDay(era, yoe, doy) == era * 146097 + YearStart(yoe) + doy - 719468

\* Every day has an era, a year of it and a day of that.
LEMMA DayParts ==
  ASSUME NEW n \in Int
  PROVE  \E era \in Int, yoe \in 0..399, doy \in 0..365 :
           n = MarchDay(era, yoe, doy) /\ doy < YearDays(yoe)
<1>1. PICK z \in Int : z = n + 719468
  BY SMT
<1>2. PICK era \in Int : era = z \div 146097
  BY SMT
<1>3. PICK doe \in Int : doe = z - era * 146097
  BY SMT
<1>4. doe \in Nat /\ doe <= LastOfEra
  BY <1>2, <1>3, SMT DEF LastOfEra
<1>5. PICK yoe \in 0..399 : yoe = YearOf(doe)
  BY <1>4, YearOfEra
<1>6. PICK doy \in Int : doy = doe - YearStart(yoe)
  BY SMT DEF YearStart
<1>7. doy >= 0 /\ doy < YearDays(yoe)
  BY <1>4, <1>5, <1>6, YearOfEra
<1>8. doy \in 0..365
  BY <1>7, SMT DEF YearDays
<1>9. n = MarchDay(era, yoe, doy)
  BY <1>1, <1>3, <1>6, SMT DEF MarchDay, YearStart
<1> QED
  BY <1>7, <1>8, <1>9

\* The month and the year it is called by.
Month(mp) == IF mp < 10 THEN mp + 3 ELSE mp - 9

Year(era, yoe, mp) == yoe + era * 400 + (IF mp < 10 THEN 0 ELSE 1)

\* What civil_from_days makes of a day that is given by its parts.
LEMMA CivilOfDay ==
  ASSUME NEW era \in Int, NEW yoe \in 0..399, NEW mp \in 0..11, NEW e \in 0..30,
         e < MonthDays(mp), MonthStart(mp) + e < YearDays(yoe)
  PROVE  Time!civil_from_days(MarchDay(era, yoe, MonthStart(mp) + e))
           = <<Year(era, yoe, mp), Month(mp), e + 1>>
<1>1. PICK doy \in Int : doy = MonthStart(mp) + e
  BY SMT DEF MonthStart
<1>2. doy \in Nat /\ doy < YearDays(yoe)
  BY <1>1, SMT DEF MonthStart
<1>3. PICK doe \in Int : doe = YearStart(yoe) + doy
  BY SMT DEF YearStart
<1>4. doe >= 0 /\ doe <= LastOfEra /\ YearOf(doe) = yoe
  BY <1>2, <1>3, YearOfDay
<1>5. PICK z \in Int : z = MarchDay(era, yoe, doy) + 719468
  BY SMT DEF MarchDay, YearStart
<1>6. z = era * 146097 + doe
  BY <1>3, <1>5, SMT DEF MarchDay, YearStart
<1>7. z \div 146097 = era
  BY <1>4, <1>6, SMT DEF LastOfEra
<1>8. z - era * 146097 = doe
  BY <1>6, SMT
<1>9. (5 * doy + 2) \div 153 = mp
  BY <1>1, MonthOfDay
<1>10. doe - (365 * yoe + yoe \div 4 - yoe \div 100) = doy
  BY <1>3, SMT DEF YearStart
<1>11. doy - (153 * mp + 2) \div 5 + 1 = e + 1
  BY <1>1, SMT DEF MonthStart
<1>12. (doe - doe \div 1460 + doe \div 36524 - doe \div 146096) \div 365 = yoe
  BY <1>4 DEF YearOf
<1>13. Time!civil_from_days(MarchDay(era, yoe, doy)) = Time!civil_of_era(era, doe)
  <2>1. PICK n \in Int : n = MarchDay(era, yoe, doy)
    BY SMT DEF MarchDay, YearStart
  <2>2. n + 719468 = z
    BY <1>5, <2>1, SMT
  <2> QED
    BY <1>7, <1>8, <2>1, <2>2, SMT DEF Time!civil_from_days
<1>15. Time!civil_of_era(era, doe)
         = <<yoe + era * 400 + (IF (IF mp < 10 THEN mp + 3 ELSE mp - 9) <= 2 THEN 1 ELSE 0),
             IF mp < 10 THEN mp + 3 ELSE mp - 9, e + 1>>
  BY <1>9, <1>10, <1>11, <1>12, SMT DEF Time!civil_of_era
<1>14. (IF (IF mp < 10 THEN mp + 3 ELSE mp - 9) <= 2 THEN 1 ELSE 0) = (IF mp < 10 THEN 0 ELSE 1)
  BY SMT
<1> QED
  BY <1>1, <1>13, <1>14, <1>15, SMT DEF Year, Month

\* What days_from_civil makes of them.
LEMMA DayOfCivil ==
  ASSUME NEW era \in Int, NEW yoe \in 0..399, NEW mp \in 0..11, NEW d \in Int
  PROVE  Time!days_from_civil(Year(era, yoe, mp), Month(mp), d)
           = MarchDay(era, yoe, MonthStart(mp) + d - 1)
<1>1. PICK y \in Int : y = Year(era, yoe, mp)
  BY SMT DEF Year
<1>2. PICK m \in Int : m = Month(mp)
  BY SMT DEF Month
<1>3. (IF m <= 2 THEN y - 1 ELSE y) = yoe + era * 400
  BY <1>1, <1>2, SMT DEF Year, Month
<1>4. (yoe + era * 400) \div 400 = era /\ yoe + era * 400 - era * 400 = yoe
  BY SMT
<1>5. (m + 9) % 12 = mp
  BY <1>2, SMT DEF Month
<1>6. Time!days_from_civil(y, m, d)
        = era * 146097 + yoe * 365 + yoe \div 4 - yoe \div 100 + ((153 * mp + 2) \div 5 + d - 1)
          - 719468
  BY <1>3, <1>4, <1>5, SMT DEF Time!days_from_civil
<1>7. MarchDay(era, yoe, MonthStart(mp) + d - 1)
        = era * 146097 + yoe * 365 + yoe \div 4 - yoe \div 100 + ((153 * mp + 2) \div 5 + d - 1)
          - 719468
  BY SMT DEF MarchDay, YearStart, MonthStart
<1> QED
  BY <1>1, <1>2, <1>6, <1>7

\* Every day has a date, and the date has that day.
LEMMA EveryDay ==
  ASSUME NEW n \in Int
  PROVE  \E y \in Int, m \in 1..12, d \in 1..31 :
           Time!civil_from_days(n) = <<y, m, d>> /\ Time!days_from_civil(y, m, d) = n
<1>1. PICK era \in Int, yoe \in 0..399, doy \in 0..365 :
        n = MarchDay(era, yoe, doy) /\ doy < YearDays(yoe)
  BY DayParts
<1>2. PICK mp \in 0..11 : \E e \in 0..30 : doy = MonthStart(mp) + e /\ e < MonthDays(mp)
  BY MonthOfYear
<1>3. PICK e \in 0..30 : doy = MonthStart(mp) + e /\ e < MonthDays(mp)
  BY <1>2
<1>4. Time!civil_from_days(n) = <<Year(era, yoe, mp), Month(mp), e + 1>>
  BY <1>1, <1>3, CivilOfDay
<1>5. PICK d \in 1..31 : d = e + 1
  BY SMT
<1>6. MonthStart(mp) + d - 1 = doy /\ d \in Int
  BY <1>3, <1>5, SMT DEF MonthStart
<1>7. Time!days_from_civil(Year(era, yoe, mp), Month(mp), d) = n
  <2>1. Time!days_from_civil(Year(era, yoe, mp), Month(mp), d)
          = MarchDay(era, yoe, MonthStart(mp) + d - 1)
    BY <1>6, DayOfCivil, Zenon
  <2> QED
    BY <1>1, <1>6, <2>1, Zenon
<1>8. Year(era, yoe, mp) \in Int /\ Month(mp) \in 1..12
  BY SMT DEF Year, Month
<1> QED
  BY <1>4, <1>5, <1>7, <1>8

\* A month by its era, its year and its place in the year.
MonthParts(y, m, era, yoe, mp) == y = Year(era, yoe, mp) /\ m = Month(mp)

\* Every month of every year has its parts.
LEMMA EveryMonth ==
  ASSUME NEW y \in Int, NEW m \in 1..12
  PROVE  \E era \in Int, yoe \in 0..399, mp \in 0..11 : MonthParts(y, m, era, yoe, mp)
<1>1. PICK z \in Int : z = IF m <= 2 THEN y - 1 ELSE y
  BY SMT
<1>2. PICK era \in Int : era = z \div 400
  BY SMT
<1>3. PICK yoe \in 0..399 : yoe = z - era * 400
  BY <1>2, SMT
<1>4. PICK mp \in 0..11 : mp = IF m <= 2 THEN m + 9 ELSE m - 3
  BY SMT
<1>5. MonthParts(y, m, era, yoe, mp)
  BY <1>1, <1>3, <1>4, SMT DEF Year, Month, MonthParts
<1> QED
  BY <1>5

\* A month's length, in that year.
Fits(l, mp, yoe) ==
  /\ l \in 28..31
  /\ l <= MonthDays(mp) /\ MonthStart(mp) + l <= YearDays(yoe)
  /\ mp < 11 => l = MonthDays(mp)
  /\ mp = 11 => MonthStart(mp) + l = YearDays(yoe)

\* The months' lengths by the calendar's rules are those of a year that begins in March.
LEMMA MonthLength ==
  ASSUME NEW y \in Int, NEW m \in 1..12, NEW era \in Int, NEW yoe \in 0..399, NEW mp \in 0..11,
         MonthParts(y, m, era, yoe, mp)
  PROVE  Fits(Time!Length(y, m), mp, yoe)
<1>1. y = yoe + era * 400 + (IF mp < 10 THEN 0 ELSE 1) /\ m = IF mp < 10 THEN mp + 3 ELSE mp - 9
  BY SMT DEF MonthParts, Year, Month
<1>2. CASE mp < 11
  <2>1. m # 2
    BY <1>1, <1>2, SMT
  <2>2. Time!Length(y, m) = IF m \in {4, 6, 9, 11} THEN 30 ELSE 31
    BY <2>1 DEF Time!Length
  <2> QED
    BY <1>1, <1>2, <2>2, SMT DEF Fits, MonthDays, MonthStart, YearDays
<1>3. CASE mp = 11
  <2>1. m = 2 /\ y = yoe + era * 400 + 1
    BY <1>1, <1>3, SMT
  <2>2. Time!Length(y, m) = IF Time!Leap(y) THEN 29 ELSE 28
    BY <2>1 DEF Time!Length
  <2>3. y % 4 = (yoe + 1) % 4 /\ y % 100 = (yoe + 1) % 100 /\ y % 400 = (yoe + 1) % 400
    BY <2>1, SMT
  <2>4. Time!Leap(y) <=> yoe % 4 = 3 /\ (yoe % 100 # 99 \/ yoe = 399)
    BY <2>3, SMT DEF Time!Leap
  <2> QED
    BY <1>3, <2>2, <2>4, SMT DEF Fits, MonthDays, MonthStart, YearDays
<1> QED
  BY <1>2, <1>3, SMT

\* Every date there is has a day, and the day has that date.
LEMMA EveryDate ==
  ASSUME NEW y \in Int, NEW m \in 1..12, NEW d \in 1..Time!Length(y, m)
  PROVE  Time!civil_from_days(Time!days_from_civil(y, m, d)) = <<y, m, d>>
<1>1. PICK era \in Int, yoe \in 0..399, mp \in 0..11 : MonthParts(y, m, era, yoe, mp)
  BY EveryMonth
<1>2. /\ Time!Length(y, m) \in 28..31
      /\ Time!Length(y, m) <= MonthDays(mp)
      /\ MonthStart(mp) + Time!Length(y, m) <= YearDays(yoe)
  BY <1>1, MonthLength DEF Fits
<1>3. PICK e \in 0..30 : e = d - 1
  BY <1>2, SMT
<1>4. e < MonthDays(mp) /\ MonthStart(mp) + e < YearDays(yoe)
  BY <1>2, <1>3, SMT DEF MonthDays, MonthStart, YearDays
<1>5. d \in Int /\ e + 1 = d
  BY <1>2, <1>3, SMT
<1>6. MonthStart(mp) + d - 1 = MonthStart(mp) + e
  BY <1>5, SMT DEF MonthStart
<1>7. y = Year(era, yoe, mp) /\ m = Month(mp)
  BY <1>1 DEF MonthParts
<1>8. Time!days_from_civil(y, m, d) = MarchDay(era, yoe, MonthStart(mp) + e)
  <2>1. Time!days_from_civil(Year(era, yoe, mp), Month(mp), d)
          = MarchDay(era, yoe, MonthStart(mp) + d - 1)
    BY <1>5, DayOfCivil, Zenon
  <2> QED
    BY <1>6, <1>7, <2>1, Zenon
<1>9. Time!civil_from_days(MarchDay(era, yoe, MonthStart(mp) + e)) = <<y, m, e + 1>>
  BY <1>4, <1>7, CivilOfDay
<1> QED
  BY <1>5, <1>8, <1>9

\* The days of a month follow one another.
LEMMA DaysOfMonth ==
  ASSUME NEW y \in Int, NEW m \in 1..12, NEW d \in Int
  PROVE  /\ Time!days_from_civil(y, m, d) = Time!days_from_civil(y, m, 1) + d - 1
         /\ Time!days_from_civil(y, m, d) \in Int
BY SMT DEF Time!days_from_civil

\* One month begins where the one before it ends, at the end of a year, a leap year, a century
\* and an era too.
LEMMA MonthsFollow ==
  ASSUME NEW y \in Int, NEW m \in 1..12
  PROVE  Time!days_from_civil(IF m = 12 THEN y + 1 ELSE y, IF m = 12 THEN 1 ELSE m + 1, 1)
           = Time!days_from_civil(y, m, 1) + Time!Length(y, m)
<1>0. 1 \in Int /\ 0 \in 0..11
  BY SMT
<1>1. PICK era \in Int, yoe \in 0..399, mp \in 0..11 : MonthParts(y, m, era, yoe, mp)
  BY EveryMonth
<1>2. PICK l : l = Time!Length(y, m)
  OBVIOUS
<1>3. Fits(l, mp, yoe)
  BY <1>1, <1>2, MonthLength, Zenon
<1>10. l \in 28..31
  BY <1>3 DEF Fits
<1>4. y = yoe + era * 400 + (IF mp < 10 THEN 0 ELSE 1) /\ m = IF mp < 10 THEN mp + 3 ELSE mp - 9
  BY <1>1, SMT DEF MonthParts, Year, Month
<1>5. Time!days_from_civil(y, m, 1) = MarchDay(era, yoe, MonthStart(mp))
  <2>1. Time!days_from_civil(Year(era, yoe, mp), Month(mp), 1)
          = MarchDay(era, yoe, MonthStart(mp) + 1 - 1)
    BY <1>0, DayOfCivil, Zenon
  <2>2. MonthStart(mp) + 1 - 1 = MonthStart(mp)
    BY SMT DEF MonthStart
  <2> QED
    BY <1>1, <2>1, <2>2, Zenon DEF MonthParts
<1>6. PICK y2 \in Int : y2 = IF m = 12 THEN y + 1 ELSE y
  BY SMT
<1>7. PICK m2 \in 1..12 : m2 = IF m = 12 THEN 1 ELSE m + 1
  BY SMT
<1>8. CASE mp < 11
  <2>1. PICK mq \in 0..11 : mq = mp + 1
    BY <1>8, SMT
  <2>2. y2 = Year(era, yoe, mq) /\ m2 = Month(mq)
    BY <1>4, <1>6, <1>7, <1>8, <2>1, SMT DEF Year, Month
  <2>3. Time!days_from_civil(Year(era, yoe, mq), Month(mq), 1)
          = MarchDay(era, yoe, MonthStart(mq) + 1 - 1)
    BY <1>0, DayOfCivil, Zenon
  <2>4. MonthStart(mq) + 1 - 1 = MonthStart(mp) + l
    BY <1>3, <1>8, <2>1, SMT DEF Fits, MonthStart, MonthDays
  <2>5. MarchDay(era, yoe, MonthStart(mp) + l) = MarchDay(era, yoe, MonthStart(mp)) + l
    BY <1>10, SMT DEF MarchDay, YearStart, MonthStart
  <2>6. Time!days_from_civil(y2, m2, 1) = Time!days_from_civil(y, m, 1) + l
    BY <1>5, <2>2, <2>3, <2>4, <2>5, Zenon
  <2> QED
    BY <1>2, <1>6, <1>7, <2>6, Zenon
<1>9. CASE mp = 11
  <2>1. m2 = 3 /\ y2 = yoe + era * 400 + 1
    BY <1>4, <1>6, <1>7, <1>9, SMT
  <2>2. PICK era2 \in Int : era2 = IF yoe = 399 THEN era + 1 ELSE era
    BY SMT
  <2>3. PICK yoe2 \in 0..399 : yoe2 = IF yoe = 399 THEN 0 ELSE yoe + 1
    BY SMT
  <2>4. y2 = Year(era2, yoe2, 0) /\ m2 = Month(0)
    BY <2>1, <2>2, <2>3, SMT DEF Year, Month
  <2>5. Time!days_from_civil(Year(era2, yoe2, 0), Month(0), 1)
          = MarchDay(era2, yoe2, MonthStart(0) + 1 - 1)
    BY <1>0, DayOfCivil, Zenon
  <2>6. MonthStart(0) + 1 - 1 = 0
    BY SMT DEF MonthStart
  <2>7. MarchDay(era2, yoe2, 0) = MarchDay(era, yoe, MonthStart(mp)) + l
    <3>1. CASE yoe = 399
      BY <1>3, <1>9, <2>2, <2>3, <3>1, SMT DEF Fits, MarchDay, YearStart, YearDays, MonthStart
    <3>2. CASE yoe # 399
      <4>1. yoe \in 0..398
        BY <3>2, SMT
      <4>2. YearStart(yoe2) = YearStart(yoe) + YearDays(yoe)
        BY <2>3, <3>2, <4>1, YearsFollow
      <4>3. MarchDay(era, yoe2, 0) = MarchDay(era, yoe, MonthStart(mp)) + l
        BY <1>3, <1>9, <4>2, SMT DEF Fits, MarchDay, YearStart, YearDays, MonthStart
      <4> QED
        BY <2>2, <3>2, <4>3
    <3> QED
      BY <3>1, <3>2
  <2>8. Time!days_from_civil(y2, m2, 1) = Time!days_from_civil(y, m, 1) + l
    BY <1>5, <2>4, <2>5, <2>6, <2>7, Zenon
  <2> QED
    BY <1>2, <1>6, <1>7, <2>8, Zenon
<1> QED
  BY <1>8, <1>9, SMT

\* A year's first of January has the number that counting its days and leap days gives.
LEMMA YearsBegin ==
  ASSUME NEW y \in Int
  PROVE  Time!days_from_civil(y, 1, 1) = Time!NewYear(y)
<1>1. PICK z \in Int : z = y - 1
  BY SMT
<1>2. PICK era \in Int : era = z \div 400
  BY SMT
<1>3. PICK yoe \in 0..399 : z = yoe + era * 400
  BY <1>2, SMT
<1>4. z \div 4 = era * 100 + yoe \div 4 /\ z \div 100 = era * 4 + yoe \div 100
  BY <1>3, SMT
<1>5. Time!days_from_civil(y, 1, 1)
        = era * 146097 + yoe * 365 + yoe \div 4 - yoe \div 100 + 306 - 719468
  BY <1>1, <1>2, <1>3, SMT DEF Time!days_from_civil
<1>6. Time!NewYear(y) = 365 * (z - 1969) + (z \div 4 - z \div 100 + z \div 400) - 477
  BY <1>1, SMT DEF Time!NewYear, Time!LeapDays
<1> QED
  BY <1>2, <1>3, <1>4, <1>5, <1>6, SMT

\* What is counted so far is right for every day of the month, and the one after it.
LEMMA TimeDays ==
  ASSUME Time!IInv
  PROVE  Time!DaysAgree
<1> DEFINE l == Time!Length(s1, s2)
<1>1. s1 \in Int /\ s2 \in 1..12 /\ s3 = Time!days_from_civil(s1, s2, 1)
  BY DEF Time!IInv
<1>2. l \in 28..31
  BY <1>1, EveryMonth, MonthLength DEF Fits
<1> HIDE DEF l
<1>3. ASSUME NEW d \in 1..31
      PROVE  Time!parse_date(<<s1, s2, d>>) = {s3 + d - 1}
  <2>1. Time!parse_date(<<s1, s2, d>>) = {Time!days_from_civil(s1, s2, d)}
    BY <1>1 DEF Time!parse_date
  <2>2. d \in Int
    BY SMT
  <2>3. Time!days_from_civil(s1, s2, d) = Time!days_from_civil(s1, s2, 1) + d - 1
    BY <1>1, <2>2, DaysOfMonth, Zenon
  <2> QED
    BY <1>1, <2>1, <2>3, Zenon
<1>4. ASSUME NEW d \in 1..l
      PROVE  Time!format_date(s3 + d - 1) = <<s1, s2, d>>
  <2>1. d \in Int
    BY <1>2, SMT
  <2>2. s3 + d - 1 = Time!days_from_civil(s1, s2, d)
    BY <1>1, <2>1, DaysOfMonth, Zenon
  <2>3. Time!civil_from_days(Time!days_from_civil(s1, s2, d)) = <<s1, s2, d>>
    BY <1>1, EveryDate DEF l
  <2> QED
    BY <2>2, <2>3 DEF Time!format_date
<1>5. \A d \in 1..l : d \in 1..31
  BY <1>2, SMT
<1>6. l < 31 => l + 1 \in 1..31 /\ s3 + (l + 1) - 1 = s3 + l
  <2>. 1 \in Int
    BY SMT
  <2>1. s3 \in Int
    BY <1>1, DaysOfMonth, Zenon
  <2> QED
    BY <1>2, <2>1, SMT
<1>7. l < 31 => Time!parse_date(<<s1, s2, l + 1>>) = {s3 + l}
  BY <1>3, <1>6
<1> QED
  BY <1>3, <1>4, <1>5, <1>7 DEF Time!DaysAgree, l

\* A date that is written is read as the same day.
LEMMA TimeParse ==
  ASSUME NEW n \in Int
  PROVE  /\ Time!parse_date(Time!format_date(n)) = {n}
         /\ Time!format_date(n) = Time!civil_from_days(n)
<1>1. PICK y \in Int, m \in 1..12, d \in 1..31 :
        Time!civil_from_days(n) = <<y, m, d>> /\ Time!days_from_civil(y, m, d) = n
  BY EveryDay
<1> QED
  BY <1>1 DEF Time!format_date, Time!parse_date

\* UTC by a zone's clock.
Back(s, offset) == s - offset * 60

\* A time is read as what its clock shows, less its offset.
LEMMA TimeText ==
  ASSUME NEW n \in Int, NEW s \in Int, NEW offset \in Int
  PROVE  Time!parse_rfc3339_ms(Time!Text(Time!format_date(n), s, offset))
           = {Time!Instant(n, Back(s, offset))}
<1> DEFINE text == Time!Text(Time!format_date(n), s, offset)
<1>1. text.date = Time!format_date(n)
  BY SMT DEF Time!Text
<1>2. Time!clock(text) = s
  <2>1. PICK hour \in Int : hour = s \div 3600
    BY SMT
  <2>2. PICK rest \in Int : rest = s % 3600
    BY SMT
  <2>3. PICK minute \in Int : minute = rest \div 60
    BY SMT
  <2>4. PICK second \in Int : second = s % 60
    BY SMT
  <2>5. text.hour = hour /\ text.minute = minute /\ text.second = second
    BY <2>1, <2>2, <2>3, <2>4, SMT DEF Time!Text
  <2>6. hour * 3600 + minute * 60 + second = s
    BY <2>1, <2>2, <2>3, <2>4, SMT
  <2> HIDE DEF text
  <2> QED
    BY <2>5, <2>6, SMT DEF Time!clock
<1>3. Time!offset_minutes(text) = offset
  <2>1. PICK o \in Int : o = IF offset < 0 THEN -offset ELSE offset
    BY SMT
  <2>2. PICK hours \in Int : hours = o \div 60
    BY SMT
  <2>3. PICK minutes \in Int : minutes = o % 60
    BY SMT
  <2>4. text.negative = (offset < 0) /\ text.hours = hours /\ text.minutes = minutes
    BY <2>1, <2>2, <2>3, SMT DEF Time!Text
  <2>5. hours * 60 + minutes = o
    BY <2>2, <2>3, SMT
  <2> HIDE DEF text
  <2>6. Time!offset_minutes(text) = (IF offset < 0 THEN -1 ELSE 1) * (hours * 60 + minutes)
    BY <2>4, Zenon DEF Time!offset_minutes
  <2> QED
    BY <2>1, <2>5, <2>6, SMT
<1> HIDE DEF text
<1>4. Time!parse_date(text.date) = {n}
  BY <1>1, TimeParse, Zenon
<1>5. Time!parse_rfc3339_ms(text) = {Time!Instant(days, s - offset * 60) : days \in {n}}
  BY <1>2, <1>3, <1>4, Zenon DEF Time!parse_rfc3339_ms
<1> QED
  BY <1>5, Zenon DEF text, Back

\* A second of a day.
InDay(s) == s \in Int /\ s >= 0 /\ s < 86400

\* A zone's clock, less the zone, is the instant.
LEMMA InstantBack ==
  ASSUME NEW day \in Int, NEW s, InDay(s), NEW offset \in Int
  PROVE  \E n, r \in Int : /\ Time!Instant(day, s + offset * 60) = <<n, r>>
                           /\ Time!Instant(n, Back(r, offset)) = <<day, s>>
<1>1. PICK x \in Int : x = s + offset * 60
  BY SMT DEF InDay
<1>2. PICK q \in Int : q = x \div 86400
  BY SMT
<1>3. PICK r \in Int : r = x % 86400
  BY SMT
<1>4. PICK n \in Int : n = day + q
  BY SMT
<1>5. Time!Instant(day, x) = <<n, r>>
  BY <1>2, <1>3, <1>4, SMT DEF Time!Instant
<1>6. PICK w \in Int : w = Back(r, offset)
  BY SMT DEF Back
<1>7. w = s - 86400 * q
  BY <1>1, <1>2, <1>3, <1>6, SMT DEF Back, InDay
<1>8. w \div 86400 = -q /\ w % 86400 = s
  BY <1>7, SMT DEF InDay
<1>9. n + (-q) = day
  BY <1>4, SMT
<1>10. Time!Instant(n, w) = <<day, s>>
  BY <1>8, <1>9, SMT DEF Time!Instant
<1> QED
  BY <1>1, <1>5, <1>6, <1>10, Zenon

\* A time in UTC is read as itself.
LEMMA TimeOfDay ==
  ASSUME NEW day \in Int, NEW s, InDay(s)
  PROVE  Time!parse_rfc3339_ms(Time!format_rfc3339_utc(<<day, s>>)) = {<<day, s>>}
<1>1. s \in Int
  BY DEF InDay
<1>2. 0 \in Int /\ Back(s, 0) = s
  BY <1>1, SMT DEF Back
<1>3. Time!Instant(day, s) = <<day, s>>
  <2>1. s \div 86400 = 0 /\ s % 86400 = s /\ day + 0 = day
    BY SMT DEF InDay
  <2> QED
    BY <2>1, SMT DEF Time!Instant
<1>4. Time!format_rfc3339_utc(<<day, s>>) = Time!Text(Time!format_date(day), s, 0)
  BY DEF Time!format_rfc3339_utc
<1>5. Time!parse_rfc3339_ms(Time!Text(Time!format_date(day), s, 0)) = {Time!Instant(day, Back(s, 0))}
  <2>1. PICK none \in Int : none = 0
    BY SMT
  <2>2. Time!parse_rfc3339_ms(Time!Text(Time!format_date(day), s, none))
        = {Time!Instant(day, Back(s, none))}
    BY <1>1, TimeText, Zenon
  <2> QED
    BY <2>1, <2>2, Zenon
<1>6. Time!Instant(day, Back(s, 0)) = <<day, s>>
  BY <1>2, <1>3, Zenon
<1> QED
  BY <1>4, <1>5, <1>6, Zenon

\* The times of day and the zones are what a text can spell.
LEMMA TimesLookedAt ==
  ASSUME Time!TimesAssumption
  PROVE  (\A s \in Seconds : InDay(s)) /\ (\A offset \in Offsets : offset \in Int)
<1>1. ASSUME NEW s \in Seconds PROVE InDay(s)
  BY SMT DEF Time!TimesAssumption, InDay
<1>2. ASSUME NEW offset \in Offsets PROVE offset \in Int
  BY SMT DEF Time!TimesAssumption
<1> QED
  BY <1>1, <1>2

\* So is a time in any zone.
LEMMA TimeInstants ==
  ASSUME Time!TimesAssumption, Time!IInv
  PROVE  Time!InstantsAgree
<1>1. ASSUME NEW day \in Int, NEW s \in Seconds, NEW offset \in Offsets
      PROVE  LET local == Time!Instant(day, s + offset * 60)
             IN Time!parse_rfc3339_ms(Time!Text(Time!format_date(local[1]), local[2], offset))
                  = {<<day, s>>}
  <2>1. InDay(s) /\ offset \in Int
    BY TimesLookedAt
  <2>2. PICK n, r \in Int : /\ Time!Instant(day, s + offset * 60) = <<n, r>>
                             /\ Time!Instant(n, Back(r, offset)) = <<day, s>>
    BY <2>1, InstantBack, Zenon
  <2>3. Time!parse_rfc3339_ms(Time!Text(Time!format_date(n), r, offset))
          = {Time!Instant(n, Back(r, offset))}
    BY <2>1, TimeText, Zenon
  <2>4. <<n, r>>[1] = n /\ <<n, r>>[2] = r
    OBVIOUS
  <2> QED
    BY <2>2, <2>3, <2>4, Zenon
<1>2. ASSUME NEW day \in Int, NEW s \in Seconds
      PROVE  Time!parse_rfc3339_ms(Time!format_rfc3339_utc(<<day, s>>)) = {<<day, s>>}
  <2>1. InDay(s)
    BY TimesLookedAt
  <2> QED
    BY <2>1, TimeOfDay, Zenon
<1>3. {s3, s3 + Time!Length(s1, s2) - 1} \subseteq Int
  <2>1. s1 \in Int /\ s2 \in 1..12 /\ s3 = Time!days_from_civil(s1, s2, 1)
    BY DEF Time!IInv
  <2>. 1 \in Int
    BY SMT
  <2>2. s3 \in Int
    BY <2>1, DaysOfMonth, Zenon
  <2>3. Time!Length(s1, s2) \in 28..31
    BY <2>1, EveryMonth, MonthLength DEF Fits
  <2> QED
    BY <2>2, <2>3, SMT
<1> QED
  BY <1>1, <1>2, <1>3 DEF Time!InstantsAgree

\* The last day of the month, and its date.
LEMMA TimeLast ==
  ASSUME Time!IInv
  PROVE  /\ s3 \in Int /\ Time!Length(s1, s2) \in 28..31
         /\ Time!parse_date(<<s1, s2, Time!Length(s1, s2)>>) = {s3 + Time!Length(s1, s2) - 1}
<1>1. s1 \in Int /\ s2 \in 1..12 /\ s3 = Time!days_from_civil(s1, s2, 1)
  BY DEF Time!IInv
<1>2. 1 \in Int
  BY SMT
<1>3. s3 \in Int
  BY <1>1, <1>2, DaysOfMonth, Zenon
<1>4. Time!Length(s1, s2) \in 28..31
  BY <1>1, EveryMonth, MonthLength DEF Fits
<1>5. Time!Length(s1, s2) \in 1..Time!Length(s1, s2)
  BY <1>4, SMT
<1> QED
  BY <1>3, <1>4, <1>5, TimeDays DEF Time!DaysAgree

\* An event ends when it should, and not before it begins.
LEMMA TimeEvents ==
  ASSUME Time!TimesAssumption, Time!IInv
  PROVE  Time!EventsLast
<1> DEFINE l == Time!Length(s1, s2)
           last == s3 + Time!Length(s1, s2) - 1
<1>1. s3 \in Int /\ l \in 28..31 /\ Time!parse_date(<<s1, s2, l>>) = {last}
  BY TimeLast
<1>2. last \in Int /\ last + 1 \in Int /\ ~(s3 > last) /\ ~(last > last) /\ last + 1 > last
  BY <1>1, SMT
<1> HIDE DEF l, last
<1>3. SUFFICES ASSUME NEW e \in {{}, {s3}, {last}, {last + 1}},
                      NEW event \in Time!convert_all_day(<<s1, s2, l>>, e)
               PROVE  /\ event.start = Time!format_date(last)
                      /\ Time!parse_date(event.end) = {last + 1}
                      /\ \A s \in Seconds :
                           LET timed == Time!convert_timed(Time!format_rfc3339_utc(<<last, s>>),
                                                           {<<d, 0>> : d \in e}) IN
                             \A t \in timed, k \in Time!sort_key_all_day(event) :
                               ~Time!Before(t.start, k) /\ ~Time!Before(t.end, t.start)
  BY DEF Time!EventsLast, l, last
<1>4. event = [start |-> Time!format_date(last),
               end |-> Time!format_date(IF \E x \in e : x > last THEN CHOOSE x \in e : x > last
                                        ELSE last + 1)]
  BY <1>1 DEF Time!convert_all_day
<1>5. (IF \E x \in e : x > last THEN CHOOSE x \in e : x > last ELSE last + 1) = last + 1
  <2>1. \A x \in e : x > last => x = last + 1
    BY <1>2, <1>3
  <2>2. CASE \E x \in e : x > last
    <3>1. (CHOOSE x \in e : x > last) \in e /\ (CHOOSE x \in e : x > last) > last
      BY <2>2
    <3> QED
      BY <2>1, <2>2, <3>1
  <2>3. CASE ~\E x \in e : x > last
    BY <2>3
  <2> QED
    BY <2>2, <2>3
<1>6. event.start = Time!format_date(last) /\ event.end = Time!format_date(last + 1)
  BY <1>4, <1>5, Zenon
<1>7. Time!parse_date(event.end) = {last + 1} /\ Time!parse_date(event.start) = {last}
  BY <1>2, <1>6, TimeParse, Zenon
<1>8. ASSUME NEW s \in Seconds,
             NEW t \in Time!convert_timed(Time!format_rfc3339_utc(<<last, s>>), {<<d, 0>> : d \in e}),
             NEW k \in Time!sort_key_all_day(event)
      PROVE  ~Time!Before(t.start, k) /\ ~Time!Before(t.end, t.start)
  <2>1. InDay(s)
    BY TimesLookedAt
  <2>2. s \in Int /\ s >= 0
    BY <2>1 DEF InDay
  <2>3. k = <<last, 0>>
    <3>1. k = Time!Instant(last, 0)
      BY <1>7, Zenon DEF Time!sort_key_all_day
    <3>2. 0 \div 86400 = 0 /\ 0 % 86400 = 0 /\ last + 0 = last
      BY <1>2, SMT
    <3> QED
      BY <3>1, <3>2, SMT DEF Time!Instant
  <2>4. Time!parse_rfc3339_ms(Time!format_rfc3339_utc(<<last, s>>)) = {<<last, s>>}
    BY <1>2, <2>1, TimeOfDay, Zenon
  <2> DEFINE ends == {<<d, 0>> : d \in e}
             start == <<last, s>>
  <2>5. t = [start |-> start,
             end |-> IF \E x \in ends : ~Time!Before(x, start)
                     THEN CHOOSE x \in ends : ~Time!Before(x, start) ELSE start]
    BY <2>4 DEF Time!convert_timed
  <2>6. ~Time!Before(start, start) /\ ~Time!Before(start, k)
    BY <1>2, <2>2, <2>3, SMT DEF Time!Before
  <2> HIDE DEF ends, start
  <2>7. t.start = start
    BY <2>5, Zenon
  <2>8. ~Time!Before(t.end, start)
    <3>1. CASE \E x \in ends : ~Time!Before(x, start)
      <4>1. t.end = CHOOSE x \in ends : ~Time!Before(x, start)
        BY <2>5, <3>1, Zenon
      <4> QED
        BY <3>1, <4>1, Zenon
    <3>2. CASE ~\E x \in ends : ~Time!Before(x, start)
      <4>1. t.end = start
        BY <2>5, <3>2, Zenon
      <4> QED
        BY <2>6, <4>1, Zenon
    <3> QED
      BY <3>1, <3>2
  <2> QED
    BY <2>6, <2>7, <2>8, Zenon
<1> QED
  BY <1>6, <1>7, <1>8, Zenon

\* For any first year, any times of day and zones: in every month the code's dates, times and
\* events are those the calendar's rules give (calendar.rs, 1073-1217).
THEOREM DatesFollowTheRules == ModulesSpec => []TimeDatesAreRight
<1> DEFINE Inv == component = "time" => Time!IInv
<1>1. ModulesInit => Inv
  <2>1. SUFFICES ASSUME ModulesInit, component = "time" PROVE Time!IInv
    OBVIOUS
  <2>2. s1 = FirstYear /\ s2 = 1 /\ s3 = FirstDay /\ FirstYear \in Int /\ FirstDay = Time!NewYear(FirstYear)
    BY <2>1, SMT, ModulesAssumption DEF ModulesInit, Time!Init, ModulesAssumption, Time!WalkAssumption
  <2>3. 1 \in 1..12
    BY SMT
  <2> QED
    BY <2>2, <2>3, YearsBegin, Zenon DEF Time!IInv
<1>2. Inv /\ [ModulesNext]_all => Inv'
  <2>1. ASSUME Inv, ModulesNext, component = "time" PROVE Time!IInv'
    <3>1. Time!IInv /\ Time!Next
      BY <2>1, Zenon DEF ModulesNext, One
    <3>2. s1 \in Int /\ s2 \in 1..12 /\ s3 = Time!days_from_civil(s1, s2, 1)
      BY <3>1, Zenon DEF Time!IInv
    <3>3. /\ s1' = IF s2 = 12 THEN s1 + 1 ELSE s1
          /\ s2' = IF s2 = 12 THEN 1 ELSE s2 + 1
          /\ s3' = s3 + Time!Length(s1, s2)
      BY <3>1, SMT DEF Time!Next
    <3>4. s1' \in Int /\ s2' \in 1..12
      BY <3>2, <3>3, SMT
    <3>5. s3' = Time!days_from_civil(s1', s2', 1)
      BY <3>2, <3>3, MonthsFollow, Zenon
    <3> QED
      BY <3>4, <3>5, Zenon DEF Time!IInv
  <2>2. ASSUME Inv, ModulesNext, component # "time" PROVE component' # "time"
    BY <2>2 DEF ModulesNext, One
  <2>3. ASSUME Inv, UNCHANGED all PROVE Inv'
    BY <2>3, Zenon DEF all, slots, Time!IInv
  <2> QED
    BY <2>1, <2>2, <2>3
<1>3. Inv => TimeDatesAreRight
  BY TimeDays, TimeInstants, TimeEvents, ModulesAssumption, Zenon
     DEF TimeDatesAreRight, Time!DatesAreRight, ModulesAssumption
<1> QED
  BY <1>1, <1>2, <1>3, PTL DEF ModulesSpec

-----------------------------------------------------------------------------
(* The layout of the screens.                                                *)

\* A screen keeps at least a logical pixel of each side.
LEMMA LayoutSide ==
  ASSUME NEW length \in Nat, NEW scale \in 1..32, 8 * length >= scale
  PROVE  Layout!Logical(length, scale) \in Nat /\ Layout!Logical(length, scale) > 0
<1>1. PICK q \in Int : q = (8 * length + scale) \div (2 * scale)
  BY SMT
<1>2. 8 * length + scale >= 2 * scale /\ 2 * scale > 0
  BY SMT
<1>3. q >= 1
  BY <1>1, <1>2, SMT
<1> QED
  BY <1>1, <1>3, SMT DEF Layout!Logical

\* What a screen covers one way.
Segment(at, size) == at .. at + size - 1

\* Two segments that share two neighbouring pixels overlap by more than one, as the code counts.
LEMMA LayoutShares ==
  ASSUME NEW a \in Int, NEW n \in Int, NEW b \in Int, NEW m \in Int, NEW d \in Int,
         {d, d + 1} \subseteq Segment(a, n) \cap Segment(b, m)
  PROVE  n > 0 /\ m > 0 /\ Layout!Lower(a + n, b + m) - Layout!Upper(a, b) > 1
<1>1. d >= a /\ d + 1 <= a + n - 1 /\ d >= b /\ d + 1 <= b + m - 1
  BY SMT DEF Segment
<1> QED
  BY <1>1, SMT DEF Layout!Lower, Layout!Upper

\* What the code resolves a screen to is the pixels it covers, of which there is one at least.
LEMMA LayoutResolved ==
  ASSUME NEW m \in Layout!Setting
  PROVE  LET r == Layout!Resolved(m) IN
           /\ r.disabled = m.disabled /\ r.x \in Int /\ r.y \in Int
           /\ r.width \in Nat /\ r.width > 0 /\ r.height \in Nat /\ r.height > 0
           /\ Layout!Pixels(m) = IF m.disabled THEN {}
                                 ELSE Segment(r.x, r.width) \X Segment(r.y, r.height)
<1> DEFINE w == Layout!Logical(m.width, m.scale)
           h == Layout!Logical(m.height, m.scale)
<1>1. /\ m.width \in Nat /\ m.height \in Nat /\ m.x \in Int /\ m.y \in Int /\ m.scale \in 1..32
      /\ m.transform \in 0..7 /\ 8 * m.width >= m.scale /\ 8 * m.height >= m.scale
  BY DEF Layout!Setting
<1>2. w \in Nat /\ w > 0 /\ h \in Nat /\ h > 0
  BY <1>1, LayoutSide
<1>3. m.transform \in {1, 3, 5, 7} <=> m.transform % 2 = 1
  BY <1>1, SMT
<1> HIDE DEF w, h
<1>4. CASE m.transform % 2 = 1
  <2>1. Layout!Resolved(m) = [x |-> m.x, y |-> m.y, disabled |-> m.disabled, width |-> h, height |-> w]
    BY <1>4 DEF Layout!Resolved, w, h
  <2>2. Layout!Pixels(m) = IF m.disabled THEN {} ELSE Segment(m.x, h) \X Segment(m.y, w)
    BY <1>3, <1>4 DEF Layout!Pixels, Segment, w, h
  <2> QED
    BY <1>1, <1>2, <2>1, <2>2
<1>5. CASE ~(m.transform % 2 = 1)
  <2>1. Layout!Resolved(m) = [x |-> m.x, y |-> m.y, disabled |-> m.disabled, width |-> w, height |-> h]
    BY <1>5 DEF Layout!Resolved, w, h
  <2>2. Layout!Pixels(m) = IF m.disabled THEN {} ELSE Segment(m.x, w) \X Segment(m.y, h)
    BY <1>3, <1>5 DEF Layout!Pixels, Segment, w, h
  <2> QED
    BY <1>1, <1>2, <2>1, <2>2
<1> QED
  BY <1>4, <1>5

\* What first_overlap looks for.
Over(a, b) ==
  /\ ~a.disabled /\ ~b.disabled /\ a.width > 0 /\ a.height > 0 /\ b.width > 0 /\ b.height > 0
  /\ Layout!Lower(a.x + a.width, b.x + b.width) - Layout!Upper(a.x, b.x) > 1
  /\ Layout!Lower(a.y + a.height, b.y + b.height) - Layout!Upper(a.y, b.y) > 1

\* Screens that share a square of four pixels are over one another, whichever is first.
LEMMA LayoutOver ==
  ASSUME NEW m \in Layout!Setting, NEW n \in Layout!Setting,
         NEW d \in Layout!Pixels(m) \cap Layout!Pixels(n),
         {<<d[1] + 1, d[2]>>, <<d[1], d[2] + 1>>, <<d[1] + 1, d[2] + 1>>}
           \subseteq Layout!Pixels(m) \cap Layout!Pixels(n)
  PROVE  Over(Layout!Resolved(m), Layout!Resolved(n)) /\ Over(Layout!Resolved(n), Layout!Resolved(m))
<1> DEFINE a == Layout!Resolved(m)
           b == Layout!Resolved(n)
<1>1. /\ ~m.disabled /\ ~n.disabled
      /\ Layout!Pixels(m) = Segment(a.x, a.width) \X Segment(a.y, a.height)
      /\ Layout!Pixels(n) = Segment(b.x, b.width) \X Segment(b.y, b.height)
  BY LayoutResolved
<1>2. /\ a.x \in Int /\ a.y \in Int /\ a.width \in Int /\ a.height \in Int
      /\ b.x \in Int /\ b.y \in Int /\ b.width \in Int /\ b.height \in Int
      /\ a.disabled = m.disabled /\ b.disabled = n.disabled
  BY LayoutResolved
<1> HIDE DEF a, b
<1>3. /\ {d[1], d[1] + 1} \subseteq Segment(a.x, a.width) \cap Segment(b.x, b.width)
      /\ {d[2], d[2] + 1} \subseteq Segment(a.y, a.height) \cap Segment(b.y, b.height)
  BY <1>1
<1>4. d[1] \in Int /\ d[2] \in Int
  BY <1>2, <1>3 DEF Segment
<1>5. /\ Layout!Lower(a.x + a.width, b.x + b.width) - Layout!Upper(a.x, b.x) > 1
      /\ Layout!Lower(b.x + b.width, a.x + a.width) - Layout!Upper(b.x, a.x) > 1
      /\ a.width > 0 /\ b.width > 0
  BY <1>2, <1>3, <1>4, LayoutShares
<1>6. /\ Layout!Lower(a.y + a.height, b.y + b.height) - Layout!Upper(a.y, b.y) > 1
      /\ Layout!Lower(b.y + b.height, a.y + a.height) - Layout!Upper(b.y, a.y) > 1
      /\ a.height > 0 /\ b.height > 0
  BY <1>2, <1>3, <1>4, LayoutShares
<1> QED
  BY <1>1, <1>2, <1>5, <1>6 DEF Over, a, b

\* A layout gives every screen a setting.
LEMMA LayoutScreens ==
  ASSUME Layout!LayoutAssumption, NEW l \in Layout!Layouts, NEW o \in Layout!Names
  PROVE  l[o] \in Layout!Setting
<1>1. l[o] \in Settings[o] /\ Settings[o] \subseteq Layout!Setting
  BY DEF Layout!LayoutAssumption, Layout!Layouts
<1> QED
  BY <1>1

\* What the gate lets through is usable: it would have seen any two screens that share more
\* than an edge.
LEMMA LayoutGate ==
  ASSUME Layout!LayoutAssumption, NEW l \in Layout!Layouts,
         \E o \in Layout!Names : ~Layout!Resolved(l[o]).disabled, ~Layout!first_overlap(l)
  PROVE  Layout!Usable(l)
<1>1. \E o \in Layout!Names : Layout!Pixels(l[o]) # {}
  <2>1. PICK o \in Layout!Names : ~Layout!Resolved(l[o]).disabled
    OBVIOUS
  <2>2. l[o] \in Layout!Setting
    BY LayoutScreens
  <2> DEFINE r == Layout!Resolved(l[o])
  <2>3. /\ Layout!Pixels(l[o]) = Segment(r.x, r.width) \X Segment(r.y, r.height)
        /\ r.x \in Int /\ r.y \in Int /\ r.width \in Nat /\ r.width > 0 /\ r.height \in Nat /\ r.height > 0
    BY <2>1, <2>2, LayoutResolved
  <2> HIDE DEF r
  <2>4. r.x \in Segment(r.x, r.width) /\ r.y \in Segment(r.y, r.height)
    BY <2>3, SMT DEF Segment
  <2>5. <<r.x, r.y>> \in Layout!Pixels(l[o])
    BY <2>3, <2>4
  <2> QED
    BY <2>5
<1>2. ASSUME NEW o \in Layout!Names, NEW p \in Layout!Names, o # p,
             NEW d \in Layout!Pixels(l[o]) \cap Layout!Pixels(l[p]),
             {<<d[1] + 1, d[2]>>, <<d[1], d[2] + 1>>, <<d[1] + 1, d[2] + 1>>}
               \subseteq Layout!Pixels(l[o]) \cap Layout!Pixels(l[p])
      PROVE  FALSE
  <2>1. Over(Layout!Resolved(l[o]), Layout!Resolved(l[p]))
        /\ Over(Layout!Resolved(l[p]), Layout!Resolved(l[o]))
    BY <1>2, LayoutScreens, LayoutOver
  <2>2. PICK i \in DOMAIN Monitors, j \in DOMAIN Monitors : Monitors[i] = o /\ Monitors[j] = p
    BY DEF Layout!Names, Layout!Range
  <2>3. i \in Int /\ j \in Int /\ i # j
    BY <1>2, <2>2 DEF Layout!LayoutAssumption
  <2>4. \A x, y \in DOMAIN Monitors :
          x < y => ~Over(Layout!Resolved(l[Monitors[x]]), Layout!Resolved(l[Monitors[y]]))
    BY DEF Layout!first_overlap, Over
  <2> QED
    BY <2>1, <2>2, <2>3, <2>4
<1> QED
  BY <1>1, <1>2 DEF Layout!Usable

\* A screen's settings are among all of them.
LEMMA LayoutSettings ==
  ASSUME Layout!LayoutAssumption, NEW o \in Layout!Names
  PROVE  Settings[o] \subseteq UNION Layout!Range(Settings)
BY DEF Layout!LayoutAssumption, Layout!Range

\* A request laid over a layout makes a layout.
LEMMA LayoutOverlay ==
  ASSUME Layout!LayoutAssumption, NEW l \in Layout!Layouts, NEW r \in Layout!Requests
  PROVE  Layout!Overlay(r, l) \in Layout!Layouts
<1>1. \A o \in Layout!Names : l[o] \in Settings[o]
  BY DEF Layout!Layouts
<1>2. \A o \in DOMAIN r : r[o] \in Settings[o]
  BY DEF Layout!Requests
<1>3. \A o \in Layout!Names : Layout!Overlay(r, l)[o] \in Settings[o]
  BY <1>1, <1>2 DEF Layout!Overlay
<1>4. Layout!Overlay(r, l) \in [Layout!Names -> UNION Layout!Range(Settings)]
  BY <1>3, LayoutSettings DEF Layout!Overlay
<1> QED
  BY <1>3, <1>4 DEF Layout!Layouts

\* To store a request and start anew comes to laying it over what a start would show.
LEMMA LayoutReloads ==
  ASSUME Layout!LayoutAssumption, NEW r \in Layout!Requests, NEW stored
  PROVE  Layout!Reloaded(Layout!Overlay(r, stored)) = Layout!Overlay(r, Layout!Reloaded(stored))
<1>1. \A o \in Layout!Names \cap DOMAIN r : r[o] # None
  BY DEF Layout!LayoutAssumption, Layout!Requests
<1> QED
  BY <1>1 DEF Layout!Reloaded, Layout!Overlay

\* What is stored of a request are settings.
LEMMA LayoutStored ==
  ASSUME Layout!LayoutAssumption, Layout!IInv, NEW r \in Layout!Requests
  PROVE  \A o \in Layout!Names : Layout!Overlay(r, s2)[o] \in Settings[o] \cup {None}
<1>1. \A o \in Layout!Names : s2[o] \in Settings[o] \cup {None}
  BY DEF Layout!IInv, Layout!ScreenStaysUsable, Layout!TypeOK
<1>2. \A o \in DOMAIN r : r[o] \in Settings[o]
  BY DEF Layout!Requests
<1> QED
  BY <1>1, <1>2 DEF Layout!Overlay

\* A request that is accepted makes a usable layout.
LEMMA LayoutAccepted ==
  ASSUME Layout!LayoutAssumption, NEW l \in Layout!Layouts, NEW r \in Layout!Requests,
         Layout!validate_layout(r, l)
  PROVE  Layout!Overlay(r, l) \in Layout!Layouts /\ Layout!Usable(Layout!Overlay(r, l))
<1>1. Layout!Overlay(r, l) \in Layout!Layouts
  BY LayoutOverlay
<1> QED
  BY <1>1, LayoutGate DEF Layout!validate_layout

\* A start shows a layout.
LEMMA LayoutReloaded ==
  ASSUME Layout!LayoutAssumption, Layout!BaseAssumption, Layout!IInv
  PROVE  Layout!Reloaded(s2) \in Layout!Layouts
<1>1. \A o \in Layout!Names : s2[o] \in Settings[o] \cup {None} /\ Base[o] \in Settings[o]
  BY DEF Layout!IInv, Layout!ScreenStaysUsable, Layout!TypeOK, Layout!LayoutAssumption
<1>2. \A o \in Layout!Names : Layout!Reloaded(s2)[o] \in Settings[o]
  BY <1>1 DEF Layout!Reloaded
<1>3. Layout!Reloaded(s2) \in [Layout!Names -> UNION Layout!Range(Settings)]
  BY <1>2, LayoutSettings DEF Layout!Reloaded
<1> QED
  BY <1>2, <1>3 DEF Layout!Layouts

\* With nothing stored, a start shows the user's own configuration.
LEMMA LayoutBase ==
  ASSUME Layout!LayoutAssumption, Layout!BaseAssumption
  PROVE  Layout!Reloaded([o \in Layout!Names |-> None]) = Base
BY DEF Layout!Reloaded, Layout!BaseAssumption, Layout!Layouts

\* The invariant after a step, by the new values.
LEMMA LayoutHolds ==
  ASSUME Layout!TypeOK',
         ~s4' => /\ Layout!Usable(s1') /\ Layout!Usable(Layout!Reloaded(s2'))
                 /\ s3' = None => s1' = Layout!Reloaded(s2')
                 /\ s3' # None =>
                      /\ s3'.previous = Layout!Reloaded(s2')
                      /\ ~s3'.chained => s1' = Layout!Overlay(s3'.requested, s3'.previous)
  PROVE  Layout!IInv'
<1>1. Layout!Usable(s1)' <=> Layout!Usable(s1')
  BY DEF Layout!Usable
<1>2. Layout!Reloaded(s2)' = Layout!Reloaded(s2')
  BY DEF Layout!Reloaded
<1>3. Layout!Usable(Layout!Reloaded(s2))' <=> Layout!Usable(Layout!Reloaded(s2'))
  BY <1>2 DEF Layout!Usable
<1>4. (Layout!Overlay(s3.requested, s3.previous))' = Layout!Overlay(s3'.requested, s3'.previous)
  BY DEF Layout!Overlay
<1>5. Layout!ScreenStaysUsable'
  BY <1>1, <1>2, <1>3 DEF Layout!ScreenStaysUsable
<1>6. Layout!Tried'
  BY <1>2, <1>4 DEF Layout!Tried
<1> QED
  BY <1>5, <1>6 DEF Layout!IInv

\* At the start nothing is stored and nothing on trial.
LEMMA LayoutInit ==
  ASSUME Layout!LayoutAssumption, Layout!BaseAssumption, Layout!Init
  PROVE  Layout!IInv
<1>1. Layout!TypeOK
  BY DEF Layout!Init, Layout!TypeOK, Layout!BaseAssumption
<1>2. Layout!Reloaded(s2) = Base /\ s1 = Base /\ s3 = None /\ Layout!Usable(Base)
  BY LayoutBase DEF Layout!Init, Layout!BaseAssumption
<1> QED
  BY <1>1, <1>2 DEF Layout!IInv, Layout!ScreenStaysUsable, Layout!Tried

\* A layout on trial is remembered with what it was laid over.
LEMMA LayoutBegins ==
  ASSUME Layout!LayoutAssumption, Layout!PreviewAssumption, Layout!IInv,
         NEW r \in Layout!Requests, Layout!begin_preview(r)
  PROVE  Layout!IInv'
<1>1. s1 \in Layout!Layouts /\ s3 \in Layout!Previews \cup {None}
  BY DEF Layout!IInv, Layout!ScreenStaysUsable, Layout!TypeOK
<1>2. /\ Layout!validate_layout(r, s1)
      /\ s3' = [previous |-> IF s3 = None THEN s1 ELSE s3.previous, requested |-> r,
                chained |-> s3 # None]
      /\ s1' = Layout!Overlay(r, s1) /\ UNCHANGED <<s2, s4>>
  BY DEF Layout!begin_preview
<1>3. s1' \in Layout!Layouts /\ Layout!Usable(s1')
  BY <1>1, <1>2, LayoutAccepted
<1>4. s3' \in Layout!Previews
  BY <1>1, <1>2 DEF Layout!Previews
<1>5. s3' # None
  BY <1>4 DEF Layout!PreviewAssumption
<1>6. /\ s3'.previous = IF s3 = None THEN s1 ELSE s3.previous
      /\ s3'.requested = r
      /\ s3'.chained <=> s3 # None
  BY <1>2
<1>7. Layout!TypeOK'
  BY <1>2, <1>3, <1>4 DEF Layout!IInv, Layout!ScreenStaysUsable, Layout!TypeOK
<1>8. ~s4 => Layout!Usable(Layout!Reloaded(s2)) /\ s3'.previous = Layout!Reloaded(s2)
  BY <1>6 DEF Layout!IInv, Layout!ScreenStaysUsable, Layout!Tried
<1>9. ~s3'.chained => s1' = Layout!Overlay(s3'.requested, s3'.previous)
  BY <1>2, <1>6
<1> QED
  BY <1>2, <1>3, <1>5, <1>7, <1>8, <1>9, LayoutHolds

\* What is saved of a layout on trial makes the next start show it.
LEMMA LayoutConfirms ==
  ASSUME Layout!LayoutAssumption, Layout!IInv, Layout!confirm_preview
  PROVE  Layout!IInv'
<1>1. s3 \in Layout!Previews
  BY DEF Layout!IInv, Layout!ScreenStaysUsable, Layout!TypeOK, Layout!confirm_preview
<1>2. s3.requested \in Layout!Requests /\ s3.chained \in BOOLEAN
  BY <1>1 DEF Layout!Previews
<1>3. /\ s3 # None /\ s2' = Layout!Overlay(s3.requested, s2) /\ s3' = None /\ UNCHANGED s1
      /\ s4' = (s4 \/ s3.chained)
  BY DEF Layout!confirm_preview, Layout!upsert_monitor
<1>4. Layout!TypeOK'
  BY <1>2, <1>3, LayoutStored DEF Layout!IInv, Layout!ScreenStaysUsable, Layout!TypeOK
<1>5. ASSUME ~s4'
      PROVE  Layout!Usable(s1) /\ Layout!Reloaded(s2') = s1
  <2>1. ~s4 /\ ~s3.chained
    BY <1>3, <1>5
  <2>2. /\ Layout!Usable(s1) /\ s3.previous = Layout!Reloaded(s2)
        /\ s1 = Layout!Overlay(s3.requested, s3.previous)
    BY <1>3, <2>1 DEF Layout!IInv, Layout!ScreenStaysUsable, Layout!Tried
  <2>3. Layout!Reloaded(s2') = Layout!Overlay(s3.requested, Layout!Reloaded(s2))
    BY <1>2, <1>3, LayoutReloads
  <2> QED
    BY <2>2, <2>3
<1> QED
  BY <1>3, <1>4, <1>5, LayoutHolds

\* To give a layout up goes back to what is stored.
LEMMA LayoutReverts ==
  ASSUME Layout!IInv, Layout!revert_preview
  PROVE  Layout!IInv'
<1>1. /\ s3 # None /\ s1' = s3.previous /\ s3' = None /\ UNCHANGED <<s2, s4>>
  BY DEF Layout!revert_preview
<1>2. s3 \in Layout!Previews
  BY <1>1 DEF Layout!IInv, Layout!ScreenStaysUsable, Layout!TypeOK
<1>3. s3.previous \in Layout!Layouts
  BY <1>2 DEF Layout!Previews
<1>4. Layout!TypeOK'
  BY <1>1, <1>3 DEF Layout!IInv, Layout!ScreenStaysUsable, Layout!TypeOK
<1>5. ~s4 => Layout!Usable(Layout!Reloaded(s2)) /\ s1' = Layout!Reloaded(s2)
  BY <1>1 DEF Layout!IInv, Layout!ScreenStaysUsable, Layout!Tried
<1> QED
  BY <1>1, <1>4, <1>5, LayoutHolds

\* A request that is applied and stored at once does both to the same layout.
LEMMA LayoutSets ==
  ASSUME Layout!LayoutAssumption, Layout!BaseAssumption, Layout!IInv, NEW r \in Layout!Requests,
         Layout!set_monitors(r)
  PROVE  Layout!IInv'
<1>1. s1 \in Layout!Layouts
  BY DEF Layout!IInv, Layout!ScreenStaysUsable, Layout!TypeOK
<1>2. /\ Layout!validate_layout(r, s1) /\ s1' = Layout!Overlay(r, s1) /\ s2' = Layout!Overlay(r, s2)
      /\ UNCHANGED s3 /\ s4' = (s4 \/ s3 # None)
  BY DEF Layout!set_monitors, Layout!upsert_monitor
<1>3. s1' \in Layout!Layouts /\ Layout!Usable(s1')
  BY <1>1, <1>2, LayoutAccepted
<1>4. Layout!TypeOK'
  BY <1>2, <1>3, LayoutStored DEF Layout!IInv, Layout!ScreenStaysUsable, Layout!TypeOK
<1>5. ASSUME ~s4'
      PROVE  s3 = None /\ Layout!Reloaded(s2') = s1'
  <2>1. ~s4 /\ s3 = None
    BY <1>2, <1>5
  <2>2. s1 = Layout!Reloaded(s2)
    BY <2>1 DEF Layout!IInv, Layout!ScreenStaysUsable
  <2>3. Layout!Reloaded(s2') = Layout!Overlay(r, Layout!Reloaded(s2))
    BY <1>2, LayoutReloads
  <2> QED
    BY <1>2, <2>1, <2>2, <2>3
<1> QED
  BY <1>2, <1>3, <1>4, <1>5, LayoutHolds

\* A reset of the monitors goes back to the user's own configuration, and one of the options
\* to the stored layout.
LEMMA LayoutResets ==
  ASSUME Layout!LayoutAssumption, Layout!BaseAssumption, Layout!IInv, NEW scope, Layout!reset(scope)
  PROVE  Layout!IInv'
<1>1. /\ s2' = (IF scope = "options" THEN s2 ELSE [o \in Layout!Names |-> None])
      /\ s1' = Layout!Reloaded(s2') /\ UNCHANGED s3 /\ s4' = (s4 \/ s3 # None)
  BY DEF Layout!reset
<1>2. s1' \in Layout!Layouts /\ (~s4 => Layout!Usable(s1'))
  <2>1. CASE scope = "options"
    BY <1>1, <2>1, LayoutReloaded DEF Layout!IInv, Layout!ScreenStaysUsable
  <2>2. CASE scope # "options"
    BY <1>1, <2>2, LayoutBase DEF Layout!BaseAssumption
  <2> QED
    BY <2>1, <2>2
<1>3. Layout!TypeOK'
  BY <1>1, <1>2 DEF Layout!IInv, Layout!ScreenStaysUsable, Layout!TypeOK
<1>4. ~s4' => s3' = None /\ ~s4
  BY <1>1
<1> QED
  BY <1>1, <1>2, <1>3, <1>4, LayoutHolds

\* A new start shows what is stored.
LEMMA LayoutStarts ==
  ASSUME Layout!LayoutAssumption, Layout!BaseAssumption, Layout!IInv, Layout!Start
  PROVE  Layout!IInv'
<1>1. s1' = Layout!Reloaded(s2) /\ s3' = None /\ UNCHANGED <<s2, s4>>
  BY DEF Layout!Start
<1>2. s1' \in Layout!Layouts
  BY <1>1, LayoutReloaded
<1>3. Layout!TypeOK'
  BY <1>1, <1>2 DEF Layout!IInv, Layout!ScreenStaysUsable, Layout!TypeOK
<1>4. ~s4 => Layout!Usable(Layout!Reloaded(s2))
  BY DEF Layout!IInv, Layout!ScreenStaysUsable
<1> QED
  BY <1>1, <1>3, <1>4, LayoutHolds

\* Every call and every start.
LEMMA LayoutNext ==
  ASSUME Layout!LayoutAssumption, Layout!BaseAssumption, Layout!PreviewAssumption, Layout!IInv,
         Layout!Next
  PROVE  Layout!IInv'
BY LayoutBegins, LayoutConfirms, LayoutReverts, LayoutSets, LayoutResets, LayoutStarts
   DEF Layout!Next

\* For any screens, settings and configuration that is itself usable: whatever is tried,
\* reverted, saved and reset in whatever order, the screen is usable and so is what the next
\* start will show, but for a request saved over another one on trial (hypr.rs).
THEOREM ScreensStayUsable == ModulesSpec => []LayoutScreenStaysUsable
<1> DEFINE Inv == component = "layout" => Layout!IInv
<1>1. ModulesInit => Inv
  BY LayoutInit, ModulesAssumption DEF ModulesAssumption, ModulesInit
<1>2. Inv /\ [ModulesNext]_all => Inv'
  <2>1. ASSUME Inv, ModulesNext PROVE Inv'
    BY <2>1, LayoutNext, ModulesAssumption DEF ModulesNext, One, ModulesAssumption
  <2>2. ASSUME Inv, UNCHANGED all PROVE Inv'
    <3>1. UNCHANGED <<component, s1, s2, s3, s4>>
      BY <2>2 DEF all, slots
    <3>2. CASE component = "layout"
      <4>1. Layout!TypeOK'
        BY <2>2, <3>1, <3>2 DEF Layout!IInv, Layout!ScreenStaysUsable, Layout!TypeOK
      <4> QED
        BY <2>2, <3>1, <3>2, <4>1, LayoutHolds DEF Layout!IInv, Layout!ScreenStaysUsable, Layout!Tried
    <3> QED
      BY <3>1, <3>2
  <2> QED
    BY <2>1, <2>2
<1>3. Inv => LayoutScreenStaysUsable
  BY DEF LayoutScreenStaysUsable, Layout!IInv
<1> QED
  BY <1>1, <1>2, <1>3, PTL DEF ModulesSpec
=============================================================================
