--------------------------- MODULE TaskBoardProofs ---------------------------
(***************************************************************************)
(* Theorems about SlotScheduler and TaskBoard for every number of          *)
(* controllers, slots, sessions and tasks.  First what one run of the      *)
(* scheduler guarantees, then the board: the inductive invariant is Inv,   *)
(* the types, the soundness of the assignment, and the three facts about   *)
(* single cards and the selection that the scheduler relies on or that     *)
(* ride along.                                                             *)
(***************************************************************************)
EXTENDS TaskBoard, FiniteSetTheorems, WellFoundedInduction, TLAPS

(***************************************************************************)
(* Every non-empty set of numbers has a least element.  The library states *)
(* induction for an operator parameter; this form, for a set, comes from   *)
(* the well-foundedness of the subset ordering on the intervals 0 .. n.    *)
(***************************************************************************)
LEMMA LeastNumber ==
    ASSUME NEW A \in SUBSET Nat, A # {}
    PROVE  \E m \in A : \A n \in A : m <= n
<1> DEFINE T == {0 .. n : n \in A}
<1>1. T \subseteq FiniteSubsetsOf(Nat)
  <2> SUFFICES ASSUME NEW n \in A PROVE 0 .. n \in FiniteSubsetsOf(Nat)
    OBVIOUS
  <2>1. IsFiniteSet(0 .. n)
    BY FS_Interval
  <2> QED
    BY <2>1 DEF FiniteSubsetsOf
<1>2. T # {}
  OBVIOUS
<1>3. IsWellFoundedOn(StrictSubsetOrdering(Nat), FiniteSubsetsOf(Nat))
  BY FS_StrictSubsetOrderingWellFounded
<1>4. PICK x \in T : \A y \in T : <<y, x>> \notin StrictSubsetOrdering(Nat)
  <2> HIDE DEF T
  <2> QED
    BY <1>1, <1>2, <1>3, WFMin
<1>5. PICK m \in A : x = 0 .. m
  OBVIOUS
<1>6. ASSUME NEW n \in A PROVE m <= n
  <2> SUFFICES ASSUME n < m PROVE FALSE
    OBVIOUS
  <2>1. 0 .. n \in T
    OBVIOUS
  <2>2. 0 .. n \subseteq 0 .. m /\ m \in 0 .. m /\ m \notin 0 .. n
    OBVIOUS
  <2>3. <<0 .. n, 0 .. m>> \in StrictSubsetOrdering(Nat)
    BY <2>2 DEF StrictSubsetOrdering
  <2> QED
    BY <1>4, <1>5, <2>1, <2>3
<1> QED
  BY <1>6

(* Every non-empty finite set of numbers has a greatest element: it is the *)
(* one with the smallest set of greater numbers.                           *)
LEMMA GreatestNumber ==
    ASSUME NEW A \in SUBSET Nat, A # {}, IsFiniteSet(A)
    PROVE  \E m \in A : \A n \in A : n <= m
<1> DEFINE Above(n) == {x \in A : x > n}
           T == {Above(n) : n \in A}
<1>1. T \subseteq FiniteSubsetsOf(Nat)
  <2> SUFFICES ASSUME NEW n \in A PROVE Above(n) \in FiniteSubsetsOf(Nat)
    OBVIOUS
  <2>1. IsFiniteSet(Above(n))
    BY FS_Subset
  <2> QED
    BY <2>1 DEF FiniteSubsetsOf
<1>2. T # {}
  OBVIOUS
<1>3. IsWellFoundedOn(StrictSubsetOrdering(Nat), FiniteSubsetsOf(Nat))
  BY FS_StrictSubsetOrderingWellFounded
<1>4. PICK x \in T : \A y \in T : <<y, x>> \notin StrictSubsetOrdering(Nat)
  <2> HIDE DEF T
  <2> QED
    BY <1>1, <1>2, <1>3, WFMin
<1>5. PICK m \in A : x = Above(m)
  OBVIOUS
<1>6. ASSUME NEW n \in A PROVE n <= m
  <2> SUFFICES ASSUME n > m PROVE FALSE
    OBVIOUS
  <2>1. Above(n) \subseteq Above(m) /\ n \in Above(m) /\ n \notin Above(n)
    <3>1. n \in Nat /\ m \in Nat /\ \A y \in A : y \in Nat
      OBVIOUS
    <3>2. \A y \in A : y > n => y > m
      BY <3>1
    <3>3. ~(n > n)
      BY <3>1
    <3> QED
      BY <3>2, <3>3
  <2>2. <<Above(n), Above(m)>> \in StrictSubsetOrdering(Nat)
    BY <2>1 DEF StrictSubsetOrdering
  <2>3. Above(n) \in T
    OBVIOUS
  <2> QED
    BY <1>4, <1>5, <2>2, <2>3
<1> QED
  BY <1>6

LEMMA PositionsAreNumbers ==
    LastPosition \in Nat
BY SizesAssumption DEF LastPosition

(* The recursive definition of Filling has the function it describes.      *)
LEMMA FillingStep ==
    ASSUME NEW c, NEW l, NEW a
    PROVE  Filling(c, l, a) =
             [n \in Positions |->
                 IF n = 0 THEN a
                 ELSE Place(c, l, Filling(c, l, a)[n - 1], n - 1)]
<1> DEFINE Upto(k, g) ==
             g = [n \in 0 .. k |->
                     IF n = 0 THEN a ELSE Place(c, l, g[n - 1], n - 1)]
           Stuck == {k \in Nat : ~\E g : Upto(k, g)}
<1>1. Stuck = {}
  <2> SUFFICES ASSUME Stuck # {} PROVE FALSE
    OBVIOUS
  <2>1. PICK k \in Stuck : \A n \in Stuck : k <= n
    BY LeastNumber
  <2>2. k # 0
    <3>1. Upto(0, [n \in 0 .. 0 |-> a])
      OBVIOUS
    <3> QED
      BY <3>1
  <2>3. k - 1 \in Nat /\ k - 1 \notin Stuck
    <3>1. k \in Nat
      OBVIOUS
    <3>2. k - 1 \in Nat /\ ~(k <= k - 1)
      BY <3>1, <2>2
    <3> HIDE DEF Stuck
    <3> QED
      BY <3>2, <2>1
  <2>4. PICK g : Upto(k - 1, g)
    BY <2>3
  <2> DEFINE h == [n \in 0 .. k |-> IF n = k THEN Place(c, l, g[k - 1], k - 1)
                                           ELSE g[n]]
  <2>5. Upto(k, h)
    <3>1. ASSUME NEW n \in 0 .. k
          PROVE  h[n] = IF n = 0 THEN a ELSE Place(c, l, h[n - 1], n - 1)
      <4>1. CASE n = k
        BY <4>1, <2>2, <2>3
      <4>2. CASE n # k
        <5>1. n \in 0 .. k - 1
          BY <4>2, <2>3
        <5>2. h[n] = g[n]
          BY <4>2
        <5>3. g[n] = IF n = 0 THEN a ELSE Place(c, l, g[n - 1], n - 1)
          BY <5>1, <2>4
        <5>4. n # 0 => h[n - 1] = g[n - 1]
          BY <5>1, <2>3
        <5> QED
          BY <5>2, <5>3, <5>4
      <4> QED
        BY <4>1, <4>2
    <3>2. h = [n \in 0 .. k |-> h[n]]
      OBVIOUS
    <3> HIDE DEF h
    <3> QED
      BY <3>1, <3>2
  <2> QED
    BY <2>1, <2>5
<1>2. LastPosition \in Nat
  BY PositionsAreNumbers
<1>3. PICK last : Upto(LastPosition, last)
  BY <1>1, <1>2
<1>4. \E g : g = [n \in Positions |->
                    IF n = 0 THEN a ELSE Place(c, l, g[n - 1], n - 1)]
  BY <1>3 DEF Positions
<1> QED
  BY <1>4 DEF Filling

(***************************************************************************)
(* Induction over the greedy pass: G[n] is what holds of the assignment    *)
(* when the positions below n have been offered.                           *)
(***************************************************************************)
LEMMA FillPositionInduction ==
    ASSUME NEW c, NEW l, NEW G, NEW a \in G[0],
           \A n \in Nat : \A b \in G[n] : Place(c, l, b, n) \in G[n + 1]
    PROVE  Fill(c, l, a) \in G[LastPosition]
<1> DEFINE F == Filling(c, l, a)
           Outside == {n \in Positions : F[n] \notin G[n]}
<1>1. LastPosition \in Nat /\ Positions = 0 .. LastPosition
  BY PositionsAreNumbers DEF Positions
<1>2. ASSUME NEW n \in Positions
      PROVE  F[n] = IF n = 0 THEN a ELSE Place(c, l, F[n - 1], n - 1)
  BY FillingStep
<1> HIDE DEF F
<1>3. Outside = {}
  <2> SUFFICES ASSUME Outside # {} PROVE FALSE
    OBVIOUS
  <2>1. Outside \in SUBSET Nat
    BY <1>1
  <2>2. PICK k \in Outside : \A n \in Outside : k <= n
    BY <2>1, LeastNumber
  <2>3. k \in Positions /\ k \in Nat
    BY <1>1
  <2>4. k # 0
    BY <1>2, <2>3
  <2>5. k - 1 \in Positions /\ k - 1 \in Nat /\ (k - 1) + 1 = k
    BY <2>3, <2>4, <1>1
  <2>6. F[k - 1] \in G[k - 1]
    BY <2>2, <2>5, <2>3
  <2>7. Place(c, l, F[k - 1], k - 1) \in G[(k - 1) + 1]
    BY <2>5, <2>6
  <2>8. F[k] \in G[k]
    BY <1>2, <2>3, <2>4, <2>5, <2>7
  <2> QED
    BY <2>8
<1> QED
  BY <1>1, <1>3 DEF Fill, F

(* A set of assignments that placing one more card never leaves.           *)
LEMMA FillInduction ==
    ASSUME NEW c, NEW l, NEW G, NEW a \in G,
           \A b \in G : \A n \in Nat : Place(c, l, b, n) \in G
    PROVE  Fill(c, l, a) \in G
<1> DEFINE H == [n \in Nat |-> G]
<1>1. \A n \in Nat : \A b \in H[n] : Place(c, l, b, n) \in H[n + 1]
  OBVIOUS
<1>2. a \in H[0]
  OBVIOUS
<1>3. H[LastPosition] = G
  BY PositionsAreNumbers
<1> HIDE DEF H
<1> QED
  BY <1>1, <1>2, <1>3, FillPositionInduction

-----------------------------------------------------------------------------
(* What the scheduler promises of an assignment a for the cards c and the  *)
(* layout l.                                                               *)
Exclusive(a) ==
    \A i, j \in TaskIds : a[i] = a[j] /\ a[i] # Nowhere => i = j

Existing(c, l, a) ==
    \A i \in TaskIds : a[i] # Nowhere => Live(c, i) /\ a[i] \in Available(l)

OnPosition(c, l, a, i) ==
    /\ l.owners[a[i][2]] = Unowned
    /\ Agent(c, i) = Codex
    /\ a[i] = SourceSlot(c, l, i)

Owned(c, l, a) ==
    \A i \in TaskIds : a[i] # Nowhere =>
        Admits(l, a[i], Agent(c, i)) \/ OnPosition(c, l, a, i)

Sound(c, l, a) ==
    a \in Assignments /\ Exclusive(a) /\ Existing(c, l, a) /\ Owned(c, l, a)

LEMMA NowhereIsNoSlot ==
    Nowhere \notin Slots
BY SizesAssumption DEF Nowhere, Slots, Devices, Indexes, None

LEMMA AvailableSlots ==
    ASSUME NEW l PROVE Available(l) \subseteq Slots
BY DEF Available

(* The first pass only takes cards away, and leaves none that is not       *)
(* allowed where it is.                                                    *)
LEMMA RetainSound ==
    ASSUME NEW c, NEW l, NEW a \in Assignments, Exclusive(a)
    PROVE  Sound(c, l, Retain(c, l, a))
<1> DEFINE r == Retain(c, l, a)
<1>1. \A i \in TaskIds : r[i] # Nowhere =>
         /\ r[i] = a[i]
         /\ a[i] \in Available(l)
         /\ Live(c, i)
         /\ Admits(l, a[i], Agent(c, i))
  BY DEF Retain, Eligible, Leased, Live
<1>2. r \in Assignments
  BY DEF Retain, Assignments
<1> HIDE DEF r
<1>3. Exclusive(r)
  BY <1>1 DEF Exclusive
<1> QED
  BY <1>1, <1>2, <1>3 DEF Sound, Existing, Owned, r

(* The sticky pass gives each wanted slot to one of the cards that want it. *)
LEMMA ReturnSound ==
    ASSUME NEW c, NEW l, NEW m, NEW a, Sound(c, l, a),
           NEW w \in Winners(c, l, m, a)
    PROVE  Sound(c, l, Return(l, m, a, w))
<1> DEFINE r == Return(l, m, a, w)
<1>1. w \subseteq Returning(c, l, m, a)
  BY DEF Winners
<1>2. \A i \in w : /\ i \in TaskIds
                   /\ r[i] = Home(l, m, i)
                   /\ r[i] \in Available(l)
                   /\ r[i] \notin Held(a)
                   /\ Live(c, i)
                   /\ Admits(l, r[i], Agent(c, i))
  BY <1>1 DEF Return, Returning, Eligible, Live
<1>3. \A i \in TaskIds \ w : r[i] = a[i] /\ a[i] \in Held(a)
  BY DEF Return, Held
<1>4. ASSUME NEW i \in w, NEW j \in w, r[i] = r[j] PROVE i = j
  <2>1. PICK k \in w : w \cap Rivals(c, l, m, a, i) = {k}
    BY <1>1 DEF Winners
  <2>2. i \in Rivals(c, l, m, a, i) /\ j \in Rivals(c, l, m, a, i)
    BY <1>1, <1>2, <1>4 DEF Rivals
  <2> QED
    BY <2>1, <2>2
<1>5. r \in Assignments
  <2>1. \A i \in TaskIds : r[i] \in Slots \cup {Nowhere}
    BY <1>2, <1>3, AvailableSlots DEF Sound, Assignments
  <2>2. r = [i \in TaskIds |-> r[i]]
    BY DEF Return
  <2> QED
    BY <2>1, <2>2 DEF Assignments
<1>8. ASSUME NEW i \in TaskIds \ w, OnPosition(c, l, a, i)
      PROVE  OnPosition(c, l, r, i)
  BY <1>3, <1>8 DEF OnPosition
<1> HIDE DEF r
<1>6. Exclusive(r)
  BY <1>2, <1>3, <1>4 DEF Sound, Exclusive
<1>7. Existing(c, l, r) /\ Owned(c, l, r)
  BY <1>2, <1>3, <1>8 DEF Sound, Existing, Owned
<1> QED
  BY <1>5, <1>6, <1>7 DEF Sound, r

(* Pinning puts out whatever stood on a pinned position; of two cards for  *)
(* one position the later id keeps it.                                     *)
LEMMA PinSound ==
    ASSUME NEW c, NEW l, NEW a, Sound(c, l, a)
    PROVE  Sound(c, l, Pin(c, l, a))
<1> DEFINE p == Pin(c, l, a)
           P == Pinned(c, l, a)
           S(i) == SourceSlot(c, l, i)
<1>1. \A i \in P : /\ i \in TaskIds
                   /\ S(i) \in Available(l)
                   /\ Live(c, i)
                   /\ Agent(c, i) = Codex
                   /\ l.owners[S(i)[2]] \in {Codex, Unowned, Unlisted}
  BY DEF Pinned, SourceSlot
<1>2. ASSUME NEW i \in TaskIds, p[i] # Nowhere
      PROVE  IF i \in P THEN /\ p[i] = S(i)
                            /\ \A j \in P \ {i} : S(j) = S(i) => ~(j > i)
             ELSE /\ p[i] = a[i]
                  /\ \A j \in P \ {i} : S(j) # a[i]
  BY <1>2 DEF Pin, PutOut
<1>3. p \in Assignments
  <2>1. \A i \in TaskIds : p[i] \in {Nowhere, a[i]} \/ (i \in P /\ p[i] = S(i))
    BY DEF Pin
  <2>2. \A i \in TaskIds : p[i] \in Slots \cup {Nowhere}
    BY <1>1, <2>1, AvailableSlots DEF Sound, Assignments
  <2>3. p = [i \in TaskIds |-> p[i]]
    BY DEF Pin
  <2> QED
    BY <2>2, <2>3 DEF Assignments
<1>9. ASSUME NEW i \in TaskIds, p[i] = a[i], OnPosition(c, l, a, i)
      PROVE  OnPosition(c, l, p, i)
  BY <1>9 DEF OnPosition
<1>10. ASSUME NEW i \in P, p[i] = S(i)
       PROVE  Admits(l, p[i], Agent(c, i)) \/ OnPosition(c, l, p, i)
  BY <1>1, <1>10 DEF OnPosition, Admits
<1> HIDE DEF p, P, S
<1>4. Exclusive(p)
  <2> SUFFICES ASSUME NEW i \in TaskIds, NEW j \in TaskIds,
                      p[i] = p[j], p[i] # Nowhere
               PROVE  i = j
    BY DEF Exclusive
  <2>1. CASE i \in P /\ j \in P
    BY <2>1, <1>2, IdsAssumption
  <2>2. CASE i \notin P /\ j \notin P
    BY <2>2, <1>2 DEF Sound, Exclusive
  <2>3. CASE i \in P /\ j \notin P
    BY <2>3, <1>2
  <2>4. CASE i \notin P /\ j \in P
    BY <2>4, <1>2
  <2> QED
    BY <2>1, <2>2, <2>3, <2>4
<1>5. Existing(c, l, p)
  BY <1>1, <1>2 DEF Sound, Existing
<1>6. Owned(c, l, p)
  BY <1>2, <1>9, <1>10 DEF Sound, Owned
<1> QED
  BY <1>3, <1>4, <1>5, <1>6 DEF Sound, p

(* One step of the greedy pass: nothing, or a queued card on a free slot.  *)
LEMMA PlaceCases ==
    ASSUME NEW c, NEW l, NEW a, NEW n
    PROVE  \/ Place(c, l, a, n) = a
           \/ \E i \in Queue(c, a), s \in Available(l) \ Held(a) :
                 /\ Admits(l, s, Agent(c, i))
                 /\ Place(c, l, a, n) = [a EXCEPT ![i] = s]
<1> DEFINE free == {s \in Available(l) \ Held(a) : Position(l, s) = n}
           slot == CHOOSE s \in free : TRUE
           best == Best(c, l, a, slot)
           next == CHOOSE i \in best : TRUE
<1>1. CASE free = {} \/ best = {}
  BY <1>1 DEF Place
<1>2. CASE free # {} /\ best # {}
  <2>1. slot \in free /\ next \in best
    BY <1>2
  <2>2. Place(c, l, a, n) = [a EXCEPT ![next] = slot]
    BY <1>2 DEF Place
  <2>3. next \in Queue(c, a) /\ Admits(l, slot, Agent(c, next))
    BY <2>1 DEF Best, Heads
  <2>4. slot \in Available(l) \ Held(a)
    BY <2>1
  <2> QED
    BY <2>2, <2>3, <2>4
<1> QED
  BY <1>1, <1>2

LEMMA PlaceSound ==
    ASSUME NEW c, NEW l, NEW a, Sound(c, l, a), NEW n
    PROVE  Sound(c, l, Place(c, l, a, n))
<1> SUFFICES ASSUME NEW i \in Queue(c, a), NEW s \in Available(l) \ Held(a),
                    Admits(l, s, Agent(c, i))
             PROVE  Sound(c, l, [a EXCEPT ![i] = s])
  BY PlaceCases
<1> DEFINE b == [a EXCEPT ![i] = s]
<1>1. i \in TaskIds /\ a[i] = Nowhere /\ Live(c, i)
  BY DEF Queue, Eligible, Live
<1>2. b \in Assignments /\ b[i] = s
  BY <1>1, AvailableSlots DEF Sound, Assignments
<1>3. \A j \in TaskIds \ {i} : b[j] = a[j] /\ a[j] # s
  BY <1>1 DEF Sound, Assignments, Held
<1>4. ASSUME NEW j \in TaskIds \ {i}, OnPosition(c, l, a, j)
      PROVE  OnPosition(c, l, b, j)
  BY <1>3, <1>4 DEF OnPosition
<1> HIDE DEF b
<1>5. Exclusive(b)
  BY <1>2, <1>3 DEF Sound, Exclusive
<1>6. Existing(c, l, b) /\ Owned(c, l, b)
  BY <1>1, <1>2, <1>3, <1>4 DEF Sound, Existing, Owned
<1> QED
  BY <1>2, <1>5, <1>6 DEF Sound, b

LEMMA FillSound ==
    ASSUME NEW c, NEW l, NEW a, Sound(c, l, a)
    PROVE  Sound(c, l, Fill(c, l, a))
<1> DEFINE G == {b \in Assignments : Sound(c, l, b)}
<1>1. a \in G
  BY DEF Sound
<1>2. ASSUME NEW b \in G, NEW n \in Nat
      PROVE  Place(c, l, b, n) \in G
  <2>1. Sound(c, l, Place(c, l, b, n))
    BY PlaceSound
  <2> QED
    BY <2>1 DEF Sound
<1>3. Fill(c, l, a) \in G
  <2> HIDE DEF G
  <2> QED
    BY <1>1, <1>2, FillInduction
<1> QED
  BY <1>3

(***************************************************************************)
(* Whatever the cards, the layout and the order of the sticky pass, one    *)
(* run of the scheduler ends with a sound assignment: no two cards on one  *)
(* slot, only existing cards on connected slots, owners respected.         *)
(***************************************************************************)
THEOREM ReallocationsSound ==
    ASSUME NEW c, NEW l, NEW m, NEW a \in Assignments, Exclusive(a),
           NEW b \in Reallocations(c, l, m, a)
    PROVE  Sound(c, l, b)
<1>1. Sound(c, l, Retain(c, l, a))
  BY RetainSound
<1>2. PICK w \in Winners(c, l, m, Retain(c, l, a)) :
         b = Fill(c, l, Pin(c, l, Return(l, m, Retain(c, l, a), w)))
  BY DEF Reallocations
<1>3. Sound(c, l, Return(l, m, Retain(c, l, a), w))
  BY <1>1, ReturnSound
<1>4. Sound(c, l, Pin(c, l, Return(l, m, Retain(c, l, a), w)))
  BY <1>3, PinSound
<1> QED
  BY <1>2, <1>4, FillSound

-----------------------------------------------------------------------------
(* Cards do not shuffle.  The greedy pass only ever adds cards.            *)
LEMMA FillKeeps ==
    ASSUME NEW c, NEW l, NEW a \in Assignments
    PROVE  \A i \in TaskIds : a[i] # Nowhere => Fill(c, l, a)[i] = a[i]
<1> DEFINE G == {b \in Assignments :
                   \A i \in TaskIds : a[i] # Nowhere => b[i] = a[i]}
<1>1. ASSUME NEW b \in G, NEW n \in Nat
      PROVE  Place(c, l, b, n) \in G
  <2> SUFFICES ASSUME NEW i \in Queue(c, b), NEW s \in Available(l) \ Held(b)
               PROVE  [b EXCEPT ![i] = s] \in G
    BY PlaceCases
  <2>1. i \in TaskIds /\ b[i] = Nowhere /\ s \in Slots
    BY AvailableSlots DEF Queue
  <2> QED
    BY <2>1 DEF Assignments
<1>2. Fill(c, l, a) \in G
  <2>1. a \in G
    OBVIOUS
  <2> HIDE DEF G
  <2> QED
    BY <1>1, <2>1, FillInduction
<1> QED
  BY <1>2

(* The card with the latest id among those pinned to a position gets it.   *)
LEMMA PinnedSlotTaken ==
    ASSUME NEW c, NEW l, NEW a, NEW j \in Pinned(c, l, a)
    PROVE  \E k \in Pinned(c, l, a) :
              /\ SourceSlot(c, l, k) = SourceSlot(c, l, j)
              /\ Pin(c, l, a)[k] = SourceSlot(c, l, j)
<1> DEFINE R == {k \in Pinned(c, l, a) : SourceSlot(c, l, k) = SourceSlot(c, l, j)}
<1>1. R \subseteq TaskIds /\ j \in R
  BY DEF Pinned
<1>2. IsFiniteSet(R) /\ R \in SUBSET Nat
  BY <1>1, FS_Subset, IdsAssumption
<1>3. PICK k \in R : \A n \in R : n <= k
  <2> HIDE DEF R
  <2> QED
    BY <1>1, <1>2, GreatestNumber
<1>4. \A n \in R : ~(n > k)
  BY <1>2, <1>3
<1>5. ~PutOut(c, l, a, k)
  BY <1>4 DEF PutOut
<1> QED
  BY <1>1, <1>5 DEF Pin

(***************************************************************************)
(* A card that may stay where it is does, unless a codex-hid card takes    *)
(* its own position back.                                                  *)
(***************************************************************************)
THEOREM ReallocationsKeep ==
    ASSUME NEW c, NEW l, NEW m, NEW a \in Assignments, Exclusive(a),
           NEW b \in Reallocations(c, l, m, a),
           NEW i \in TaskIds \ HidIds,
           a[i] \in Available(l),
           Eligible(c, i) \/ Leased(c, i),
           Admits(l, a[i], Agent(c, i))
    PROVE  b[i] = a[i] \/ \E j \in HidIds : b[j] = a[i]
<1> DEFINE r == Retain(c, l, a)
<1>1. PICK w \in Winners(c, l, m, r) :
         b = Fill(c, l, Pin(c, l, Return(l, m, r, w)))
  BY DEF Reallocations
<1> DEFINE t == Return(l, m, r, w)
           p == Pin(c, l, t)
<1>2. a[i] # Nowhere
  BY NowhereIsNoSlot, AvailableSlots
<1>3. r[i] = a[i]
  BY DEF Retain
<1>4. t[i] = a[i]
  BY <1>2, <1>3 DEF Return, Winners, Returning
<1>5. p \in Assignments
  BY RetainSound, ReturnSound, PinSound DEF Sound
<1> HIDE DEF r, t
<1>6. i \notin Pinned(c, l, t)
  BY <1>2, <1>4 DEF Pinned
<1>7. CASE PutOut(c, l, t, i)
  <2>1. PICK j \in Pinned(c, l, t) : SourceSlot(c, l, j) = a[i]
    BY <1>4, <1>6, <1>7 DEF PutOut
  <2>2. PICK k \in Pinned(c, l, t) : SourceSlot(c, l, k) = a[i] /\ p[k] = a[i]
    BY <2>1, PinnedSlotTaken
  <2>3. a[i] \in Held(t)
    BY <1>4 DEF Held
  <2>4. k \in HidIds /\ k \in TaskIds
    BY <2>2, <2>3 DEF Pinned
  <2> HIDE DEF p
  <2>5. b[k] = a[i]
    BY <1>1, <1>2, <1>5, <2>2, <2>4, FillKeeps DEF t, p, r
  <2> QED
    BY <2>4, <2>5
<1>8. CASE ~PutOut(c, l, t, i)
  <2>1. p[i] = a[i]
    BY <1>4, <1>6, <1>8 DEF Pin
  <2> HIDE DEF p
  <2>2. b[i] = a[i]
    BY <1>1, <1>2, <1>5, <2>1, FillKeeps DEF t, p, r
  <2> QED
    BY <2>2
<1> QED
  BY <1>7, <1>8

-----------------------------------------------------------------------------
(* The scheduler is work conserving.                                       *)

Conserving(c, l, a) ==
    \A i \in Queue(c, a) :
        ~\E s \in Available(l) \ Held(a) : Admits(l, s, Agent(c, i))

LEMMA QuotientUnique ==
    ASSUME NEW M \in Nat \ {0}, NEW k \in 0 .. M - 1, NEW j \in 0 .. M - 1,
           NEW q \in Nat, NEW r \in Nat, k + M * q = j + M * r
    PROVE  k = j /\ q = r
<1>1. ASSUME NEW x \in 0 .. M - 1, NEW y \in 0 .. M - 1,
             NEW u \in Nat, NEW v \in Nat, u < v
      PROVE  x + M * u # y + M * v
  <2>1. PICK e \in Nat : v = u + 1 + e
    <3>1. v - u - 1 \in Nat /\ v = u + 1 + (v - u - 1)
      BY <1>1
    <3> QED
      BY <3>1
  <2>2. M * v = M * u + M + M * e
    BY <2>1
  <2>3. M * e \in Nat /\ M * u \in Nat
    OBVIOUS
  <2> QED
    BY <2>2, <2>3
<1>2. ~(q < r) /\ ~(r < q)
  BY <1>1
<1>3. q = r
  BY <1>2
<1>4. M * q \in Nat /\ M * q = M * r
  BY <1>3
<1> QED
  BY <1>3, <1>4

LEMMA PositionUnique ==
    ASSUME NEW l, NEW s \in Slots, NEW t \in Slots, Position(l, s) = Position(l, t)
    PROVE  s = t
<1> DEFINE Q(x) == IF x[1] = l.primary THEN 0 ELSE x[1] + 1
<1>1. MaxSlots \in Nat \ {0} /\ NumDevices \in Nat \ {0}
  BY SizesAssumption
<1>2. \A x \in Slots : x[1] \in Nat /\ x[2] \in 0 .. MaxSlots - 1 /\ Q(x) \in Nat
                       /\ x = <<x[1], x[2]>>
  BY <1>1 DEF Slots, Devices, Indexes
<1>3. s[2] + MaxSlots * Q(s) = t[2] + MaxSlots * Q(t)
  BY DEF Position
<1>4. s[2] = t[2] /\ Q(s) = Q(t)
  <2> HIDE DEF Q
  <2> QED
    BY <1>1, <1>2, <1>3, QuotientUnique
<1>5. s[1] = t[1]
  BY <1>2, <1>4
<1> QED
  BY <1>2, <1>4, <1>5

LEMMA PositionBound ==
    ASSUME NEW l, NEW s \in Slots
    PROVE  Position(l, s) \in Nat /\ Position(l, s) < LastPosition
<1> DEFINE q == IF s[1] = l.primary THEN 0 ELSE s[1] + 1
<1>1. MaxSlots \in Nat \ {0} /\ NumDevices \in Nat \ {0}
  BY SizesAssumption
<1>2. s[1] \in 0 .. NumDevices - 1 /\ s[2] \in 0 .. MaxSlots - 1
  BY <1>1 DEF Slots, Devices, Indexes
<1>3. q \in Nat /\ NumDevices - q \in Nat
  BY <1>1, <1>2
<1>4. Position(l, s) = s[2] + MaxSlots * q
  BY DEF Position
<1> HIDE DEF q
<1>5. PICK e \in Nat : NumDevices = q + e
  <2>1. NumDevices = q + (NumDevices - q)
    BY <1>1, <1>3
  <2> QED
    BY <1>3, <2>1
<1>6. LastPosition = MaxSlots * q + MaxSlots * e + MaxSlots
  BY <1>1, <1>3, <1>5 DEF LastPosition
<1>7. MaxSlots * q \in Nat /\ MaxSlots * e \in Nat
  BY <1>1, <1>3
<1> QED
  BY <1>1, <1>2, <1>4, <1>6, <1>7

(* The order of the tasks is a strict order on finitely many cards, so a   *)
(* set of cards has a first one.                                           *)
LEMMA FirstCard ==
    ASSUME NEW c \in Boards, NEW Q \in SUBSET TaskIds, Q # {},
           \A i \in Q : Live(c, i)
    PROVE  \E h \in Q : \A j \in Q \ {h} : Precedes(c, h, j)
<1>1. \A i \in Q : c[i] \in Cards /\ Rank(c[i].state) \in Nat /\ c[i].prio \in Nat
  <2>1. \A i \in Q : c[i] \in Cards
    BY DEF Boards, Live, NoCard
  <2>2. \A i \in Q : Rank(c[i].state) \in Nat
    BY DEF Rank
  <2> QED
    BY <2>1, <2>2, IdsAssumption DEF Cards
<1> DEFINE ranks == {Rank(c[i].state) : i \in Q}
<1>2. PICK r \in ranks : \A n \in ranks : r <= n
  <2>1. ranks \in SUBSET Nat /\ ranks # {}
    BY <1>1
  <2> HIDE DEF ranks
  <2> QED
    BY <2>1, LeastNumber
<1> DEFINE urgent == {i \in Q : Rank(c[i].state) = r}
           prios == {c[i].prio : i \in urgent}
<1>3. urgent # {}
  BY <1>2
<1>4. PICK p \in prios : \A n \in prios : n <= p
  <2>1. prios \in SUBSET Nat /\ prios # {}
    BY <1>1, <1>3
  <2>2. IsFiniteSet(prios)
    <3>1. IsFiniteSet(urgent)
      BY IdsAssumption, FS_Subset
    <3>2. [i \in urgent |-> c[i].prio] \in Surjection(urgent, prios)
      BY DEF Surjection
    <3> HIDE DEF urgent, prios
    <3> QED
      BY <3>1, <3>2, FS_Surjection
  <2> HIDE DEF prios
  <2> QED
    BY <2>1, <2>2, GreatestNumber
<1> DEFINE first == {i \in urgent : c[i].prio = p}
<1>5. PICK h \in first : \A i \in first : h <= i
  <2>1. first \in SUBSET Nat /\ first # {}
    BY <1>4, IdsAssumption
  <2> HIDE DEF first
  <2> QED
    BY <2>1, LeastNumber
<1>6. ASSUME NEW j \in Q \ {h} PROVE Precedes(c, h, j)
  <2>1. h \in Nat /\ j \in Nat
    BY IdsAssumption
  <2>2. CASE j \in first
    BY <1>5, <2>1, <2>2 DEF Precedes
  <2>3. CASE j \in urgent \ first
    <3>1. c[j].prio <= p /\ c[j].prio # p /\ c[h].prio = p
      BY <1>4, <2>3
    <3>2. c[h].prio > c[j].prio
      BY <1>1, <3>1
    <3>3. Rank(c[h].state) = Rank(c[j].state)
      BY <2>3
    <3> QED
      BY <3>2, <3>3 DEF Precedes
  <2>4. CASE j \notin urgent
    <3>1. r <= Rank(c[j].state) /\ Rank(c[j].state) # r /\ Rank(c[h].state) = r
      BY <1>2, <2>4
    <3> QED
      BY <1>1, <3>1 DEF Precedes
  <2> QED
    BY <2>2, <2>3, <2>4
<1> QED
  BY <1>5, <1>6

(* A session with a card in the queue has a head, of the same agent.       *)
LEMMA HeadOfSession ==
    ASSUME NEW c \in Boards, NEW a, NEW i \in Queue(c, a)
    PROVE  \E h \in Heads(c, a) : Agent(c, h) = Agent(c, i)
<1> DEFINE Q == {j \in Queue(c, a) : c[j].session = c[i].session}
<1>1. Q \in SUBSET TaskIds /\ Q # {} /\ \A j \in Q : Live(c, j)
  BY DEF Queue, Eligible, Live
<1>2. PICK h \in Q : \A j \in Q \ {h} : Precedes(c, h, j)
  <2> HIDE DEF Q
  <2> QED
    BY <1>1, FirstCard
<1>3. h \in Heads(c, a)
  BY <1>2 DEF Heads
<1> QED
  BY <1>3 DEF Agent

LEMMA ShownNumbers ==
    ASSUME NEW c, NEW a, NEW g
    PROVE  ShownFor(c, a, g) \in Nat /\ ShownIn(c, a, g) \in Nat
<1>1. /\ IsFiniteSet({i \in TaskIds : a[i] # Nowhere /\ Agent(c, i) = g})
      /\ IsFiniteSet({i \in TaskIds : a[i] # Nowhere /\ c[i].session = g})
  BY IdsAssumption, FS_Subset
<1> QED
  BY <1>1, FS_CardinalityType DEF ShownFor, ShownIn

(* A slot that some waiting card may take finds a card.                    *)
LEMMA BestExists ==
    ASSUME NEW c \in Boards, NEW l, NEW a, NEW s, NEW i \in Queue(c, a),
           Admits(l, s, Agent(c, i))
    PROVE  Best(c, l, a, s) # {}
<1> DEFINE fits == {h \in Heads(c, a) : Admits(l, s, Agent(c, h))}
           G(h) == ShownFor(c, a, Agent(c, h))
           S(h) == ShownIn(c, a, c[h].session)
           gs == {G(h) : h \in fits}
<1>1. fits # {}
  BY HeadOfSession
<1>2. \A h \in fits : h \in TaskIds /\ Live(c, h) /\ G(h) \in Nat /\ S(h) \in Nat
  BY ShownNumbers DEF Heads, Queue, Eligible, Live
<1> HIDE DEF fits, G, S
<1>3. PICK g \in gs : \A n \in gs : g <= n
  <2>1. gs \in SUBSET Nat /\ gs # {}
    BY <1>1, <1>2
  <2> HIDE DEF gs
  <2> QED
    BY <2>1, LeastNumber
<1> DEFINE fewest == {h \in fits : G(h) = g}
           ss == {S(h) : h \in fewest}
<1>4. PICK n \in ss : \A k \in ss : n <= k
  <2>1. ss \in SUBSET Nat /\ ss # {}
    BY <1>2, <1>3
  <2> HIDE DEF ss
  <2> QED
    BY <2>1, LeastNumber
<1> DEFINE least == {h \in fewest : S(h) = n}
<1>5. PICK b \in least : \A j \in least \ {b} : Precedes(c, b, j)
  <2>1. least \in SUBSET TaskIds /\ least # {} /\ \A h \in least : Live(c, h)
    BY <1>2, <1>4
  <2> HIDE DEF least
  <2> QED
    BY <2>1, FirstCard
<1>6. ASSUME NEW j \in fits \ {b} PROVE ServedBefore(c, a, b, j)
  <2>1. \/ G(b) < G(j)
        \/ G(b) = G(j) /\ S(b) < S(j)
        \/ G(b) = G(j) /\ S(b) = S(j) /\ Precedes(c, b, j)
    <3>1. CASE j \in least
      BY <1>5, <3>1
    <3>2. CASE j \in fewest \ least
      BY <1>2, <1>4, <3>2
    <3>3. CASE j \notin fewest
      BY <1>2, <1>3, <3>3
    <3> QED
      BY <3>1, <3>2, <3>3
  <2> QED
    BY <2>1 DEF ServedBefore, G, S
<1>7. b \in Best(c, l, a, s)
  BY <1>6 DEF Best, fits
<1> QED
  BY <1>7

(* No slot before position n is left free for a card that waits.           *)
ConservingUpto(c, l, a, n) ==
    \A i \in Queue(c, a), s \in Available(l) \ Held(a) :
        Position(l, s) < n => ~Admits(l, s, Agent(c, i))

LEMMA PlaceConserves ==
    ASSUME NEW c \in Boards, NEW l, NEW a \in Assignments, NEW n \in Nat,
           ConservingUpto(c, l, a, n)
    PROVE  ConservingUpto(c, l, Place(c, l, a, n), n + 1)
<1> DEFINE free == {s \in Available(l) \ Held(a) : Position(l, s) = n}
           slot == CHOOSE s \in free : TRUE
           best == Best(c, l, a, slot)
           next == CHOOSE i \in best : TRUE
           b == Place(c, l, a, n)
<1>1. ASSUME NEW s \in free PROVE s = slot
  <2>1. slot \in free
    BY <1>1
  <2> QED
    BY <1>1, <2>1, PositionUnique, AvailableSlots
<1>2. \A s \in Available(l) : Position(l, s) \in Nat
  BY PositionBound, AvailableSlots
<1>3. CASE free # {} /\ best # {}
  <2>1. b = [a EXCEPT ![next] = slot]
    BY <1>3 DEF Place
  <2>2. slot \in free /\ next \in best
    BY <1>3
  <2> HIDE DEF b, best, free, slot, next
  <2>3. next \in TaskIds /\ a[next] = Nowhere
    BY <2>2 DEF best, Best, Heads, Queue
  <2>4. Queue(c, b) \subseteq Queue(c, a)
    <3>1. slot # Nowhere
      BY <2>2, NowhereIsNoSlot, AvailableSlots DEF free
    <3> QED
      BY <2>1, <2>3, <3>1 DEF Queue, Assignments
  <2>5. Available(l) \ Held(b) \subseteq (Available(l) \ Held(a)) \ {slot}
    <3>1. \A s \in Available(l) : s # Nowhere
      BY NowhereIsNoSlot, AvailableSlots
    <3>2. \A j \in TaskIds : a[j] # Nowhere => b[j] = a[j]
      BY <2>1, <2>3 DEF Assignments
    <3>3. b[next] = slot
      BY <2>1, <2>3 DEF Assignments
    <3> QED
      BY <2>3, <3>1, <3>2, <3>3 DEF Held
  <2>6. ASSUME NEW i \in Queue(c, b), NEW s \in Available(l) \ Held(b),
               Position(l, s) < n + 1
        PROVE  ~Admits(l, s, Agent(c, i))
    <3>1. s \notin free
      BY <1>1, <2>5
    <3>2. Position(l, s) < n
      BY <1>2, <2>5, <2>6, <3>1 DEF free
    <3> QED
      BY <2>4, <2>5, <3>2 DEF ConservingUpto
  <2> QED
    BY <2>6 DEF ConservingUpto, b
<1>4. CASE free = {} \/ best = {}
  <2>1. b = a
    BY <1>4 DEF Place
  <2>2. ASSUME NEW i \in Queue(c, a), NEW s \in Available(l) \ Held(a),
               Position(l, s) < n + 1
        PROVE  ~Admits(l, s, Agent(c, i))
    <3>1. CASE s \in free
      BY <1>1, <1>4, <3>1, BestExists
    <3>2. CASE s \notin free
      <4>1. Position(l, s) < n
        BY <1>2, <2>2, <3>2
      <4> QED
        BY <4>1 DEF ConservingUpto
    <3> QED
      BY <3>1, <3>2
  <2> QED
    BY <2>1, <2>2 DEF ConservingUpto
<1> QED
  BY <1>3, <1>4

LEMMA FillConserves ==
    ASSUME NEW c \in Boards, NEW l, NEW a, Sound(c, l, a)
    PROVE  Conserving(c, l, Fill(c, l, a))
<1> DEFINE G == [n \in Nat |->
                   {b \in Assignments : Sound(c, l, b) /\ ConservingUpto(c, l, b, n)}]
<1>1. a \in G[0]
  <2>1. \A s \in Available(l) : ~(Position(l, s) < 0)
    BY PositionBound, AvailableSlots
  <2> QED
    BY <2>1 DEF ConservingUpto, Sound
<1>2. ASSUME NEW n \in Nat, NEW b \in G[n]
      PROVE  Place(c, l, b, n) \in G[n + 1]
  <2>1. Sound(c, l, Place(c, l, b, n)) /\ ConservingUpto(c, l, Place(c, l, b, n), n + 1)
    BY PlaceSound, PlaceConserves
  <2> QED
    BY <2>1 DEF Sound
<1>3. Fill(c, l, a) \in G[LastPosition]
  <2> HIDE DEF G
  <2> QED
    BY <1>1, <1>2, FillPositionInduction
<1>4. ConservingUpto(c, l, Fill(c, l, a), LastPosition)
  BY <1>3, PositionsAreNumbers
<1>5. \A s \in Available(l) : Position(l, s) < LastPosition
  BY PositionBound, AvailableSlots
<1> QED
  BY <1>4, <1>5 DEF Conserving, ConservingUpto

(***************************************************************************)
(* After a run of the scheduler no card waits for a slot that is free and  *)
(* admits it, whatever the sessions' and the agents' shares.               *)
(***************************************************************************)
THEOREM ReallocationsConserve ==
    ASSUME NEW c \in Boards, NEW l, NEW m, NEW a \in Assignments, Exclusive(a),
           NEW b \in Reallocations(c, l, m, a)
    PROVE  Conserving(c, l, b)
<1>1. Sound(c, l, Retain(c, l, a))
  BY RetainSound
<1>2. PICK w \in Winners(c, l, m, Retain(c, l, a)) :
         b = Fill(c, l, Pin(c, l, Return(l, m, Retain(c, l, a), w)))
  BY DEF Reallocations
<1>3. Sound(c, l, Pin(c, l, Return(l, m, Retain(c, l, a), w)))
  BY <1>1, ReturnSound, PinSound
<1> QED
  BY <1>2, <1>3, FillConserves

-----------------------------------------------------------------------------
(* The board.                                                              *)

BoardInv ==
    /\ card \in Boards
    /\ layout \in Layouts
    /\ memory \in Memories
    /\ reviewed \subseteq TaskIds
    /\ guard \in -1 .. GuardHold
    /\ Sound(card, layout, at)
    /\ LeaseMatchesState
    /\ ReviewedStaysReviewed

Focuses == [selected : TaskIds \cup {None}, pending : TaskIds \cup {None},
            left : -1 .. PendingHold]

FocusInv == focus \in Focuses /\ PendingIsSelected

Inv == BoardInv /\ FocusInv

(* A publication names known ids and says typed things of them.            *)
Publication(f) ==
    /\ f = [i \in DOMAIN f |-> f[i]]
    /\ DOMAIN f \subseteq TaskIds
    /\ \A i \in DOMAIN f : f[i] \in ItemType

-----------------------------------------------------------------------------
(* Types of the operators the actions are built from.                      *)

LEMMA RememberType ==
    ASSUME NEW c, NEW l, NEW m \in Memories, NEW a \in Assignments
    PROVE  Remember(c, l, m, a) \in Memories
<1> DEFINE pref == [i \in TaskIds |->
                      IF a[i] # Nowhere /\ a[i][1] = l.primary
                      THEN a[i][2] ELSE m.pref[i]]
           full == Cardinality({i \in TaskIds : pref[i] # None}) > PreferenceCap
<1>1. \A i \in TaskIds : a[i] # Nowhere => a[i] \in Slots /\ a[i][2] \in Nat
  BY SizesAssumption DEF Assignments, Slots, Indexes
<1>2. \A i \in TaskIds : m.last[i] \in Slots \cup {Nowhere}
                         /\ m.pref[i] \in Nat \cup {None}
  BY DEF Memories
<1>3. \A i \in TaskIds : pref[i] \in Nat \cup {None}
  BY <1>1, <1>2
<1>4. Remember(c, l, m, a) =
        [last |-> [i \in TaskIds |->
                      IF a[i] # Nowhere THEN a[i]
                      ELSE IF Live(c, i) THEN m.last[i] ELSE Nowhere],
         pref |-> [i \in TaskIds |->
                      IF full /\ ~Live(c, i) THEN None ELSE pref[i]]]
  BY DEF Remember
<1> HIDE DEF pref, full
<1> QED
  BY <1>1, <1>2, <1>3, <1>4 DEF Memories

LEMMA Rescheduled ==
    ASSUME NEW c, NEW l, NEW m \in Memories, NEW a \in Assignments,
           Exclusive(a), NEW b \in Reallocations(c, l, m, a)
    PROVE  Sound(c, l, b) /\ b \in Assignments /\ Remember(c, l, m, b) \in Memories
<1>1. Sound(c, l, b)
  BY ReallocationsSound
<1> QED
  BY <1>1, RememberType DEF Sound

LEMMA WithoutType ==
    ASSUME NEW c \in Boards, NEW gone
    PROVE  Without(c, gone) \in Boards
BY DEF Without, Boards

LEMMA MergeType ==
    ASSUME NEW c \in Boards, NEW s \in Sessions, NEW f, Publication(f)
    PROVE  Merge(c, s, f) \in Boards
<1>1. ASSUME NEW i \in TaskIds
      PROVE  Merge(c, s, f)[i] \in Cards \cup {NoCard}
  <2>1. CASE i \notin DOMAIN f
    BY <2>1 DEF Merge, Boards
  <2>2. CASE i \in DOMAIN f
    <3>1. f[i] \in ItemType
      BY <2>2 DEF Publication
    <3>2. NoLease \in -1 .. Grace
      BY SizesAssumption DEF NoLease
    <3>3. "queued" \in TaskStates
      BY DEF TaskStates
    <3> QED
      BY <2>2, <3>1, <3>2, <3>3 DEF Merge, ItemType, Cards
  <2> QED
    BY <2>1, <2>2
<1> QED
  BY <1>1 DEF Merge, Boards

LEMMA NoFocusType ==
    NoFocus \in Focuses
BY HoldsAssumption DEF NoFocus, Focuses, None

LEMMA VacatedExclusive ==
    ASSUME at \in Assignments, Exclusive(at), NEW gone
    PROVE  Vacated(gone) \in Assignments /\ Exclusive(Vacated(gone))
BY DEF Vacated, Assignments, Exclusive

(* A sound assignment stays sound while no card goes, changes session or   *)
(* changes its source position.                                            *)
LEMMA SoundSame ==
    ASSUME NEW c, NEW d, NEW l, NEW a, Sound(c, l, a),
           \A i \in TaskIds : a[i] # Nowhere /\ Live(c, i) =>
              /\ Live(d, i)
              /\ d[i].session = c[i].session
              /\ d[i].source = c[i].source
    PROVE  Sound(d, l, a)
<1>1. Existing(d, l, a)
  BY DEF Sound, Existing
<1>2. Owned(d, l, a)
  <2> SUFFICES ASSUME NEW i \in TaskIds, a[i] # Nowhere
               PROVE  Admits(l, a[i], Agent(d, i)) \/ OnPosition(d, l, a, i)
    BY DEF Owned
  <2>1. Agent(d, i) = Agent(c, i) /\ SourceSlot(d, l, i) = SourceSlot(c, l, i)
    BY DEF Sound, Existing, Agent, SourceSlot
  <2> QED
    BY <2>1 DEF Sound, Owned, OnPosition
<1> QED
  BY <1>1, <1>2 DEF Sound

-----------------------------------------------------------------------------
(* The selection.                                                          *)

(* The invariant of the selection, of a board c and a focus fo.            *)
FocusOf(c, fo) ==
    /\ fo \in Focuses
    /\ fo.pending # None => fo.pending = fo.selected /\ Live(c, fo.pending)

LEMMA FocusInvIs ==
    (FocusInv <=> FocusOf(card, focus)) /\ (FocusInv' <=> FocusOf(card', focus'))
BY DEF FocusInv, FocusOf, PendingIsSelected

LEMMA RefocusInv ==
    ASSUME NEW c, NEW fo \in Focuses, fo.pending # None => fo.pending = fo.selected
    PROVE  FocusOf(c, Refocus(c, fo))
BY NoFocusType DEF Refocus, FocusOf, NoFocus, Focuses

LEMMA FollowType ==
    ASSUME NEW t \in TaskIds \cup {None}
    PROVE  [selected |-> t, pending |-> None, left |-> None] \in Focuses
BY HoldsAssumption DEF Focuses, None

LEMMA ReconcileInv ==
    ASSUME NEW c, NEW fo, FocusOf(c, fo), NEW auth \in TaskIds \cup {None}
    PROVE  FocusOf(c, Reconcile(c, fo, auth))
<1> DEFINE follow == [selected |-> auth, pending |-> None, left |-> None]
           waits == fo.pending \notin {None, auth} /\ fo.left >= 0
                    /\ Live(c, fo.pending)
           held == [fo EXCEPT !.selected = fo.pending]
<1>1. Reconcile(c, fo, auth) \in {fo, follow} \/ (waits /\ Reconcile(c, fo, auth) = held)
  BY DEF Reconcile
<1>2. FocusOf(c, follow)
  BY FollowType DEF FocusOf
<1>3. waits => FocusOf(c, held)
  BY DEF FocusOf, Focuses
<1> QED
  BY <1>1, <1>2, <1>3

-----------------------------------------------------------------------------
(* The board, operation by operation.                                      *)

LEMMA SoundParts ==
    ASSUME BoardInv
    PROVE  at \in Assignments /\ Exclusive(at)
BY DEF BoardInv, Sound

LEMMA MergeStates ==
    ASSUME BoardInv, NEW s \in Sessions, NEW f, Publication(f), NEW gone,
           card' = Merge(Without(card, gone), s, f),
           reviewed' = StillReviewed(f) \ gone,
           gone \cap DOMAIN f = {}
    PROVE  /\ card' \in Boards
           /\ reviewed' \subseteq TaskIds
           /\ LeaseMatchesState'
           /\ ReviewedStaysReviewed'
<1>1. card' \in Boards
  BY MergeType, WithoutType DEF BoardInv
<1>2. reviewed' \subseteq TaskIds
  BY DEF BoardInv, StillReviewed
<1>3. ASSUME NEW i \in TaskIds
      PROVE  IF i \in DOMAIN f
             THEN /\ card'[i].lease = NoLease
                  /\ card'[i].state \in TaskStates
                  /\ card'[i].state = "completed" =>
                        f[i].state = "completed" /\ i \notin reviewed
             ELSE card'[i] = card[i] \/ (i \in gone /\ card'[i] = NoCard)
  <2>1. CASE i \in DOMAIN f
    <3>1. f[i].state \in TaskStates /\ "queued" \in TaskStates
      BY <2>1 DEF Publication, ItemType, TaskStates
    <3> QED
      BY <2>1, <3>1 DEF Merge
  <2>2. CASE i \notin DOMAIN f
    BY <2>2 DEF Merge, Without
  <2> QED
    BY <2>1, <2>2
<1>4. LeaseMatchesState'
  BY <1>3 DEF LeaseMatchesState, Leased, BoardInv, TaskStates, Live, NoCard
<1>5. ReviewedStaysReviewed'
  <2> SUFFICES ASSUME NEW i \in reviewed'
               PROVE  Live(card', i) /\ card'[i].state # "completed"
    BY DEF ReviewedStaysReviewed
  <2>1. i \in reviewed /\ i \notin gone /\ i \in TaskIds
    BY <1>2 DEF StillReviewed
  <2>2. Live(card, i) /\ card[i].state # "completed"
    BY <2>1 DEF BoardInv, ReviewedStaysReviewed
  <2>3. i \in DOMAIN f => card'[i].state # "absent"
    BY <1>3, <2>1 DEF TaskStates
  <2> QED
    BY <1>3, <2>1, <2>2, <2>3 DEF Live
<1> QED
  BY <1>1, <1>2, <1>4, <1>5

LEMMA ReplaceInv ==
    ASSUME BoardInv, NEW s \in Sessions, NEW f, Publication(f),
           ReplaceSessionTasks(s, f)
    PROVE  BoardInv'
<1> DEFINE gone == Dropped(s, f)
<1>1. /\ card' = Merge(Without(card, gone), s, f)
      /\ reviewed' = StillReviewed(f) \ gone
      /\ layout' = layout /\ guard' = guard
      /\ Reallocate(Vacated(gone))
  BY DEF ReplaceSessionTasks
<1>2. gone \cap DOMAIN f = {}
  BY DEF Dropped
<1> HIDE DEF gone
<1>3. Vacated(gone) \in Assignments /\ Exclusive(Vacated(gone))
  BY SoundParts, VacatedExclusive
<1>4. memory \in Memories
  BY DEF BoardInv
<1>5. Sound(card', layout', at') /\ memory' \in Memories
  BY <1>1, <1>3, <1>4, Rescheduled DEF Reallocate
<1>6. /\ card' \in Boards
      /\ reviewed' \subseteq TaskIds
      /\ LeaseMatchesState'
      /\ ReviewedStaysReviewed'
  BY <1>1, <1>2, MergeStates
<1> QED
  BY <1>1, <1>5, <1>6 DEF BoardInv

LEMMA RemoveInv ==
    ASSUME BoardInv, NEW gone, Remove(gone)
    PROVE  BoardInv'
<1>1. /\ card' = Without(card, gone)
      /\ reviewed' = reviewed \ gone
      /\ layout' = layout /\ guard' = guard
      /\ Reallocate(Vacated(gone))
  BY DEF Remove
<1>2. Sound(card', layout', at') /\ memory' \in Memories
  BY <1>1, SoundParts, VacatedExclusive, Rescheduled DEF Reallocate, BoardInv
<1>3. card' \in Boards
  BY <1>1, WithoutType DEF BoardInv
<1>4. LeaseMatchesState' /\ ReviewedStaysReviewed'
  BY <1>1 DEF BoardInv, LeaseMatchesState, Leased, ReviewedStaysReviewed, Without, Live, NoCard
<1> QED
  BY <1>1, <1>2, <1>3, <1>4 DEF BoardInv

(* Controllers come and go, owners change: the cards stay what they are.   *)
LEMMA LayoutInv ==
    ASSUME BoardInv, NEW a \in Assignments, Exclusive(a),
           layout' \in Layouts, UNCHANGED <<card, reviewed, guard>>,
           at' \in Reallocations(card', layout', memory, a),
           memory' = Remember(card', layout', memory, at')
    PROVE  BoardInv'
<1>1. Sound(card', layout', at') /\ memory' \in Memories
  BY Rescheduled DEF BoardInv
<1> QED
  BY <1>1 DEF BoardInv, LeaseMatchesState, Leased, ReviewedStaysReviewed

-----------------------------------------------------------------------------
(* The invariant.                                                          *)

LEMMA InitInv ==
    Init => Inv
<1> SUFFICES ASSUME Init PROVE Inv
  OBVIOUS
<1>1. \A i \in TaskIds : ~Live(card, i) /\ at[i] = Nowhere
  BY DEF Init, Live, NoCard, Blank
<1>2. card \in Boards
  BY DEF Init, Boards
<1>3. at \in Assignments
  BY DEF Init, Blank, Assignments
<1>4. layout \in Layouts
  BY SizesAssumption DEF Init, Layouts
<1>5. memory \in Memories
  BY InputsAssumption DEF Init, Memories, Blank
<1>6. Sound(card, layout, at)
  BY <1>1, <1>3 DEF Sound, Exclusive, Existing, Owned
<1>7. LeaseMatchesState /\ ReviewedStaysReviewed
  BY <1>1 DEF Init, LeaseMatchesState, Leased, ReviewedStaysReviewed
<1>8. FocusInv
  BY NoFocusType DEF Init, FocusInv, PendingIsSelected, NoFocus
<1>9. guard \in -1 .. GuardHold /\ reviewed \subseteq TaskIds
  BY HoldsAssumption DEF Init
<1> QED
  BY <1>2, <1>4, <1>5, <1>6, <1>7, <1>8, <1>9 DEF Inv, BoardInv

LEMMA PublicationsAre ==
    /\ \A s \in Sessions : \A f \in Publications(s) : Publication(f)
    /\ \A s \in Sessions : \A f \in LegacyFrames(s) : Publication(f)
    /\ \A f \in HidFrames : Publication(f)
BY InputsAssumption, IdsAssumption
   DEF Publications, LegacyFrames, HidFrames, Publication

LEMMA HardwareInv ==
    ASSUME Inv, Hardware
    PROVE  Inv'
<1>1. FocusOf(card, focus) /\ at \in Assignments /\ Exclusive(at)
  BY FocusInvIs, SoundParts DEF Inv
<1>2. ASSUME NEW d \in Devices, NEW n \in Capacities, SetDevice(d, n)
      PROVE  Inv'
  <2> DEFINE a == [i \in TaskIds |->
                     IF n = 0 /\ at[i][1] = d THEN Nowhere ELSE at[i]]
  <2>1. a \in Assignments /\ Exclusive(a)
    BY <1>1 DEF Assignments, Exclusive
  <2>2. layout' \in Layouts
    BY <1>2, InputsAssumption DEF SetDevice, Inv, BoardInv, Layouts
  <2>3. /\ at' \in Reallocations(card', layout', memory, a)
        /\ memory' = Remember(card', layout', memory, at')
        /\ UNCHANGED <<card, reviewed, guard>>
        /\ focus' = Refocus(card, focus)
    BY <1>2 DEF SetDevice, Reallocate
  <2> HIDE DEF a
  <2>4. BoardInv'
    BY <2>1, <2>2, <2>3, LayoutInv DEF Inv
  <2>5. FocusInv'
    BY <1>1, <2>3, RefocusInv, FocusInvIs DEF FocusOf
  <2> QED
    BY <2>4, <2>5 DEF Inv
<1>3. ASSUME ClearDevices
      PROVE  Inv'
  <2>1. layout' \in Layouts
    BY <1>3, SizesAssumption DEF ClearDevices, Inv, BoardInv, Layouts
  <2>2. Sound(card', layout', at')
    BY <1>3 DEF ClearDevices, Blank, Sound, Assignments, Exclusive, Existing, Owned
  <2>3. BoardInv'
    BY <1>3, <2>1, <2>2
       DEF ClearDevices, Inv, BoardInv, LeaseMatchesState, Leased, ReviewedStaysReviewed
  <2>4. FocusInv'
    BY <1>3 DEF ClearDevices, Inv, FocusInv, PendingIsSelected
  <2> QED
    BY <2>3, <2>4 DEF Inv
<1>4. ASSUME NEW d \in Devices, NEW owners \in OwnerMaps, SetSlotOwners(d, owners)
      PROVE  Inv'
  <2>1. layout' \in Layouts
    BY <1>4, InputsAssumption DEF SetSlotOwners, Inv, BoardInv, Layouts
  <2>2. /\ at' \in Reallocations(card', layout', memory, at)
        /\ memory' = Remember(card', layout', memory, at')
        /\ UNCHANGED <<card, reviewed, guard>>
        /\ focus' = Refocus(card, focus)
    BY <1>4 DEF SetSlotOwners, Reallocate
  <2>3. BoardInv'
    BY <1>1, <2>1, <2>2, LayoutInv DEF Inv
  <2>4. FocusInv'
    BY <1>1, <2>2, RefocusInv, FocusInvIs DEF FocusOf
  <2> QED
    BY <2>3, <2>4 DEF Inv
<1> QED
  BY <1>2, <1>3, <1>4 DEF Hardware

LEMMA PublishInv ==
    ASSUME Inv, Publish
    PROVE  Inv'
<1>1. FocusOf(card, focus) /\ BoardInv
  BY FocusInvIs DEF Inv
<1>2. FocusOf(card', Refocus(card', focus))
  BY <1>1, RefocusInv DEF FocusOf
<1>3. ASSUME NEW s \in Sessions, NEW f \in Publications(s), PublishTasks(s, f)
      PROVE  Inv'
  <2>1. BoardInv'
    BY <1>1, <1>3, PublicationsAre, ReplaceInv DEF PublishTasks
  <2>2. FocusInv'
    BY <1>2, <1>3, FocusInvIs DEF PublishTasks
  <2> QED
    BY <2>1, <2>2 DEF Inv
<1>4. ASSUME NEW s \in Sessions, NEW f \in Publications(s), RefusePublication(s, f)
      PROVE  Inv'
  BY <1>4 DEF RefusePublication, vars, Inv, BoardInv, FocusInv, LeaseMatchesState, Leased,
              ReviewedStaysReviewed, PendingIsSelected
<1>5. ASSUME NEW s \in Sessions, NEW f \in LegacyFrames(s), PublishLegacyStatus(s, f)
      PROVE  Inv'
  <2> DEFINE g == [i \in DOMAIN f |-> [f[i] EXCEPT !.source = KeyIndex[i]]]
  <2>1. Publication(g)
    <3>1. Publication(f)
      BY PublicationsAre
    <3>2. \A i \in DOMAIN f : g[i] \in ItemType
      BY <3>1, InputsAssumption DEF Publication, ItemType
    <3> QED
      BY <3>1, <3>2 DEF Publication
  <2>2. ReplaceSessionTasks(s, g)
    BY <1>5 DEF PublishLegacyStatus
  <2> HIDE DEF g
  <2>3. BoardInv'
    BY <1>1, <2>1, <2>2, ReplaceInv
  <2>4. FocusInv'
    BY <1>2, <1>5, FocusInvIs DEF PublishLegacyStatus
  <2> QED
    BY <2>3, <2>4 DEF Inv
<1>6. ASSUME NEW f \in Publications(Snapshot), NEW auth \in Focusable \cup {None},
             PublishCodexSnapshot(f, auth)
      PROVE  Inv'
  <2>1. BoardInv'
    BY <1>1, <1>6, PublicationsAre, ReplaceInv, InputsAssumption
       DEF PublishCodexSnapshot
  <2>2. auth \in TaskIds \cup {None}
    BY InputsAssumption
  <2>3. FocusInv'
    BY <1>2, <1>6, <2>2, ReconcileInv, FocusInvIs DEF PublishCodexSnapshot
  <2> QED
    BY <2>1, <2>3 DEF Inv
<1>7. ASSUME NEW f \in HidFrames, PublishCodexHidStatus(f)
      PROVE  Inv'
  <2> DEFINE g == Believed(f)
  <2>1. Publication(f) /\ f \in HidFrames
    BY PublicationsAre
  <2>2. Publication(g)
    <3>1. \A i \in DOMAIN f : Live(card, i) => card[i].state \in TaskStates
      BY <1>1, <2>1 DEF BoardInv, Boards, Cards, Publication, Live, NoCard
    <3>2. \A i \in DOMAIN f : g[i] \in ItemType
      <4> SUFFICES ASSUME NEW i \in DOMAIN f PROVE g[i] \in ItemType
        OBVIOUS
      <4>1. f[i] \in ItemType /\ KeyIndex[i] \in Indexes \cup {None}
        BY <2>1, InputsAssumption DEF Publication
      <4>2. Live(card, i) /\ SelectionTransition(card[i].state, f[i].state)
              => card[i].state \in TaskStates
        BY DEF SelectionTransition, Active, TaskStates
      <4> DEFINE st == IF /\ guard >= 0 \/ Handoff(f)
                          /\ Live(card, i)
                          /\ SelectionTransition(card[i].state, f[i].state)
                       THEN card[i].state ELSE f[i].state
      <4>3. g[i] = [f[i] EXCEPT !.source = KeyIndex[i], !.state = st]
        BY DEF Believed
      <4>4. st \in TaskStates
        BY <4>1, <4>2 DEF ItemType
      <4> HIDE DEF st, g
      <4> QED
        BY <4>1, <4>3, <4>4 DEF ItemType
    <3> QED
      BY <2>1, <3>2 DEF Publication, Believed
  <2>3. /\ card' = Merge(card, Snapshot, g)
        /\ reviewed' = StillReviewed(g)
        /\ layout' = layout /\ guard' = guard
        /\ Reallocate(at)
    BY <1>7 DEF PublishCodexHidStatus
  <2> HIDE DEF g
  <2>4. /\ card' = Merge(Without(card, {}), Snapshot, g)
        /\ reviewed' = StillReviewed(g) \ {}
    <3>1. Without(card, {}) = card
      BY <1>1 DEF Without, BoardInv, Boards
    <3> QED
      BY <2>3, <3>1
  <2>5. /\ card' \in Boards
        /\ reviewed' \subseteq TaskIds
        /\ LeaseMatchesState'
        /\ ReviewedStaysReviewed'
    BY <1>1, <2>2, <2>4, MergeStates, InputsAssumption
  <2>6. Sound(card', layout', at') /\ memory' \in Memories
    BY <1>1, <2>3, SoundParts, Rescheduled DEF Reallocate, BoardInv
  <2>7. BoardInv'
    BY <1>1, <2>3, <2>5, <2>6 DEF BoardInv
  <2>8. FocusInv'
    <3>1. PICK t : /\ t \in IF Handoff(f) THEN HandoffTargets(f) ELSE {None}
                   /\ focus' = Refocus(card',
                         IF t # None /\ at[t] # Nowhere
                         THEN [selected |-> t, pending |-> None, left |-> None]
                         ELSE focus)
      BY <1>7 DEF PublishCodexHidStatus
    <3>2. t \in TaskIds \cup {None}
      BY <2>1, <3>1 DEF HandoffTargets, DesktopAt, Promoted, Publication
    <3> DEFINE fo == IF t # None /\ at[t] # Nowhere
                     THEN [selected |-> t, pending |-> None, left |-> None]
                     ELSE focus
    <3>3. fo \in Focuses /\ (fo.pending # None => fo.pending = fo.selected)
      BY <1>1, <3>2, FollowType DEF FocusOf
    <3> HIDE DEF fo
    <3>4. FocusOf(card', Refocus(card', fo))
      BY <3>3, RefocusInv
    <3> QED
      BY <3>1, <3>4, FocusInvIs DEF fo
  <2> QED
    BY <2>7, <2>8 DEF Inv
<1> QED
  BY <1>3, <1>4, <1>5, <1>6, <1>7 DEF Publish

LEMMA LeaveInv ==
    ASSUME Inv, Leave
    PROVE  Inv'
<1>1. FocusOf(card, focus) /\ BoardInv
  BY FocusInvIs DEF Inv
<1>2. ASSUME NEW s \in Sessions, DisconnectSession(s)
      PROVE  Inv'
  <2>1. ASSUME NEW i \in TaskIds
        PROVE  \/ card'[i] = card[i]
               \/ /\ card[i] \in Cards
                  /\ card'[i] = [card[i] EXCEPT !.state = "reconnecting", !.lease = Grace]
    <3>1. Live(card, i) => card[i] \in Cards
      BY <1>1 DEF BoardInv, Boards, Live, NoCard
    <3>2. card'[i] = IF Live(card, i) /\ card[i].session = s
                     THEN [card[i] EXCEPT !.state = "reconnecting", !.lease = Grace]
                     ELSE card[i]
      BY <1>2 DEF DisconnectSession
    <3> QED
      BY <3>1, <3>2
  <2>2. ASSUME NEW i \in TaskIds
        PROVE  /\ card'[i] \in Cards \cup {NoCard}
               /\ Live(card, i) =>
                    /\ Live(card', i)
                    /\ card'[i].session = card[i].session
                    /\ card'[i].source = card[i].source
                    /\ card'[i].state = "completed" => card[i].state = "completed"
               /\ Leased(card', i) => card'[i].state = "reconnecting"
    <3>1. CASE card'[i] = card[i]
      BY <1>1, <3>1 DEF BoardInv, Boards, LeaseMatchesState, Leased, Live
    <3>2. CASE /\ card[i] \in Cards
               /\ card'[i] = [card[i] EXCEPT !.state = "reconnecting", !.lease = Grace]
      <4>1. Grace \in -1 .. Grace /\ Grace # NoLease
        BY SizesAssumption DEF NoLease
      <4> QED
        BY <3>2, <4>1 DEF Cards, Live, Leased, TaskStates
    <3> QED
      BY <2>1, <3>1, <3>2
  <2>3. card' \in Boards
    <3>1. card' = [i \in TaskIds |-> card'[i]]
      BY <1>2 DEF DisconnectSession
    <3> QED
      BY <2>2, <3>1 DEF Boards
  <2>4. UNCHANGED <<at, layout, memory, focus, reviewed, guard>>
    BY <1>2 DEF DisconnectSession
  <2>5. Sound(card', layout, at)
    <3>1. Sound(card, layout, at)
      BY <1>1 DEF BoardInv
    <3> QED
      BY <2>2, <3>1, SoundSame
  <2>6. LeaseMatchesState' /\ ReviewedStaysReviewed'
    BY <1>1, <2>2, <2>4 DEF BoardInv, LeaseMatchesState, Leased, ReviewedStaysReviewed
  <2>7. FocusInv'
    BY <1>1, <2>2, <2>4, FocusInvIs DEF FocusOf, Focuses, None
  <2> QED
    BY <1>1, <2>3, <2>4, <2>5, <2>6, <2>7 DEF BoardInv, Inv
<1>3. ASSUME NEW gone, Remove(gone)
      PROVE  Inv'
  <2>1. BoardInv'
    BY <1>1, <1>3, RemoveInv
  <2>2. FocusInv'
    BY <1>1, <1>3, RefocusInv, FocusInvIs DEF Remove, FocusOf
  <2> QED
    BY <2>1, <2>2 DEF Inv
<1> QED
  BY <1>2, <1>3 DEF Leave, ClearSession

LEMMA ExpireInv ==
    ASSUME Inv, Expire
    PROVE  Inv'
<1>1. FocusOf(card, focus) /\ BoardInv
  BY FocusInvIs DEF Inv
<1>2. BoardInv'
  BY <1>1, RemoveInv DEF Expire
<1>3. FocusInv'
  BY <1>1, RefocusInv, FocusInvIs DEF Expire, Remove, FocusOf
<1> QED
  BY <1>2, <1>3 DEF Inv

LEMMA SelectInv ==
    ASSUME NEW i \in TaskIds, Live(card', i), Select(i)
    PROVE  FocusInv'
BY HoldsAssumption DEF Select, FocusInv, PendingIsSelected, Focuses, None

LEMMA PressInv ==
    ASSUME Inv, Press
    PROVE  Inv'
<1>1. FocusOf(card, focus) /\ BoardInv /\ Sound(card, layout, at)
  BY FocusInvIs DEF Inv, BoardInv
<1>2. ASSUME NEW i \in TaskIds, SelectTask(i)
      PROVE  Inv'
  <2>1. Live(card, i) /\ card[i] \in Cards
    BY <1>1, <1>2 DEF SelectTask, Sound, Existing, Live, NoCard, BoardInv, Boards
  <2>2. UNCHANGED <<at, layout, memory, guard>>
    BY <1>2 DEF SelectTask
  <2>3. CASE card[i].state # "completed"
    <3>1. UNCHANGED <<card, reviewed>> /\ Select(i)
      BY <1>2, <2>3 DEF SelectTask
    <3>2. BoardInv'
      BY <1>1, <2>2, <3>1 DEF BoardInv, LeaseMatchesState, Leased, ReviewedStaysReviewed
    <3>3. FocusInv'
      BY <2>1, <3>1, SelectInv DEF Live
    <3> QED
      BY <3>2, <3>3 DEF Inv
  <2>4. CASE card[i].state = "completed"
    <3>1. /\ reviewed' = reviewed \cup {i}
          /\ card' = [card EXCEPT ![i].state = "queued"]
          /\ Select(i)
      BY <1>2, <2>4 DEF SelectTask
    <3>2. card' = [card EXCEPT ![i] = [card[i] EXCEPT !.state = "queued"]]
      BY <3>1
    <3>3. /\ card'[i] = [card[i] EXCEPT !.state = "queued"]
          /\ \A j \in TaskIds \ {i} : card'[j] = card[j]
      BY <1>1, <3>2 DEF BoardInv, Boards
    <3>4. /\ card'[i] \in Cards
          /\ Live(card', i)
          /\ card'[i].state = "queued"
          /\ card'[i].lease = card[i].lease
          /\ card'[i].session = card[i].session
          /\ card'[i].source = card[i].source
      BY <2>1, <3>3 DEF Cards, TaskStates, Live
    <3>5. card' \in Boards
      BY <1>1, <3>2, <3>3, <3>4 DEF BoardInv, Boards
    <3>6. Sound(card', layout, at)
      <4>1. \A j \in TaskIds : Live(card, j) =>
               /\ Live(card', j)
               /\ card'[j].session = card[j].session
               /\ card'[j].source = card[j].source
        BY <3>3, <3>4 DEF Live
      <4> QED
        BY <1>1, <4>1, SoundSame
    <3>7. LeaseMatchesState'
      <4>1. card[i].lease = NoLease
        BY <1>1, <2>1, <2>4 DEF BoardInv, LeaseMatchesState, Leased
      <4>2. ASSUME NEW j \in TaskIds, Live(card', j)
            PROVE  Leased(card', j) => card'[j].state = "reconnecting"
        BY <1>1, <3>3, <3>4, <4>1, <4>2 DEF BoardInv, LeaseMatchesState, Leased, Live
      <4> QED
        BY <4>2 DEF LeaseMatchesState, Leased
    <3>8. ReviewedStaysReviewed' /\ reviewed' \subseteq TaskIds
      BY <1>1, <3>1, <3>3, <3>4 DEF BoardInv, ReviewedStaysReviewed, Live
    <3>9. FocusInv'
      BY <3>1, <3>4, SelectInv
    <3> QED
      BY <1>1, <2>2, <3>5, <3>6, <3>7, <3>8, <3>9 DEF BoardInv, Inv
  <2> QED
    BY <2>3, <2>4
<1>3. ASSUME NEW i \in TaskIds, GuardSelectionActivation(i)
      PROVE  Inv'
  <2>1. guard' \in -1 .. GuardHold /\ UNCHANGED <<card, at, layout, memory, focus, reviewed>>
    BY <1>3, HoldsAssumption DEF GuardSelectionActivation
  <2> QED
    BY <2>1 DEF Inv, BoardInv, FocusInv, LeaseMatchesState, Leased, ReviewedStaysReviewed,
                PendingIsSelected
<1>4. ASSUME NEW i \in TaskIds, NEW d \in Devices, AutoSelectWaiting(d, i)
      PROVE  Inv'
  <2>1. /\ Live(card, i) /\ Select(i)
        /\ UNCHANGED <<card, at, layout, memory, reviewed, guard>>
    BY <1>4 DEF AutoSelectWaiting
  <2>2. BoardInv'
    BY <1>1, <2>1 DEF BoardInv, LeaseMatchesState, Leased, ReviewedStaysReviewed
  <2>3. FocusInv'
    BY <2>1, SelectInv DEF Live
  <2> QED
    BY <2>2, <2>3 DEF Inv
<1> QED
  BY <1>2, <1>3, <1>4, InputsAssumption DEF Press

LEMMA TickInv ==
    ASSUME Inv, Tick
    PROVE  Inv'
<1>1. FocusOf(card, focus) /\ BoardInv /\ Sound(card, layout, at)
  BY FocusInvIs DEF Inv, BoardInv
<1>2. /\ focus' = [focus EXCEPT !.left = Down(focus.left, -1)]
      /\ guard' = Down(guard, -1)
      /\ UNCHANGED <<at, layout, memory, reviewed>>
  BY DEF Tick
<1>3. ASSUME NEW i \in TaskIds
      PROVE  /\ card'[i] \in Cards \cup {NoCard}
             /\ Live(card, i) <=> Live(card', i)
             /\ Live(card, i) =>
                  /\ card'[i].session = card[i].session
                  /\ card'[i].source = card[i].source
                  /\ card'[i].state = card[i].state
                  /\ card'[i].lease = NoLease <=> card[i].lease = NoLease
  <2>1. CASE Live(card, i) /\ card[i].lease > 0
    <3>1. card[i] \in Cards /\ card'[i] = [card[i] EXCEPT !.lease = card[i].lease - 1]
      BY <1>1, <2>1 DEF Tick, BoardInv, Boards, Live, NoCard
    <3>2. /\ card[i].lease - 1 \in -1 .. Grace
          /\ card[i].lease # NoLease /\ card[i].lease - 1 # NoLease
      BY <2>1, <3>1, SizesAssumption DEF Cards, NoLease
    <3> QED
      BY <2>1, <3>1, <3>2 DEF Cards, Live
  <2>2. CASE ~(Live(card, i) /\ card[i].lease > 0)
    <3>1. card'[i] = card[i]
      BY <2>2 DEF Tick
    <3> QED
      BY <1>1, <3>1 DEF BoardInv, Boards, Live
  <2> QED
    BY <2>1, <2>2
<1>4. card' \in Boards
  <2>1. card' = [i \in TaskIds |-> card'[i]]
    BY DEF Tick
  <2> QED
    BY <1>3, <2>1 DEF Boards
<1>5. Sound(card', layout, at)
  BY <1>1, <1>3, SoundSame
<1>6. LeaseMatchesState' /\ ReviewedStaysReviewed'
  BY <1>1, <1>2, <1>3 DEF BoardInv, LeaseMatchesState, Leased, ReviewedStaysReviewed
<1>7. guard' \in -1 .. GuardHold
  BY <1>1, <1>2, HoldsAssumption DEF BoardInv, Down
<1>8. FocusInv'
  <2>1. Down(focus.left, -1) \in -1 .. PendingHold
    BY <1>1, HoldsAssumption DEF FocusOf, Focuses, Down
  <2>2. /\ focus' \in Focuses
        /\ focus'.pending = focus.pending /\ focus'.selected = focus.selected
    BY <1>1, <1>2, <2>1 DEF FocusOf, Focuses
  <2>3. focus.pending # None => focus.pending \in TaskIds
    BY <1>1 DEF FocusOf, Focuses
  <2> QED
    BY <1>1, <1>3, <2>2, <2>3, FocusInvIs DEF FocusOf
<1> QED
  BY <1>1, <1>2, <1>4, <1>5, <1>6, <1>7, <1>8 DEF BoardInv, Inv

(* Every step of the board keeps the inductive invariant.                  *)
THEOREM Invariance == Spec => []Inv
<1>1. Init => Inv
  BY InitInv
<1>2. Inv /\ [Next]_vars => Inv'
  <2> SUFFICES ASSUME Inv, [Next]_vars PROVE Inv'
    OBVIOUS
  <2>1. CASE Hardware
    BY <2>1, HardwareInv
  <2>2. CASE Publish
    BY <2>2, PublishInv
  <2>3. CASE Leave
    BY <2>3, LeaveInv
  <2>4. CASE Press
    BY <2>4, PressInv
  <2>5. CASE Expire
    BY <2>5, ExpireInv
  <2>6. CASE Tick
    BY <2>6, TickInv
  <2>7. CASE UNCHANGED vars
    BY <2>7 DEF vars, Inv, BoardInv, FocusInv, LeaseMatchesState, Leased,
                ReviewedStaysReviewed, PendingIsSelected
  <2> QED
    BY <2>1, <2>2, <2>3, <2>4, <2>5, <2>6, <2>7 DEF Next
<1> QED
  BY <1>1, <1>2, PTL DEF Spec

-----------------------------------------------------------------------------
(* What the runs check, of every instance.                                 *)

(* The variables of the board keep their types in every reachable state.   *)
THEOREM TypeCorrect == Spec => []TypeOK
<1>1. Inv => TypeOK
  BY DEF Inv, BoardInv, FocusInv, Focuses, Sound, TypeOK
<1> QED
  BY <1>1, Invariance, PTL

(* reallocate never assigns one slot to two cards.                         *)
THEOREM SlotsAreExclusive == Spec => []SlotExclusive
<1>1. Inv => SlotExclusive
  BY DEF Inv, BoardInv, Sound, Exclusive, SlotExclusive
<1> QED
  BY <1>1, Invariance, PTL

(* Assigned slots exist, and so do the cards on them.                      *)
THEOREM AssignmentsExist == Spec => []AssignedSlotsExist
<1>1. Inv => AssignedSlotsExist
  BY DEF Inv, BoardInv, Sound, Existing, AssignedSlotsExist
<1> QED
  BY <1>1, Invariance, PTL

(* The partition of the primary controller is respected at all times.      *)
THEOREM OwnersRespected == Spec => []OwnerRespected
<1>1. Inv => OwnerRespected
  BY DEF Inv, BoardInv, Sound, Owned, OnPosition, OwnerRespected
<1> QED
  BY <1>1, Invariance, PTL

(* A press that waits for the desktop is the selection, of a live card.    *)
THEOREM CardsConsistent == Spec => []PendingIsSelected
<1>1. Inv => PendingIsSelected
  BY DEF Inv, BoardInv, FocusInv
<1> QED
  BY <1>1, Invariance, PTL

(* Reviewed completions stay reviewed, whatever their source repeats.      *)
THEOREM ReviewsLast == Spec => []ReviewedStaysReviewed
<1>1. Inv => ReviewedStaysReviewed
  BY DEF Inv, BoardInv
<1> QED
  BY <1>1, Invariance, PTL

(* A card on a lease is a reconnecting one: what expire takes away has not *)
(* been published again since its session left.                            *)
THEOREM LeasesConsistent == Spec => []LeaseMatchesState
<1>1. Inv => LeaseMatchesState
  BY DEF Inv, BoardInv
<1> QED
  BY <1>1, Invariance, PTL

-----------------------------------------------------------------------------
(* What a step does to the assignment: nothing; or every slot is gone; or  *)
(* one scheduler run, from an assignment that still has every card that    *)
(* stays on the board and on an available slot.                            *)
Rearranged(a) ==
    /\ a \in Assignments /\ Exclusive(a)
    /\ at' \in Reallocations(card', layout', memory, a)
    /\ \A i \in TaskIds :
          Live(card', i) /\ at[i] \in Available(layout') => a[i] = at[i]

LEMMA ReplaceRearranges ==
    ASSUME BoardInv, NEW s, NEW f, ReplaceSessionTasks(s, f)
    PROVE  Rearranged(Vacated(Dropped(s, f)))
<1>1. \A i \in Dropped(s, f) : i \in TaskIds /\ ~Live(card', i)
  BY DEF ReplaceSessionTasks, Merge, Without, Dropped, Live, NoCard
<1>2. \A i \in TaskIds : Live(card', i) => Vacated(Dropped(s, f))[i] = at[i]
  BY <1>1 DEF Vacated
<1> QED
  BY <1>2, SoundParts, VacatedExclusive
     DEF Rearranged, ReplaceSessionTasks, Reallocate

LEMMA RemoveRearranges ==
    ASSUME BoardInv, NEW gone, Remove(gone)
    PROVE  Rearranged(Vacated(gone))
<1>1. \A i \in TaskIds : Live(card', i) => i \notin gone
  BY DEF Remove, Without, Live, NoCard
<1>2. \A i \in TaskIds : Live(card', i) => Vacated(gone)[i] = at[i]
  BY <1>1 DEF Vacated
<1> QED
  BY <1>2, SoundParts, VacatedExclusive DEF Rearranged, Remove, Reallocate

LEMMA StepKinds ==
    ASSUME Inv, Next
    PROVE  \/ /\ at' = at /\ layout' = layout
              /\ \A i \in TaskIds : Eligible(card', i) =>
                    Eligible(card, i) /\ Agent(card', i) = Agent(card, i)
           \/ Available(layout') = {}
           \/ \E a \in Assignments : Rearranged(a)
<1>1. BoardInv /\ card \in Boards /\ at \in Assignments /\ Exclusive(at)
  BY SoundParts DEF Inv, BoardInv
<1>2. CASE Hardware
  <2>1. ASSUME NEW d \in Devices, NEW n \in Capacities, SetDevice(d, n)
        PROVE  \E a \in Assignments : Rearranged(a)
    <3> DEFINE a == [i \in TaskIds |->
                       IF n = 0 /\ at[i][1] = d THEN Nowhere ELSE at[i]]
    <3>1. a \in Assignments /\ Exclusive(a)
      BY <1>1 DEF Assignments, Exclusive
    <3>2. layout'.capacity[d] = n
      BY <1>1, <2>1 DEF SetDevice, BoardInv, Layouts
    <3>3. ASSUME NEW i \in TaskIds, at[i] \in Available(layout')
          PROVE  a[i] = at[i]
      <4>1. n = 0 => at[i][1] # d
        BY <3>2, <3>3, SizesAssumption DEF Available, Slots, Indexes
      <4> QED
        BY <4>1
    <3>4. at' \in Reallocations(card', layout', memory, a)
      BY <2>1 DEF SetDevice, Reallocate
    <3> QED
      BY <3>1, <3>3, <3>4 DEF Rearranged
  <2>2. ASSUME ClearDevices
        PROVE  Available(layout') = {}
    BY <1>1, <2>2, SizesAssumption
       DEF ClearDevices, BoardInv, Layouts, Available, Slots, Indexes
  <2>3. ASSUME NEW d \in Devices, NEW owners \in OwnerMaps, SetSlotOwners(d, owners)
        PROVE  Rearranged(at)
    BY <1>1, <2>3 DEF SetSlotOwners, Reallocate, Rearranged
  <2> QED
    BY <1>1, <1>2, <2>1, <2>2, <2>3 DEF Hardware
<1>3. CASE Publish
  <2>1. ASSUME NEW s, NEW f, RefusePublication(s, f)
        PROVE  UNCHANGED <<at, layout, card>>
    BY <2>1 DEF RefusePublication, vars
  <2>2. ASSUME NEW f, PublishCodexHidStatus(f)
        PROVE  Rearranged(at)
    BY <1>1, <2>2 DEF PublishCodexHidStatus, Reallocate, Rearranged
  <2>3. ASSUME NEW s, NEW f, ReplaceSessionTasks(s, f)
        PROVE  \E a \in Assignments : Rearranged(a)
    BY <1>1, <2>3, ReplaceRearranges DEF Rearranged
  <2> QED
    BY <1>1, <1>3, <2>1, <2>2, <2>3 DEF Publish, PublishTasks,
       PublishLegacyStatus, PublishCodexSnapshot
<1>4. ASSUME NEW gone, Remove(gone)
      PROVE  \E a \in Assignments : Rearranged(a)
  BY <1>1, <1>4, RemoveRearranges DEF Rearranged
<1>5. ASSUME NEW s \in Sessions, DisconnectSession(s)
      PROVE  /\ at' = at /\ layout' = layout
             /\ \A i \in TaskIds : Eligible(card', i) => card'[i] = card[i]
  <2>1. ASSUME NEW i \in TaskIds
        PROVE  card'[i] = card[i] \/ ~Eligible(card', i)
    <3>1. Live(card, i) => card[i] \in Cards
      BY <1>1 DEF Boards, Live, NoCard
    <3>2. card'[i] = IF Live(card, i) /\ card[i].session = s
                     THEN [card[i] EXCEPT !.state = "reconnecting", !.lease = Grace]
                     ELSE card[i]
      BY <1>5 DEF DisconnectSession
    <3> QED
      BY <3>1, <3>2 DEF Eligible, Cards
  <2> QED
    BY <1>5, <2>1 DEF DisconnectSession
<1>6. ASSUME NEW i \in TaskIds, SelectTask(i)
      PROVE  /\ at' = at /\ layout' = layout
             /\ \A j \in TaskIds : Eligible(card', j) =>
                   Eligible(card, j) /\ Agent(card', j) = Agent(card, j)
  <2>1. card' = card \/ (card[i].state = "completed"
                         /\ card' = [card EXCEPT ![i].state = "queued"])
    BY <1>6 DEF SelectTask
  <2>2. CASE card' = card
    BY <1>6, <2>2 DEF SelectTask
  <2>3. CASE card[i].state = "completed" /\ card' = [card EXCEPT ![i].state = "queued"]
    <3>1. card[i] \in Cards /\ card' = [card EXCEPT ![i] = [card[i] EXCEPT !.state = "queued"]]
      BY <1>1, <2>3 DEF Boards, NoCard
    <3>2. /\ card'[i] = [card[i] EXCEPT !.state = "queued"]
          /\ \A j \in TaskIds \ {i} : card'[j] = card[j]
      BY <1>1, <3>1 DEF Boards
    <3>3. Eligible(card, i) /\ card'[i].session = card[i].session
      BY <2>3, <3>1, <3>2 DEF Eligible, Cards
    <3>4. \A j \in TaskIds : Eligible(card', j) =>
             Eligible(card, j) /\ Agent(card', j) = Agent(card, j)
      BY <3>2, <3>3 DEF Eligible, Agent
    <3> QED
      BY <1>6, <3>4 DEF SelectTask
  <2> QED
    BY <2>1, <2>2, <2>3
<1>7. CASE Leave
  BY <1>4, <1>5, <1>7 DEF Leave, ClearSession, Agent, Eligible
<1>8. CASE Press
  BY <1>6, <1>8, InputsAssumption
     DEF Press, GuardSelectionActivation, AutoSelectWaiting, Agent, Eligible
<1>9. CASE Expire
  BY <1>4, <1>9 DEF Expire
<1>10. CASE Tick
  <2>1. ASSUME NEW i \in TaskIds
        PROVE  Eligible(card', i) =>
                 Eligible(card, i) /\ Agent(card', i) = Agent(card, i)
    <3>1. Live(card, i) => card[i] \in Cards
      BY <1>1 DEF Boards, Live, NoCard
    <3>2. card'[i] = IF Live(card, i) /\ card[i].lease > 0
                     THEN [card[i] EXCEPT !.lease = card[i].lease - 1]
                     ELSE card[i]
      BY <1>10 DEF Tick
    <3> QED
      BY <3>1, <3>2 DEF Eligible, Agent, Cards
  <2> QED
    BY <1>10, <2>1 DEF Tick
<1> QED
  BY <1>2, <1>3, <1>7, <1>8, <1>9, <1>10 DEF Next

(* A card that may keep its slot keeps it: no publication, reconnect,      *)
(* expiry, repartition or controller change shuffles the others.           *)
THEOREM CardsKeepTheirSlots == Spec => CardsStay
<1> DEFINE Stays(i) ==
      (/\ at[i] # Nowhere
       /\ Eligible(card', i) \/ Leased(card', i)
       /\ at[i] \in Available(layout')
       /\ Admits(layout', at[i], Agent(card', i)))
      => \/ at'[i] = at[i]
         \/ \E j \in HidIds : at'[j] = at[i]
<1>1. Inv /\ Inv' /\ [Next]_vars => [\A i \in TaskIds \ HidIds : Stays(i)]_vars
  <2> SUFFICES ASSUME Inv, Inv', Next, NEW i \in TaskIds \ HidIds
               PROVE  Stays(i)
    BY DEF vars
  <2>1. SUFFICES ASSUME at[i] # Nowhere,
                        Eligible(card', i) \/ Leased(card', i),
                        at[i] \in Available(layout'),
                        Admits(layout', at[i], Agent(card', i))
                 PROVE  at'[i] = at[i] \/ \E j \in HidIds : at'[j] = at[i]
    OBVIOUS
  <2>2. Live(card', i)
    BY <2>1 DEF Eligible, Leased, Live
  <2>3. ASSUME NEW a \in Assignments, Rearranged(a)
        PROVE  at'[i] = at[i] \/ \E j \in HidIds : at'[j] = at[i]
    <3>1. a[i] = at[i] /\ Exclusive(a)
          /\ at' \in Reallocations(card', layout', memory, a)
      BY <2>1, <2>2, <2>3 DEF Rearranged
    <3> QED
      BY <2>1, <3>1, ReallocationsKeep
  <2> QED
    BY <2>1, <2>3, StepKinds
<1>2. Spec => []Inv
  BY Invariance
<1> QED
  BY <1>1, <1>2, PTL DEF Spec, CardsStay

(* No card waits while a slot is free that would admit it, in any          *)
(* reachable state: every change that could free a slot, admit a card or   *)
(* bring one runs the scheduler, and the scheduler leaves no such card.    *)
THEOREM SlotsAreUsed == Spec => []WorkConserving
<1>1. Init => WorkConserving
  BY DEF Init, WorkConserving, Eligible, NoCard
<1>2. Inv /\ Inv' /\ WorkConserving /\ [Next]_vars => WorkConserving'
  <2> SUFFICES ASSUME Inv, Inv', WorkConserving, [Next]_vars
               PROVE  WorkConserving'
    OBVIOUS
  <2>1. CASE UNCHANGED vars
    BY <2>1 DEF vars, WorkConserving
  <2>2. CASE Next
    <3>1. CASE /\ at' = at /\ layout' = layout
               /\ \A i \in TaskIds : Eligible(card', i) =>
                     Eligible(card, i) /\ Agent(card', i) = Agent(card, i)
      <4>1. Available(layout') = Available(layout) /\ Held(at') = Held(at)
        BY <3>1
      <4>2. \A s : \A g : Admits(layout', s, g) <=> Admits(layout, s, g)
        BY <3>1
      <4> QED
        BY <3>1, <4>1, <4>2 DEF WorkConserving
    <3>2. CASE Available(layout') = {}
      BY <3>2 DEF WorkConserving
    <3>3. ASSUME NEW a \in Assignments, Rearranged(a)
          PROVE  WorkConserving'
      <4>1. card' \in Boards
        BY DEF Inv, BoardInv
      <4>2. Conserving(card', layout', at')
        BY <3>3, <4>1, ReallocationsConserve DEF Rearranged
      <4> QED
        BY <4>2 DEF WorkConserving, Conserving, Queue
    <3> QED
      BY <2>2, <3>1, <3>2, <3>3, StepKinds
  <2> QED
    BY <2>1, <2>2
<1> QED
  BY <1>1, <1>2, Invariance, PTL DEF Spec

(* No snapshot of the desktop, however late, undoes a fresh press or takes *)
(* the selection from a card of another agent.                             *)
THEOREM SnapshotsYield == Spec => DesktopYields
<1> DEFINE Yields(s, t) ==
      (/\ focus.selected = s /\ Live(card', s)
       /\ focus'.selected = t /\ t # s
       /\ \E f \in Publications(Snapshot), auth \in Focusable \cup {None} :
             PublishCodexSnapshot(f, auth))
      => Agent(card', s) = Codex /\ ~(focus.pending = s /\ focus.left >= 0)
<1>1. Inv /\ [Next]_vars => [\A s, t \in TaskIds : Yields(s, t)]_vars
  <2> SUFFICES ASSUME Inv, NEW s \in TaskIds, NEW t \in TaskIds,
                      focus.selected = s, Live(card', s), focus'.selected = t, t # s,
                      NEW f, NEW auth, PublishCodexSnapshot(f, auth)
               PROVE  Agent(card', s) = Codex /\ ~(focus.pending = s /\ focus.left >= 0)
    OBVIOUS
  <2>1. s # None
    BY IdsAssumption DEF None
  <2>2. focus' = Reconcile(card', focus, auth)
    BY DEF PublishCodexSnapshot, Refocus
  <2>3. focus.pending # None => focus.pending = s
    BY DEF Inv, FocusInv, PendingIsSelected
  <2>4. focus' # focus
    OBVIOUS
  <2>5. Agent(card', s) = Codex
    BY <2>1, <2>2, <2>4 DEF Reconcile
  <2>6. ASSUME focus.pending = s, focus.left >= 0
        PROVE  FALSE
    <3>1. CASE auth = s
      <4>1. focus' \in {[focus EXCEPT !.selected = focus.pending],
                        [selected |-> auth, pending |-> None, left |-> None]}
        BY <2>2, <2>4 DEF Reconcile
      <4>2. focus'.selected = s
        BY <2>6, <3>1, <4>1 DEF Inv, FocusInv, Focuses
      <4> QED
        BY <4>2
    <3>2. CASE auth # s
      <4>1. focus' = [focus EXCEPT !.selected = focus.pending]
        BY <2>1, <2>2, <2>4, <2>5, <2>6, <3>2 DEF Reconcile
      <4> QED
        BY <2>6, <4>1 DEF Inv, FocusInv, Focuses
    <3> QED
      BY <3>1, <3>2
  <2> QED
    BY <2>5, <2>6
<1> QED
  BY <1>1, Invariance, PTL DEF Spec, DesktopYields

-----------------------------------------------------------------------------
(* The highlight of the codex-hid cards.                                   *)

(* What a frame makes of a codex-hid card it names: its reported state, or *)
(* queued for an acknowledged completion, or, as an echo, the state it had. *)
LEMMA FrameStates ==
    ASSUME NEW f \in HidFrames, PublishCodexHidStatus(f), NEW k \in DOMAIN f
    PROVE  /\ k \in HidIds /\ f[k].state \in TaskStates
           /\ Live(card', k)
           /\ (/\ guard >= 0 \/ Handoff(f)
               /\ Live(card, k)
               /\ SelectionTransition(card[k].state, f[k].state))
              => Believed(f)[k].state = card[k].state
           /\ ~(/\ guard >= 0 \/ Handoff(f)
                /\ Live(card, k)
                /\ SelectionTransition(card[k].state, f[k].state))
              => Believed(f)[k].state = f[k].state
           /\ Believed(f)[k].state = "completed" /\ k \in reviewed
              => card'[k].state = "queued" /\ k \in reviewed'
           /\ ~(Believed(f)[k].state = "completed" /\ k \in reviewed)
              => card'[k].state = Believed(f)[k].state
<1> DEFINE b == Believed(f)
<1>1. f \in [DOMAIN f -> HidReports] /\ DOMAIN f \subseteq HidIds
  BY DEF HidFrames
<1>2. k \in HidIds /\ k \in TaskIds /\ f[k] \in ItemType
  BY <1>1, IdsAssumption, InputsAssumption
<1>3. DOMAIN b = DOMAIN f
  BY DEF Believed
<1>4. b[k].state = IF /\ guard >= 0 \/ Handoff(f)
                      /\ Live(card, k)
                      /\ SelectionTransition(card[k].state, f[k].state)
                   THEN card[k].state ELSE f[k].state
  BY <1>2 DEF Believed, ItemType
<1>5. card'[k].state = IF b[k].state = "completed" /\ k \in reviewed
                       THEN "queued" ELSE b[k].state
  BY <1>2, <1>3 DEF PublishCodexHidStatus, Merge
<1>6. b[k].state = "completed" /\ k \in reviewed => k \in reviewed'
  BY <1>2, <1>3 DEF PublishCodexHidStatus, StillReviewed
<1>7. f[k].state \in TaskStates /\ f[k].state # "absent"
  BY <1>2 DEF ItemType, TaskStates
<1>8. Live(card', k)
  BY <1>4, <1>5, <1>7 DEF Live
<1> QED
  BY <1>2, <1>4, <1>5, <1>6, <1>7, <1>8

(* Two cards never trade places in a frame that only moves highlights: the *)
(* frame reports the one active and the other idle, and says of the rest   *)
(* what they show, so it is a handoff and the two are left as they were.   *)
LEMMA FrameIsHandoff ==
    ASSUME NEW f \in HidFrames, PublishCodexHidStatus(f), OnlyHighlightsMove,
           HidIds \cap reviewed \cap reviewed' = {},
           NEW i \in HidIds, NEW j \in HidIds
    PROVE  ~TradesPlaces(i, j)
<1> SUFFICES ASSUME TradesPlaces(i, j) PROVE FALSE
  OBVIOUS
<1>1. /\ card[i].state = "queued" /\ Active(card'[i].state)
      /\ Active(card[j].state) /\ card'[j].state = "queued"
      /\ card'[i].state # card[i].state /\ card'[j].state # card[j].state
  BY DEF TradesPlaces, Active
<1>2. i \in TaskIds /\ j \in TaskIds /\ Live(card, i) /\ Live(card, j)
  BY <1>1, IdsAssumption DEF Live, Active
<1>3. \A k \in TaskIds \ DOMAIN f : card'[k] = card[k]
  <2>1. DOMAIN Believed(f) = DOMAIN f
    BY DEF Believed
  <2> QED
    BY <2>1 DEF PublishCodexHidStatus, Merge
<1>4. i \in DOMAIN f /\ j \in DOMAIN f
  BY <1>1, <1>2, <1>3
<1>5. ASSUME NEW k \in DOMAIN f
      PROVE  ~(Believed(f)[k].state = "completed" /\ k \in reviewed)
  BY FrameStates
<1>6. card'[i].state = Believed(f)[i].state /\ card'[j].state = Believed(f)[j].state
  BY <1>4, <1>5, FrameStates
<1>7. /\ ~(/\ guard >= 0 \/ Handoff(f)
           /\ Live(card, i) /\ SelectionTransition(card[i].state, f[i].state))
      /\ Active(f[i].state)
  BY <1>1, <1>4, <1>6, FrameStates
<1>8. /\ ~(/\ guard >= 0 \/ Handoff(f)
           /\ Live(card, j) /\ SelectionTransition(card[j].state, f[j].state))
      /\ f[j].state = "queued"
  BY <1>1, <1>4, <1>6, FrameStates
<1>9. SelectionTransition(card[i].state, f[i].state)
  BY <1>1, <1>7 DEF SelectionTransition, Active
<1>10. ~(guard >= 0) /\ ~Handoff(f)
  BY <1>2, <1>7, <1>9
<1>11. ASSUME NEW k \in DOMAIN f, Live(card, k)
       PROVE  \/ card[k].state = f[k].state
              \/ SelectionTransition(card[k].state, f[k].state)
  <2>1. card'[k].state = f[k].state /\ k \in HidIds /\ Live(card', k)
    BY <1>5, <1>10, FrameStates
  <2> QED
    BY <1>11, <2>1 DEF OnlyHighlightsMove
<1>12. i \in Promoted(f)
  BY <1>1, <1>4, <1>7 DEF Promoted
<1>13. Handoff(f)
  BY <1>1, <1>4, <1>8, <1>11, <1>12 DEF Handoff
<1> QED
  BY <1>10, <1>13

(* Outside those frames no codex-hid card becomes active, provided that no *)
(* session publishes under their ids.                                      *)
LEMMA ActiveFromFrames ==
    ASSUME Inv, Next, ~\E f \in HidFrames : PublishCodexHidStatus(f),
           \A s \in Sessions : Publishes[s] \cap HidIds = {},
           NEW i \in HidIds
    PROVE  Active(card'[i].state) => card'[i].state = card[i].state
<1>1. i \in TaskIds /\ card \in Boards /\ Snapshot \in Sessions
  BY IdsAssumption, InputsAssumption DEF Inv, BoardInv
<1>2. \A gone : Without(card, gone)[i] \in {card[i], NoCard}
  BY <1>1 DEF Without
<1>3. ~Active(NoCard.state) /\ ~Active("queued") /\ ~Active("reconnecting")
  BY DEF NoCard, Active
<1>4. ASSUME NEW s, NEW f, ReplaceSessionTasks(s, f), i \notin DOMAIN f
      PROVE  card'[i] \in {card[i], NoCard}
  BY <1>1, <1>2, <1>4 DEF ReplaceSessionTasks, Merge
<1>5. \A s \in Sessions : \A f \in Publications(s) : i \notin DOMAIN f
  BY DEF Publications
<1>6. CASE Hardware
  BY <1>6 DEF Hardware, SetDevice, ClearDevices, SetSlotOwners
<1>7. CASE Publish
  <2>1. ASSUME NEW s \in Sessions \ {Snapshot}, NEW f \in Publications(s),
               PublishTasks(s, f) \/ RefusePublication(s, f)
        PROVE  card'[i] \in {card[i], NoCard}
    BY <1>4, <1>5, <2>1 DEF PublishTasks, RefusePublication, vars
  <2>2. ASSUME NEW s \in Sessions \ {Snapshot}, NEW f \in LegacyFrames(s),
               PublishLegacyStatus(s, f)
        PROVE  card'[i] \in {card[i], NoCard}
    <3> DEFINE g == [k \in DOMAIN f |-> [f[k] EXCEPT !.source = KeyIndex[k]]]
    <3>1. i \notin DOMAIN g
      <4>1. DOMAIN f \subseteq LegacyIds[s]
        BY DEF LegacyFrames
      <4>2. i \notin LegacyIds[s]
        BY InputsAssumption
      <4> QED
        BY <4>1, <4>2
    <3>2. ReplaceSessionTasks(s, g)
      BY <2>2 DEF PublishLegacyStatus
    <3> HIDE DEF g
    <3> QED
      BY <1>4, <3>1, <3>2
  <2>3. ASSUME NEW f \in Publications(Snapshot), NEW auth,
               PublishCodexSnapshot(f, auth)
        PROVE  card'[i] \in {card[i], NoCard}
    BY <1>1, <1>4, <1>5, <2>3 DEF PublishCodexSnapshot
  <2>4. card'[i] \in {card[i], NoCard}
    BY <1>7, <2>1, <2>2, <2>3 DEF Publish
  <2> QED
    BY <1>3, <2>4
<1>8. ASSUME NEW gone, Remove(gone)
      PROVE  Active(card'[i].state) => card'[i].state = card[i].state
  BY <1>2, <1>3, <1>8 DEF Remove
<1>9. CASE Leave
  <2>1. ASSUME NEW s, DisconnectSession(s)
        PROVE  Active(card'[i].state) => card'[i].state = card[i].state
    <3>1. CASE Live(card, i) /\ card[i].session = s
      <4>1. card[i] \in Cards
        BY <1>1, <3>1 DEF Boards, Live, NoCard
      <4>2. card'[i] = [card[i] EXCEPT !.state = "reconnecting", !.lease = Grace]
        BY <1>1, <2>1, <3>1 DEF DisconnectSession
      <4> QED
        BY <1>3, <4>1, <4>2 DEF Cards
    <3>2. CASE ~(Live(card, i) /\ card[i].session = s)
      BY <1>1, <2>1, <3>2 DEF DisconnectSession
    <3> QED
      BY <3>1, <3>2
  <2> QED
    BY <1>8, <1>9, <2>1 DEF Leave, ClearSession
<1>10. CASE Press
  <2>1. ASSUME NEW k \in Pressable, SelectTask(k)
        PROVE  Active(card'[i].state) => card'[i].state = card[i].state
    <3>1. CASE card' = card
      BY <3>1
    <3>2. CASE card' = [card EXCEPT ![k].state = "queued"] /\ card[k].state = "completed"
      <4>1. CASE i = k
        <5>1. card[i] \in Cards
          BY <1>1, <3>2, <4>1 DEF Boards, NoCard
        <5>2. card'[i].state = "queued"
          BY <1>1, <3>2, <4>1, <5>1 DEF Boards, Cards
        <5> QED
          BY <1>3, <5>2
      <4>2. CASE i # k
        BY <1>1, <3>2, <4>2 DEF Boards
      <4> QED
        BY <4>1, <4>2
    <3> QED
      BY <2>1, <3>1, <3>2 DEF SelectTask
  <2> QED
    BY <1>10, <2>1 DEF Press, AutoSelectWaiting, GuardSelectionActivation
<1>11. CASE Expire
  BY <1>8, <1>11 DEF Expire
<1>12. CASE Tick
  <2>1. card'[i] = card[i] \/ (Live(card, i) /\ card'[i] = [card[i] EXCEPT !.lease = @ - 1])
    BY <1>1, <1>12 DEF Tick
  <2>2. Live(card, i) => card[i] \in Cards
    BY <1>1 DEF Boards, Live, NoCard
  <2> QED
    BY <2>1, <2>2 DEF Cards
<1> QED
  BY <1>6, <1>7, <1>9, <1>10, <1>11, <1>12 DEF Next

(* A redraw that moves the highlight among the codex-hid cards never       *)
(* starts one task and stops another, whatever order of presses, frames    *)
(* and snapshots leads there, in the Codex UI or on a controller; as long  *)
(* as no session publishes under the ids codex-hid:N, which are the        *)
(* bridge's own.                                                           *)
THEOREM RedrawsAreNoProgress ==
    (\A s \in Sessions : Publishes[s] \cap HidIds = {})
    => (Spec => RedrawIsNoProgress)
<1> SUFFICES ASSUME \A s \in Sessions : Publishes[s] \cap HidIds = {}
             PROVE  Spec => RedrawIsNoProgress
  OBVIOUS
<1>1. Inv /\ [Next]_vars =>
         [OnlyHighlightsMove /\ HidIds \cap reviewed \cap reviewed' = {}
            => ~\E i, j \in HidIds : TradesPlaces(i, j)]_vars
  <2> SUFFICES ASSUME Inv, Next, OnlyHighlightsMove,
                      HidIds \cap reviewed \cap reviewed' = {},
                      NEW i \in HidIds, NEW j \in HidIds, TradesPlaces(i, j)
               PROVE  FALSE
    BY DEF vars
  <2>1. CASE \E f \in HidFrames : PublishCodexHidStatus(f)
    BY <2>1, FrameIsHandoff
  <2>2. CASE ~\E f \in HidFrames : PublishCodexHidStatus(f)
    <3>1. card[i].state = "queued" /\ Active(card'[i].state)
      BY DEF TradesPlaces
    <3>2. card'[i].state = card[i].state
      BY <2>2, <3>1, ActiveFromFrames
    <3> QED
      BY <3>1, <3>2 DEF Active
  <2> QED
    BY <2>1, <2>2
<1> QED
  BY <1>1, Invariance, PTL DEF Spec, RedrawIsNoProgress

-----------------------------------------------------------------------------
(* The board implements the abstract allocation.                           *)

(* A legal allocation is what the invariants say together.                 *)
LEMMA LegalAllocation ==
    Inv /\ WorkConserving => Allocation!Legal
<1> SUFFICES ASSUME Inv, WorkConserving PROVE Allocation!Legal
  OBVIOUS
<1>1. at \in Assignments /\ Exclusive(at)
      /\ Existing(card, layout, at) /\ Owned(card, layout, at)
  BY DEF Inv, BoardInv, Sound
<1>2. at \in [TaskIds -> Available(layout) \cup {Nowhere}]
  BY <1>1 DEF Existing, Assignments
<1>3. \A i \in TaskIds : at[i] # Nowhere =>
         i \in Terms.live /\ <<i, at[i]>> \in Terms.bears
  BY <1>1 DEF Existing, Owned, OnPosition, Terms
<1>4. \A i, j \in TaskIds : at[i] # Nowhere /\ at[i] = at[j] => i = j
  BY <1>1 DEF Exclusive
<1>5. ASSUME NEW i \in TaskIds, at[i] = Nowhere, i \in Terms.due,
             NEW s \in Terms.slots, <<i, s>> \in Terms.fits
      PROVE  \E j \in TaskIds : at[j] = s
  BY <1>5 DEF WorkConserving, Terms, Held
<1>6. Terms.slots = Available(layout)
  BY DEF Terms
<1> QED
  BY <1>2, <1>3, <1>4, <1>5, <1>6 DEF Allocation!Legal, Allocation!Allocated

(* Every behaviour of the board, its slots looked at alone, is one of the  *)
(* abstract allocation: the promise holds in every state and every step    *)
(* keeps it, whatever agents, controllers and the partition do.            *)
THEOREM BoardAllocates == Spec => AllocatesSlots
<1>1. Init /\ Allocation!Legal => Allocation!Init
  BY DEF Init, Blank, Allocation!Init
<1>2. ASSUME Allocation!Legal',
             [\A i \in TaskIds \ HidIds :
                 /\ at[i] # Nowhere
                 /\ Eligible(card', i) \/ Leased(card', i)
                 /\ at[i] \in Available(layout')
                 /\ Admits(layout', at[i], Agent(card', i))
                 => \/ at'[i] = at[i]
                    \/ \E j \in HidIds : at'[j] = at[i]]_vars
      PROVE  [Allocation!Next]_<<at, Terms>>
  <2>1. CASE UNCHANGED vars
    BY <2>1 DEF vars, Terms, Available, SourceSlot, Agent
  <2>2. CASE ~UNCHANGED vars
    <3>1. Allocation!Undisturbed
      BY <1>2, <2>2 DEF Allocation!Undisturbed, Allocation!Allocated, Terms
    <3> QED
      BY <1>2, <3>1 DEF Allocation!Next
  <2> QED
    BY <2>1, <2>2
<1>3. Spec => []Allocation!Legal
  BY LegalAllocation, Invariance, SlotsAreUsed, PTL
<1> QED
  BY <1>1, <1>2, <1>3, CardsKeepTheirSlots, PTL
     DEF Spec, CardsStay, AllocatesSlots, Allocation!Spec
=============================================================================
