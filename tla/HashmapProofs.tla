---------------------------- MODULE HashmapProofs ----------------------------
(***************************************************************************)
(* Theorems about Hashmap for every set of keys and values, every hash     *)
(* function, every first capacity and every bound on growth.               *)
(***************************************************************************)
EXTENDS Hashmap, TLAPS, FiniteSetTheorems, WellFoundedInduction

-----------------------------------------------------------------------------
(* Induction on numbers: a property of numbers that fails has a least number *)
(* at which it fails.                                                        *)

LEMMA NatsHaveLeast ==
    ASSUME NEW S \in SUBSET Nat, S # {}
    PROVE  \E m \in S : \A n \in S : m <= n
  <1> DEFINE R == {ss \in Nat \X Nat : ss[1] < ss[2]}
  <1>1. IsWellFoundedOn(R, Nat)
    BY NatLessThanWellFounded DEF OpToRel
  <1> HIDE DEF R
  <1>2. PICK m \in S : \A n \in S : <<n, m>> \notin R
    BY <1>1, WFMin
  <1>3. \A n \in S : ~(n < m)
    BY <1>2 DEF R
  <1>4. QED
    BY <1>3

-----------------------------------------------------------------------------
(* Tables: keys kk and values vv of c slots *)

KeyArray(kk, c) == c \in Nat /\ c >= 4 /\ kk \in [0..(c - 1) -> Keys \cup {NoKey, Freed}]

\* The types of a table; a slot has a value when its key can be read.
Sound(kk, vv, c) ==
    /\ KeyArray(kk, c)
    /\ vv \in [0..(c - 1) -> Values \cup {NoValue}]
    /\ \A i \in 0..(c - 1) : kk[i] \in Keys <=> vv[i] # NoValue

InUse(kk, c) == {i \in 0..(c - 1) : kk[i] # NoKey}

\* Where a key is, a call that looks for it ends.
Findable(kk, c) == \A i \in 0..(c - 1) : kk[i] \in Keys => Slot(kk, c, kk[i]) = i

\* The loop looking for k ends after j slots.
EndsAt(kk, c, k, j) ==
    /\ j \in 0..(c - 1)
    /\ Stops(kk, c, k, j)
    /\ \A i \in 0..(j - 1) : ~Stops(kk, c, k, i)

\* Probing without a remainder: the slots from the home slot on, wrapping once.
LEMMA ProbedIsRing ==
    ASSUME NEW c \in Nat, c >= 1, NEW k \in Keys, NEW j \in 0..(c - 1)
    PROVE  /\ Home(k, c) \in 0..(c - 1)
           /\ Probed(k, c, j) = IF Home(k, c) + j < c THEN Home(k, c) + j
                                ELSE Home(k, c) + j - c
           /\ Probed(k, c, j) \in 0..(c - 1)
  <1> DEFINE h == Home(k, c)
  <1>1. h \in 0..(c - 1)
    BY MapAssumption DEF Home
  <1> HIDE DEF h
  <1>2. (h + j) % c = IF h + j < c THEN h + j ELSE h + j - c
    BY <1>1
  <1>3. QED
    BY <1>1, <1>2 DEF Probed, h

\* Every slot is probed.
LEMMA EverySlotIsProbed ==
    ASSUME NEW c \in Nat, c >= 1, NEW k \in Keys, NEW i \in 0..(c - 1)
    PROVE  \E j \in 0..(c - 1) : Probed(k, c, j) = i
  <1> DEFINE h == Home(k, c)
             j == IF i >= h THEN i - h ELSE i - h + c
  <1>1. h \in 0..(c - 1)
    BY MapAssumption DEF Home
  <1> HIDE DEF h
  <1>2. j \in 0..(c - 1)
    BY <1>1
  <1>3. i = IF h + j < c THEN h + j ELSE h + j - c
    BY <1>1, <1>2
  <1> HIDE DEF j
  <1>4. Probed(k, c, j) = i
    BY <1>2, <1>3, ProbedIsRing DEF h
  <1>5. QED
    BY <1>2, <1>4

\* The slot after the one probed is probed next.
LEMMA NextProbed ==
    ASSUME NEW c \in Nat, c >= 1, NEW k \in Keys, NEW j \in 0..(c - 1), j + 1 \in 0..(c - 1)
    PROVE  (Probed(k, c, j) + 1) % c = Probed(k, c, j + 1)
  <1> DEFINE h == Home(k, c)
  <1>1. h \in 0..(c - 1)
    BY MapAssumption DEF Home
  <1>2. Probed(k, c, j) = IF h + j < c THEN h + j ELSE h + j - c
    BY ProbedIsRing
  <1>3. Probed(k, c, j + 1) = IF h + (j + 1) < c THEN h + (j + 1) ELSE h + (j + 1) - c
    BY ProbedIsRing
  <1> DEFINE p == Probed(k, c, j)
             q == Probed(k, c, j + 1)
  <1> HIDE DEF h, p, q
  <1>4. p \in 0..(c - 1) /\ (p + 1 < c => q = p + 1) /\ (p + 1 = c => q = 0)
    BY <1>1, <1>2, <1>3 DEF p, q
  <1>5. (p + 1) % c = q
    <2>1. CASE p + 1 < c
      BY <1>4, <2>1
    <2>2. CASE p + 1 = c
      BY <1>4, <2>2
    <2>3. QED
      BY <1>4, <2>1, <2>2
  <1>6. QED
    BY <1>5 DEF p, q

\* A table with fewer slots in use than it has slots has a NULL one.
LEMMA SomeSlotIsFree ==
    ASSUME NEW kk, NEW c \in Nat, Cardinality(InUse(kk, c)) < c
    PROVE  \E i \in 0..(c - 1) : kk[i] = NoKey
  <1>1. SUFFICES ASSUME \A i \in 0..(c - 1) : kk[i] # NoKey PROVE FALSE
    OBVIOUS
  <1>2. InUse(kk, c) = 0..(c - 1)
    BY <1>1 DEF InUse
  <1>3. Cardinality(0..(c - 1)) = c
    BY FS_Interval
  <1>4. QED
    BY <1>2, <1>3

\* Where the loop ends is where Slot says it ends.
LEMMA EndIsSlot ==
    ASSUME NEW kk, NEW c \in Nat, NEW k, NEW j, EndsAt(kk, c, k, j)
    PROVE  Slot(kk, c, k) = Probed(k, c, j)
  <1> DEFINE P(m) == Stops(kk, c, k, m) /\ \A i \in 0..(m - 1) : ~Stops(kk, c, k, i)
  <1>1. j \in 0..(c - 1) /\ P(j)
    BY DEF EndsAt
  <1>2. ASSUME NEW m \in 0..(c - 1), P(m) PROVE m = j
    <2>1. ~(m < j)
      <3>1. m < j => m \in 0..(j - 1)
        BY <1>1
      <3>2. QED
        BY <1>1, <1>2, <3>1
    <2>2. ~(j < m)
      <3>1. j < m => j \in 0..(m - 1)
        BY <1>1
      <3>2. QED
        BY <1>1, <1>2, <3>1
    <2>3. QED
      BY <1>1, <2>1, <2>2
  <1>3. (CHOOSE m \in 0..(c - 1) : P(m)) = j
    BY <1>1, <1>2
  <1>4. QED
    BY <1>3 DEF Slot

\* In a table with a free slot each loop ends, at the key, a NULL or a freed key.
LEMMA LoopEnds ==
    ASSUME NEW kk, NEW c, KeyArray(kk, c), Cardinality(InUse(kk, c)) < c, NEW k \in Keys
    PROVE  /\ \E j : EndsAt(kk, c, k, j) /\ Slot(kk, c, k) = Probed(k, c, j)
           /\ Slot(kk, c, k) \in 0..(c - 1)
           /\ kk[Slot(kk, c, k)] \in {NoKey, k, Freed}
  <1>1. c \in Nat /\ c >= 1
    BY DEF KeyArray
  <1>2. PICK i \in 0..(c - 1) : kk[i] = NoKey
    BY <1>1, SomeSlotIsFree
  <1>3. PICK j \in 0..(c - 1) : Probed(k, c, j) = i
    BY <1>1, EverySlotIsProbed
  <1> DEFINE S == {m \in 0..(c - 1) : Stops(kk, c, k, m)}
  <1>4. S \in SUBSET Nat /\ S # {}
    <2>1. j \in S
      BY <1>2, <1>3 DEF Stops
    <2>2. QED
      BY <1>1, <2>1
  <1>5. PICK m \in S : \A n \in S : m <= n
    BY <1>4, NatsHaveLeast
  <1>6. m \in 0..(c - 1) /\ Stops(kk, c, k, m)
    OBVIOUS
  <1>7. \A n \in 0..(m - 1) : ~Stops(kk, c, k, n)
    <2> SUFFICES ASSUME NEW n \in 0..(m - 1), Stops(kk, c, k, n) PROVE FALSE
      OBVIOUS
    <2>1. n \in 0..(c - 1) /\ ~(m <= n)
      BY <1>1, <1>6
    <2>2. n \in S
      BY <2>1
    <2>3. QED
      BY <1>5, <2>1, <2>2
  <1>8. EndsAt(kk, c, k, m)
    BY <1>6, <1>7 DEF EndsAt
  <1>9. Slot(kk, c, k) = Probed(k, c, m)
    BY <1>1, <1>8, EndIsSlot
  <1>10. Probed(k, c, m) \in 0..(c - 1)
    BY <1>1, <1>6, ProbedIsRing
  <1>11. QED
    BY <1>6, <1>8, <1>9, <1>10 DEF Stops

-----------------------------------------------------------------------------
(* One slot of a table changes *)

\* Slots that are in use are finitely many, and fewer than all.
LEMMA InUseIsFinite ==
    ASSUME NEW kk, NEW c \in Nat
    PROVE  /\ IsFiniteSet(InUse(kk, c)) /\ Cardinality(InUse(kk, c)) \in Nat
           /\ InUse(kk, c) \subseteq 0..(c - 1)
  <1>1. InUse(kk, c) \in SUBSET (0..(c - 1)) /\ IsFiniteSet(0..(c - 1))
    BY FS_Interval DEF InUse
  <1>2. QED
    BY <1>1, FS_Subset, FS_CardinalityType

\* A key in a slot that was NULL is one slot more in use, in a slot that was
\* not it is as many, and a NULL in a slot that was not is one less.
LEMMA InUseAfter ==
    ASSUME NEW kk, NEW c, KeyArray(kk, c), NEW s \in 0..(c - 1),
           NEW x \in Keys \cup {NoKey, Freed}
    PROVE  /\ KeyArray([kk EXCEPT ![s] = x], c)
           /\ Cardinality(InUse(kk, c)) \in Nat
           /\ x # NoKey /\ kk[s] = NoKey
                => Cardinality(InUse([kk EXCEPT ![s] = x], c)) = Cardinality(InUse(kk, c)) + 1
           /\ x # NoKey /\ kk[s] # NoKey
                => Cardinality(InUse([kk EXCEPT ![s] = x], c)) = Cardinality(InUse(kk, c))
           /\ x = NoKey /\ kk[s] # NoKey
                => Cardinality(InUse([kk EXCEPT ![s] = x], c)) = Cardinality(InUse(kk, c)) - 1
  <1> DEFINE new == [kk EXCEPT ![s] = x]
             U == InUse(kk, c)
             V == InUse(new, c)
  <1>1. c \in Nat /\ IsFiniteSet(U) /\ Cardinality(U) \in Nat
    BY InUseIsFinite DEF KeyArray
  <1>2. KeyArray(new, c)
    BY DEF KeyArray
  <1>3. \A i \in 0..(c - 1) : new[i] = IF i = s THEN x ELSE kk[i]
    BY DEF KeyArray
  <1> HIDE DEF new
  <1>4. ASSUME x # NoKey, kk[s] = NoKey PROVE Cardinality(V) = Cardinality(U) + 1
    <2>1. V = U \cup {s} /\ s \notin U
      BY <1>3, <1>4 DEF InUse
    <2>2. QED
      BY <1>1, <2>1, FS_AddElement
  <1>5. ASSUME x # NoKey, kk[s] # NoKey PROVE Cardinality(V) = Cardinality(U)
    <2>1. V = U
      BY <1>3, <1>5 DEF InUse
    <2>2. QED
      BY <2>1
  <1>6. ASSUME x = NoKey, kk[s] # NoKey PROVE Cardinality(V) = Cardinality(U) - 1
    <2>1. V = U \ {s} /\ s \in U
      BY <1>3, <1>6 DEF InUse
    <2>2. QED
      BY <1>1, <2>1, FS_RemoveElement
  <1>7. QED
    BY <1>1, <1>2, <1>4, <1>5, <1>6 DEF new

\* nk is kk with x in slot s.
Changed(nk, kk, c, s, x) == \A i \in 0..(c - 1) : nk[i] = IF i = s THEN x ELSE kk[i]

\* A key stored in the slot its loop ended at is found there.
LEMMA StoredIsFound ==
    ASSUME NEW kk, NEW c, KeyArray(kk, c), Cardinality(InUse(kk, c)) < c, NEW k \in Keys,
           NEW new, Changed(new, kk, c, Slot(kk, c, k), k)
    PROVE  Slot(new, c, k) = Slot(kk, c, k)
  <1> DEFINE s == Slot(kk, c, k)
  <1>1. PICK j : EndsAt(kk, c, k, j) /\ s = Probed(k, c, j)
    BY LoopEnds
  <1>2. s \in 0..(c - 1) /\ kk[s] \in {NoKey, k, Freed}
    BY LoopEnds
  <1>3. c \in Nat /\ c >= 1 /\ j \in 0..(c - 1)
    BY <1>1 DEF KeyArray, EndsAt
  <1>4. \A i \in 0..(c - 1) : new[i] = IF i = s THEN k ELSE kk[i]
    BY DEF Changed
  <1> HIDE DEF s
  <1>5. Stops(new, c, k, j)
    BY <1>1, <1>2, <1>4 DEF Stops
  <1>6. ASSUME NEW i \in 0..(j - 1) PROVE ~Stops(new, c, k, i)
    <2>1. i \in 0..(c - 1)
      BY <1>3
    <2>2. kk[Probed(k, c, i)] \notin {NoKey, k, Freed} /\ Probed(k, c, i) \in 0..(c - 1)
      BY <1>1, <1>3, <2>1, ProbedIsRing DEF EndsAt, Stops
    <2>3. Probed(k, c, i) # s
      BY <1>2, <2>2
    <2>4. QED
      BY <1>4, <2>2, <2>3 DEF Stops
  <1>7. EndsAt(new, c, k, j)
    BY <1>3, <1>5, <1>6 DEF EndsAt
  <1>8. QED
    BY <1>1, <1>3, <1>7, EndIsSlot DEF s

\* A key that is found stays where it is when a NULL slot is put to use: no loop
\* that finds its key passes a NULL.
LEMMA FoundAfterStore ==
    ASSUME NEW kk, NEW c, KeyArray(kk, c), Cardinality(InUse(kk, c)) < c, NEW k \in Keys,
           NEW s \in 0..(c - 1), NEW x, kk[s] = NoKey, kk[Slot(kk, c, k)] = k,
           NEW new, Changed(new, kk, c, s, x)
    PROVE  Slot(new, c, k) = Slot(kk, c, k)
  <1>1. PICK j : EndsAt(kk, c, k, j) /\ Slot(kk, c, k) = Probed(k, c, j)
    BY LoopEnds
  <1>2. c \in Nat /\ c >= 1 /\ j \in 0..(c - 1)
    BY <1>1 DEF KeyArray, EndsAt
  <1>3. \A i \in 0..(c - 1) : new[i] = IF i = s THEN x ELSE kk[i]
    BY DEF Changed
  <1>4. Slot(kk, c, k) \in 0..(c - 1) /\ Slot(kk, c, k) # s
    BY LoopEnds, MapAssumption
  <1>5. Stops(new, c, k, j)
    BY <1>1, <1>3, <1>4 DEF Stops
  <1>6. ASSUME NEW i \in 0..(j - 1) PROVE ~Stops(new, c, k, i)
    <2>1. i \in 0..(c - 1)
      BY <1>2
    <2>2. kk[Probed(k, c, i)] \notin {NoKey, k, Freed} /\ Probed(k, c, i) \in 0..(c - 1)
      BY <1>1, <1>2, <2>1, ProbedIsRing DEF EndsAt, Stops
    <2>3. QED
      BY <1>3, <2>2 DEF Stops
  <1>7. EndsAt(new, c, k, j)
    BY <1>2, <1>5, <1>6 DEF EndsAt
  <1>8. QED
    BY <1>1, <1>2, <1>7, EndIsSlot

\* A key that is found stays where it is when a slot in front of a NULL one is
\* cleared: a loop that passed the slot would have ended right after it.
LEMMA FoundAfterRemoval ==
    ASSUME NEW kk, NEW c, KeyArray(kk, c), Cardinality(InUse(kk, c)) < c, NEW k \in Keys,
           NEW s \in 0..(c - 1), kk[(s + 1) % c] = NoKey,
           kk[Slot(kk, c, k)] = k, Slot(kk, c, k) # s,
           NEW new, Changed(new, kk, c, s, NoKey)
    PROVE  Slot(new, c, k) = Slot(kk, c, k)
  <1>1. PICK j : EndsAt(kk, c, k, j) /\ Slot(kk, c, k) = Probed(k, c, j)
    BY LoopEnds
  <1>2. c \in Nat /\ c >= 1 /\ j \in 0..(c - 1)
    BY <1>1 DEF KeyArray, EndsAt
  <1>3. \A i \in 0..(c - 1) : new[i] = IF i = s THEN NoKey ELSE kk[i]
    BY DEF Changed
  <1>4. Slot(kk, c, k) \in 0..(c - 1)
    BY LoopEnds
  <1>5. Stops(new, c, k, j)
    BY <1>1, <1>3, <1>4 DEF Stops
  <1>6. ASSUME NEW i \in 0..(j - 1) PROVE ~Stops(new, c, k, i)
    <2>1. i \in 0..(c - 1) /\ i + 1 \in 0..(c - 1)
      BY <1>2
    <2>2. kk[Probed(k, c, i)] \notin {NoKey, k, Freed} /\ Probed(k, c, i) \in 0..(c - 1)
      BY <1>1, <1>2, <2>1, ProbedIsRing DEF EndsAt, Stops
    <2>3. (Probed(k, c, i) + 1) % c = Probed(k, c, i + 1)
      BY <1>2, <2>1, NextProbed
    <2>4. Probed(k, c, i) # s
      <3>1. SUFFICES ASSUME Probed(k, c, i) = s PROVE FALSE
        OBVIOUS
      <3>2. kk[Probed(k, c, i + 1)] = NoKey
        BY <2>3, <3>1
      <3>3. CASE i + 1 = j
        BY <1>1, <3>2, <3>3, MapAssumption
      <3>4. CASE i + 1 # j
        <4>1. i + 1 \in 0..(j - 1)
          BY <1>2, <3>4
        <4>2. QED
          BY <1>1, <3>2, <4>1 DEF EndsAt, Stops
      <3>5. QED
        BY <3>3, <3>4
    <2>5. QED
      BY <1>3, <2>2, <2>4 DEF Stops
  <1>7. EndsAt(new, c, k, j)
    BY <1>2, <1>5, <1>6 DEF EndsAt
  <1>8. QED
    BY <1>1, <1>2, <1>7, EndIsSlot

-----------------------------------------------------------------------------
(* _hashmap_expand: the new table after each slot of the old one *)

NewCapacity == capacity * 2

\* The table that calloc made.
Blank == [key |-> Empty(NewCapacity, NoKey), value |-> Empty(NewCapacity, NoValue),
          cap |-> NewCapacity, undefined |-> FALSE]

\* f lists the new tables after 0..n slots of the old one.
Stages(f, n, lost) ==
    f = [m \in 0..n |-> IF m = 0 THEN Blank ELSE Enter(f[m - 1], m - 1, NewCapacity, lost)]

\* The stages up to a slot extend to the next one.
LEMMA NextStage ==
    ASSUME NEW lost, NEW n \in Nat, n # 0, NEW g, Stages(g, n - 1, lost)
    PROVE  \E f : Stages(f, n, lost)
  <1> DEFINE E(t, m) == Enter(t, m, NewCapacity, lost)
             f == [m \in 0..n |-> IF m = n THEN E(g[n - 1], n - 1) ELSE g[m]]
  <1>1. g = [m \in 0..(n - 1) |-> IF m = 0 THEN Blank ELSE E(g[m - 1], m - 1)]
    BY DEF Stages
  <1> HIDE DEF E
  <1>2. f = [m \in 0..n |-> IF m = 0 THEN Blank ELSE E(f[m - 1], m - 1)]
    <2> SUFFICES ASSUME NEW m \in 0..n
                 PROVE  f[m] = IF m = 0 THEN Blank ELSE E(f[m - 1], m - 1)
      OBVIOUS
    <2>1. CASE m = n
      <3>1. n - 1 \in 0..n /\ n - 1 # n
        OBVIOUS
      <3>2. f[n - 1] = g[n - 1]
        BY <3>1
      <3>3. QED
        BY <2>1, <3>2
    <2>2. CASE m # n /\ m = 0
      <3>1. m \in 0..(n - 1)
        BY <2>2
      <3>2. QED
        BY <1>1, <2>2, <3>1
    <2>3. CASE m # n /\ m # 0
      <3>1. m \in 0..(n - 1) /\ m - 1 \in 0..n /\ m - 1 # n
        BY <2>3
      <3>2. f[m] = g[m] /\ f[m - 1] = g[m - 1]
        BY <2>3, <3>1
      <3>3. g[m] = E(g[m - 1], m - 1)
        BY <1>1, <2>3, <3>1
      <3>4. QED
        BY <2>3, <3>2, <3>3
    <2>4. QED
      BY <2>1, <2>2, <2>3
  <1> HIDE DEF f
  <1>3. QED
    BY <1>2 DEF Stages, E

\* The recursive function of Expansion exists.
LEMMA StagesExist ==
    ASSUME NEW lost, NEW c \in Nat
    PROVE  \E f : Stages(f, c, lost)
  <1> DEFINE S == {n \in Nat : ~ \E f : Stages(f, n, lost)}
  <1>1. S = {}
    <2> SUFFICES ASSUME S # {} PROVE FALSE
      OBVIOUS
    <2>1. S \in SUBSET Nat
      OBVIOUS
    <2>2. PICK n \in S : \A m \in S : n <= m
      BY <2>1, NatsHaveLeast
    <2>3. n \in Nat /\ ~ \E f : Stages(f, n, lost)
      BY <2>2
    <2>4. CASE n = 0
      <3>1. Stages([m \in 0..0 |-> Blank], 0, lost)
        BY DEF Stages
      <3>2. QED
        BY <2>3, <2>4, <3>1
    <2>5. CASE n # 0
      <3>1. n - 1 \in Nat /\ ~(n <= n - 1)
        BY <2>3, <2>5
      <3>2. n - 1 \notin S
        BY <2>2, <3>1
      <3>3. PICK g : Stages(g, n - 1, lost)
        BY <3>1, <3>2
      <3>4. QED
        BY <2>3, <2>5, <3>3, NextStage
    <2>6. QED
      BY <2>4, <2>5
  <1>2. QED
    BY <1>1

\* Expansion makes its table slot by slot.
LEMMA ExpansionStages ==
    ASSUME NEW lost, capacity \in Nat
    PROVE  \E f : /\ f[0] = Blank
                  /\ \A n \in 0..(capacity - 1) :
                        f[n + 1] = Enter(f[n], n, NewCapacity, lost)
                  /\ Expansion(lost) = f[capacity]
  <1> DEFINE F(f) == Stages(f, capacity, lost)
             f == CHOOSE g : F(g)
  <1>1. Stages(f, capacity, lost)
    BY StagesExist
  <1>2. Expansion(lost) = f[capacity]
    BY DEF Expansion, Stages, Blank, NewCapacity
  <1> HIDE DEF f
  <1>3. f = [m \in 0..capacity |-> IF m = 0 THEN Blank
                                   ELSE Enter(f[m - 1], m - 1, NewCapacity, lost)]
    BY <1>1 DEF Stages
  <1>4. 0 \in 0..capacity
    OBVIOUS
  <1>5. f[0] = Blank
    BY <1>3, <1>4
  <1>6. ASSUME NEW n \in 0..(capacity - 1)
        PROVE  f[n + 1] = Enter(f[n], n, NewCapacity, lost)
    <2>1. n + 1 \in 0..capacity /\ n + 1 # 0 /\ (n + 1) - 1 = n
      OBVIOUS
    <2>2. f[n + 1] = Enter(f[(n + 1) - 1], (n + 1) - 1, NewCapacity, lost)
      BY <1>3, <2>1
    <2>3. QED
      BY <2>1, <2>2
  <1>7. QED
    BY <1>2, <1>5, <1>6

\* A table record of the new capacity; nothing is claimed of it once a freed
\* key was read.
NewTable(t) ==
    /\ t = [key |-> t.key, value |-> t.value, cap |-> NewCapacity, undefined |-> t.undefined]
    /\ t.undefined \in BOOLEAN
    /\ Sound(t.key, t.value, NewCapacity)

\* Table t holds what the first n slots hold: no more of its slots are in use.
NoMoreThan(t, n) == Cardinality(InUse(t.key, NewCapacity)) <= Cardinality(InUse(key, n))

\* Table t holds the keys of the first n slots, with their values.
Copied(t, n) ==
    /\ Findable(t.key, NewCapacity)
    /\ \A s \in 0..(NewCapacity - 1) : t.key[s] # Freed
    /\ \A i \in 0..(n - 1) : key[i] \in Keys =>
          \E s \in 0..(NewCapacity - 1) : t.key[s] = key[i] /\ t.value[s] = value[i]
    /\ \A s \in 0..(NewCapacity - 1) : t.key[s] \in Keys =>
          \E i \in 0..(n - 1) : key[i] = t.key[s]

\* The table that the first n slots were entered into.
Stage(t, n, lost) ==
    /\ NewTable(t)
    /\ NoMoreThan(t, n)
    /\ lost = {} /\ ~t.undefined /\ Findable(key, capacity) => Copied(t, n)

\* The slots in use among the first ones, with one more slot.
LEMMA OneMoreSlot ==
    ASSUME NEW n \in Nat
    PROVE  /\ Cardinality(InUse(key, n)) \in Nat
           /\ key[n] = NoKey => Cardinality(InUse(key, n + 1)) = Cardinality(InUse(key, n))
           /\ key[n] # NoKey => Cardinality(InUse(key, n + 1)) = Cardinality(InUse(key, n)) + 1
  <1>1. IsFiniteSet(InUse(key, n)) /\ Cardinality(InUse(key, n)) \in Nat
    BY InUseIsFinite
  <1>2. ASSUME key[n] = NoKey PROVE InUse(key, n + 1) = InUse(key, n)
    BY <1>2 DEF InUse
  <1>3. ASSUME key[n] # NoKey
        PROVE  InUse(key, n + 1) = InUse(key, n) \cup {n} /\ n \notin InUse(key, n)
    BY <1>3 DEF InUse
  <1>4. key[n] # NoKey => Cardinality(InUse(key, n + 1)) = Cardinality(InUse(key, n)) + 1
    BY <1>1, <1>3, FS_AddElement
  <1>5. QED
    BY <1>1, <1>2, <1>4

\* Fewer slots in use among the first ones than among all.
LEMMA FirstSlotsInUse ==
    ASSUME TypeOK, ProbesEnd, NEW n \in 0..capacity
    PROVE  Cardinality(InUse(key, n)) <= size /\ Cardinality(InUse(key, n)) < NewCapacity
  <1>1. DOMAIN key = 0..(capacity - 1) /\ capacity \in Nat /\ size \in Nat
    BY DEF TypeOK
  <1>2. InUse(key, capacity) = {i \in DOMAIN key : key[i] # NoKey}
    BY <1>1 DEF InUse
  <1>3. Cardinality(InUse(key, capacity)) <= size /\ size < capacity
    BY <1>2 DEF ProbesEnd
  <1>4. InUse(key, n) \in SUBSET InUse(key, capacity)
    BY <1>1 DEF InUse
  <1>5. Cardinality(InUse(key, n)) <= Cardinality(InUse(key, capacity))
    BY <1>1, <1>4, InUseIsFinite, FS_Subset
  <1>6. Cardinality(InUse(key, n)) \in Nat /\ Cardinality(InUse(key, capacity)) \in Nat
    BY <1>1, InUseIsFinite
  <1>7. QED
    BY <1>1, <1>3, <1>5, <1>6 DEF NewCapacity

\* What Enter does to a table, with each field of the result spelt out.
LEMMA EnterFields ==
    ASSUME NEW t, NewTable(t), NEW i, NEW lost, ~t.undefined, key[i] # NoKey, key[i] # Freed,
           t.key[Slot(t.key, NewCapacity, key[i])] # Freed
    PROVE  LET s == Slot(t.key, NewCapacity, key[i])
           IN  Enter(t, i, NewCapacity, lost) =
                 IF t.key[s] = NoKey /\ i \in lost
                 THEN [key |-> [t.key EXCEPT ![s] = Freed], value |-> t.value,
                       cap |-> NewCapacity, undefined |-> t.undefined]
                 ELSE [key |-> [t.key EXCEPT ![s] = key[i]],
                       value |-> [t.value EXCEPT ![s] = value[i]],
                       cap |-> NewCapacity, undefined |-> t.undefined]
  <1> DEFINE s == Slot(t.key, NewCapacity, key[i])
  <1> HIDE DEF s
  <1>1. t = [key |-> t.key, value |-> t.value, cap |-> NewCapacity, undefined |-> t.undefined]
    BY DEF NewTable
  <1>2. [t EXCEPT !.key[s] = Freed]
           = [key |-> [t.key EXCEPT ![s] = Freed], value |-> t.value,
              cap |-> NewCapacity, undefined |-> t.undefined]
    BY <1>1
  <1>3. [t EXCEPT !.key[s] = key[i], !.value[s] = value[i]]
           = [key |-> [t.key EXCEPT ![s] = key[i]],
              value |-> [t.value EXCEPT ![s] = value[i]],
              cap |-> NewCapacity, undefined |-> t.undefined]
    <2> DEFINE a == [t.key EXCEPT ![s] = key[i]]
               b == [t.value EXCEPT ![s] = value[i]]
               e == [t EXCEPT !.key[s] = key[i]]
    <2>1. e = [key |-> a, value |-> t.value, cap |-> NewCapacity, undefined |-> t.undefined]
      BY <1>1
    <2>2. [e EXCEPT !.value[s] = value[i]]
             = [key |-> a, value |-> b, cap |-> NewCapacity, undefined |-> t.undefined]
      <3> HIDE DEF a, e
      <3>1. QED
        BY <2>1
    <2>3. QED
      BY <2>2
  <1>4. QED
    BY <1>2, <1>3 DEF Enter, s

\* Enter keeps a table sound, and uses one slot more at most.
LEMMA EnterSound ==
    ASSUME TypeOK, ProbesEnd, NEW n \in 0..(capacity - 1), NEW lost, NEW t,
           NewTable(t), NoMoreThan(t, n)
    PROVE  LET e == Enter(t, n, NewCapacity, lost)
           IN  NewTable(e) /\ NoMoreThan(e, n + 1)
  <1> DEFINE e == Enter(t, n, NewCapacity, lost)
             c == NewCapacity
             s == Slot(t.key, NewCapacity, key[n])
             u == Cardinality(InUse(t.key, NewCapacity))
             w == Cardinality(InUse(key, n))
  <1>1. capacity \in Nat /\ n \in Nat /\ n \in 0..capacity /\ c \in Nat /\ c >= 4
    BY DEF TypeOK, NewCapacity
  <1>2. KeyArray(t.key, c)
    BY DEF NewTable, Sound
  <1>3. u \in Nat /\ w \in Nat /\ u <= w /\ w < c
    BY <1>1, InUseIsFinite, FirstSlotsInUse DEF NoMoreThan
  <1>4. u < c
    BY <1>1, <1>3
  <1>5. key[n] \in Keys \cup {NoKey, Freed} /\ value[n] \in Values \cup {NoValue}
        /\ (key[n] \in Keys => value[n] # NoValue)
    BY DEF TypeOK
  <1>6. ASSUME t.undefined \/ key[n] = NoKey PROVE NewTable(e) /\ NoMoreThan(e, n + 1)
    <2>1. e = t
      BY <1>6 DEF Enter
    <2>2. u <= Cardinality(InUse(key, n + 1))
      BY <1>1, <1>3, OneMoreSlot
    <2>3. QED
      BY <2>1, <2>2 DEF NoMoreThan
  <1>7. ASSUME ~t.undefined, key[n] # NoKey,
               key[n] = Freed \/ t.key[s] = Freed
        PROVE  NewTable(e) /\ NoMoreThan(e, n + 1)
    <2>1. e = [t EXCEPT !.undefined = TRUE]
      BY <1>7 DEF Enter
    <2>2. t = [key |-> t.key, value |-> t.value, cap |-> NewCapacity, undefined |-> t.undefined]
      BY DEF NewTable
    <2>3. e = [key |-> t.key, value |-> t.value, cap |-> NewCapacity, undefined |-> TRUE]
      <3>1. [t EXCEPT !.undefined = TRUE]
              = [key |-> t.key, value |-> t.value, cap |-> NewCapacity, undefined |-> TRUE]
        <4>1. \A x : [t EXCEPT !.undefined = x]
                       = [key |-> t.key, value |-> t.value, cap |-> NewCapacity, undefined |-> x]
          BY <2>2
        <4>2. QED
          BY <4>1, Zenon
      <3>2. QED
        BY <2>1, <3>1
    <2>4. u <= Cardinality(InUse(key, n + 1))
      BY <1>1, <1>3, OneMoreSlot
    <2> HIDE DEF e
    <2>5. e.key = t.key /\ e.value = t.value /\ e.undefined = TRUE
          /\ e = [key |-> e.key, value |-> e.value, cap |-> NewCapacity, undefined |-> e.undefined]
      BY <2>3
    <2>6. NewTable(e)
      BY <2>5 DEF NewTable
    <2>7. NoMoreThan(e, n + 1)
      BY <2>4, <2>5 DEF NoMoreThan
    <2>8. QED
      BY <2>6, <2>7
  <1>8. ASSUME ~t.undefined, key[n] # NoKey, key[n] # Freed, t.key[s] # Freed
        PROVE  NewTable(e) /\ NoMoreThan(e, n + 1)
    <2>1. key[n] \in Keys
      BY <1>5, <1>8
    <2>2. s \in 0..(c - 1) /\ t.key[s] \in {NoKey, key[n]}
      BY <1>2, <1>4, <1>8, <2>1, LoopEnds
    <2>3. Cardinality(InUse(key, n + 1)) = w + 1
      BY <1>1, <1>8, OneMoreSlot
    <2>4. e = IF t.key[s] = NoKey /\ n \in lost
              THEN [key |-> [t.key EXCEPT ![s] = Freed], value |-> t.value,
                    cap |-> NewCapacity, undefined |-> t.undefined]
              ELSE [key |-> [t.key EXCEPT ![s] = key[n]],
                    value |-> [t.value EXCEPT ![s] = value[n]],
                    cap |-> NewCapacity, undefined |-> t.undefined]
      BY <1>8, EnterFields
    <2> HIDE DEF e
    <2>5. PICK x \in {Freed, key[n]} : e.key = [t.key EXCEPT ![s] = x]
      BY <2>4
    <2>6. x \in Keys \cup {NoKey, Freed} /\ x # NoKey
      BY <1>5, <1>8, <2>5, MapAssumption
    <2>7. KeyArray(e.key, c) /\ Cardinality(InUse(e.key, c)) \in {u, u + 1}
      BY <1>2, <2>2, <2>5, <2>6, InUseAfter
    <2>8. Cardinality(InUse(e.key, c)) <= w + 1
      BY <1>3, <2>7
    <2>9. NoMoreThan(e, n + 1)
      BY <2>3, <2>8 DEF NoMoreThan
    <2>10. t.value \in [0..(c - 1) -> Values \cup {NoValue}]
           /\ \A i \in 0..(c - 1) : t.key[i] \in Keys <=> t.value[i] # NoValue
      BY DEF NewTable, Sound
    <2>11. t.key \in [0..(c - 1) -> Keys \cup {NoKey, Freed}]
      BY <1>2 DEF KeyArray
    <2>12. Sound(e.key, e.value, c)
      <3>1. CASE t.key[s] = NoKey /\ n \in lost
        <4>1. e.key = [t.key EXCEPT ![s] = Freed] /\ e.value = t.value
          BY <2>4, <3>1
        <4>2. t.value[s] = NoValue /\ Freed \notin Keys
          BY <2>2, <2>10, <3>1, MapAssumption
        <4>3. \A i \in 0..(c - 1) : e.key[i] \in Keys <=> e.value[i] # NoValue
          BY <2>2, <2>10, <2>11, <4>1, <4>2
        <4>4. QED
          BY <2>7, <2>10, <4>1, <4>3 DEF Sound
      <3>2. CASE ~(t.key[s] = NoKey /\ n \in lost)
        <4>1. e.key = [t.key EXCEPT ![s] = key[n]] /\ e.value = [t.value EXCEPT ![s] = value[n]]
          BY <2>4, <3>2
        <4>2. e.value \in [0..(c - 1) -> Values \cup {NoValue}]
          BY <1>5, <2>10, <4>1
        <4>3. \A i \in 0..(c - 1) : e.key[i] \in Keys <=> e.value[i] # NoValue
          BY <1>5, <2>1, <2>2, <2>10, <2>11, <4>1
        <4>4. QED
          BY <2>7, <4>2, <4>3 DEF Sound
      <3>3. QED
        BY <3>1, <3>2
    <2>13. e = [key |-> e.key, value |-> e.value, cap |-> NewCapacity,
                undefined |-> e.undefined] /\ e.undefined \in BOOLEAN
      BY <2>4 DEF NewTable
    <2>14. QED
      BY <2>9, <2>12, <2>13 DEF NewTable
  <1>9. QED
    BY <1>6, <1>7, <1>8

\* Enter adds the key of its slot, with its value, and cuts no other off: no two
\* slots of the old table have the same key, so it always finds a NULL slot.
LEMMA EnterCopies ==
    ASSUME TypeOK, ProbesEnd, Findable(key, capacity), NEW n \in 0..(capacity - 1), NEW t,
           NewTable(t), NoMoreThan(t, n), ~t.undefined, Copied(t, n),
           ~Enter(t, n, NewCapacity, {}).undefined
    PROVE  Copied(Enter(t, n, NewCapacity, {}), n + 1)
  <1> DEFINE c == NewCapacity
             s == Slot(t.key, NewCapacity, key[n])
             e == Enter(t, n, NewCapacity, {})
             u == Cardinality(InUse(t.key, NewCapacity))
             w == Cardinality(InUse(key, n))
  <1>1. capacity \in Nat /\ n \in Nat /\ n \in 0..capacity /\ c \in Nat /\ c >= 4
    BY DEF TypeOK, NewCapacity
  <1>2. KeyArray(t.key, c) /\ t.key \in [0..(c - 1) -> Keys \cup {NoKey, Freed}]
        /\ t.value \in [0..(c - 1) -> Values \cup {NoValue}]
    BY DEF NewTable, Sound, KeyArray
  <1>3. u < c
    <2>1. u \in Nat /\ w \in Nat /\ u <= w /\ w < c
      BY <1>1, InUseIsFinite, FirstSlotsInUse DEF NoMoreThan
    <2>2. QED
      BY <1>1, <2>1
  <1>4. key[n] \in Keys \cup {NoKey, Freed}
    BY DEF TypeOK
  <1>5. \A i \in 0..n : i \in 0..(n - 1) \/ i = n
    BY <1>1
  <1>6. 0..(n - 1) \subseteq 0..n /\ n \in 0..n /\ (n + 1) - 1 = n
    BY <1>1
  <1>7. ASSUME key[n] = NoKey PROVE Copied(e, n + 1)
    <2>1. e = t
      BY <1>7 DEF Enter
    <2>2. NoKey \notin Keys
      BY MapAssumption
    <2>3. QED
      BY <1>5, <1>6, <1>7, <2>1, <2>2 DEF Copied
  <1>8. ASSUME key[n] = Freed PROVE FALSE
    <2>1. key[n] # NoKey
      BY <1>8, MapAssumption
    <2>2. e = [t EXCEPT !.undefined = TRUE]
      BY <1>8, <2>1 DEF Enter
    <2>3. t = [key |-> t.key, value |-> t.value, cap |-> NewCapacity, undefined |-> t.undefined]
      BY DEF NewTable
    <2>4. \A x : [t EXCEPT !.undefined = x].undefined = x
      BY <2>3
    <2>5. [t EXCEPT !.undefined = TRUE].undefined = TRUE
      BY <2>4, Zenon
    <2>6. QED
      BY <2>2, <2>5, Zenon
  <1>9. ASSUME key[n] \in Keys PROVE Copied(e, n + 1)
    <2>1. s \in 0..(c - 1) /\ t.key[s] \in {NoKey, key[n], Freed}
      BY <1>2, <1>3, <1>9, LoopEnds
    <2>2. t.key[s] # Freed
      BY <2>1 DEF Copied
    <2>3. t.key[s] # key[n]
      <3>1. SUFFICES ASSUME t.key[s] = key[n] PROVE FALSE
        OBVIOUS
      <3>2. PICK i \in 0..(n - 1) : key[i] = key[n]
        BY <1>9, <2>1, <3>1 DEF Copied
      <3>3. i \in 0..(capacity - 1) /\ i # n
        BY <1>1
      <3>4. Slot(key, capacity, key[n]) = n /\ Slot(key, capacity, key[n]) = i
        BY <1>9, <3>2, <3>3 DEF Findable
      <3>5. QED
        BY <3>3, <3>4
    <2>4. t.key[s] = NoKey
      BY <2>1, <2>2, <2>3
    <2>5. key[n] # NoKey /\ key[n] # Freed
      BY <1>9, MapAssumption
    <2>6. e = [key |-> [t.key EXCEPT ![s] = key[n]],
               value |-> [t.value EXCEPT ![s] = value[n]],
               cap |-> NewCapacity, undefined |-> t.undefined]
      BY <2>2, <2>5, EnterFields
    <2> HIDE DEF e
    <2>9. e.key = [t.key EXCEPT ![s] = key[n]] /\ e.value = [t.value EXCEPT ![s] = value[n]]
      BY <2>6
    <2>7. Changed(e.key, t.key, c, s, key[n])
      BY <1>2, <2>9 DEF Changed
    <2>8. Slot(e.key, c, key[n]) = s
      BY <1>2, <1>3, <1>9, <2>7, StoredIsFound
    <2> HIDE DEF s
    <2>10. \A i \in 0..(c - 1) : /\ e.key[i] = IF i = s THEN key[n] ELSE t.key[i]
                                 /\ e.value[i] = IF i = s THEN value[n] ELSE t.value[i]
      BY <1>2, <2>9
    <2>11. ASSUME NEW i \in 0..(c - 1), e.key[i] \in Keys PROVE Slot(e.key, c, e.key[i]) = i
      <3>1. CASE i = s
        BY <2>8, <2>10, <3>1
      <3>2. CASE i # s
        <4>1. e.key[i] = t.key[i] /\ t.key[i] \in Keys
          BY <2>10, <2>11, <3>2
        <4>2. Slot(t.key, c, t.key[i]) = i
          BY <4>1 DEF Copied, Findable
        <4>3. Slot(e.key, c, t.key[i]) = Slot(t.key, c, t.key[i])
          BY <1>2, <1>3, <2>1, <2>4, <2>7, <4>1, <4>2, FoundAfterStore
        <4>4. QED
          BY <4>1, <4>2, <4>3
      <3>3. QED
        BY <3>1, <3>2
    <2>12. \A i \in 0..(c - 1) : e.key[i] # Freed
      BY <2>5, <2>10 DEF Copied
    <2>13. ASSUME NEW i \in 0..n, key[i] \in Keys
           PROVE  \E r \in 0..(c - 1) : e.key[r] = key[i] /\ e.value[r] = value[i]
      <3>1. CASE i = n
        BY <2>1, <2>10, <3>1
      <3>2. CASE i \in 0..(n - 1)
        <4>1. PICK r \in 0..(c - 1) : t.key[r] = key[i] /\ t.value[r] = value[i]
          BY <2>13, <3>2 DEF Copied
        <4>2. r # s
          BY <2>4, <2>13, <4>1, MapAssumption
        <4>3. QED
          BY <2>10, <4>1, <4>2
      <3>3. QED
        BY <1>5, <3>1, <3>2
    <2>14. ASSUME NEW r \in 0..(c - 1), e.key[r] \in Keys
           PROVE  \E i \in 0..n : key[i] = e.key[r]
      <3>1. CASE r = s
        BY <1>6, <2>10, <3>1
      <3>2. CASE r # s
        <4>1. e.key[r] = t.key[r]
          BY <2>10, <3>2
        <4>2. PICK i \in 0..(n - 1) : key[i] = t.key[r]
          BY <2>14, <4>1 DEF Copied
        <4>3. QED
          BY <1>6, <4>1, <4>2
      <3>3. QED
        BY <3>1, <3>2
    <2>15. QED
      BY <1>6, <2>11, <2>12, <2>13, <2>14 DEF Copied, Findable
  <1>10. QED
    BY <1>4, <1>7, <1>8, <1>9

\* The blank table is the first stage.
LEMMA BlankStage ==
    ASSUME TypeOK, NEW lost
    PROVE  Stage(Blank, 0, lost)
  <1>1. NewCapacity \in Nat /\ NewCapacity >= 4
    BY DEF TypeOK, NewCapacity
  <1>2. Blank.key = [i \in 0..(NewCapacity - 1) |-> NoKey]
        /\ Blank.value = [i \in 0..(NewCapacity - 1) |-> NoValue]
        /\ Blank.undefined = FALSE
        /\ Blank = [key |-> Blank.key, value |-> Blank.value, cap |-> NewCapacity,
                    undefined |-> Blank.undefined]
    BY DEF Blank, Empty
  <1>3. NoKey \notin Keys /\ NoKey # Freed
    BY MapAssumption
  <1>4. Sound(Blank.key, Blank.value, NewCapacity)
    BY <1>1, <1>2, <1>3 DEF Sound, KeyArray
  <1>5. NewTable(Blank)
    BY <1>2, <1>4 DEF NewTable
  <1>6. InUse(Blank.key, NewCapacity) = {} /\ InUse(key, 0) = {}
    BY <1>2 DEF InUse
  <1>7. NoMoreThan(Blank, 0)
    BY <1>6, FS_EmptySet DEF NoMoreThan
  <1>8. Copied(Blank, 0)
    BY <1>1, <1>2, <1>3 DEF Copied, Findable
  <1>9. QED
    BY <1>5, <1>7, <1>8 DEF Stage

\* Each slot of the old table leads from one stage to the next.
LEMMA EnterStage ==
    ASSUME TypeOK, ProbesEnd, NEW n \in 0..(capacity - 1), NEW lost, NEW t, Stage(t, n, lost)
    PROVE  Stage(Enter(t, n, NewCapacity, lost), n + 1, lost)
  <1> DEFINE e == Enter(t, n, NewCapacity, lost)
  <1>1. NewTable(t) /\ NoMoreThan(t, n)
    BY DEF Stage
  <1>2. NewTable(e) /\ NoMoreThan(e, n + 1)
    BY <1>1, EnterSound
  <1>3. ASSUME lost = {}, ~e.undefined, Findable(key, capacity) PROVE Copied(e, n + 1)
    <2>1. t.undefined => e = t
      BY DEF Enter
    <2>2. ~t.undefined
      BY <1>3, <2>1
    <2>3. Copied(t, n)
      BY <1>3, <2>2 DEF Stage
    <2>4. QED
      BY <1>1, <1>3, <2>2, <2>3, EnterCopies
  <1>4. QED
    BY <1>2, <1>3 DEF Stage

\* The expanded table is the last stage: it is sound, no more of its slots are
\* in use than before, and if nothing was lost, it holds what the old one held.
LEMMA ExpansionIsStage ==
    ASSUME TypeOK, ProbesEnd, NEW lost
    PROVE  Stage(Expansion(lost), capacity, lost)
  <1>1. capacity \in Nat
    BY DEF TypeOK
  <1>2. PICK f : /\ f[0] = Blank
                 /\ \A n \in 0..(capacity - 1) : f[n + 1] = Enter(f[n], n, NewCapacity, lost)
                 /\ Expansion(lost) = f[capacity]
    BY <1>1, ExpansionStages
  <1> DEFINE S == {n \in 0..capacity : ~Stage(f[n], n, lost)}
  <1>3. S = {}
    <2> SUFFICES ASSUME S # {} PROVE FALSE
      OBVIOUS
    <2>1. S \in SUBSET Nat
      BY <1>1
    <2>2. PICK n \in S : \A m \in S : n <= m
      BY <2>1, NatsHaveLeast
    <2>3. n \in 0..capacity /\ ~Stage(f[n], n, lost)
      BY <2>2
    <2>4. n # 0
      BY <1>2, <2>3, BlankStage
    <2>5. n - 1 \in 0..(capacity - 1) /\ n - 1 \in 0..capacity /\ ~(n <= n - 1)
          /\ (n - 1) + 1 = n
      BY <1>1, <2>3, <2>4
    <2>6. n - 1 \notin S
      BY <2>2, <2>5
    <2>7. Stage(f[n - 1], n - 1, lost)
      BY <2>5, <2>6
    <2>8. f[(n - 1) + 1] = Enter(f[n - 1], n - 1, NewCapacity, lost)
      BY <1>2, <2>5
    <2>9. Stage(f[(n - 1) + 1], (n - 1) + 1, lost)
      BY <2>5, <2>7, <2>8, EnterStage
    <2>10. QED
      BY <2>3, <2>5, <2>9
  <1>4. capacity \in 0..capacity
    BY <1>1
  <1> HIDE DEF S
  <1>5. Stage(f[capacity], capacity, lost)
    BY <1>3, <1>4 DEF S
  <1>6. QED
    BY <1>2, <1>5

-----------------------------------------------------------------------------
(* What a table maps to what, and how one slot changes it *)

\* What calls read: each key found, with the value of its slot.
MapOf(kk, vv, c) == [k \in {j \in Keys : kk[Slot(kk, c, j)] = j} |-> vv[Slot(kk, c, k)]]

\* A sound table, some slot of which is NULL, in which every key is found.
Regular(kk, vv, c) == Sound(kk, vv, c) /\ Cardinality(InUse(kk, c)) < c /\ Findable(kk, c)

\* In a regular table, a key is found when it is in some slot, and there.
LEMMA FoundWhereItIs ==
    ASSUME NEW kk, NEW vv, NEW c, Regular(kk, vv, c), NEW k \in Keys
    PROVE  /\ kk[Slot(kk, c, k)] = k <=> \E i \in 0..(c - 1) : kk[i] = k
           /\ \A i \in 0..(c - 1) : kk[i] = k => Slot(kk, c, k) = i
  <1>1. Slot(kk, c, k) \in 0..(c - 1)
    BY LoopEnds DEF Regular, Sound
  <1>2. \A i \in 0..(c - 1) : kk[i] = k => Slot(kk, c, k) = i
    BY DEF Regular, Findable
  <1>3. QED
    BY <1>1, <1>2

\* So what it maps to what can be read off its slots: which keys, and
LEMMA MapDomain ==
    ASSUME NEW kk, NEW vv, NEW c, Regular(kk, vv, c)
    PROVE  \A j : j \in DOMAIN MapOf(kk, vv, c) <=> j \in Keys /\ \E i \in 0..(c - 1) : kk[i] = j
  BY FoundWhereItIs DEF MapOf

\* the value of each.
LEMMA MapValue ==
    ASSUME NEW kk, NEW vv, NEW c, Regular(kk, vv, c), NEW i \in 0..(c - 1), kk[i] \in Keys
    PROVE  MapOf(kk, vv, c)[kk[i]] = vv[i]
  <1>1. Slot(kk, c, kk[i]) = i
    BY FoundWhereItIs
  <1>2. QED
    BY <1>1 DEF MapOf

\* And a function that agrees with the slots is what it maps.
LEMMA SlotsMakeMap ==
    ASSUME NEW kk, NEW vv, NEW c, Regular(kk, vv, c),
           NEW f, f = [k \in DOMAIN f |-> f[k]],
           \A j : j \in DOMAIN f <=> j \in Keys /\ \E i \in 0..(c - 1) : kk[i] = j,
           \A i \in 0..(c - 1) : kk[i] \in Keys => f[kk[i]] = vv[i]
    PROVE  f = MapOf(kk, vv, c)
  <1> DEFINE M == MapOf(kk, vv, c)
  <1>1. M = [k \in DOMAIN M |-> M[k]]
    BY DEF MapOf
  <1>2. (\A j : j \in DOMAIN M <=> j \in Keys /\ \E i \in 0..(c - 1) : kk[i] = j)
    BY MapDomain
  <1>3. ASSUME NEW i \in 0..(c - 1), kk[i] \in Keys PROVE M[kk[i]] = vv[i]
    BY <1>3, MapValue
  <1> HIDE DEF M
  <1>4. DOMAIN f = DOMAIN M
    BY <1>2
  <1>5. ASSUME NEW k \in DOMAIN f PROVE f[k] = M[k]
    <2>1. PICK i \in 0..(c - 1) : kk[i] = k /\ k \in Keys
      OBVIOUS
    <2>2. QED
      BY <1>3, <2>1
  <1>6. QED
    BY <1>1, <1>4, <1>5 DEF M

\* Storing a value under a key, as vf_hashmap_set does when its loop has ended at
\* the key or at a NULL, assigns to that key and to no other.
LEMMA StoreAssigns ==
    ASSUME NEW kk, NEW vv, NEW c, Regular(kk, vv, c), NEW k \in Keys, NEW v \in Values,
           NEW s, s = Slot(kk, c, k), kk[s] # Freed,
           Cardinality(InUse([kk EXCEPT ![s] = k], c)) < c
    PROVE  /\ Regular([kk EXCEPT ![s] = k], [vv EXCEPT ![s] = v], c)
           /\ MapOf([kk EXCEPT ![s] = k], [vv EXCEPT ![s] = v], c)
                = [j \in DOMAIN MapOf(kk, vv, c) \cup {k} |->
                      IF j = k THEN v ELSE MapOf(kk, vv, c)[j]]
  <1> DEFINE M == MapOf(kk, vv, c)
             nk == [kk EXCEPT ![s] = k]
             nv == [vv EXCEPT ![s] = v]
             f == [j \in DOMAIN M \cup {k} |-> IF j = k THEN v ELSE M[j]]
  <1>1. /\ KeyArray(kk, c) /\ kk \in [0..(c - 1) -> Keys \cup {NoKey, Freed}]
        /\ vv \in [0..(c - 1) -> Values \cup {NoValue}]
        /\ \A i \in 0..(c - 1) : kk[i] \in Keys <=> vv[i] # NoValue
    BY DEF Regular, Sound, KeyArray
  <1>2. Cardinality(InUse(kk, c)) < c /\ Findable(kk, c)
    BY DEF Regular
  <1>3. s \in 0..(c - 1) /\ kk[s] \in {NoKey, k}
    BY <1>1, <1>2, LoopEnds
  <1>4. \A i \in 0..(c - 1) : /\ nk[i] = IF i = s THEN k ELSE kk[i]
                              /\ nv[i] = IF i = s THEN v ELSE vv[i]
    BY <1>1
  <1>0. /\ nk \in [0..(c - 1) -> Keys \cup {NoKey, Freed}]
        /\ nv \in [0..(c - 1) -> Values \cup {NoValue}]
        /\ Cardinality(InUse(nk, c)) < c
    BY <1>1
  <1> HIDE DEF nk, nv
  <1>5. NoKey \notin Keys /\ NoValue \notin Values /\ k # NoKey
    BY MapAssumption
  <1>6. Sound(nk, nv, c)
    <2>1. \A i \in 0..(c - 1) : nk[i] \in Keys <=> nv[i] # NoValue
      BY <1>1, <1>4, <1>5
    <2>2. QED
      BY <1>0, <1>1, <2>1 DEF Sound, KeyArray
  <1>7. Findable(nk, c)
    <2>1. Slot(nk, c, k) = s
      <3>1. Changed(nk, kk, c, Slot(kk, c, k), k)
        BY <1>4 DEF Changed
      <3>2. QED
        BY <1>1, <1>2, <3>1, StoredIsFound
    <2>0. ASSUME NEW j \in Keys, kk[s] = NoKey, kk[Slot(kk, c, j)] = j
          PROVE  Slot(nk, c, j) = Slot(kk, c, j)
      <3>1. KeyArray(kk, c) /\ Cardinality(InUse(kk, c)) < c /\ s \in 0..(c - 1)
        BY <1>1, <1>2, <1>3
      <3>2. QED
        BY <1>4, <2>0, <3>1, FoundAfterStore DEF Changed
    <2>2. ASSUME NEW i \in 0..(c - 1), i # s, nk[i] \in Keys PROVE Slot(nk, c, nk[i]) = i
      <3>1. nk[i] = kk[i] /\ Slot(kk, c, kk[i]) = i
        BY <1>2, <1>4, <2>2 DEF Findable
      <3>2. CASE kk[s] = NoKey
        <4>1. Slot(nk, c, kk[i]) = Slot(kk, c, kk[i])
          BY <2>0, <2>2, <3>1, <3>2
        <4>2. QED
          BY <3>1, <4>1
      <3>3. CASE kk[s] = k
        <4>1. nk = kk
          BY <1>1, <1>3, <3>3 DEF nk
        <4>2. QED
          BY <3>1, <4>1
      <3>4. QED
        BY <1>3, <3>2, <3>3
    <2>3. QED
      BY <1>4, <2>1, <2>2 DEF Findable
  <1>8. Regular(nk, nv, c)
    BY <1>0, <1>6, <1>7 DEF Regular
  <1>9. (\A j : j \in DOMAIN M <=> j \in Keys /\ \E i \in 0..(c - 1) : kk[i] = j)
         /\ \A i \in 0..(c - 1) : kk[i] \in Keys => M[kk[i]] = vv[i]
    <2>1. \A j : j \in DOMAIN M <=> j \in Keys /\ \E i \in 0..(c - 1) : kk[i] = j
      BY MapDomain
    <2>2. ASSUME NEW i \in 0..(c - 1), kk[i] \in Keys PROVE M[kk[i]] = vv[i]
      BY <2>2, MapValue
    <2>3. QED
      BY <2>1, <2>2
  <1> HIDE DEF M
  <1>10. f = [j \in DOMAIN f |-> f[j]]
    OBVIOUS
  <1>11. \A j : j \in DOMAIN f <=> j \in Keys /\ \E i \in 0..(c - 1) : nk[i] = j
    BY <1>3, <1>4, <1>5, <1>9
  <1>12. ASSUME NEW i \in 0..(c - 1), nk[i] \in Keys PROVE f[nk[i]] = nv[i]
    <2>1. CASE i = s
      BY <1>4, <2>1
    <2>2. CASE i # s
      <3>1. nk[i] = kk[i] /\ nv[i] = vv[i] /\ Slot(kk, c, kk[i]) = i
        BY <1>2, <1>4, <1>12, <2>2 DEF Findable
      <3>2. nk[i] # k
        BY <2>2, <3>1
      <3>3. nk[i] \in DOMAIN M
        BY <1>9, <1>12, <3>1
      <3>4. QED
        BY <1>9, <1>12, <3>1, <3>2, <3>3
    <2>3. QED
      BY <2>1, <2>2
  <1> HIDE DEF f
  <1>13. f = MapOf(nk, nv, c)
    BY <1>8, <1>10, <1>11, <1>12, SlotsMakeMap
  <1>14. QED
    BY <1>8, <1>13 DEF f, M, nk, nv

\* A freed key left in a slot that was NULL changes nothing for other keys.
LEMMA MarkKeepsMap ==
    ASSUME NEW kk, NEW vv, NEW c, Regular(kk, vv, c), NEW s \in 0..(c - 1), kk[s] = NoKey,
           Cardinality(InUse([kk EXCEPT ![s] = Freed], c)) < c
    PROVE  /\ Regular([kk EXCEPT ![s] = Freed], vv, c)
           /\ MapOf([kk EXCEPT ![s] = Freed], vv, c) = MapOf(kk, vv, c)
  <1> DEFINE M == MapOf(kk, vv, c)
             nk == [kk EXCEPT ![s] = Freed]
  <1>1. /\ KeyArray(kk, c) /\ kk \in [0..(c - 1) -> Keys \cup {NoKey, Freed}]
        /\ vv \in [0..(c - 1) -> Values \cup {NoValue}]
        /\ \A i \in 0..(c - 1) : kk[i] \in Keys <=> vv[i] # NoValue
    BY DEF Regular, Sound, KeyArray
  <1>2. Cardinality(InUse(kk, c)) < c /\ Findable(kk, c)
    BY DEF Regular
  <1>3. \A i \in 0..(c - 1) : nk[i] = IF i = s THEN Freed ELSE kk[i]
    BY <1>1
  <1>0. nk \in [0..(c - 1) -> Keys \cup {NoKey, Freed}] /\ Cardinality(InUse(nk, c)) < c
    BY <1>1
  <1> HIDE DEF nk
  <1>4. NoKey \notin Keys /\ Freed \notin Keys
    BY MapAssumption
  <1>5. Sound(nk, vv, c)
    <2>1. \A i \in 0..(c - 1) : nk[i] \in Keys <=> vv[i] # NoValue
      BY <1>1, <1>3, <1>4
    <2>2. QED
      BY <1>0, <1>1, <2>1 DEF Sound, KeyArray
  <1>6. ASSUME NEW i \in 0..(c - 1), nk[i] \in Keys PROVE Slot(nk, c, nk[i]) = i
    <2>1. i # s /\ nk[i] = kk[i]
      BY <1>3, <1>4, <1>6
    <2>2. Slot(kk, c, kk[i]) = i
      BY <1>2, <1>6, <2>1 DEF Findable
    <2>3. Changed(nk, kk, c, s, Freed)
      BY <1>3 DEF Changed
    <2>4. kk[i] \in Keys /\ kk[Slot(kk, c, kk[i])] = kk[i]
      BY <1>6, <2>1, <2>2
    <2>5. ASSUME NEW j \in Keys, kk[Slot(kk, c, j)] = j PROVE Slot(nk, c, j) = Slot(kk, c, j)
      <3>1. KeyArray(kk, c) /\ Cardinality(InUse(kk, c)) < c
        BY <1>1, <1>2
      <3>2. QED
        BY <2>3, <2>5, <3>1, FoundAfterStore
    <2>6. QED
      BY <2>1, <2>2, <2>4, <2>5
  <1>7. Regular(nk, vv, c)
    BY <1>0, <1>5, <1>6 DEF Regular, Findable
  <1>8. (\A j : j \in DOMAIN M <=> j \in Keys /\ \E i \in 0..(c - 1) : kk[i] = j)
         /\ \A i \in 0..(c - 1) : kk[i] \in Keys => M[kk[i]] = vv[i]
    <2>1. \A j : j \in DOMAIN M <=> j \in Keys /\ \E i \in 0..(c - 1) : kk[i] = j
      BY MapDomain
    <2>2. ASSUME NEW i \in 0..(c - 1), kk[i] \in Keys PROVE M[kk[i]] = vv[i]
      BY <2>2, MapValue
    <2>3. QED
      BY <2>1, <2>2
  <1>9. M = [j \in DOMAIN M |-> M[j]]
    BY DEF MapOf
  <1> HIDE DEF M
  <1>10. \A j : j \in DOMAIN M <=> j \in Keys /\ \E i \in 0..(c - 1) : nk[i] = j
    BY <1>3, <1>4, <1>8
  <1>11. \A i \in 0..(c - 1) : nk[i] \in Keys => M[nk[i]] = vv[i]
    BY <1>3, <1>4, <1>8
  <1>12. M = MapOf(nk, vv, c)
    BY <1>7, <1>9, <1>10, <1>11, SlotsMakeMap
  <1>13. QED
    BY <1>7, <1>12 DEF M, nk

\* Clearing the slot of a key, when the next slot is NULL, deletes that key.
LEMMA RemovalDeletes ==
    ASSUME NEW kk, NEW vv, NEW c, Regular(kk, vv, c), NEW k \in Keys,
           NEW s, s = Slot(kk, c, k), kk[s] = k, kk[(s + 1) % c] = NoKey,
           Cardinality(InUse([kk EXCEPT ![s] = NoKey], c)) < c
    PROVE  /\ Regular([kk EXCEPT ![s] = NoKey], [vv EXCEPT ![s] = NoValue], c)
           /\ k \in DOMAIN MapOf(kk, vv, c)
           /\ MapOf([kk EXCEPT ![s] = NoKey], [vv EXCEPT ![s] = NoValue], c)
                = [j \in DOMAIN MapOf(kk, vv, c) \ {k} |-> MapOf(kk, vv, c)[j]]
  <1> DEFINE M == MapOf(kk, vv, c)
             nk == [kk EXCEPT ![s] = NoKey]
             nv == [vv EXCEPT ![s] = NoValue]
             f == [j \in DOMAIN M \ {k} |-> M[j]]
  <1>1. /\ KeyArray(kk, c) /\ kk \in [0..(c - 1) -> Keys \cup {NoKey, Freed}]
        /\ vv \in [0..(c - 1) -> Values \cup {NoValue}]
        /\ \A i \in 0..(c - 1) : kk[i] \in Keys <=> vv[i] # NoValue
    BY DEF Regular, Sound, KeyArray
  <1>2. Cardinality(InUse(kk, c)) < c /\ Findable(kk, c)
    BY DEF Regular
  <1>3. s \in 0..(c - 1)
    BY <1>1, <1>2, LoopEnds
  <1>4. \A i \in 0..(c - 1) : /\ nk[i] = IF i = s THEN NoKey ELSE kk[i]
                              /\ nv[i] = IF i = s THEN NoValue ELSE vv[i]
    BY <1>1
  <1>0. /\ nk \in [0..(c - 1) -> Keys \cup {NoKey, Freed}]
        /\ nv \in [0..(c - 1) -> Values \cup {NoValue}]
        /\ Cardinality(InUse(nk, c)) < c
    BY <1>1
  <1> HIDE DEF nk, nv
  <1>5. NoKey \notin Keys
    BY MapAssumption
  <1>6. Sound(nk, nv, c)
    <2>1. \A i \in 0..(c - 1) : nk[i] \in Keys <=> nv[i] # NoValue
      BY <1>1, <1>4, <1>5
    <2>2. QED
      BY <1>0, <1>1, <2>1 DEF Sound, KeyArray
  <1>7. ASSUME NEW i \in 0..(c - 1), nk[i] \in Keys
        PROVE  i # s /\ nk[i] = kk[i] /\ nk[i] # k /\ Slot(kk, c, kk[i]) = i
    <2>1. i # s /\ nk[i] = kk[i]
      BY <1>4, <1>5, <1>7
    <2>2. Slot(kk, c, kk[i]) = i
      BY <1>2, <1>7, <2>1 DEF Findable
    <2>3. QED
      BY <2>1, <2>2
  <1>8. ASSUME NEW i \in 0..(c - 1), nk[i] \in Keys PROVE Slot(nk, c, nk[i]) = i
    <2>1. i # s /\ nk[i] = kk[i] /\ Slot(kk, c, kk[i]) = i
      BY <1>7, <1>8
    <2>2. Changed(nk, kk, c, s, NoKey)
      BY <1>4 DEF Changed
    <2>3. kk[i] \in Keys /\ kk[Slot(kk, c, kk[i])] = kk[i] /\ Slot(kk, c, kk[i]) # s
      BY <1>8, <2>1
    <2>4. ASSUME NEW j \in Keys, kk[Slot(kk, c, j)] = j, Slot(kk, c, j) # s
          PROVE  Slot(nk, c, j) = Slot(kk, c, j)
      <3>1. KeyArray(kk, c) /\ Cardinality(InUse(kk, c)) < c
        BY <1>1, <1>2
      <3>2. QED
        BY <1>3, <2>2, <2>4, <3>1, FoundAfterRemoval
    <2>5. QED
      BY <2>1, <2>3, <2>4
  <1>9. Regular(nk, nv, c)
    BY <1>0, <1>6, <1>8 DEF Regular, Findable
  <1>10. (\A j : j \in DOMAIN M <=> j \in Keys /\ \E i \in 0..(c - 1) : kk[i] = j)
         /\ \A i \in 0..(c - 1) : kk[i] \in Keys => M[kk[i]] = vv[i]
    <2>1. \A j : j \in DOMAIN M <=> j \in Keys /\ \E i \in 0..(c - 1) : kk[i] = j
      BY MapDomain
    <2>2. ASSUME NEW i \in 0..(c - 1), kk[i] \in Keys PROVE M[kk[i]] = vv[i]
      BY <2>2, MapValue
    <2>3. QED
      BY <2>1, <2>2
  <1> HIDE DEF M
  <1>11. f = [j \in DOMAIN f |-> f[j]]
    OBVIOUS
  <1>12. \A j : j \in DOMAIN f <=> j \in Keys /\ \E i \in 0..(c - 1) : nk[i] = j
    <2>1. ASSUME NEW j \in DOMAIN f PROVE j \in Keys /\ \E i \in 0..(c - 1) : nk[i] = j
      <3>1. PICK i \in 0..(c - 1) : kk[i] = j
        BY <1>10
      <3>2. i # s
        BY <3>1
      <3>3. QED
        BY <1>4, <1>10, <3>1, <3>2
    <2>2. ASSUME NEW j \in Keys, NEW i \in 0..(c - 1), nk[i] = j PROVE j \in DOMAIN f
      BY <1>7, <1>10, <2>2
    <2>3. QED
      BY <2>1, <2>2
  <1>13. \A i \in 0..(c - 1) : nk[i] \in Keys => f[nk[i]] = nv[i]
    BY <1>4, <1>7, <1>10
  <1> HIDE DEF f
  <1>14. f = MapOf(nk, nv, c)
    BY <1>9, <1>11, <1>12, <1>13, SlotsMakeMap
  <1>15. k \in DOMAIN M
    BY <1>3, <1>10
  <1>16. QED
    BY <1>9, <1>14, <1>15 DEF f, M, nk, nv

-----------------------------------------------------------------------------
(* The inductive invariant *)

Inv == TypeOK /\ ProbesEnd /\ (~impaired => Findable(key, capacity))

\* The slots ProbesEnd counts.
LEMMA InUseByDomain ==
    ASSUME NEW kk, NEW c, KeyArray(kk, c)
    PROVE  {i \in DOMAIN kk : kk[i] # NoKey} = InUse(kk, c)
  BY DEF KeyArray, InUse

\* The invariant as a statement about the table.
LEMMA InvIsTable ==
    ASSUME Inv
    PROVE  /\ Sound(key, value, capacity)
           /\ Cardinality(InUse(key, capacity)) <= size /\ size < capacity
           /\ Cardinality(InUse(key, capacity)) < capacity
           /\ capacity \in Nat /\ capacity >= 4 /\ size \in Nat
           /\ ~impaired => Regular(key, value, capacity)
  <1>1. Sound(key, value, capacity) /\ KeyArray(key, capacity)
        /\ capacity \in Nat /\ capacity >= 4 /\ size \in Nat
    BY DEF Inv, TypeOK, Sound, KeyArray
  <1>2. Cardinality(InUse(key, capacity)) <= size /\ size < capacity
    BY <1>1, InUseByDomain DEF Inv, ProbesEnd
  <1>3. Cardinality(InUse(key, capacity)) \in Nat
    BY <1>1, InUseIsFinite
  <1>4. Cardinality(InUse(key, capacity)) < capacity
    BY <1>1, <1>2, <1>3
  <1>5. ~impaired => Regular(key, value, capacity)
    BY <1>1, <1>4 DEF Inv, Regular
  <1>6. QED
    BY <1>1, <1>2, <1>4, <1>5

\* And back, after a step.
LEMMA TableIsInv ==
    ASSUME Sound(key, value, capacity)', size' \in Nat,
           Cardinality(InUse(key', capacity')) <= size', size' < capacity',
           alive' \in BOOLEAN, undefined' \in BOOLEAN, impaired' \in BOOLEAN,
           failures' \in 0..MaxFailures,
           ~impaired' => Findable(key', capacity')
    PROVE  Inv'
  <1>1. KeyArray(key', capacity')
    BY DEF Sound
  <1>2. ProbesEnd'
    BY <1>1, InUseByDomain DEF ProbesEnd
  <1>3. TypeOK'
    BY DEF TypeOK, Sound, KeyArray
  <1>4. QED
    BY <1>2, <1>3 DEF Inv

\* A new map satisfies the invariant.
LEMMA InvInitially == Init => Inv
  <1> SUFFICES ASSUME Init PROVE Inv
    OBVIOUS
  <1>1. capacity \in Nat /\ capacity >= 4 /\ size = 0 /\ failures = 0
    BY MapAssumption DEF Init
  <1>2. key = [i \in 0..(capacity - 1) |-> NoKey] /\ value = [i \in 0..(capacity - 1) |-> NoValue]
    BY DEF Init, Empty
  <1>3. NoKey \notin Keys
    BY MapAssumption
  <1>4. TypeOK
    <2>1. \A i \in DOMAIN key : key[i] \in Keys <=> value[i] # NoValue
      BY <1>2, <1>3
    <2>2. failures \in 0..MaxFailures
      BY <1>1, MapAssumption
    <2>3. key \in [0..(capacity - 1) -> Keys \cup {NoKey, Freed}]
          /\ value \in [0..(capacity - 1) -> Values \cup {NoValue}]
      BY <1>2
    <2>4. alive \in BOOLEAN /\ undefined \in BOOLEAN /\ impaired \in BOOLEAN
      BY DEF Init
    <2>5. QED
      BY <1>1, <2>1, <2>2, <2>3, <2>4 DEF TypeOK
  <1>5. {i \in DOMAIN key : key[i] # NoKey} = {}
    BY <1>2
  <1>6. ProbesEnd
    BY <1>1, <1>5, FS_EmptySet DEF ProbesEnd
  <1>7. Findable(key, capacity)
    BY <1>2, <1>3 DEF Findable
  <1>8. QED
    BY <1>4, <1>6, <1>7 DEF Inv

-----------------------------------------------------------------------------
(* The table in which vf_hashmap_set looks for its key *)

\* A whole copy of a map is the same map.
LEMMA CopyIsSameMap ==
    ASSUME TypeOK, ProbesEnd, Regular(key, value, capacity), NEW t,
           Sound(t.key, t.value, NewCapacity),
           Cardinality(InUse(t.key, NewCapacity)) < NewCapacity, Copied(t, capacity)
    PROVE  /\ Regular(t.key, t.value, NewCapacity)
           /\ MapOf(t.key, t.value, NewCapacity) = MapOf(key, value, capacity)
  <1> DEFINE c == NewCapacity
             M == MapOf(key, value, capacity)
  <1>1. Regular(t.key, t.value, c)
    BY DEF Regular, Copied
  <1>2. \A j : j \in DOMAIN M <=> j \in Keys /\ \E i \in 0..(capacity - 1) : key[i] = j
    BY MapDomain
  <1>3. ASSUME NEW i \in 0..(capacity - 1), key[i] \in Keys PROVE M[key[i]] = value[i]
    BY <1>3, MapValue
  <1>4. M = [j \in DOMAIN M |-> M[j]]
    BY DEF MapOf
  <1> HIDE DEF M
  <1>5. \A i \in 0..(capacity - 1) : key[i] \in Keys =>
          \E s \in 0..(c - 1) : t.key[s] = key[i] /\ t.value[s] = value[i]
    BY DEF Copied
  <1>6. \A s \in 0..(c - 1) : t.key[s] \in Keys => \E i \in 0..(capacity - 1) : key[i] = t.key[s]
    BY DEF Copied
  <1>7. \A j : j \in DOMAIN M <=> j \in Keys /\ \E s \in 0..(c - 1) : t.key[s] = j
    BY <1>2, <1>5, <1>6
  <1>8. ASSUME NEW s \in 0..(c - 1), t.key[s] \in Keys PROVE M[t.key[s]] = t.value[s]
    <2>1. PICK i \in 0..(capacity - 1) : key[i] = t.key[s]
      BY <1>6, <1>8
    <2>2. PICK r \in 0..(c - 1) : t.key[r] = key[i] /\ t.value[r] = value[i]
      BY <1>5, <1>8, <2>1
    <2>3. Slot(t.key, c, t.key[s]) = s /\ Slot(t.key, c, t.key[r]) = r
      BY <1>8, <2>1, <2>2 DEF Copied, Findable
    <2>4. r = s
      BY <2>1, <2>2, <2>3
    <2>5. QED
      BY <1>3, <1>8, <2>1, <2>2, <2>4
  <1>9. M = MapOf(t.key, t.value, c)
    BY <1>1, <1>4, <1>7, <1>8, SlotsMakeMap
  <1>10. QED
    BY <1>1, <1>9 DEF M

\* The table that vf_hashmap_set looks in is sound, has room for one more key,
\* and is the same map as before, unless the expansion ran out of memory.
LEMMA BeforeTable ==
    ASSUME Inv, NEW lost
    PROVE  LET t == Before(lost)
           IN  /\ t.cap \in Nat /\ t.cap >= 4
               /\ Sound(t.key, t.value, t.cap)
               /\ Cardinality(InUse(t.key, t.cap)) <= size
               /\ Cardinality(InUse(t.key, t.cap)) \in Nat
               /\ size + 1 < t.cap
               /\ ~impaired /\ lost = {} /\ ~t.undefined =>
                     /\ Regular(t.key, t.value, t.cap)
                     /\ MapOf(t.key, t.value, t.cap) = MapOf(key, value, capacity)
  <1> DEFINE t == Before(lost)
  <1>1. /\ Sound(key, value, capacity)
        /\ Cardinality(InUse(key, capacity)) <= size /\ size < capacity
        /\ capacity \in Nat /\ capacity >= 4 /\ size \in Nat
        /\ ~impaired => Regular(key, value, capacity)
    BY InvIsTable
  <1>2. CASE ~AtLoad
    <2>1. t = [key |-> key, value |-> value, cap |-> capacity, undefined |-> FALSE]
      BY <1>2 DEF Before
    <2> HIDE DEF t
    <2>2. t.key = key /\ t.value = value /\ t.cap = capacity
      BY <2>1
    <2>3. size + 1 < capacity
      BY <1>1, <1>2 DEF AtLoad
    <2>4. Cardinality(InUse(key, capacity)) \in Nat
      BY <1>1, InUseIsFinite
    <2>5. QED
      BY <1>1, <2>2, <2>3, <2>4 DEF t
  <1>3. CASE AtLoad
    <2>1. t = Expansion(lost)
      BY <1>3 DEF Before
    <2>2. Stage(t, capacity, lost)
      BY <2>1, ExpansionIsStage DEF Inv
    <2> HIDE DEF t
    <2>3. NewTable(t) /\ NoMoreThan(t, capacity)
      BY <2>2 DEF Stage
    <2>4. t.cap = NewCapacity
      BY <2>3 DEF NewTable
    <2>5. Sound(t.key, t.value, NewCapacity)
      BY <2>3 DEF NewTable
    <2>6. NewCapacity \in Nat /\ NewCapacity >= 4 /\ size + 1 < NewCapacity
      BY <1>1 DEF NewCapacity
    <2> DEFINE u == Cardinality(InUse(t.key, NewCapacity))
               w == Cardinality(InUse(key, capacity))
    <2>7. u \in Nat /\ w \in Nat
      BY <1>1, <2>6, InUseIsFinite
    <2>8. u <= w
      BY <2>3 DEF NoMoreThan
    <2>9. u <= size /\ u < NewCapacity
      <3> HIDE DEF u
      <3>1. w <= size
        BY <1>1
      <3> HIDE DEF w
      <3>2. QED
        BY <1>1, <2>6, <2>7, <2>8, <3>1
    <2>10. ASSUME ~impaired, lost = {}, ~t.undefined
           PROVE  /\ Regular(t.key, t.value, NewCapacity)
                  /\ MapOf(t.key, t.value, NewCapacity) = MapOf(key, value, capacity)
      <3>1. Copied(t, capacity) /\ Regular(key, value, capacity)
        BY <1>1, <2>2, <2>10 DEF Stage, Inv
      <3>2. TypeOK /\ ProbesEnd
        BY DEF Inv
      <3>3. QED
        BY <2>5, <2>9, <3>1, <3>2, CopyIsSameMap
    <2>11. QED
      BY <2>4, <2>5, <2>6, <2>7, <2>9, <2>10 DEF t
  <1>4. QED
    BY <1>2, <1>3

-----------------------------------------------------------------------------
(* Steps *)

\* Failures that are left after the losses of an expansion, and one more.
LEMMA FailuresSpent ==
    ASSUME Inv, NEW lost \in Losses
    PROVE  /\ Cardinality(lost) \in Nat /\ failures \in Nat /\ MaxFailures \in Nat
           /\ failures + Cardinality(lost) <= MaxFailures
  <1>1. lost \in SUBSET DOMAIN key /\ Cardinality(lost) + failures <= MaxFailures
    BY DEF Losses
  <1>2. DOMAIN key = 0..(capacity - 1) /\ capacity \in Nat /\ failures \in Nat
    BY MapAssumption DEF Inv, TypeOK
  <1>3. IsFiniteSet(lost)
    <2>1. IsFiniteSet(0..(capacity - 1)) /\ lost \in SUBSET (0..(capacity - 1))
      BY <1>1, <1>2, FS_Interval
    <2>2. QED
      BY <2>1, FS_Subset
  <1>4. Cardinality(lost) \in Nat
    BY <1>3, FS_CardinalityType
  <1>5. QED
    BY <1>1, <1>2, <1>4, MapAssumption

\* Where vf_hashmap_set ends its loop: in a slot of the table it looks in, at the
\* key or at a NULL.
LEMMA SetFinds ==
    ASSUME Inv, NEW k \in Keys, NEW lost \in Losses, NEW s, Finds(k, Before(lost), s)
    PROVE  LET t == Before(lost)
           IN  /\ s = Slot(t.key, t.cap, k) /\ s \in 0..(t.cap - 1)
               /\ t.key[s] \in {NoKey, k}
               /\ ~t.undefined /\ capacity' = t.cap
               /\ UNCHANGED <<alive, undefined>>
  <1> DEFINE t == Before(lost)
  <1>1. s = Slot(t.key, t.cap, k) /\ t.key[s] # Freed /\ ~t.undefined /\ capacity' = t.cap
        /\ UNCHANGED <<alive, undefined>>
    BY DEF Finds
  <1>2. /\ t.cap \in Nat /\ t.cap >= 4
        /\ Sound(t.key, t.value, t.cap)
        /\ Cardinality(InUse(t.key, t.cap)) <= size
        /\ Cardinality(InUse(t.key, t.cap)) \in Nat
        /\ size + 1 < t.cap
    BY BeforeTable
  <1> HIDE DEF t
  <1>3. size \in Nat
    BY DEF Inv, TypeOK
  <1>4. Cardinality(InUse(t.key, t.cap)) < t.cap
    BY <1>2, <1>3
  <1>5. KeyArray(t.key, t.cap)
    BY <1>2 DEF Sound
  <1>6. s \in 0..(t.cap - 1) /\ t.key[s] \in {NoKey, k, Freed}
    BY <1>1, <1>4, <1>5, LoopEnds
  <1>7. QED
    BY <1>1, <1>6 DEF t

\* vf_hashmap_set that stores keeps the invariant, the value is found afterwards,
\* and until the map is impaired it assigns to its key and to no other.
LEMMA StoreStep ==
    ASSUME Inv, NEW k \in Keys, NEW v \in Values, NEW lost \in Losses, SetStores(k, v, lost)
    PROVE  /\ Inv'
           /\ vf_hashmap_get(k)' = v
           /\ ~impaired' => MapOf(key', value', capacity')
                  = [j \in DOMAIN MapOf(key, value, capacity) \cup {k} |->
                        IF j = k THEN v ELSE MapOf(key, value, capacity)[j]]
  <1> DEFINE t == Before(lost)
             s == Slot(t.key, t.cap, k)
             c == t.cap
             u == Cardinality(InUse(t.key, c))
  <1>1. /\ Finds(k, t, s)
        /\ key' = [t.key EXCEPT ![s] = k]
        /\ value' = [t.value EXCEPT ![s] = v]
        /\ size' = IF t.key[s] = k THEN size ELSE size + 1
        /\ Spend(0, lost)
    BY DEF SetStores
  <1>2. /\ s \in 0..(c - 1) /\ t.key[s] \in {NoKey, k} /\ ~t.undefined /\ capacity' = c
        /\ UNCHANGED <<alive, undefined>>
    BY <1>1, SetFinds
  <1>3. /\ c \in Nat /\ c >= 4
        /\ Sound(t.key, t.value, c)
        /\ u <= size /\ u \in Nat /\ size + 1 < c
        /\ ~impaired /\ lost = {} /\ ~t.undefined =>
              /\ Regular(t.key, t.value, c)
              /\ MapOf(t.key, t.value, c) = MapOf(key, value, capacity)
    BY BeforeTable
  <1> HIDE DEF t, c
  <1>4. size \in Nat /\ alive \in BOOLEAN /\ undefined \in BOOLEAN /\ impaired \in BOOLEAN
    BY DEF Inv, TypeOK
  <1>5. KeyArray(t.key, c) /\ t.key \in [0..(c - 1) -> Keys \cup {NoKey, Freed}]
        /\ t.value \in [0..(c - 1) -> Values \cup {NoValue}]
        /\ \A i \in 0..(c - 1) : t.key[i] \in Keys <=> t.value[i] # NoValue
    BY <1>3 DEF Sound, KeyArray
  <1>6. u < c
    BY <1>3, <1>4
  <1>7. k # NoKey /\ NoValue \notin Values /\ k # Freed
    BY MapAssumption
  <1>8. KeyArray(key', c) /\ Cardinality(InUse(key', c))
                               = IF t.key[s] = NoKey THEN u + 1 ELSE u
    <2> HIDE DEF s
    <2>1. KeyArray([t.key EXCEPT ![s] = k], c)
          /\ Cardinality(InUse([t.key EXCEPT ![s] = k], c))
               = IF t.key[s] = NoKey THEN u + 1 ELSE u
      BY <1>2, <1>5, <1>7, InUseAfter
    <2>2. QED
      BY <1>1, <2>1, Zenon
  <1>9. Cardinality(InUse(key', c)) <= size' /\ size' \in Nat /\ size' < c
        /\ Cardinality(InUse(key', c)) < c
    <2> HIDE DEF s, u
    <2>1. t.key[s] = NoKey <=> t.key[s] # k
      BY <1>2, <1>7
    <2>2. QED
      BY <1>1, <1>3, <1>4, <1>8, <2>1
  <1>10. \A i \in 0..(c - 1) : /\ key'[i] = IF i = s THEN k ELSE t.key[i]
                               /\ value'[i] = IF i = s THEN v ELSE t.value[i]
    BY <1>1, <1>5
  <1>11. Sound(key', value', c)
    <2> HIDE DEF s
    <2>1. \A i \in 0..(c - 1) : key'[i] \in Keys <=> value'[i] # NoValue
      BY <1>5, <1>7, <1>10
    <2>2. value' \in [0..(c - 1) -> Values \cup {NoValue}]
      BY <1>1, <1>5
    <2>3. QED
      BY <1>8, <2>1, <2>2 DEF Sound
  <1>12. vf_hashmap_get(k)' = v
    <2>1. Changed(key', t.key, c, Slot(t.key, c, k), k)
      BY <1>10 DEF Changed, c
    <2>2. Slot(key', c, k) = Slot(t.key, c, k)
      BY <1>5, <1>6, <2>1, StoredIsFound
    <2>3. Slot(key', capacity', k) = s
      BY <1>2, <2>2 DEF c
    <2> HIDE DEF s
    <2>4. key'[s] = k /\ value'[s] = v
      BY <1>2, <1>10
    <2>5. QED
      BY <2>3, <2>4 DEF vf_hashmap_get, vf_hashmap_has, Here
  <1>13. failures' \in 0..MaxFailures /\ impaired' = (impaired \/ lost # {})
    <2>1. failures' = failures + 0 + Cardinality(lost) /\ impaired' = (impaired \/ lost # {})
      BY <1>1 DEF Spend
    <2>2. QED
      BY <2>1, FailuresSpent
  <1>14. ASSUME ~impaired'
         PROVE  /\ Regular(key', value', c)
                /\ MapOf(key', value', c)
                     = [j \in DOMAIN MapOf(key, value, capacity) \cup {k} |->
                           IF j = k THEN v ELSE MapOf(key, value, capacity)[j]]
    <2>1. Regular(t.key, t.value, c) /\ MapOf(t.key, t.value, c) = MapOf(key, value, capacity)
      BY <1>2, <1>3, <1>13, <1>14
    <2>2. s = Slot(t.key, c, k) /\ t.key[s] # Freed
      BY <1>2, <1>7, MapAssumption DEF c
    <2>3. Cardinality(InUse([t.key EXCEPT ![s] = k], c)) < c
      BY <1>1, <1>9, Zenon
    <2> HIDE DEF s
    <2>4. /\ Regular([t.key EXCEPT ![s] = k], [t.value EXCEPT ![s] = v], c)
          /\ MapOf([t.key EXCEPT ![s] = k], [t.value EXCEPT ![s] = v], c)
               = [j \in DOMAIN MapOf(t.key, t.value, c) \cup {k} |->
                     IF j = k THEN v ELSE MapOf(t.key, t.value, c)[j]]
      BY <2>1, <2>2, <2>3, StoreAssigns
    <2>5. QED
      BY <1>1, <2>1, <2>4, Zenon
  <1>15. Inv'
    <2>1. Sound(key, value, capacity)'
      BY <1>2, <1>11
    <2>2. Cardinality(InUse(key', capacity')) <= size' /\ size' < capacity'
      BY <1>2, <1>9
    <2>3. alive' \in BOOLEAN /\ undefined' \in BOOLEAN /\ impaired' \in BOOLEAN
      BY <1>2, <1>4, <1>13
    <2>4. ~impaired' => Findable(key', capacity')
      BY <1>2, <1>14 DEF Regular
    <2>5. QED
      BY <1>9, <1>13, <2>1, <2>2, <2>3, <2>4, TableIsInv
  <1>16. QED
    BY <1>2, <1>12, <1>14, <1>15

\* strdup fails: the table may be a larger one, but the map is as it was.
LEMMA CopyKeyFailsStep ==
    ASSUME Inv, NEW k \in Keys, NEW lost \in Losses, SetCannotCopyKey(k, lost)
    PROVE  /\ Inv'
           /\ ~impaired' => MapOf(key', value', capacity') = MapOf(key, value, capacity)
           /\ UNCHANGED alive
  <1> DEFINE t == Before(lost)
             s == Slot(t.key, t.cap, k)
  <1>1. Finds(k, t, s) /\ key' = t.key /\ value' = t.value /\ size' = size /\ Spend(0, lost)
    BY DEF SetCannotCopyKey
  <1>2. ~t.undefined /\ capacity' = t.cap /\ UNCHANGED <<alive, undefined>>
    BY <1>1, SetFinds
  <1>3. /\ t.cap \in Nat /\ t.cap >= 4
        /\ Sound(t.key, t.value, t.cap)
        /\ Cardinality(InUse(t.key, t.cap)) <= size
        /\ size + 1 < t.cap
        /\ ~impaired /\ lost = {} /\ ~t.undefined =>
              /\ Regular(t.key, t.value, t.cap)
              /\ MapOf(t.key, t.value, t.cap) = MapOf(key, value, capacity)
    BY BeforeTable
  <1> HIDE DEF t, s
  <1>4. size \in Nat /\ alive \in BOOLEAN /\ undefined \in BOOLEAN /\ impaired \in BOOLEAN
    BY DEF Inv, TypeOK
  <1>5. failures' \in 0..MaxFailures /\ impaired' = (impaired \/ lost # {})
    <2>1. failures' = failures + 0 + Cardinality(lost) /\ impaired' = (impaired \/ lost # {})
      BY <1>1 DEF Spend
    <2>2. QED
      BY <2>1, FailuresSpent
  <1>6. ASSUME ~impaired'
        PROVE  /\ Regular(key', value', capacity')
               /\ MapOf(key', value', capacity') = MapOf(key, value, capacity)
    BY <1>1, <1>2, <1>3, <1>5, <1>6
  <1>7. Inv'
    <2>1. Sound(key, value, capacity)'
      BY <1>1, <1>2, <1>3
    <2>2. Cardinality(InUse(key', capacity')) <= size'
      BY <1>1, <1>2, <1>3
    <2>3. size' \in Nat /\ size' < capacity'
      BY <1>1, <1>2, <1>3, <1>4
    <2>4. alive' \in BOOLEAN /\ undefined' \in BOOLEAN /\ impaired' \in BOOLEAN
      BY <1>2, <1>4, <1>5
    <2>5. ~impaired' => Findable(key', capacity')
      BY <1>6 DEF Regular
    <2>6. QED
      BY <1>5, <2>1, <2>2, <2>3, <2>4, <2>5, TableIsInv
  <1>8. QED
    BY <1>2, <1>6, <1>7

\* The value's malloc fails: a freed key is left in a slot and counted, but every
\* key that was found is still found.
LEMMA CopyValueFailsStep ==
    ASSUME Inv, NEW k \in Keys, NEW lost \in Losses, SetCannotCopyValue(k, lost)
    PROVE  /\ Inv'
           /\ ~impaired' => MapOf(key', value', capacity') = MapOf(key, value, capacity)
           /\ UNCHANGED alive
  <1> DEFINE t == Before(lost)
             s == Slot(t.key, t.cap, k)
             c == t.cap
             u == Cardinality(InUse(t.key, c))
  <1>1. /\ Finds(k, t, s) /\ t.key[s] = NoKey
        /\ failures + Cardinality(lost) < MaxFailures
        /\ key' = [t.key EXCEPT ![s] = Freed] /\ value' = t.value
        /\ size' = size + 1
        /\ Spend(1, lost)
    BY DEF SetCannotCopyValue
  <1>2. s \in 0..(c - 1) /\ ~t.undefined /\ capacity' = c /\ UNCHANGED <<alive, undefined>>
    BY <1>1, SetFinds
  <1>3. /\ c \in Nat /\ c >= 4
        /\ Sound(t.key, t.value, c)
        /\ u <= size /\ u \in Nat /\ size + 1 < c
        /\ ~impaired /\ lost = {} /\ ~t.undefined =>
              /\ Regular(t.key, t.value, c)
              /\ MapOf(t.key, t.value, c) = MapOf(key, value, capacity)
    BY BeforeTable
  <1> HIDE DEF t, s, c
  <1>4. size \in Nat /\ alive \in BOOLEAN /\ undefined \in BOOLEAN /\ impaired \in BOOLEAN
    BY DEF Inv, TypeOK
  <1>5. KeyArray(t.key, c) /\ t.key \in [0..(c - 1) -> Keys \cup {NoKey, Freed}]
        /\ t.value \in [0..(c - 1) -> Values \cup {NoValue}]
        /\ \A i \in 0..(c - 1) : t.key[i] \in Keys <=> t.value[i] # NoValue
    BY <1>3 DEF Sound, KeyArray
  <1>6. NoKey # Freed /\ NoKey \notin Keys /\ Freed \notin Keys
    BY MapAssumption
  <1>7. KeyArray(key', c) /\ Cardinality(InUse(key', c)) = u + 1
    <2>1. KeyArray([t.key EXCEPT ![s] = Freed], c)
          /\ Cardinality(InUse([t.key EXCEPT ![s] = Freed], c)) = u + 1
      BY <1>1, <1>2, <1>5, <1>6, InUseAfter
    <2>2. QED
      BY <1>1, <2>1, Zenon
  <1>8. Cardinality(InUse(key', c)) <= size' /\ size' \in Nat /\ size' < c
        /\ Cardinality(InUse(key', c)) < c
    <2> HIDE DEF u
    <2>1. QED
      BY <1>1, <1>3, <1>4, <1>7
  <1>9. Sound(key', value', c)
    <2>1. \A i \in 0..(c - 1) : key'[i] = IF i = s THEN Freed ELSE t.key[i]
      BY <1>1, <1>5
    <2>2. \A i \in 0..(c - 1) : key'[i] \in Keys <=> value'[i] # NoValue
      BY <1>1, <1>2, <1>5, <1>6, <2>1
    <2>3. QED
      BY <1>1, <1>5, <1>7, <2>2 DEF Sound
  <1>10. failures' \in 0..MaxFailures /\ impaired' = (impaired \/ lost # {})
    <2>1. failures' = failures + 1 + Cardinality(lost) /\ impaired' = (impaired \/ lost # {})
      BY <1>1 DEF Spend
    <2>2. QED
      BY <1>1, <2>1, FailuresSpent
  <1>11. ASSUME ~impaired'
         PROVE  /\ Regular(key', value', c)
                /\ MapOf(key', value', c) = MapOf(key, value, capacity)
    <2>1. Regular(t.key, t.value, c) /\ MapOf(t.key, t.value, c) = MapOf(key, value, capacity)
      BY <1>2, <1>3, <1>10, <1>11
    <2>2. Cardinality(InUse([t.key EXCEPT ![s] = Freed], c)) < c
      BY <1>1, <1>8, Zenon
    <2>3. Regular([t.key EXCEPT ![s] = Freed], t.value, c)
          /\ MapOf([t.key EXCEPT ![s] = Freed], t.value, c) = MapOf(t.key, t.value, c)
      BY <1>1, <1>2, <2>1, <2>2, MarkKeepsMap
    <2>4. QED
      BY <1>1, <2>1, <2>3, Zenon
  <1>12. Inv'
    <2>1. Sound(key, value, capacity)'
      BY <1>2, <1>9
    <2>2. Cardinality(InUse(key', capacity')) <= size' /\ size' < capacity'
      BY <1>2, <1>8
    <2>3. alive' \in BOOLEAN /\ undefined' \in BOOLEAN /\ impaired' \in BOOLEAN
      BY <1>2, <1>4, <1>10
    <2>4. ~impaired' => Findable(key', capacity')
      BY <1>2, <1>11 DEF Regular
    <2>5. QED
      BY <1>8, <1>10, <2>1, <2>2, <2>3, <2>4, TableIsInv
  <1>13. QED
    BY <1>2, <1>11, <1>12

\* Removal keeps the invariant; until the map is impaired it deletes its key and
\* no other.
LEMMA RemoveStep ==
    ASSUME Inv, NEW k \in Keys, vf_hashmap_remove(k)
    PROVE  /\ Inv'
           /\ ~impaired' => /\ k \in DOMAIN MapOf(key, value, capacity)
                            /\ MapOf(key', value', capacity')
                                 = [j \in DOMAIN MapOf(key, value, capacity) \ {k} |->
                                       MapOf(key, value, capacity)[j]]
           /\ UNCHANGED alive
  <1> DEFINE s == Slot(key, capacity, k)
             u == Cardinality(InUse(key, capacity))
  <1>1. /\ key[s] = k
        /\ key' = [key EXCEPT ![s] = NoKey] /\ value' = [value EXCEPT ![s] = NoValue]
        /\ size' = size - 1
        /\ impaired' = (impaired \/ key[(s + 1) % capacity] # NoKey)
        /\ UNCHANGED <<capacity, alive, undefined, failures>>
    BY DEF vf_hashmap_remove, vf_hashmap_has, Here
  <1>2. /\ Sound(key, value, capacity)
        /\ u <= size /\ size < capacity /\ u < capacity
        /\ capacity \in Nat /\ capacity >= 4 /\ size \in Nat
        /\ ~impaired => Regular(key, value, capacity)
    BY InvIsTable
  <1>3. KeyArray(key, capacity) /\ key \in [0..(capacity - 1) -> Keys \cup {NoKey, Freed}]
        /\ value \in [0..(capacity - 1) -> Values \cup {NoValue}]
        /\ \A i \in 0..(capacity - 1) : key[i] \in Keys <=> value[i] # NoValue
    BY <1>2 DEF Sound, KeyArray
  <1>4. s \in 0..(capacity - 1)
    BY <1>2, <1>3, LoopEnds
  <1>5. k # NoKey /\ NoKey \notin Keys
    BY MapAssumption
  <1> HIDE DEF s
  <1>6. KeyArray(key', capacity) /\ Cardinality(InUse(key', capacity)) = u - 1 /\ u \in Nat
    <2>1. KeyArray([key EXCEPT ![s] = NoKey], capacity)
          /\ Cardinality(InUse([key EXCEPT ![s] = NoKey], capacity)) = u - 1 /\ u \in Nat
      <3>1. key[s] # NoKey /\ KeyArray(key, capacity) /\ NoKey \in Keys \cup {NoKey, Freed}
        BY <1>1, <1>3, <1>5
      <3>2. QED
        BY <1>4, <3>1, InUseAfter
    <2>2. QED
      BY <1>1, <2>1, Zenon
  <1>7. u >= 1
    <2>1. s \in InUse(key, capacity)
      BY <1>1, <1>4, <1>5 DEF InUse
    <2>2. u # 0
      BY <1>2, <2>1, InUseIsFinite, FS_EmptySet
    <2> HIDE DEF u
    <2>3. QED
      BY <1>6, <2>2
  <1>8. Cardinality(InUse(key', capacity)) <= size' /\ size' \in Nat /\ size' < capacity
        /\ Cardinality(InUse(key', capacity)) < capacity
    <2> HIDE DEF u
    <2>1. QED
      BY <1>1, <1>2, <1>6, <1>7
  <1>9. Sound(key', value', capacity)
    <2>1. \A i \in 0..(capacity - 1) : /\ key'[i] = IF i = s THEN NoKey ELSE key[i]
                                       /\ value'[i] = IF i = s THEN NoValue ELSE value[i]
      BY <1>1, <1>3
    <2>2. \A i \in 0..(capacity - 1) : key'[i] \in Keys <=> value'[i] # NoValue
      BY <1>3, <1>5, <2>1
    <2>3. value' \in [0..(capacity - 1) -> Values \cup {NoValue}]
      BY <1>1, <1>3
    <2>4. QED
      BY <1>6, <2>2, <2>3 DEF Sound
  <1>10. ASSUME ~impaired'
         PROVE  /\ Regular(key', value', capacity)
                /\ k \in DOMAIN MapOf(key, value, capacity)
                /\ MapOf(key', value', capacity)
                     = [j \in DOMAIN MapOf(key, value, capacity) \ {k} |->
                           MapOf(key, value, capacity)[j]]
    <2>1. Regular(key, value, capacity) /\ key[(s + 1) % capacity] = NoKey
      BY <1>1, <1>2, <1>10
    <2>2. Cardinality(InUse([key EXCEPT ![s] = NoKey], capacity)) < capacity
      BY <1>1, <1>8, Zenon
    <2>3. s = Slot(key, capacity, k)
      BY DEF s
    <2>4. /\ Regular([key EXCEPT ![s] = NoKey], [value EXCEPT ![s] = NoValue], capacity)
          /\ k \in DOMAIN MapOf(key, value, capacity)
          /\ MapOf([key EXCEPT ![s] = NoKey], [value EXCEPT ![s] = NoValue], capacity)
               = [j \in DOMAIN MapOf(key, value, capacity) \ {k} |->
                     MapOf(key, value, capacity)[j]]
      <3>1. key[s] = k
        BY <1>1
      <3>2. QED
        BY <2>1, <2>2, <2>3, <3>1, RemovalDeletes
    <2>5. QED
      BY <1>1, <2>4, Zenon
  <1>11. Inv'
    <2>1. Sound(key, value, capacity)'
      BY <1>1, <1>9
    <2>2. Cardinality(InUse(key', capacity')) <= size' /\ size' < capacity'
      BY <1>1, <1>8
    <2>3. alive' \in BOOLEAN /\ undefined' \in BOOLEAN /\ impaired' \in BOOLEAN
          /\ failures' \in 0..MaxFailures
      BY <1>1 DEF Inv, TypeOK
    <2>4. ~impaired' => Findable(key', capacity')
      BY <1>1, <1>10 DEF Regular
    <2>5. QED
      BY <1>8, <2>1, <2>2, <2>3, <2>4, TableIsInv
  <1>12. QED
    BY <1>1, <1>10, <1>11

\* The remaining steps leave the table alone.
LEMMA TableKept ==
    ASSUME Inv, UNCHANGED <<table, failures, impaired>>,
           alive' \in BOOLEAN, undefined' \in BOOLEAN
    PROVE  Inv'
  BY DEF Inv, TypeOK, ProbesEnd, Findable, table

\* The map that the dictionary is about.
LEMMA ContentsIsMap ==
    /\ Contents = MapOf(key, value, capacity)
    /\ Contents' = MapOf(key', value', capacity')
  BY DEF Contents, MapOf, vf_hashmap_has, vf_hashmap_get, Here

\* One call changes one key at most, or ends the map's life, until it is impaired.
Abstractly == ~impaired' => Dict!Next \/ UNCHANGED <<Contents, alive>>

\* Every step keeps the invariant and is one of the dictionary's.
LEMMA StepKept == Inv /\ Next => Inv' /\ Abstractly
  <1> SUFFICES ASSUME Inv, Next PROVE Inv' /\ Abstractly
    OBVIOUS
  <1> DEFINE M == MapOf(key, value, capacity)
             N == MapOf(key', value', capacity')
  <1>1. Contents = M /\ Contents' = N
    BY ContentsIsMap
  <1>2. alive \in BOOLEAN /\ undefined \in BOOLEAN
    BY DEF Inv, TypeOK
  <1>3. ASSUME UNCHANGED table PROVE N = M
    BY <1>3 DEF table
  <1> HIDE DEF M, N
  <1>4. ASSUME NEW k \in Keys, NEW lost \in Losses, NEW v \in Values, SetStores(k, v, lost)
        PROVE  Inv' /\ Abstractly
    <2>1. Inv' /\ (~impaired' => N = [j \in DOMAIN M \cup {k} |-> IF j = k THEN v ELSE M[j]])
      BY <1>4, StoreStep DEF M, N
    <2>2. alive /\ UNCHANGED alive
      BY <1>4 DEF SetStores, Finds, Usable
    <2>3. ~impaired' => Dict!Assign(k, v)
      BY <1>1, <2>1, <2>2 DEF Dict!Assign
    <2>4. QED
      BY <2>1, <2>3 DEF Abstractly, Dict!Next
  <1>5. ASSUME NEW k \in Keys, NEW lost \in Losses,
               SetCannotCopyKey(k, lost) \/ SetCannotCopyValue(k, lost)
        PROVE  Inv' /\ Abstractly
    <2>1. Inv' /\ (~impaired' => N = M) /\ UNCHANGED alive
      BY <1>5, CopyKeyFailsStep, CopyValueFailsStep DEF M, N
    <2>2. QED
      BY <1>1, <2>1 DEF Abstractly
  <1>6. ASSUME NEW k \in Keys, NEW lost \in Losses, SetReadsFreed(k, lost)
        PROVE  Inv' /\ Abstractly
    <2>1. undefined' = TRUE /\ UNCHANGED <<table, alive, failures, impaired>>
      BY <1>6 DEF SetReadsFreed
    <2>2. Inv'
      BY <1>2, <2>1, TableKept
    <2>3. QED
      BY <1>1, <1>3, <2>1, <2>2 DEF Abstractly
  <1>7. ASSUME NEW k \in Keys, vf_hashmap_remove(k) PROVE Inv' /\ Abstractly
    <2>1. Inv' /\ UNCHANGED alive
          /\ (~impaired' => k \in DOMAIN M /\ N = [j \in DOMAIN M \ {k} |-> M[j]])
      BY <1>7, RemoveStep DEF M, N
    <2>2. alive
      BY <1>7 DEF vf_hashmap_remove, Usable
    <2>3. ~impaired' => Dict!Delete(k)
      BY <1>1, <2>1, <2>2 DEF Dict!Delete
    <2>4. QED
      BY <2>1, <2>3 DEF Abstractly, Dict!Next
  <1>8. ASSUME NEW k \in Keys, LookupReadsFreed(k) PROVE Inv' /\ Abstractly
    <2>1. undefined' = TRUE /\ UNCHANGED <<table, alive, failures, impaired>>
      BY <1>8 DEF LookupReadsFreed
    <2>2. Inv'
      BY <1>2, <2>1, TableKept
    <2>3. QED
      BY <1>1, <1>3, <2>1, <2>2 DEF Abstractly
  <1>9. ASSUME vf_hashmap_free PROVE Inv' /\ Abstractly
    <2>1. alive /\ alive' = FALSE /\ UNCHANGED <<table, failures, impaired>>
          /\ undefined' \in BOOLEAN
      BY <1>9 DEF vf_hashmap_free, Usable
    <2>2. Inv'
      BY <2>1, TableKept
    <2>3. Dict!Close
      BY <1>1, <1>3, <2>1 DEF Dict!Close
    <2>4. QED
      BY <2>2, <2>3 DEF Abstractly, Dict!Next
  <1>10. QED
    BY <1>4, <1>5, <1>6, <1>7, <1>8, <1>9 DEF Next, vf_hashmap_set

\* The same for stuttering.
LEMMA InvKept == Inv /\ [Next]_vars => Inv' /\ [Abstractly]_vars
  <1>1. Inv /\ UNCHANGED vars => Inv'
    BY DEF Inv, TypeOK, ProbesEnd, Findable, vars, table
  <1>2. QED
    BY <1>1, StepKept

-----------------------------------------------------------------------------
(* Theorems *)

\* The inductive invariant holds in every reachable state.
THEOREM InvHolds == Spec => []Inv
  <1>1. Inv /\ [Next]_vars => Inv'
    BY InvKept
  <1>2. QED
    BY <1>1, InvInitially, PTL DEF Spec

\* The table keeps its types through sets, failed copies, removals and every
\* expansion, and a slot has a value exactly when its key can be read.
THEOREM TypeCorrect == Spec => []TypeOK
  <1>1. Inv => TypeOK
    BY DEF Inv
  <1>2. QED
    BY <1>1, InvHolds, PTL

\* The loops of vf_hashmap.h, which have no bound of their own, all end: some
\* slot is NULL at any time, in every table that an expansion makes too.
THEOREM ProbesCorrect == Spec => []ProbesEnd
  <1>1. Inv => ProbesEnd
    BY DEF Inv
  <1>2. QED
    BY <1>1, InvHolds, PTL

\* vf_hashmap_get reads what vf_hashmap_set stored last, whatever was removed or
\* lost before.
THEOREM SetIsReadBack == Spec => SetIsRead
  <1>1. Inv => [\A k \in Keys, v \in Values :
                   (\E lost \in Losses : SetStores(k, v, lost))
                       => vf_hashmap_get(k)' = v]_vars
    BY StoreStep
  <1>2. QED
    BY <1>1, InvHolds, PTL DEF SetIsRead

\* Each call is one of the dictionary's, or changes nothing it can see, until a
\* removal clears a slot in front of a used one or an expansion loses an entry.
THEOREM MapIsDictionary == Spec => DictionaryUntilImpaired
  <1>1. Init => Dict!Init
    <2> SUFFICES ASSUME Init PROVE Dict!Init
      OBVIOUS
    <2>1. Inv
      BY InvInitially
    <2>2. KeyArray(key, capacity) /\ Cardinality(InUse(key, capacity)) < capacity
      BY <2>1, InvIsTable DEF Sound
    <2>3. \A k \in Keys : ~vf_hashmap_has(k)
      <3> TAKE k \in Keys
      <3>1. Slot(key, capacity, k) \in 0..(capacity - 1)
        BY <2>2, LoopEnds
      <3>2. key[Slot(key, capacity, k)] = NoKey
        BY <3>1 DEF Init, Empty
      <3>3. QED
        BY <3>2, MapAssumption DEF vf_hashmap_has, Here
    <2>4. Contents = [k \in {} |-> vf_hashmap_get(k)]
      BY <2>3 DEF Contents
    <2>5. Contents = [k \in {} |-> k]
      BY <2>4
    <2>6. QED
      BY <2>5 DEF Dict!Init, Init
  <1>2. Inv /\ [Next]_vars => [~impaired' => Dict!Next \/ UNCHANGED <<Contents, alive>>]_vars
    BY InvKept DEF Abstractly
  <1>3. QED
    BY <1>1, <1>2, InvHolds, PTL DEF DictionaryUntilImpaired, Spec
=============================================================================
