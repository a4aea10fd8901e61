--------------------------- MODULE BinaryHeapProofs ---------------------------
(***************************************************************************)
(* Proofs about vf_binaryheap.h, for any items, priorities and capacities. *)
(***************************************************************************)
EXTENDS BinaryHeap, FiniteSetTheorems, WellFoundedInduction, TLAPS

Entries == [item : Items, priority : Priorities]

\* Heaps of n entries
Heaps(n) == [0..(n - 1) -> Entries]

-----------------------------------------------------------------------------
(* Numbers and the order of priorities *)

\* A set of numbers has a least one.
LEMMA NatsHaveLeast ==
    ASSUME NEW S \in SUBSET Nat, S # {}
    PROVE  \E m \in S : \A n \in S : m <= n
<1>. DEFINE R == {ss \in Nat \X Nat : ss[1] < ss[2]}
<1>1. IsWellFoundedOn(R, Nat)  BY NatLessThanWellFounded DEF OpToRel
<1>2. PICK m \in S : \A n \in S : <<n, m>> \notin R
  <2>. HIDE DEF R
  <2>. QED  BY <1>1, WFMin
<1>3. \A n \in S : ~(n < m)  BY <1>2
<1>. QED  BY <1>3

\* Min is the least number of a set.
LEMMA MinIsLeast ==
    ASSUME NEW S \in SUBSET Nat, S # {}
    PROVE  Min(S) \in S /\ \A k \in S : Min(S) <= k
<1>. DEFINE P(y) == \A k \in S : y <= k
            m == CHOOSE y \in S : P(y)
<1>1. Min(S) = m  BY DEF Min
<1>2. \E y \in S : P(y)  BY NatsHaveLeast
<1>3. m \in S /\ P(m)
  <2>. HIDE DEF P
  <2>. QED  BY <1>2
<1>. QED  BY <1>1, <1>3

\* Max is the greatest number of a set of numbers up to n.
LEMMA MaxIsGreatest ==
    ASSUME NEW n \in Nat, NEW S \in SUBSET (0..n), S # {}
    PROVE  Max(S) \in S /\ \A k \in S : k <= Max(S)
<1>. DEFINE gaps == {n - k : k \in S}
<1>1. gaps \in SUBSET Nat /\ gaps # {}  OBVIOUS
<1>2. PICK g \in gaps : \A m \in gaps : g <= m
  <2>. HIDE DEF gaps
  <2>. QED  BY <1>1, NatsHaveLeast
<1>3. \A m \in gaps : ~(m < g)  BY <1>1, <1>2
<1>4. PICK x \in S : g = n - x  BY <1>2
<1>5. \A k \in S : x >= k
  <2>. SUFFICES ASSUME NEW k \in S PROVE x >= k  OBVIOUS
  <2>1. n - k \in gaps  OBVIOUS
  <2>2. ~(n - k < n - x)  BY <2>1, <1>3, <1>4
  <2>3. k \in Nat /\ x \in Nat  BY <1>4
  <2>. QED  BY <2>2, <2>3
<1>. DEFINE P(y) == \A k \in S : y >= k
            m == CHOOSE y \in S : P(y)
<1>6. Max(S) = m  BY DEF Max
<1>7. \E y \in S : P(y)  BY <1>4, <1>5
<1>8. m \in S /\ P(m)
  <2>. HIDE DEF P
  <2>. QED  BY <1>7
<1>. QED  BY <1>6, <1>8

\* _compare orders priorities, as the heap's kind has it.
LEMMA CompareOrders ==
    ASSUME is_min_heap \in BOOLEAN, NEW a \in Priorities, NEW b \in Priorities,
           NEW c \in Priorities
    PROVE  /\ _compare(a, b) => ~_compare(b, a)
           /\ ~_compare(a, b) /\ ~_compare(b, c) => ~_compare(a, c)
           /\ ~_compare(a, a)
BY HeapAssumption DEF _compare

\* Where _parent and _left_child lead.
LEMMA ParentAndChildren ==
    ASSUME NEW k \in Nat
    PROVE  /\ k # 0 => _parent(k) \in Nat /\ _parent(k) < k
           /\ k # 0 => k = _left_child(_parent(k)) \/ k = _left_child(_parent(k)) + 1
           /\ _left_child(k) \in Nat /\ _left_child(k) > k
           /\ _parent(_left_child(k)) = k
           /\ _parent(_left_child(k) + 1) = k
           /\ \A n \in Nat : k < n \div 2 <=> _left_child(k) < n
BY DEF _parent, _left_child
-----------------------------------------------------------------------------
(* The way from a slot to the root *)

\* S is the way from slot i to the root: every slot on it is followed by its
\* parent, and every slot but i follows one of its children.
WayUp(S, i) ==
    /\ S \subseteq 0..i /\ i \in S /\ 0 \in S
    /\ \A k \in S : k # 0 => _parent(k) \in S
    /\ \A j, k \in S : j < k => j <= _parent(k)
    /\ \A k \in S : k # i => \E c \in S : c # 0 /\ _parent(c) = k

\* f maps each slot up to m to its way.
WaysUp(f, m) == f = [k \in 0..m |-> IF k = 0 THEN {0} ELSE {k} \cup f[_parent(k)]]

LEMMA OneMoreWayUp ==
    ASSUME NEW m \in Nat, m # 0, NEW g, WaysUp(g, m - 1)
    PROVE  \E f : WaysUp(f, m)
<1>. DEFINE f == [k \in 0..m |-> IF k = m THEN {m} \cup g[_parent(m)] ELSE g[k]]
<1>1. g = [k \in 0..(m - 1) |-> IF k = 0 THEN {0} ELSE {k} \cup g[_parent(k)]]
  BY DEF WaysUp
<1>2. ASSUME NEW k \in 0..m PROVE f[k] = IF k = 0 THEN {0} ELSE {k} \cup f[_parent(k)]
  <2>1. k # 0 => _parent(k) \in 0..(k - 1)  BY ParentAndChildren
  <2>2. CASE k = m
    <3>1. _parent(k) \in 0..m /\ _parent(k) # m /\ k # 0  BY <2>1, <2>2
    <3>2. f[_parent(k)] = g[_parent(k)]  BY <3>1
    <3>. QED  BY <2>2, <3>1, <3>2
  <2>3. CASE k # m /\ k = 0
    <3>1. k \in 0..(m - 1)  BY <2>3
    <3>. QED  BY <1>1, <2>3, <3>1
  <2>4. CASE k # m /\ k # 0
    <3>1. k \in 0..(m - 1) /\ _parent(k) \in 0..m /\ _parent(k) # m  BY <2>1, <2>4
    <3>2. f[k] = g[k] /\ f[_parent(k)] = g[_parent(k)]  BY <2>4, <3>1
    <3>3. g[k] = {k} \cup g[_parent(k)]  BY <1>1, <2>4, <3>1
    <3>. QED  BY <2>4, <3>2, <3>3
  <2>. QED  BY <2>2, <2>3, <2>4
<1>3. f = [k \in 0..m |-> f[k]]  OBVIOUS
<1>4. f = [k \in 0..m |-> IF k = 0 THEN {0} ELSE {k} \cup f[_parent(k)]]
  <2>. HIDE DEF f
  <2>. QED  BY <1>2, <1>3
<1>. HIDE DEF f
<1>. QED  BY <1>4 DEF WaysUp

\* The recursive function of Ancestors exists.
LEMMA WaysUpExist ==
    ASSUME NEW m \in Nat
    PROVE  \E f : WaysUp(f, m)
<1>. DEFINE S == {n \in Nat : ~ \E f : WaysUp(f, n)}
<1>1. S = {}
  <2>. SUFFICES ASSUME S # {} PROVE FALSE  OBVIOUS
  <2>1. PICK n \in S : \A k \in S : n <= k  BY NatsHaveLeast
  <2>2. n \in Nat /\ ~ \E f : WaysUp(f, n)  BY <2>1
  <2>3. CASE n = 0
    <3>1. WaysUp([k \in 0..0 |-> {0}], 0)  BY DEF WaysUp
    <3>. QED  BY <2>2, <2>3, <3>1
  <2>4. CASE n # 0
    <3>1. n - 1 \in Nat /\ ~(n <= n - 1)  BY <2>2, <2>4
    <3>2. n - 1 \notin S  BY <2>1, <3>1
    <3>3. PICK g : WaysUp(g, n - 1)  BY <3>1, <3>2
    <3>. QED  BY <2>2, <2>4, <3>3, OneMoreWayUp
  <2>. QED  BY <2>3, <2>4
<1>. QED  BY <1>1

\* A slot put before the way from its parent is the way from it.
LEMMA WayUpGrows ==
    ASSUME NEW k \in Nat, k # 0, NEW S, WayUp(S, _parent(k))
    PROVE  WayUp({k} \cup S, k)
<1>. DEFINE p == _parent(k)
            T == {k} \cup S
<1>1. p \in Nat /\ p < k  BY ParentAndChildren
<1>2. S \subseteq 0..p /\ p \in S /\ 0 \in S  BY DEF WayUp
<1>3. T \subseteq 0..k /\ k \in T /\ 0 \in T  BY <1>1, <1>2
<1>4. \A j \in T : j # 0 => _parent(j) \in T  BY <1>2 DEF WayUp
<1>5. \A i, j \in T : i < j => i <= _parent(j)
  <2>. SUFFICES ASSUME NEW i \in T, NEW j \in T, i < j PROVE i <= _parent(j)  OBVIOUS
  <2>1. CASE j = k
    <3>1. i \in S  BY <2>1, <1>1
    <3>. QED  BY <2>1, <3>1, <1>2, <1>1
  <2>2. CASE j # k
    <3>1. j \in S /\ i \in S  BY <2>2, <1>1, <1>2
    <3>. QED  BY <3>1 DEF WayUp
  <2>. QED  BY <2>1, <2>2
<1>6. \A j \in T : j # k => \E c \in T : c # 0 /\ _parent(c) = j
  <2>. SUFFICES ASSUME NEW j \in T, j # k PROVE \E c \in T : c # 0 /\ _parent(c) = j
    OBVIOUS
  <2>1. CASE j = p  BY <2>1
  <2>2. CASE j # p
    <3>1. \E c \in S : c # 0 /\ _parent(c) = j  BY <2>2 DEF WayUp
    <3>. QED  BY <3>1
  <2>. QED  BY <2>1, <2>2
<1>. QED  BY <1>3, <1>4, <1>5, <1>6 DEF WayUp

\* Ancestors is the way from a slot to the root.
LEMMA AncestorsIsWayUp ==
    ASSUME NEW i \in Nat
    PROVE  WayUp(Ancestors(i), i)
<1>. DEFINE F(f) == WaysUp(f, i)
            f == CHOOSE g : F(g)
            S == {k \in 0..i : ~WayUp(f[k], k)}
<1>1. WaysUp(f, i)  BY WaysUpExist
<1>2. Ancestors(i) = f[i]  BY DEF Ancestors, WaysUp
<1>. HIDE DEF f
<1>3. f = [k \in 0..i |-> IF k = 0 THEN {0} ELSE {k} \cup f[_parent(k)]]
  BY <1>1 DEF WaysUp
<1>4. S = {}
  <2>. SUFFICES ASSUME S # {} PROVE FALSE  OBVIOUS
  <2>0. S \in SUBSET Nat  OBVIOUS
  <2>1. PICK k \in S : \A j \in S : k <= j
    <3>. HIDE DEF S
    <3>. QED  BY <2>0, NatsHaveLeast
  <2>2. k \in 0..i /\ ~WayUp(f[k], k)  BY <2>1
  <2>3. CASE k = 0
    <3>1. f[k] = {0}  BY <1>3, <2>2, <2>3
    <3>2. WayUp({0}, 0)  BY DEF WayUp
    <3>. QED  BY <2>2, <2>3, <3>1, <3>2
  <2>4. CASE k # 0
    <3>1. _parent(k) \in 0..i /\ ~(k <= _parent(k)) /\ k \in Nat
      BY <2>2, <2>4, ParentAndChildren
    <3>2. WayUp(f[_parent(k)], _parent(k))
      <4>1. _parent(k) \notin S  BY <2>1, <3>1
      <4>. QED  BY <3>1, <4>1
    <3>3. f[k] = {k} \cup f[_parent(k)]  BY <1>3, <2>2, <2>4
    <3>. QED  BY <2>2, <2>4, <3>1, <3>2, <3>3, WayUpGrows
  <2>. QED  BY <2>3, <2>4
<1>5. WayUp(f[i], i)
  <2>1. i \in 0..i  OBVIOUS
  <2>. QED  BY <1>4, <2>1
<1>. QED  BY <1>2, <1>5
-----------------------------------------------------------------------------
(* Sifting up *)

\* The entry in slot k need not go above the one in slot j.
Below(h, j, k) == ~_compare(h[j].priority, h[k].priority)

\* Every entry may stay below its parent.
InHeapOrder(h, n) == \A k \in 1..(n - 1) : Below(h, _parent(k), k)

\* Every entry may, but for the one in slot i, which may have to go up.
MayGoUp(h, n, i) ==
    /\ \A k \in 1..(n - 1) : k # i => Below(h, _parent(k), k)
    /\ i # 0 => \A k \in 1..(n - 1) : _parent(k) = i => Below(h, _parent(i), k)

LEMMA BelowIsOrder ==
    ASSUME is_min_heap \in BOOLEAN, NEW n \in Nat, NEW h \in Heaps(n),
           NEW a \in 0..(n - 1), NEW b \in 0..(n - 1), NEW c \in 0..(n - 1)
    PROVE  /\ ~Below(h, a, b) => Below(h, b, a)
           /\ Below(h, a, b) /\ Below(h, b, c) => Below(h, a, c)
<1>1. \A e \in Entries : e.priority \in Priorities  BY DEF Entries
<1>2. h[a] \in Entries /\ h[b] \in Entries /\ h[c] \in Entries  BY DEF Heaps
<1>. QED  BY <1>1, <1>2, CompareOrders DEF Below

\* Where the entry in slot i comes to rest on its way up.
LEMMA UpToRests ==
    ASSUME NEW i \in Nat, NEW h
    PROVE  /\ UpTo(h, i) \in Ancestors(i) /\ UpTo(h, i) \in 0..i
           /\ UpTo(h, i) # 0 => Below(h, _parent(UpTo(h, i)), i)
           /\ \A k \in Ancestors(i) : k > UpTo(h, i) => k # 0 /\ ~Below(h, _parent(k), i)
<1>. DEFINE A == Ancestors(i)
            S == {k \in A : k = 0 \/ ~_compare(h[_parent(k)].priority, h[i].priority)}
            r == UpTo(h, i)
<1>1. A \subseteq 0..i /\ 0 \in A  BY AncestorsIsWayUp DEF WayUp
<1>2. S \in SUBSET (0..i) /\ S # {}  BY <1>1
<1>3. r = Max(S)  BY DEF UpTo
<1>4. r \in S /\ \A k \in S : k <= r
  <2>. HIDE DEF S, r
  <2>. QED  BY <1>2, <1>3, MaxIsGreatest
<1>. HIDE DEF r
<1>5. r \in A /\ r \in 0..i  BY <1>1, <1>4
<1>6. r # 0 => Below(h, _parent(r), i)  BY <1>4 DEF Below
<1>7. ASSUME NEW k \in A, k > r PROVE k # 0 /\ ~Below(h, _parent(k), i)
  <2>1. k \in 0..i /\ r \in 0..i  BY <1>1, <1>5
  <2>2. k \notin S  BY <1>4, <1>7, <2>1
  <2>. QED  BY <2>2, <1>7 DEF Below
<1>. QED  BY <1>5, <1>6, <1>7 DEF r

\* _sift_up moves the entries on the way one place down, and nothing else.
LEMMA SiftUpDoes ==
    ASSUME NEW n \in Nat, NEW i \in 0..(n - 1), NEW h \in Heaps(n)
    PROVE  LET g == _sift_up(h, i)
               r == UpTo(h, i)
           IN  /\ g \in Heaps(n)
               /\ g[r] = h[i]
               /\ \A k \in Ancestors(i) : k > r => k \in 1..(n - 1) /\ g[k] = h[_parent(k)]
               /\ \A k \in 0..(n - 1) : k # r /\ (k \notin Ancestors(i) \/ k < r) => g[k] = h[k]
<1>. DEFINE g == _sift_up(h, i)
            r == UpTo(h, i)
            A == Ancestors(i)
<1>1. DOMAIN h = 0..(n - 1)  BY DEF Heaps
<1>2. g = [k \in 0..(n - 1) |-> IF k = r THEN h[i]
                                ELSE IF k \in A /\ k > r THEN h[_parent(k)] ELSE h[k]]
  BY <1>1 DEF _sift_up
<1>3. A \subseteq 0..i /\ r \in 0..i  BY AncestorsIsWayUp, UpToRests DEF WayUp
<1>. HIDE DEF g, r, A
<1>4. r \in 0..(n - 1)  BY <1>3
<1>5. \A k \in A : k > r => k \in 1..(n - 1) /\ _parent(k) \in 0..(n - 1)
  BY <1>3, ParentAndChildren
<1>6. \A k \in 0..(n - 1) : h[k] \in Entries  BY DEF Heaps
<1>7. ASSUME NEW k \in 0..(n - 1) PROVE g[k] \in Entries
  <2>1. g[k] = IF k = r THEN h[i] ELSE IF k \in A /\ k > r THEN h[_parent(k)] ELSE h[k]
    BY <1>2
  <2>. QED  BY <2>1, <1>5, <1>6
<1>8. g \in Heaps(n)  BY <1>2, <1>7 DEF Heaps
<1>9. g[r] = h[i]  BY <1>2, <1>4
<1>10. \A k \in A : k > r => k \in 1..(n - 1) /\ g[k] = h[_parent(k)]
  <2>1. \A k \in A : k > r => k \in 0..(n - 1) /\ k # r  BY <1>3, <1>5
  <2>. QED  BY <2>1, <1>2, <1>5
<1>11. \A k \in 0..(n - 1) : k # r /\ (k \notin A \/ k < r) => g[k] = h[k]
  <2>1. \A k \in 0..(n - 1) : k < r => ~(k > r)  BY <1>4
  <2>. QED  BY <2>1, <1>2
<1>. QED  BY <1>8, <1>9, <1>10, <1>11 DEF g, r, A

\* Afterwards all entries are in order.
LEMMA SiftUpOrders ==
    ASSUME is_min_heap \in BOOLEAN, NEW n \in Nat, NEW i \in 0..(n - 1),
           NEW h \in Heaps(n), MayGoUp(h, n, i)
    PROVE  InHeapOrder(_sift_up(h, i), n)
<1>. DEFINE g == _sift_up(h, i)
            r == UpTo(h, i)
            A == Ancestors(i)
<1>1. WayUp(A, i)  BY AncestorsIsWayUp
<1>2. /\ r \in A /\ r \in 0..i
      /\ r # 0 => Below(h, _parent(r), i)
      /\ \A k \in A : k > r => k # 0 /\ ~Below(h, _parent(k), i)
  BY UpToRests
<1>3. /\ g[r] = h[i]
      /\ \A k \in A : k > r => k \in 1..(n - 1) /\ g[k] = h[_parent(k)]
      /\ \A k \in 0..(n - 1) : k # r /\ (k \notin A \/ k < r) => g[k] = h[k]
  BY SiftUpDoes
<1>. HIDE DEF g, r, A
<1>4. /\ A \subseteq 0..i
      /\ \A k \in A : k # 0 => _parent(k) \in A
      /\ \A j, k \in A : j < k => j <= _parent(k)
      /\ \A k \in A : k # i => \E c \in A : c # 0 /\ _parent(c) = k
  BY <1>1 DEF WayUp
<1>5. \A k \in 1..(n - 1) : _parent(k) \in 0..(n - 1) /\ _parent(k) < k /\ k \in 0..(n - 1)
  BY ParentAndChildren
<1>6. \A a, b \in 0..(n - 1) : ~Below(h, a, b) => Below(h, b, a)
  BY BelowIsOrder
<1>7. \A a, b, c \in 0..(n - 1) : Below(h, a, b) /\ Below(h, b, c) => Below(h, a, c)
  BY BelowIsOrder
<1>8. \A k \in 1..(n - 1) : k # i => Below(h, _parent(k), k)  BY DEF MayGoUp
<1>9. \A k \in 1..(n - 1) : i # 0 /\ _parent(k) = i => Below(h, _parent(i), k)
  BY DEF MayGoUp
<1>10. \A j, k, a, b \in 0..(n - 1) : g[j] = h[a] /\ g[k] = h[b] /\ Below(h, a, b) => Below(g, j, k)
  BY DEF Below
<1>11. \A k \in A : k \in 0..(n - 1)  BY <1>4
<1>. SUFFICES ASSUME NEW k \in 1..(n - 1) PROVE Below(g, _parent(k), k)
  BY DEF InHeapOrder, g
<1>. DEFINE p == _parent(k)
<1>12. p \in 0..(n - 1) /\ p < k /\ k \in 0..(n - 1) /\ k # 0  BY <1>5
<1>. HIDE DEF p
<1>13. CASE k \in A /\ k > r
  <2>1. g[k] = h[p]  BY <1>3, <1>13 DEF p
  <2>2. p \in A /\ r <= p  BY <1>2, <1>4, <1>12, <1>13 DEF p
  <2>3. CASE p = r
    <3>1. ~Below(h, p, i)  BY <1>2, <1>13 DEF p
    <3>2. Below(h, i, p)  BY <3>1, <1>6, <1>12
    <3>. QED  BY <2>1, <2>3, <3>2, <1>3, <1>10, <1>12 DEF p
  <2>4. CASE p # r
    <3>1. p > r /\ p # i /\ p # 0  BY <2>2, <2>4, <1>2, <1>4, <1>12, <1>13
    <3>2. g[p] = h[_parent(p)] /\ p \in 1..(n - 1)  BY <3>1, <2>2, <1>3
    <3>3. Below(h, _parent(p), p) /\ _parent(p) \in 0..(n - 1)  BY <3>1, <3>2, <1>5, <1>8
    <3>. QED  BY <2>1, <3>2, <3>3, <1>10, <1>12 DEF p
  <2>. QED  BY <2>3, <2>4
<1>14. CASE k = r
  <2>1. g[k] = h[i]  BY <1>3, <1>14
  <2>2. g[p] = h[p]  BY <1>3, <1>12, <1>14
  <2>3. Below(h, p, i)  BY <1>2, <1>12, <1>14 DEF p
  <2>. QED  BY <2>1, <2>2, <2>3, <1>10, <1>12 DEF p
<1>15. CASE k # r /\ k \in A /\ k < r
  <2>1. g[k] = h[k]  BY <1>3, <1>12, <1>15
  <2>2. g[p] = h[p]  BY <1>3, <1>2, <1>12, <1>15
  <2>3. k # i  BY <1>2, <1>15
  <2>4. Below(h, p, k)  BY <2>3, <1>8 DEF p
  <2>. QED  BY <2>1, <2>2, <2>4, <1>10, <1>12 DEF p
<1>16. CASE k \notin A
  <2>1. g[k] = h[k]  BY <1>2, <1>3, <1>12, <1>16
  <2>2. k # i  BY <1>1, <1>16 DEF WayUp
  <2>3. Below(h, p, k)  BY <2>2, <1>8 DEF p
  <2>4. CASE p \notin A \/ p < r
    <3>1. g[p] = h[p]  BY <2>4, <1>2, <1>3, <1>12
    <3>. QED  BY <2>1, <2>3, <3>1, <1>10, <1>12 DEF p
  <2>5. CASE p = r
    <3>1. g[p] = h[i]  BY <2>5, <1>3
    <3>2. Below(h, i, k)
      <4>1. CASE r = i  BY <4>1, <2>3, <2>5
      <4>2. CASE r # i
        <5>1. PICK c \in A : c # 0 /\ _parent(c) = r  BY <4>2, <1>2, <1>4
        <5>2. c > r  BY <5>1, <1>4, <1>5, <1>11
        <5>3. ~Below(h, r, i)  BY <5>1, <5>2, <1>2
        <5>4. Below(h, i, r)  BY <5>3, <1>6, <1>12, <2>5
        <5>. QED  BY <5>4, <2>3, <2>5, <1>7, <1>12
      <4>. QED  BY <4>1, <4>2
    <3>. QED  BY <2>1, <3>1, <3>2, <1>10, <1>12 DEF p
  <2>6. CASE p \in A /\ p > r
    <3>1. g[p] = h[_parent(p)] /\ p \in 1..(n - 1)  BY <2>6, <1>3
    <3>2. _parent(p) \in 0..(n - 1) /\ p # 0  BY <3>1, <1>5
    <3>3. Below(h, _parent(p), k)
      <4>1. CASE p = i  BY <4>1, <3>2, <1>9 DEF p
      <4>2. CASE p # i
        <5>1. Below(h, _parent(p), p)  BY <4>2, <3>1, <1>8
        <5>. QED  BY <5>1, <2>3, <3>2, <1>7, <1>12
      <4>. QED  BY <4>1, <4>2
    <3>. QED  BY <2>1, <3>1, <3>2, <3>3, <1>10, <1>12 DEF p
  <2>. QED  BY <2>4, <2>5, <2>6, <1>2, <1>12
<1>. QED  BY <1>2, <1>12, <1>13, <1>14, <1>15, <1>16
-----------------------------------------------------------------------------
(* The way down along upper children *)

\* The child that would move up exists, and none of the two goes above it.
LEMMA UpperChildIsUpper ==
    ASSUME is_min_heap \in BOOLEAN, NEW n \in Nat, NEW h \in Heaps(n),
           NEW k \in Nat, k < n \div 2
    PROVE  /\ UpperChild(h, n, k) \in 1..(n - 1) /\ UpperChild(h, n, k) > k
           /\ _parent(UpperChild(h, n, k)) = k
           /\ \A c \in 1..(n - 1) : _parent(c) = k => Below(h, UpperChild(h, n, k), c)
<1>. DEFINE left == _left_child(k)
            u == UpperChild(h, n, k)
<1>1. /\ left \in Nat /\ left > k /\ left < n
      /\ _parent(left) = k /\ _parent(left + 1) = k
  BY ParentAndChildren
<1>2. u = IF left + 1 < n /\ _compare(h[left].priority, h[left + 1].priority)
          THEN left + 1 ELSE left
  BY DEF UpperChild
<1>3. \A c \in 1..(n - 1) : _parent(c) = k => c = left \/ c = left + 1
  BY ParentAndChildren
<1>. HIDE DEF left, u
<1>4. u \in 1..(n - 1) /\ u > k /\ _parent(u) = k  BY <1>1, <1>2
<1>5. ASSUME NEW c \in 1..(n - 1), _parent(c) = k PROVE Below(h, u, c)
  <2>1. c \in 0..(n - 1) /\ left \in 0..(n - 1)  BY <1>1
  <2>2. Below(h, c, c)  BY <2>1, BelowIsOrder
  <2>3. CASE c = u  BY <2>2, <2>3
  <2>4. CASE c # u /\ u = left
    <3>1. c = left + 1 /\ left + 1 < n  BY <2>4, <1>3, <1>5
    <3>2. ~_compare(h[left].priority, h[left + 1].priority)  BY <3>1, <2>4, <1>1, <1>2
    <3>. QED  BY <3>1, <3>2, <2>4 DEF Below
  <2>5. CASE c # u /\ u = left + 1
    <3>1. c = left /\ left + 1 \in 0..(n - 1)  BY <2>5, <1>3, <1>5, <1>4
    <3>2. ~Below(h, left, left + 1)  BY <2>5, <1>1, <1>2 DEF Below
    <3>3. Below(h, left + 1, left)  BY <3>1, <3>2, <2>1, BelowIsOrder
    <3>. QED  BY <3>1, <3>3, <2>5
  <2>. QED  BY <2>3, <2>4, <2>5, <1>2
<1>. QED  BY <1>4, <1>5 DEF u

\* S is the way from slot i down: every slot on it that has children is followed
\* by the upper one, and every slot but i follows its parent.
WayDown(S, i, h, n) ==
    /\ S \subseteq i..(n - 1) /\ i \in S
    /\ \A k \in S : k < n \div 2 => UpperChild(h, n, k) \in S
    /\ \A j, k \in S : j < k => j < n \div 2 /\ UpperChild(h, n, j) <= k
    /\ \A k \in S : k # i => \E p \in S : p < n \div 2 /\ UpperChild(h, n, p) = k
    /\ \E k \in S : k >= n \div 2

\* f maps each slot from m to its way.
WaysDown(f, m, h, n) ==
    f = [k \in m..(n - 1) |-> IF k < n \div 2 THEN {k} \cup f[UpperChild(h, n, k)] ELSE {k}]

LEMMA OneMoreWayDown ==
    ASSUME is_min_heap \in BOOLEAN, NEW n \in Nat, NEW h \in Heaps(n),
           NEW m \in 0..(n - 1), NEW g, WaysDown(g, m + 1, h, n)
    PROVE  \E f : WaysDown(f, m, h, n)
<1>. DEFINE U(k) == UpperChild(h, n, k)
            half == n \div 2
            E(k, s) == IF k < half THEN {k} \cup s ELSE {k}
            f == [k \in m..(n - 1) |-> IF k = m THEN E(m, g[U(m)]) ELSE g[k]]
<1>1. g = [k \in (m + 1)..(n - 1) |-> E(k, g[U(k)])]  BY DEF WaysDown
<1>2. \A k \in m..(n - 1) : k < half => U(k) \in 1..(n - 1) /\ U(k) > k
  BY UpperChildIsUpper
<1>. HIDE DEF U, half
<1>3. ASSUME NEW k \in m..(n - 1) PROVE f[k] = E(k, f[U(k)])
  <2>1. CASE ~(k < half)
    <3>1. CASE k = m  BY <2>1, <3>1
    <3>2. CASE k # m
      <4>1. k \in (m + 1)..(n - 1)  BY <3>2
      <4>. QED  BY <4>1, <3>2, <2>1, <1>1
    <3>. QED  BY <3>1, <3>2
  <2>2. CASE k < half
    <3>1. U(k) \in m..(n - 1) /\ U(k) # m  BY <2>2, <1>2
    <3>2. f[U(k)] = g[U(k)]  BY <3>1
    <3>3. CASE k = m  BY <3>2, <3>3
    <3>4. CASE k # m
      <4>1. k \in (m + 1)..(n - 1)  BY <3>4
      <4>2. f[k] = g[k] /\ g[k] = E(k, g[U(k)])
        <5>. HIDE DEF E
        <5>. QED  BY <4>1, <3>4, <1>1
      <4>. QED  BY <4>2, <3>2
    <3>. QED  BY <3>3, <3>4
  <2>. QED  BY <2>1, <2>2
<1>4. f = [k \in m..(n - 1) |-> f[k]]  OBVIOUS
<1>5. f = [k \in m..(n - 1) |-> E(k, f[U(k)])]
  <2>. HIDE DEF f, E
  <2>. QED  BY <1>3, <1>4
<1>. HIDE DEF f
<1>. QED  BY <1>5 DEF WaysDown, U, half

\* The recursive function of Descent exists.
LEMMA WaysDownExist ==
    ASSUME is_min_heap \in BOOLEAN, NEW n \in Nat, NEW h \in Heaps(n), NEW i \in 0..(n - 1)
    PROVE  \E f : WaysDown(f, i, h, n)
<1>. DEFINE S == {d \in 0..n : ~ \E f : WaysDown(f, n - d, h, n)}
<1>1. S = {}
  <2>. SUFFICES ASSUME S # {} PROVE FALSE  OBVIOUS
  <2>0. S \in SUBSET Nat  OBVIOUS
  <2>1. PICK d \in S : \A e \in S : d <= e
    <3>. HIDE DEF S
    <3>. QED  BY <2>0, NatsHaveLeast
  <2>2. d \in 0..n /\ ~ \E f : WaysDown(f, n - d, h, n)  BY <2>1
  <2>3. CASE d = 0
    <3>. DEFINE f == [k \in n..(n - 1) |-> {k}]
    <3>1. n..(n - 1) = {}  OBVIOUS
    <3>2. WaysDown(f, n, h, n)  BY <3>1 DEF WaysDown
    <3>3. n - d = n  BY <2>3
    <3>. QED  BY <2>2, <3>2, <3>3
  <2>4. CASE d # 0
    <3>1. d - 1 \in 0..n /\ ~(d <= d - 1) /\ n - d \in 0..(n - 1) /\ n - (d - 1) = (n - d) + 1
      BY <2>2, <2>4
    <3>2. d - 1 \notin S  BY <2>1, <3>1
    <3>3. PICK g : WaysDown(g, (n - d) + 1, h, n)  BY <3>1, <3>2
    <3>. QED  BY <2>2, <3>1, <3>3, OneMoreWayDown
  <2>. QED  BY <2>3, <2>4
<1>2. n - i \in 0..n /\ n - (n - i) = i  OBVIOUS
<1>. QED  BY <1>1, <1>2

\* A slot put before the way from its upper child is the way from it.
LEMMA WayDownGrows ==
    ASSUME is_min_heap \in BOOLEAN, NEW n \in Nat, NEW h \in Heaps(n),
           NEW k \in Nat, k < n \div 2, NEW S, WayDown(S, UpperChild(h, n, k), h, n)
    PROVE  WayDown({k} \cup S, k, h, n)
<1>. DEFINE U(j) == UpperChild(h, n, j)
            u == U(k)
            half == n \div 2
            T == {k} \cup S
<1>1. u \in 1..(n - 1) /\ u > k  BY UpperChildIsUpper
<1>2. /\ S \subseteq u..(n - 1) /\ u \in S
      /\ \A j \in S : j < half => U(j) \in S
      /\ \A i, j \in S : i < j => i < half /\ U(i) <= j
      /\ \A j \in S : j # u => \E p \in S : p < half /\ U(p) = j
      /\ \E j \in S : j >= half
  BY DEF WayDown
<1>. HIDE DEF U, u, half
<1>3. k < half /\ U(k) = u  BY DEF half, u
<1>4. T \subseteq k..(n - 1) /\ k \in T  BY <1>1, <1>2
<1>5. \A j \in T : j < half => U(j) \in T  BY <1>2, <1>3
<1>6. \A i, j \in T : i < j => i < half /\ U(i) <= j
  <2>. SUFFICES ASSUME NEW i \in T, NEW j \in T, i < j PROVE i < half /\ U(i) <= j
    OBVIOUS
  <2>1. CASE i = k
    <3>1. j \in S  BY <2>1, <1>1
    <3>. QED  BY <2>1, <3>1, <1>2, <1>3
  <2>2. CASE i # k
    <3>1. i \in S /\ j \in S  BY <2>2, <1>1, <1>2
    <3>. QED  BY <3>1, <1>2
  <2>. QED  BY <2>1, <2>2
<1>7. \A j \in T : j # k => \E p \in T : p < half /\ U(p) = j
  BY <1>2, <1>3
<1>8. \E j \in T : j >= half  BY <1>2
<1>. HIDE DEF T
<1>9. WayDown(T, k, h, n)  BY <1>4, <1>5, <1>6, <1>7, <1>8 DEF WayDown, U, half
<1>. QED  BY <1>9 DEF T

\* Descent is the way from a slot down.
LEMMA DescentIsWayDown ==
    ASSUME is_min_heap \in BOOLEAN, NEW n \in Nat, NEW h \in Heaps(n), NEW i \in 0..(n - 1)
    PROVE  WayDown(Descent(h, n, i), i, h, n)
<1>. DEFINE F(f) == WaysDown(f, i, h, n)
            f == CHOOSE g : F(g)
            S == {d \in 0..(n - 1) : n - 1 - d >= i /\ ~WayDown(f[n - 1 - d], n - 1 - d, h, n)}
<1>1. WaysDown(f, i, h, n)  BY WaysDownExist
<1>2. Descent(h, n, i) = f[i]  BY DEF Descent, WaysDown
<1>. HIDE DEF f
<1>3. f = [k \in i..(n - 1) |-> IF k < n \div 2 THEN {k} \cup f[UpperChild(h, n, k)] ELSE {k}]
  BY <1>1 DEF WaysDown
<1>4. S = {}
  <2>. SUFFICES ASSUME S # {} PROVE FALSE  OBVIOUS
  <2>0. S \in SUBSET Nat  OBVIOUS
  <2>1. PICK d \in S : \A e \in S : d <= e
    <3>. HIDE DEF S
    <3>. QED  BY <2>0, NatsHaveLeast
  <2>. DEFINE k == n - 1 - d
  <2>2. d \in 0..(n - 1) /\ k >= i /\ ~WayDown(f[k], k, h, n)  BY <2>1
  <2>3. k \in i..(n - 1) /\ k \in Nat  BY <2>2
  <2>. HIDE DEF k
  <2>4. CASE ~(k < n \div 2)
    <3>1. f[k] = {k}  BY <1>3, <2>3, <2>4
    <3>2. k \in k..(n - 1) /\ k >= n \div 2  BY <2>3, <2>4
    <3>3. WayDown({k}, k, h, n)  BY <3>2, <2>4 DEF WayDown
    <3>. QED  BY <2>2, <3>1, <3>3
  <2>5. CASE k < n \div 2
    <3>. DEFINE u == UpperChild(h, n, k)
                e == n - 1 - u
    <3>1. u \in 1..(n - 1) /\ u > k  BY <2>3, <2>5, UpperChildIsUpper
    <3>. HIDE DEF u
    <3>2. e \in 0..(n - 1) /\ n - 1 - e = u /\ u >= i /\ ~(d <= e)
      BY <2>2, <2>3, <3>1 DEF k
    <3>3. e \notin S
      <4>. HIDE DEF e, S
      <4>. QED  BY <2>1, <3>2
    <3>4. WayDown(f[u], u, h, n)  BY <3>2, <3>3
    <3>5. f[k] = {k} \cup f[u]  BY <1>3, <2>3, <2>5 DEF u
    <3>. QED  BY <2>2, <2>3, <2>5, <3>4, <3>5, WayDownGrows DEF u
  <2>. QED  BY <2>4, <2>5
<1>5. WayDown(f[i], i, h, n)
  <2>. DEFINE d == n - 1 - i
  <2>1. d \in 0..(n - 1) /\ n - 1 - d = i /\ i >= i  OBVIOUS
  <2>. HIDE DEF d
  <2>2. d \notin S
    <3>. HIDE DEF S
    <3>. QED  BY <1>4
  <2>3. ~(n - 1 - d >= i /\ ~WayDown(f[n - 1 - d], n - 1 - d, h, n))  BY <2>1, <2>2
  <2>. QED  BY <2>1, <2>3
<1>. QED  BY <1>2, <1>5
-----------------------------------------------------------------------------
(* Sifting down *)

\* Every entry may stay below its parent, but for those below slot i, whose
\* entry may have to go down.
MayGoDown(h, n, i) ==
    /\ \A k \in 1..(n - 1) : _parent(k) # i => Below(h, _parent(k), k)
    /\ i # 0 => \A k \in 1..(n - 1) : _parent(k) = i => Below(h, _parent(i), k)

\* Where the entry in slot i comes to rest on its way down.
LEMMA DownToRests ==
    ASSUME is_min_heap \in BOOLEAN, NEW n \in Nat, NEW h \in Heaps(n), NEW i \in 0..(n - 1)
    PROVE  /\ DownTo(h, n, i) \in Descent(h, n, i) /\ DownTo(h, n, i) \in i..(n - 1)
           /\ DownTo(h, n, i) < n \div 2 => Below(h, i, UpperChild(h, n, DownTo(h, n, i)))
           /\ \A k \in Descent(h, n, i) : k < DownTo(h, n, i) =>
                 k < n \div 2 /\ ~Below(h, i, UpperChild(h, n, k))
<1>. DEFINE D == Descent(h, n, i)
            half == n \div 2
            S == {k \in D : k >= half \/ ~_compare(h[i].priority, h[UpperChild(h, n, k)].priority)}
            r == DownTo(h, n, i)
<1>0. half \in Nat  OBVIOUS
<1>1. D \subseteq i..(n - 1) /\ \E k \in D : k >= half
  BY DescentIsWayDown DEF WayDown
<1>2. S \in SUBSET Nat /\ S # {}  BY <1>1
<1>3. r = Min(S)  BY DEF DownTo
<1>4. r \in S /\ \A k \in S : r <= k
  <2>. HIDE DEF S, r
  <2>. QED  BY <1>2, <1>3, MinIsLeast
<1>. HIDE DEF r, half
<1>5. r \in D /\ r \in i..(n - 1)  BY <1>1, <1>4
<1>6. r < half => Below(h, i, UpperChild(h, n, r))  BY <1>0, <1>4, <1>5 DEF Below
<1>7. ASSUME NEW k \in D, k < r PROVE k < half /\ ~Below(h, i, UpperChild(h, n, k))
  <2>1. k \in i..(n - 1) /\ r \in i..(n - 1)  BY <1>1, <1>5
  <2>2. k \notin S  BY <1>4, <1>7, <2>1
  <2>. QED  BY <1>0, <2>1, <2>2, <1>7 DEF Below
<1>. QED  BY <1>5, <1>6, <1>7 DEF r, half

\* _sift_down moves the entries on the way one place up, and nothing else.
LEMMA SiftDownDoes ==
    ASSUME is_min_heap \in BOOLEAN, NEW n \in Nat, NEW h \in Heaps(n), NEW i \in 0..(n - 1)
    PROVE  LET g == _sift_down(h, n, i)
               r == DownTo(h, n, i)
           IN  /\ g \in Heaps(n)
               /\ g[r] = h[i]
               /\ \A k \in Descent(h, n, i) : k < r => g[k] = h[UpperChild(h, n, k)]
               /\ \A k \in 0..(n - 1) :
                     k # r /\ (k \notin Descent(h, n, i) \/ k > r) => g[k] = h[k]
<1>. DEFINE g == _sift_down(h, n, i)
            r == DownTo(h, n, i)
            D == Descent(h, n, i)
            U(k) == UpperChild(h, n, k)
<1>1. DOMAIN h = 0..(n - 1)  BY DEF Heaps
<1>2. g = [k \in 0..(n - 1) |-> IF k = r THEN h[i]
                                ELSE IF k \in D /\ k < r THEN h[U(k)] ELSE h[k]]
  BY <1>1 DEF _sift_down
<1>3. D \subseteq i..(n - 1) /\ r \in i..(n - 1)
  BY DescentIsWayDown, DownToRests DEF WayDown
<1>4. \A k \in D : k < r => k \in 0..(n - 1) /\ k < n \div 2  BY <1>3, DownToRests
<1>5. \A k \in D : k < r => U(k) \in 0..(n - 1)
  <2>. SUFFICES ASSUME NEW k \in D, k < r PROVE U(k) \in 0..(n - 1)  OBVIOUS
  <2>1. k \in Nat /\ k < n \div 2  BY <1>4
  <2>2. U(k) \in 1..(n - 1)  BY <2>1, UpperChildIsUpper
  <2>. QED  BY <2>2
<1>. HIDE DEF g, r, D, U
<1>6. r \in 0..(n - 1)  BY <1>3
<1>7. \A k \in 0..(n - 1) : h[k] \in Entries  BY DEF Heaps
<1>8. ASSUME NEW k \in 0..(n - 1) PROVE g[k] \in Entries
  <2>1. g[k] = IF k = r THEN h[i] ELSE IF k \in D /\ k < r THEN h[U(k)] ELSE h[k]
    BY <1>2
  <2>. QED  BY <2>1, <1>5, <1>7
<1>9. g \in Heaps(n)  BY <1>2, <1>8 DEF Heaps
<1>10. g[r] = h[i]  BY <1>2, <1>6
<1>11. \A k \in D : k < r => g[k] = h[U(k)]
  <2>1. \A k \in D : k < r => k \in 0..(n - 1) /\ k # r  BY <1>4
  <2>. QED  BY <2>1, <1>2
<1>12. \A k \in 0..(n - 1) : k # r /\ (k \notin D \/ k > r) => g[k] = h[k]
  <2>1. \A k \in 0..(n - 1) : k > r => ~(k < r)  BY <1>6
  <2>. QED  BY <2>1, <1>2
<1>. QED  BY <1>9, <1>10, <1>11, <1>12 DEF g, r, D, U

\* Afterwards all entries are in order.
LEMMA SiftDownOrders ==
    ASSUME is_min_heap \in BOOLEAN, NEW n \in Nat, NEW h \in Heaps(n),
           NEW i \in 0..(n - 1), MayGoDown(h, n, i)
    PROVE  InHeapOrder(_sift_down(h, n, i), n)
<1>. DEFINE g == _sift_down(h, n, i)
            r == DownTo(h, n, i)
            D == Descent(h, n, i)
            U(k) == UpperChild(h, n, k)
            half == n \div 2
<1>1. /\ D \subseteq i..(n - 1) /\ i \in D
      /\ \A k \in D : k < half => U(k) \in D
      /\ \A j, k \in D : j < k => j < half /\ U(j) <= k
      /\ \A k \in D : k # i => \E p \in D : p < half /\ U(p) = k
  BY DescentIsWayDown DEF WayDown
<1>2. /\ r \in D /\ r \in i..(n - 1)
      /\ r < half => Below(h, i, U(r))
      /\ \A k \in D : k < r => k < half /\ ~Below(h, i, U(k))
  BY DownToRests
<1>3. /\ g[r] = h[i]
      /\ \A k \in D : k < r => g[k] = h[U(k)]
      /\ \A k \in 0..(n - 1) : k # r /\ (k \notin D \/ k > r) => g[k] = h[k]
  BY SiftDownDoes
<1>4. \A k \in 0..(n - 1) : k < half =>
         /\ U(k) \in 1..(n - 1) /\ U(k) > k /\ _parent(U(k)) = k
         /\ \A c \in 1..(n - 1) : _parent(c) = k => Below(h, U(k), c)
  BY UpperChildIsUpper
<1>5. ASSUME NEW k \in 1..(n - 1)
      PROVE  /\ _parent(k) \in 0..(n - 1) /\ _parent(k) < k
             /\ k \in 0..(n - 1) /\ _parent(k) < half
  <2>1. _parent(k) \in 0..(n - 1) /\ _parent(k) < k /\ k \in 0..(n - 1)
    BY ParentAndChildren
  <2>2. _parent(k) < half  BY DEF _parent
  <2>. QED  BY <2>1, <2>2
<1>6. \A a, b \in 0..(n - 1) : ~Below(h, a, b) => Below(h, b, a)
  BY BelowIsOrder
<1>7. \A a, b, c \in 0..(n - 1) : Below(h, a, b) /\ Below(h, b, c) => Below(h, a, c)
  BY BelowIsOrder
<1>8. \A k \in 1..(n - 1) : _parent(k) # i => Below(h, _parent(k), k)  BY DEF MayGoDown
<1>9. \A k \in 1..(n - 1) : i # 0 /\ _parent(k) = i => Below(h, _parent(i), k)
  BY DEF MayGoDown
<1>10. \A j, k, a, b \in 0..(n - 1) : g[j] = h[a] /\ g[k] = h[b] /\ Below(h, a, b) => Below(g, j, k)
  BY DEF Below
<1>11. half \in Nat /\ \A k \in D : k \in 0..(n - 1)  BY <1>1
<1>. SUFFICES ASSUME NEW k \in 1..(n - 1) PROVE Below(g, _parent(k), k)
  BY DEF InHeapOrder
<1>. HIDE DEF g, r, D, U, half
<1>. DEFINE p == _parent(k)
<1>12. p \in 0..(n - 1) /\ p < k /\ k \in 0..(n - 1) /\ p < half  BY <1>5
<1>13. p # i => Below(h, p, k)  BY <1>8
<1>14. r \in 0..(n - 1) /\ i \in 0..(n - 1)  BY <1>2
<1>15. U(p) \in 0..(n - 1) /\ Below(h, U(p), k)  BY <1>4, <1>12
<1>16. Below(g, p, k)
  <2>1. CASE p \in D /\ p < r
    <3>1. g[p] = h[U(p)] /\ ~Below(h, i, U(p)) /\ U(p) \in D /\ U(p) <= r
      BY <2>1, <1>1, <1>2, <1>3
    <3>2. CASE k = U(p) /\ k < r
      <4>1. g[k] = h[U(k)] /\ k < half  BY <3>1, <3>2, <1>2, <1>3
      <4>2. U(k) \in 1..(n - 1) /\ _parent(U(k)) = k  BY <4>1, <1>4, <1>12
      <4>3. k # i  BY <2>1, <1>1, <1>12
      <4>4. Below(h, k, U(k)) /\ U(k) \in 0..(n - 1)  BY <4>2, <4>3, <1>8
      <4>. QED  BY <3>1, <3>2, <4>1, <4>4, <1>10, <1>12
    <3>3. CASE k = U(p) /\ k = r
      <4>1. Below(h, k, i)  BY <3>1, <3>3, <1>6, <1>12, <1>14
      <4>. QED  BY <3>1, <3>3, <4>1, <1>3, <1>10, <1>12, <1>14
    <3>4. CASE k # U(p)
      <4>1. k \notin D
        <5>1. SUFFICES ASSUME k \in D PROVE FALSE  OBVIOUS
        <5>2. k # i  BY <2>1, <1>1, <1>12
        <5>3. PICK q \in D : q < half /\ U(q) = k  BY <5>1, <5>2, <1>1
        <5>4. q = p  BY <5>3, <1>4, <1>11
        <5>. QED  BY <5>3, <5>4, <3>4
      <4>2. g[k] = h[k]  BY <4>1, <1>2, <1>3, <1>12
      <4>. QED  BY <3>1, <4>2, <1>10, <1>12, <1>15
    <3>. QED  BY <3>1, <3>2, <3>3, <3>4, <1>12, <1>14
  <2>2. CASE p = r
    <3>1. Below(h, i, U(p))  BY <2>2, <1>2, <1>12
    <3>2. Below(h, i, k)  BY <3>1, <1>7, <1>12, <1>14, <1>15
    <3>3. g[k] = h[k]  BY <2>2, <1>3, <1>12, <1>14
    <3>. QED  BY <2>2, <3>2, <3>3, <1>3, <1>10, <1>12, <1>14
  <2>3. CASE p \in D /\ p > r
    <3>1. g[p] = h[p] /\ g[k] = h[k]  BY <2>3, <1>3, <1>12, <1>14
    <3>2. p # i  BY <2>3, <1>2, <1>14
    <3>. QED  BY <3>1, <3>2, <1>10, <1>12, <1>13
  <2>4. CASE p \notin D
    <3>1. g[p] = h[p] /\ p # i  BY <2>4, <1>1, <1>2, <1>3, <1>12
    <3>2. Below(h, p, k)  BY <3>1, <1>13
    <3>3. CASE k \notin D
      <4>1. g[k] = h[k]  BY <3>3, <1>2, <1>3, <1>12
      <4>. QED  BY <3>1, <3>2, <4>1, <1>10, <1>12
    <3>4. CASE k \in D
      <4>1. k = i
        <5>1. SUFFICES ASSUME k # i PROVE FALSE  OBVIOUS
        <5>2. PICK q \in D : q < half /\ U(q) = k  BY <3>4, <5>1, <1>1
        <5>3. q = p  BY <5>2, <1>4, <1>11
        <5>. QED  BY <5>3, <2>4
      <4>2. CASE r = i  BY <4>1, <4>2, <3>1, <3>2, <1>3, <1>10, <1>12
      <4>3. CASE r # i
        <5>1. i < r  BY <4>3, <1>2
        <5>2. g[k] = h[U(i)] /\ i < half  BY <4>1, <5>1, <1>1, <1>2, <1>3
        <5>3. U(i) \in 1..(n - 1) /\ _parent(U(i)) = i /\ U(i) \in 0..(n - 1)
          BY <5>2, <1>4, <1>14
        <5>4. i # 0  BY <4>1
        <5>5. Below(h, p, U(i))  BY <5>3, <5>4, <4>1, <1>9
        <5>. QED  BY <3>1, <5>2, <5>3, <5>5, <1>10, <1>12
      <4>. QED  BY <4>2, <4>3
    <3>. QED  BY <3>3, <3>4
  <2>. QED  BY <2>1, <2>2, <2>3, <2>4, <1>12, <1>14
<1>. QED  BY <1>16 DEF g
-----------------------------------------------------------------------------
(* The calls keep the types and the order *)

\* The inductive invariant: the heap has its types, and its entries are in order
\* unless a sift has found no memory.
HeapInv == TypeOK /\ HeapOrder

LEMMA TypesSay ==
    ASSUME TypeOK
    PROVE  /\ is_min_heap \in BOOLEAN /\ size \in Nat /\ node \in Heaps(size)
           /\ capacity \in Capacities /\ capacity \in Nat /\ size <= capacity
           /\ HeapOrder <=> unsifted \/ InHeapOrder(node, size)
<1>1. capacity \in Nat  BY HeapAssumption DEF TypeOK
<1>2. HeapOrder <=> unsifted \/ InHeapOrder(node, size)
  BY DEF HeapOrder, InHeapOrder, Below
<1>. QED  BY <1>1, <1>2 DEF TypeOK, Heaps, Entries

\* What a call has to leave behind.
LEMMA LeavesHeap ==
    ASSUME TypeOK, NEW n \in Nat, n <= capacity, NEW g \in Heaps(n),
           size' = n, node' = g, unsifted' \in BOOLEAN, alive' \in BOOLEAN,
           UNCHANGED <<capacity, is_min_heap>>,
           unsifted' \/ n <= 1 \/ InHeapOrder(g, n)
    PROVE  HeapInv'
<1>1. capacity \in Nat /\ capacity \in Capacities  BY TypesSay
<1>2. TypeOK'  BY <1>1 DEF TypeOK, Heaps, Entries
<1>3. n <= 1 => InHeapOrder(g, n)
  <2>1. n <= 1 => 1..(n - 1) = {}  OBVIOUS
  <2>. QED  BY <2>1 DEF InHeapOrder
<1>4. InHeapOrder(g, n) => HeapOrder'
  BY DEF HeapOrder, InHeapOrder, Below, _compare
<1>5. unsifted' => HeapOrder'  BY DEF HeapOrder
<1>. QED  BY <1>2, <1>3, <1>4, <1>5 DEF HeapInv

LEMMA PushKeeps ==
    ASSUME HeapInv, NEW e \in Entries, vf_bh_push(e)
    PROVE  HeapInv'
<1>. DEFINE n == size + 1
            h == [k \in 0..size |-> IF k = size THEN e ELSE node[k]]
            g == _sift_up(h, size)
<1>1. TypeOK /\ HeapOrder  BY DEF HeapInv
<1>2. /\ is_min_heap \in BOOLEAN /\ size \in Nat /\ node \in Heaps(size)
      /\ capacity \in Nat /\ size <= capacity
      /\ unsifted \/ InHeapOrder(node, size)
  BY <1>1, TypesSay
<1>3. n \in Nat /\ n - 1 = size /\ n <= capacity /\ size \in 0..(n - 1)
  BY <1>2 DEF vf_bh_push
<1>4. \A k \in 0..(size - 1) : node[k] \in Entries  BY <1>2 DEF Heaps
<1>5. h \in Heaps(n)
  <2>1. h \in [0..size -> Entries]  BY <1>2, <1>4
  <2>. QED  BY <2>1, <1>3 DEF Heaps
<1>6. size' = n /\ node' = g /\ UNCHANGED <<capacity, is_min_heap, alive, unsifted>>
  BY DEF vf_bh_push
<1>7. g \in Heaps(n)
  <2>. HIDE DEF h, n
  <2>. QED  BY <1>3, <1>5, SiftUpDoes
<1>8. ASSUME InHeapOrder(node, size) PROVE InHeapOrder(g, n)
  <2>1. ASSUME NEW k \in 1..(n - 1), k # size PROVE Below(h, _parent(k), k)
    <3>1. k \in 1..(size - 1)  BY <1>2, <1>3, <2>1
    <3>2. _parent(k) \in 0..(size - 1) /\ k \in 0..(size - 1)
      BY <1>2, <3>1, ParentAndChildren
    <3>3. h[k] = node[k] /\ h[_parent(k)] = node[_parent(k)]  BY <1>2, <3>2
    <3>. QED  BY <1>8, <3>1, <3>3 DEF InHeapOrder, Below
  <2>2. \A k \in 1..(n - 1) : _parent(k) # size  BY <1>2, <1>3, ParentAndChildren
  <2>. HIDE DEF h, n
  <2>3. MayGoUp(h, n, size)  BY <2>1, <2>2 DEF MayGoUp
  <2>. QED  BY <1>2, <1>3, <1>5, <2>3, SiftUpOrders
<1>. HIDE DEF n, g
<1>9. alive \in BOOLEAN /\ unsifted \in BOOLEAN  BY <1>1 DEF TypeOK
<1>. QED  BY <1>1, <1>2, <1>3, <1>6, <1>7, <1>8, <1>9, LeavesHeap

LEMMA PopKeeps ==
    ASSUME HeapInv, NEW failed \in BOOLEAN, vf_bh_pop(failed)
    PROVE  HeapInv'
<1>. DEFINE n == size - 1
            h == [k \in 0..(n - 1) |-> IF k = 0 THEN node[size - 1] ELSE node[k]]
            g == IF n = 0 \/ failed THEN h ELSE _sift_down(h, n, 0)
<1>1. TypeOK /\ HeapOrder  BY DEF HeapInv
<1>2. /\ is_min_heap \in BOOLEAN /\ size \in Nat /\ node \in Heaps(size)
      /\ capacity \in Nat /\ size <= capacity
      /\ unsifted \/ InHeapOrder(node, size)
  BY <1>1, TypesSay
<1>3. n \in Nat /\ n <= capacity /\ size > 0  BY <1>2 DEF vf_bh_pop
<1>4. \A k \in 0..(size - 1) : node[k] \in Entries  BY <1>2 DEF Heaps
<1>5. h \in Heaps(n)
  <2>1. \A k \in 0..(n - 1) : k \in 0..(size - 1)  BY <1>2
  <2>2. size - 1 \in 0..(size - 1)  BY <1>2, <1>3
  <2>. QED  BY <1>4, <2>1, <2>2 DEF Heaps
<1>6. size' = n /\ node' = g  BY DEF vf_bh_pop
<1>7. /\ unsifted' = (n > 1 /\ (unsifted \/ failed))
      /\ UNCHANGED <<capacity, is_min_heap, alive>>
  BY <1>6 DEF vf_bh_pop, Unsifted
<1>8. n # 0 => 0 \in 0..(n - 1)
  <2>. HIDE DEF n
  <2>. QED  BY <1>3
<1>9. g \in Heaps(n)
  <2>. HIDE DEF h, n
  <2>1. n # 0 => _sift_down(h, n, 0) \in Heaps(n)  BY <1>2, <1>3, <1>5, <1>8, SiftDownDoes
  <2>. QED  BY <1>5, <2>1
<1>10. ASSUME InHeapOrder(node, size), n # 0 PROVE InHeapOrder(_sift_down(h, n, 0), n)
  <2>1. ASSUME NEW k \in 1..(n - 1), _parent(k) # 0 PROVE Below(h, _parent(k), k)
    <3>1. k \in 1..(size - 1) /\ k # 0 /\ k \in 0..(n - 1)  BY <1>2, <1>3
    <3>2. _parent(k) \in 0..(n - 1)  BY <1>3, <3>1, ParentAndChildren
    <3>3. h[k] = node[k] /\ h[_parent(k)] = node[_parent(k)]  BY <3>1, <3>2, <2>1
    <3>. QED  BY <1>10, <3>1, <3>3 DEF InHeapOrder, Below
  <2>. HIDE DEF h, n
  <2>2. MayGoDown(h, n, 0)  BY <2>1 DEF MayGoDown
  <2>. QED  BY <1>2, <1>3, <1>5, <1>8, <1>10, <2>2, SiftDownOrders
<1>11. unsifted' \/ n <= 1 \/ InHeapOrder(g, n)
  <2>. HIDE DEF h, n
  <2>1. unsifted' \/ ~(n > 1) \/ (~unsifted /\ ~failed)  BY <1>7
  <2>2. ~(n > 1) => n <= 1  BY <1>3
  <2>3. n > 1 => n # 0  BY <1>3
  <2>4. ~failed /\ n # 0 => g = _sift_down(h, n, 0)  OBVIOUS
  <2>. QED  BY <2>1, <2>2, <2>3, <2>4, <1>2, <1>10, Zenon
<1>12. alive \in BOOLEAN /\ unsifted \in BOOLEAN  BY <1>1 DEF TypeOK
<1>. HIDE DEF n, g
<1>13. alive' \in BOOLEAN /\ unsifted' \in BOOLEAN  BY <1>7, <1>12
<1>. QED  BY <1>1, <1>3, <1>6, <1>7, <1>9, <1>11, <1>13, LeavesHeap

\* The slot an update finds is one of the heap's.
LEMMA FoundIsSlot ==
    ASSUME size \in Nat, NEW x, \E k \in 0..(size - 1) : node[k].item = x
    PROVE  Found(x) \in 0..(size - 1)
<1>. DEFINE S == {k \in 0..(size - 1) : node[k].item = x}
<1>1. S \in SUBSET Nat /\ S # {}  OBVIOUS
<1>2. Found(x) = Min(S)  BY DEF Found
<1>3. Found(x) \in S
  <2>. HIDE DEF S
  <2>. QED  BY <1>1, <1>2, MinIsLeast
<1>. QED  BY <1>3

LEMMA UpdateKeeps ==
    ASSUME HeapInv, NEW x \in Items, NEW p \in Priorities, NEW failed \in BOOLEAN,
           vf_bh_update_priority(x, p, failed)
    PROVE  HeapInv'
<1>. DEFINE n == size
            i == Found(x)
            old == node[i].priority
            h == [node EXCEPT ![i].priority = p]
            g == IF failed THEN h
                 ELSE IF _compare(old, p) THEN _sift_up(h, i) ELSE _sift_down(h, n, i)
<1>1. TypeOK /\ HeapOrder  BY DEF HeapInv
<1>2. /\ is_min_heap \in BOOLEAN /\ n \in Nat /\ node \in Heaps(n)
      /\ n <= capacity
      /\ unsifted \/ InHeapOrder(node, n)
  BY <1>1, TypesSay
<1>3. i \in 0..(n - 1)  BY <1>2, FoundIsSlot DEF vf_bh_update_priority
<1>4. node' = g /\ size' = n /\ unsifted' = (n > 1 /\ (unsifted \/ failed))
  BY DEF vf_bh_update_priority, Unsifted
<1>5. UNCHANGED <<capacity, is_min_heap, alive>>  BY DEF vf_bh_update_priority
<1>. HIDE DEF i, n
<1>6. \A k \in 0..(n - 1) : node[k] \in Entries  BY <1>2 DEF Heaps
<1>7. old \in Priorities /\ node[i].item \in Items  BY <1>3, <1>6 DEF Entries
<1>8. /\ h \in Heaps(n) /\ h[i].priority = p
      /\ \A k \in 0..(n - 1) : k # i => h[k] = node[k]
  <2>. DEFINE e == [node[i] EXCEPT !.priority = p]
  <2>1. e = [item |-> node[i].item, priority |-> p]  BY <1>3, <1>6 DEF Entries
  <2>2. e \in Entries /\ e.priority = p  BY <2>1, <1>7 DEF Entries
  <2>3. h = [node EXCEPT ![i] = e]  OBVIOUS
  <2>. HIDE DEF e, h
  <2>. QED  BY <2>2, <2>3, <1>2, <1>3 DEF Heaps
<1>. HIDE DEF h
<1>9. g \in Heaps(n)
  <2>1. _sift_up(h, i) \in Heaps(n)  BY <1>2, <1>3, <1>8, SiftUpDoes
  <2>2. _sift_down(h, n, i) \in Heaps(n)  BY <1>2, <1>3, <1>8, SiftDownDoes
  <2>. QED  BY <1>8, <2>1, <2>2
<1>10. ASSUME InHeapOrder(node, n), ~failed PROVE InHeapOrder(g, n)
  <2>1. ASSUME NEW k \in 1..(n - 1)
        PROVE  /\ _parent(k) \in 0..(n - 1) /\ k \in 0..(n - 1) /\ _parent(k) < k
               /\ Below(node, _parent(k), k)
    BY <1>2, <1>10, ParentAndChildren DEF InHeapOrder
  <2>2. ASSUME NEW k \in 1..(n - 1), k # i, _parent(k) # i PROVE Below(h, _parent(k), k)
    BY <1>8, <2>1, <2>2 DEF Below
  <2>3. ASSUME i # 0, NEW k \in 1..(n - 1), _parent(k) = i PROVE Below(h, _parent(i), k)
    <3>1. i \in 1..(n - 1)  BY <1>2, <1>3, <2>3
    <3>2. Below(node, _parent(i), i) /\ Below(node, i, k)  BY <3>1, <2>1, <2>3
    <3>3. _parent(i) \in 0..(n - 1) /\ _parent(i) # i /\ k # i /\ k \in 0..(n - 1)
      BY <3>1, <2>1, <2>3, <1>3
    <3>4. Below(node, _parent(i), k)  BY <3>2, <3>3, <1>2, <1>3, BelowIsOrder
    <3>. QED  BY <3>3, <3>4, <1>8 DEF Below
  <2>4. CASE _compare(old, p)
    <3>1. ASSUME NEW k \in 1..(n - 1), k # i PROVE Below(h, _parent(k), k)
      <4>1. CASE _parent(k) # i  BY <4>1, <3>1, <2>2
      <4>2. CASE _parent(k) = i
        <5>1. ~_compare(old, node[k].priority)  BY <4>2, <2>1 DEF Below
        <5>2. node[k].priority \in Priorities  BY <2>1, <1>6 DEF Entries
        <5>3. ~_compare(p, old)  BY <2>4, <1>2, <1>7, CompareOrders
        <5>4. ~_compare(p, node[k].priority)  BY <5>1, <5>2, <5>3, <1>2, <1>7, CompareOrders
        <5>5. h[k] = node[k] /\ h[_parent(k)].priority = p  BY <4>2, <3>1, <2>1, <1>8
        <5>. QED  BY <5>4, <5>5 DEF Below
      <4>. QED  BY <4>1, <4>2
    <3>2. MayGoUp(h, n, i)  BY <3>1, <2>3 DEF MayGoUp
    <3>3. InHeapOrder(_sift_up(h, i), n)  BY <3>2, <1>2, <1>3, <1>8, SiftUpOrders
    <3>. QED  BY <3>3, <2>4, <1>10
  <2>5. CASE ~_compare(old, p)
    <3>1. ASSUME NEW k \in 1..(n - 1), _parent(k) # i PROVE Below(h, _parent(k), k)
      <4>1. CASE k # i  BY <4>1, <3>1, <2>2
      <4>2. CASE k = i
        <5>. DEFINE q == node[_parent(k)].priority
        <5>1. ~_compare(q, old)  BY <4>2, <2>1 DEF Below
        <5>2. q \in Priorities  BY <2>1, <1>6 DEF Entries
        <5>3. ~_compare(q, p)  BY <5>1, <5>2, <2>5, <1>2, <1>7, CompareOrders
        <5>4. h[_parent(k)] = node[_parent(k)] /\ h[k].priority = p
          BY <4>2, <3>1, <2>1, <1>8
        <5>. QED  BY <5>3, <5>4 DEF Below
      <4>. QED  BY <4>1, <4>2
    <3>2. MayGoDown(h, n, i)  BY <3>1, <2>3 DEF MayGoDown
    <3>3. InHeapOrder(_sift_down(h, n, i), n)  BY <3>2, <1>2, <1>3, <1>8, SiftDownOrders
    <3>. QED  BY <3>3, <2>5, <1>10
  <2>. QED  BY <2>4, <2>5
<1>11. alive \in BOOLEAN /\ unsifted \in BOOLEAN  BY <1>1 DEF TypeOK
<1>. HIDE DEF g
<1>12. alive' \in BOOLEAN /\ unsifted' \in BOOLEAN  BY <1>4, <1>5, <1>11
<1>13. unsifted' \/ n <= 1 \/ InHeapOrder(g, n)
  <2>1. unsifted' \/ ~(n > 1) \/ (~unsifted /\ ~failed)  BY <1>4
  <2>2. ~(n > 1) => n <= 1  BY <1>2
  <2>. QED  BY <2>1, <2>2, <1>2, <1>10, Zenon
<1>. QED  BY <1>1, <1>2, <1>4, <1>5, <1>9, <1>12, <1>13, LeavesHeap

LEMMA ClearKeeps == HeapInv /\ vf_bh_clear => HeapInv'
<1>. SUFFICES ASSUME HeapInv, vf_bh_clear PROVE HeapInv'  OBVIOUS
<1>. DEFINE g == [k \in {} |-> k]
<1>1. TypeOK /\ capacity \in Nat /\ alive \in BOOLEAN  BY TypesSay DEF HeapInv, TypeOK
<1>2. g \in Heaps(0)
  <2>1. 0..(0 - 1) = {}  OBVIOUS
  <2>2. g \in [{} -> Entries]  OBVIOUS
  <2>. QED  BY <2>1, <2>2 DEF Heaps
<1>3. size' = 0 /\ node' = g /\ unsifted' = FALSE /\ UNCHANGED <<capacity, is_min_heap, alive>>
  BY DEF vf_bh_clear
<1>. HIDE DEF g
<1>4. 0 <= 1 /\ 0 <= capacity /\ 0 \in Nat  BY <1>1
<1>. QED  BY <1>1, <1>2, <1>3, <1>4, LeavesHeap

\* Every step keeps the invariant.
LEMMA StepKeeps == HeapInv /\ [Next]_vars => HeapInv'
<1>. SUFFICES ASSUME HeapInv, [Next]_vars PROVE HeapInv'  OBVIOUS
<1>1. ASSUME NEW e \in Entries, vf_bh_push(e) PROVE HeapInv'  BY <1>1, PushKeeps
<1>2. ASSUME NEW failed \in BOOLEAN, vf_bh_pop(failed) PROVE HeapInv'  BY <1>2, PopKeeps
<1>3. ASSUME NEW x \in Items, NEW p \in Priorities, NEW failed \in BOOLEAN,
             vf_bh_update_priority(x, p, failed)
      PROVE  HeapInv'
  BY <1>3, UpdateKeeps
<1>4. CASE vf_bh_clear  BY <1>4, ClearKeeps
<1>5. ASSUME UNCHANGED fields, alive' \in BOOLEAN, unsifted' = unsifted PROVE HeapInv'
  BY <1>5 DEF HeapInv, TypeOK, HeapOrder, fields, _compare
<1>6. CASE vf_bh_destroy  BY <1>5, <1>6 DEF vf_bh_destroy
<1>7. CASE UNCHANGED vars  BY <1>5, <1>7 DEF vars, HeapInv, TypeOK
<1>. QED  BY <1>1, <1>2, <1>3, <1>4, <1>6, <1>7 DEF Next, Entries

\* The invariant holds in every state.
THEOREM InvHolds == Spec => []HeapInv
<1>1. Init => HeapInv
  <2>. SUFFICES ASSUME Init PROVE HeapInv  OBVIOUS
  <2>1. /\ capacity \in Capacities /\ capacity \in Nat /\ size = 0
        /\ is_min_heap \in BOOLEAN /\ alive \in BOOLEAN /\ unsifted \in BOOLEAN
    BY HeapAssumption DEF Init
  <2>2. 0..(size - 1) = {} /\ 1..(size - 1) = {} /\ size \in 0..capacity  BY <2>1
  <2>3. node \in [{} -> [item : Items, priority : Priorities]]  BY DEF Init
  <2>4. TypeOK  BY <2>1, <2>2, <2>3 DEF TypeOK
  <2>5. HeapOrder  BY <2>2 DEF HeapOrder
  <2>. QED  BY <2>4, <2>5 DEF HeapInv
<1>2. HeapInv /\ [Next]_vars => HeapInv'  BY StepKeeps
<1>. QED  BY <1>1, <1>2, PTL DEF Spec

\* In every state the heap has its types and fits its arrays (vf_bh_push
\* refuses what does not fit).
THEOREM TypeCorrect == Spec => []TypeOK
<1>1. HeapInv => TypeOK  BY DEF HeapInv
<1>. QED  BY <1>1, InvHolds, PTL

\* In every state no entry belongs above its parent, for either kind of heap,
\* unless a sift has found no memory since the heap last had one entry or none.
THEOREM OrderCorrect == Spec => []HeapOrder
<1>1. HeapInv => HeapOrder  BY DEF HeapInv
<1>. QED  BY <1>1, InvHolds, PTL
-----------------------------------------------------------------------------
(* What a heap holds, as a bag *)

\* The slots with entry e, and the bag of a heap's entries.
Slots(h, n, e) == {k \in 0..(n - 1) : h[k] = e}
BagOf(h, n) == LET elements == {h[k] : k \in 0..(n - 1)}
               IN  [e \in elements |-> Cardinality(Slots(h, n, e))]

LEMMA BagCounts ==
    ASSUME NEW n \in Nat, NEW h, NEW e
    PROVE  /\ IsFiniteSet(Slots(h, n, e)) /\ Cardinality(Slots(h, n, e)) \in Nat
           /\ e \in DOMAIN BagOf(h, n) => Cardinality(Slots(h, n, e)) # 0
           /\ Cardinality(Slots(h, n, e)) # 0 => e \in DOMAIN BagOf(h, n)
           /\ e \in DOMAIN BagOf(h, n) => BagOf(h, n)[e] = Cardinality(Slots(h, n, e))
<1>. DEFINE S == Slots(h, n, e)
<1>1. DOMAIN BagOf(h, n) = {h[k] : k \in 0..(n - 1)}  BY DEF BagOf
<1>2. e \in DOMAIN BagOf(h, n) => BagOf(h, n)[e] = Cardinality(S)  BY <1>1 DEF BagOf
<1>3. IsFiniteSet(0..(n - 1))  BY FS_Interval
<1>4. S \in SUBSET (0..(n - 1))  BY DEF Slots
<1>5. IsFiniteSet(S)  BY <1>3, <1>4, FS_Subset
<1>6. Cardinality(S) \in Nat  BY <1>5, FS_CardinalityType
<1>7. Cardinality(S) = 0 <=> S = {}  BY <1>5, FS_EmptySet
<1>8. e \in DOMAIN BagOf(h, n) <=> S # {}  BY <1>1 DEF Slots
<1>. QED  BY <1>2, <1>5, <1>6, <1>7, <1>8

\* Bags with the same counts are the same.
LEMMA SameCounts ==
    ASSUME NEW n \in Nat, NEW h, NEW g,
           \A e : Cardinality(Slots(g, n, e)) = Cardinality(Slots(h, n, e))
    PROVE  BagOf(g, n) = BagOf(h, n)
<1>. DEFINE G == BagOf(g, n)
            H == BagOf(h, n)
            cg(e) == Cardinality(Slots(g, n, e))
            ch(e) == Cardinality(Slots(h, n, e))
<1>1. /\ \A e : e \in DOMAIN G <=> cg(e) # 0
      /\ \A e \in DOMAIN G : G[e] = cg(e)
  BY BagCounts
<1>2. /\ \A e : e \in DOMAIN H <=> ch(e) # 0
      /\ \A e \in DOMAIN H : H[e] = ch(e)
  BY BagCounts
<1>3. \A e : cg(e) = ch(e)  OBVIOUS
<1>4. DOMAIN G = DOMAIN H
  <2>. HIDE DEF G, H, cg, ch
  <2>1. \A e : e \in DOMAIN G <=> e \in DOMAIN H  BY <1>1, <1>2, <1>3
  <2>. QED  BY <2>1
<1>5. \A e \in DOMAIN G : G[e] = H[e]
  <2>. HIDE DEF G, H, cg, ch
  <2>. QED  BY <1>1, <1>2, <1>3, <1>4
<1>6. G = [e \in DOMAIN G |-> G[e]] /\ H = [e \in DOMAIN H |-> H[e]]  BY DEF BagOf
<1>. HIDE DEF G, H
<1>7. G = H  BY <1>4, <1>5, <1>6
<1>. QED  BY <1>7 DEF G, H

\* t moves every slot to a slot of its own.
Permutes(t, n) ==
    /\ t \in [0..(n - 1) -> 0..(n - 1)]
    /\ \A j, k \in 0..(n - 1) : t[j] = t[k] => j = k
    /\ \A j \in 0..(n - 1) : \E k \in 0..(n - 1) : t[k] = j

\* Rearranging its entries leaves a heap the same bag.
LEMMA PermutedBag ==
    ASSUME NEW n \in Nat, NEW h, NEW g, NEW t, Permutes(t, n),
           \A k \in 0..(n - 1) : g[k] = h[t[k]]
    PROVE  BagOf(g, n) = BagOf(h, n)
<1>1. /\ \A k \in 0..(n - 1) : t[k] \in 0..(n - 1)
      /\ \A j, k \in 0..(n - 1) : t[j] = t[k] => j = k
      /\ \A j \in 0..(n - 1) : \E k \in 0..(n - 1) : t[k] = j
  BY DEF Permutes
<1>2. ASSUME NEW e PROVE Cardinality(Slots(g, n, e)) = Cardinality(Slots(h, n, e))
  <2>. DEFINE S == Slots(g, n, e)
              T == Slots(h, n, e)
              f == [k \in S |-> t[k]]
  <2>1. f \in [S -> T] /\ \A j, k \in S : f[j] = f[k] => j = k  BY <1>1 DEF Slots
  <2>2. ASSUME NEW j \in T PROVE \E k \in S : f[k] = j
    <3>1. j \in 0..(n - 1) /\ h[j] = e  BY DEF Slots
    <3>2. PICK k \in 0..(n - 1) : t[k] = j  BY <3>1, <1>1
    <3>3. k \in S  BY <3>1, <3>2 DEF Slots
    <3>. QED  BY <3>2, <3>3
  <2>. HIDE DEF S, T, f
  <2>3. f \in Bijection(S, T)
    BY <2>1, <2>2 DEF Bijection, Injection, IsInjective, Surjection
  <2>4. ExistsBijection(S, T)  BY <2>3 DEF ExistsBijection
  <2>5. IsFiniteSet(S)  BY BagCounts DEF S
  <2>6. Cardinality(S) = Cardinality(T)  BY <2>4, <2>5, FS_Bijection
  <2>. QED  BY <2>6 DEF S, T
<1>. QED  BY <1>2, SameCounts

\* Two entries that change places.
LEMMA ExchangedBag ==
    ASSUME NEW n \in Nat, NEW h, NEW g, NEW a \in 0..(n - 1), NEW b \in 0..(n - 1),
           g[a] = h[b], g[b] = h[a],
           \A k \in 0..(n - 1) : k # a /\ k # b => g[k] = h[k]
    PROVE  BagOf(g, n) = BagOf(h, n)
<1>. DEFINE t == [k \in 0..(n - 1) |-> IF k = a THEN b ELSE IF k = b THEN a ELSE k]
<1>1. Permutes(t, n)
  <2>1. ASSUME NEW j \in 0..(n - 1) PROVE \E k \in 0..(n - 1) : t[k] = j
    <3>1. t[t[j]] = j /\ t[j] \in 0..(n - 1)  OBVIOUS
    <3>. QED  BY <3>1
  <2>2. t \in [0..(n - 1) -> 0..(n - 1)]  OBVIOUS
  <2>3. \A j, k \in 0..(n - 1) : t[j] = t[k] => j = k  OBVIOUS
  <2>. HIDE DEF t
  <2>. QED  BY <2>1, <2>2, <2>3 DEF Permutes
<1>2. \A k \in 0..(n - 1) : g[k] = h[t[k]]  OBVIOUS
<1>. HIDE DEF t
<1>. QED  BY <1>1, <1>2, PermutedBag

\* One more entry at the end: what its bag is, and what the bag is without it.
LEMMA LastCounts ==
    ASSUME NEW n \in Nat, NEW h, NEW g, \A k \in 0..(n - 1) : g[k] = h[k], NEW e
    PROVE  Cardinality(Slots(h, n + 1, e))
               = IF e = h[n] THEN Cardinality(Slots(g, n, e)) + 1
                             ELSE Cardinality(Slots(g, n, e))
<1>. DEFINE S == Slots(g, n, e)
            T == Slots(h, n + 1, e)
<1>1. IsFiniteSet(S)  BY BagCounts
<1>2. \A k : k \in 0..((n + 1) - 1) <=> k \in 0..(n - 1) \/ k = n  OBVIOUS
<1>3. n \notin S  BY DEF Slots
<1>4. CASE e = h[n]
  <2>1. T = S \cup {n}  BY <1>2, <1>4 DEF Slots
  <2>. HIDE DEF S, T
  <2>2. Cardinality(T) = Cardinality(S) + 1  BY <2>1, <1>1, <1>3, FS_AddElement
  <2>. QED  BY <2>2, <1>4 DEF S, T
<1>5. CASE e # h[n]
  <2>1. T = S  BY <1>2, <1>5 DEF Slots
  <2>. QED  BY <2>1, <1>5
<1>. QED  BY <1>4, <1>5

LEMMA LastAdded ==
    ASSUME NEW n \in Nat, NEW h, NEW g, \A k \in 0..(n - 1) : g[k] = h[k]
    PROVE  BagOf(h, n + 1) = Abstract!BagAdd(BagOf(g, n), h[n])
<1>. DEFINE G == BagOf(g, n)
            m == n + 1
            H == BagOf(h, m)
            x == h[n]
            cg(e) == Cardinality(Slots(g, n, e))
            ch(e) == Cardinality(Slots(h, m, e))
<1>0. m \in Nat  OBVIOUS
<1>1. \A e : cg(e) \in Nat /\ (e \in DOMAIN G <=> cg(e) # 0)  BY BagCounts
<1>2. \A e \in DOMAIN G : G[e] = cg(e)  BY BagCounts
<1>3. \A e : e \in DOMAIN H <=> ch(e) # 0
  <2>. HIDE DEF m
  <2>. QED  BY <1>0, BagCounts
<1>4. \A e \in DOMAIN H : H[e] = ch(e)
  <2>. HIDE DEF m
  <2>. QED  BY <1>0, BagCounts
<1>5. \A e : ch(e) = IF e = x THEN cg(e) + 1 ELSE cg(e)  BY LastCounts
<1>6. H = [e \in DOMAIN H |-> H[e]]  BY DEF BagOf
<1>. HIDE DEF G, H, x, cg, ch
<1>7. DOMAIN H = DOMAIN G \cup {x}
  <2>1. \A e : e \in DOMAIN H <=> e \in DOMAIN G \/ e = x  BY <1>1, <1>3, <1>5
  <2>. QED  BY <2>1
<1>8. CASE x \in DOMAIN G
  <2>1. DOMAIN H = DOMAIN G  BY <1>7, <1>8
  <2>2. \A e \in DOMAIN G : H[e] = IF e = x THEN G[e] + 1 ELSE G[e]
    BY <2>1, <1>2, <1>4, <1>5
  <2>3. H = [e \in DOMAIN G |-> IF e = x THEN G[e] + 1 ELSE G[e]]  BY <2>1, <2>2, <1>6
  <2>4. H = Abstract!BagAdd(G, x)  BY <2>3, <1>8 DEF Abstract!BagAdd
  <2>. QED  BY <2>4 DEF G, H, x
<1>9. CASE x \notin DOMAIN G
  <2>1. cg(x) = 0  BY <1>1, <1>9
  <2>2. \A e \in DOMAIN G \cup {x} : H[e] = IF e = x THEN 1 ELSE G[e]
    <3>1. H[x] = 1  BY <2>1, <1>4, <1>5, <1>7
    <3>2. \A e \in DOMAIN G : e # x => H[e] = G[e]  BY <1>2, <1>4, <1>5, <1>7
    <3>. QED  BY <3>1, <3>2
  <2>3. H = [e \in DOMAIN G \cup {x} |-> IF e = x THEN 1 ELSE G[e]]
    BY <2>2, <1>6, <1>7
  <2>4. H = Abstract!BagAdd(G, x)  BY <2>3, <1>9 DEF Abstract!BagAdd
  <2>. QED  BY <2>4 DEF G, H, x
<1>. QED  BY <1>8, <1>9

LEMMA LastRemoved ==
    ASSUME NEW n \in Nat, NEW h, NEW g, \A k \in 0..(n - 1) : g[k] = h[k]
    PROVE  BagOf(g, n) = Abstract!BagRemove(BagOf(h, n + 1), h[n])
<1>. DEFINE G == BagOf(g, n)
            m == n + 1
            H == BagOf(h, m)
            x == h[n]
            cg(e) == Cardinality(Slots(g, n, e))
            ch(e) == Cardinality(Slots(h, m, e))
<1>0. m \in Nat  OBVIOUS
<1>1. \A e : cg(e) \in Nat /\ (e \in DOMAIN G <=> cg(e) # 0)  BY BagCounts
<1>2. \A e \in DOMAIN G : G[e] = cg(e)  BY BagCounts
<1>3. \A e : e \in DOMAIN H <=> ch(e) # 0
  <2>. HIDE DEF m
  <2>. QED  BY <1>0, BagCounts
<1>4. \A e \in DOMAIN H : H[e] = ch(e)
  <2>. HIDE DEF m
  <2>. QED  BY <1>0, BagCounts
<1>5. \A e : ch(e) = IF e = x THEN cg(e) + 1 ELSE cg(e)  BY LastCounts
<1>6. G = [e \in DOMAIN G |-> G[e]]  BY DEF BagOf
<1>. HIDE DEF G, H, x, cg, ch
<1>7. x \in DOMAIN H /\ H[x] = cg(x) + 1  BY <1>1, <1>3, <1>4, <1>5
<1>8. \A e : e # x => (e \in DOMAIN G <=> e \in DOMAIN H)  BY <1>1, <1>3, <1>5
<1>9. \A e \in DOMAIN G : e # x => H[e] = G[e]  BY <1>2, <1>4, <1>5, <1>8
<1>10. CASE cg(x) = 0
  <2>1. H[x] = 1 /\ x \notin DOMAIN G  BY <1>1, <1>7, <1>10
  <2>2. DOMAIN G = DOMAIN H \ {x}  BY <2>1, <1>8
  <2>3. G = [e \in DOMAIN H \ {x} |-> H[e]]  BY <2>1, <2>2, <1>6, <1>9
  <2>4. G = Abstract!BagRemove(H, x)  BY <2>1, <2>3, <1>7 DEF Abstract!BagRemove
  <2>. QED  BY <2>4 DEF G, H, x
<1>11. CASE cg(x) # 0
  <2>1. H[x] # 1 /\ x \in DOMAIN G  BY <1>1, <1>7, <1>11
  <2>2. DOMAIN G = DOMAIN H
    <3>1. \A e : e \in DOMAIN G <=> e \in DOMAIN H  BY <2>1, <1>7, <1>8
    <3>. QED  BY <3>1
  <2>3. G[x] = H[x] - 1  BY <2>1, <1>1, <1>2, <1>7
  <2>4. G = [e \in DOMAIN H |-> IF e = x THEN H[e] - 1 ELSE H[e]]
    BY <2>2, <2>3, <1>6, <1>9
  <2>5. G = Abstract!BagRemove(H, x)  BY <2>1, <2>4, <1>7 DEF Abstract!BagRemove
  <2>. QED  BY <2>5 DEF G, H, x
<1>. QED  BY <1>10, <1>11

\* A bag of n entries has at most n elements.
LEMMA BagFits ==
    ASSUME NEW n \in Nat, NEW h
    PROVE  Abstract!Size(BagOf(h, n)) \in Nat /\ Abstract!Size(BagOf(h, n)) <= n
<1>. DEFINE B == BagOf(h, n)
            D == DOMAIN B
            S(e) == Slots(h, n, e)
            copies == UNION {{e} \X (1..B[e]) : e \in D}
            P(e, f) == f \in Bijection(1..Cardinality(S(e)), S(e))
            place(e) == CHOOSE f : P(e, f)
            t == [c \in copies |-> place(c[1])[c[2]]]
<1>0. Abstract!Size(B) = Cardinality(copies)
  <2>. HIDE DEF B
  <2>. QED  BY Zenon DEF Abstract!Size, Abstract!Sets!Cardinality, Cardinality
<1>1. \A e : S(e) \subseteq 0..(n - 1) /\ \A k \in S(e) : h[k] = e  BY DEF Slots
<1>2. \A e \in D : B[e] = Cardinality(S(e)) /\ Cardinality(S(e)) \in Nat  BY BagCounts
<1>3. ASSUME NEW e PROVE P(e, place(e))
  <2>1. IsFiniteSet(S(e))  BY BagCounts
  <2>2. ExistsBijection(1..Cardinality(S(e)), S(e))
    <3>. HIDE DEF S
    <3>. QED  BY <2>1, FS_CardinalityType
  <2>3. \E f : P(e, f)  BY <2>2 DEF ExistsBijection
  <2>. HIDE DEF P
  <2>. QED  BY <2>3
<1>4. \A c \in copies : /\ c[1] \in D /\ c[2] \in 1..B[c[1]] /\ c = <<c[1], c[2]>>
  <2>. HIDE DEF B, D
  <2>. QED  OBVIOUS
<1>. HIDE DEF B, S, copies, place, D
<1>5. \A e : /\ place(e) \in [1..Cardinality(S(e)) -> S(e)]
             /\ \A i, j \in 1..Cardinality(S(e)) : place(e)[i] = place(e)[j] => i = j
  BY <1>3 DEF Bijection, Injection, IsInjective
<1>6. ASSUME NEW c \in copies
      PROVE  /\ c[2] \in 1..Cardinality(S(c[1])) /\ t[c] = place(c[1])[c[2]]
             /\ t[c] \in S(c[1])
  <2>1. c[2] \in 1..Cardinality(S(c[1]))  BY <1>2, <1>4
  <2>2. t[c] = place(c[1])[c[2]]  OBVIOUS
  <2>3. place(c[1]) \in [1..Cardinality(S(c[1])) -> S(c[1])]  BY <1>5
  <2>. QED  BY <2>1, <2>2, <2>3
<1>7. t \in [copies -> 0..(n - 1)]
  <2>1. \A c \in copies : t[c] \in 0..(n - 1)  BY <1>1, <1>6
  <2>2. t = [c \in copies |-> t[c]]  OBVIOUS
  <2>. HIDE DEF t
  <2>. QED  BY <2>1, <2>2
<1>8. ASSUME NEW c \in copies, NEW d \in copies, t[c] = t[d] PROVE c = d
  <2>1. h[t[c]] = c[1] /\ h[t[d]] = d[1]  BY <1>1, <1>6
  <2>2. c[1] = d[1]  BY <2>1, <1>8
  <2>3. c[2] = d[2]
    <3>. DEFINE e == c[1]
                i == c[2]
                j == d[2]
    <3>1. i \in 1..Cardinality(S(e)) /\ j \in 1..Cardinality(S(e))  BY <2>2, <1>6
    <3>2. place(e)[i] = place(e)[j]  BY <2>2, <1>6, <1>8
    <3>. HIDE DEF e, i, j
    <3>3. i = j  BY <3>1, <3>2, <1>5
    <3>. QED  BY <3>3 DEF i, j
  <2>. QED  BY <2>2, <2>3, <1>4
<1>. HIDE DEF t
<1>9. t \in Injection(copies, 0..(n - 1))  BY <1>7, <1>8 DEF Injection, IsInjective
<1>10. IsFiniteSet(0..(n - 1)) /\ Cardinality(0..(n - 1)) = n
  <2>1. Cardinality(0..(n - 1)) = IF 0 > n - 1 THEN 0 ELSE n - 1 - 0 + 1
    BY FS_Interval
  <2>2. IsFiniteSet(0..(n - 1))  BY FS_Interval
  <2>. QED  BY <2>1, <2>2
<1>11. IsFiniteSet(copies) /\ Cardinality(copies) <= Cardinality(0..(n - 1))
  <2>. DEFINE T == 0..(n - 1)
  <2>1. t \in Injection(copies, T) /\ IsFiniteSet(T)  BY <1>9, <1>10
  <2>. HIDE DEF T
  <2>2. IsFiniteSet(copies) /\ Cardinality(copies) <= Cardinality(T)
    BY <2>1, FS_Injection
  <2>. QED  BY <2>2 DEF T
<1>12. Cardinality(copies) \in Nat  BY <1>11, FS_CardinalityType
<1>. QED  BY <1>0, <1>10, <1>11, <1>12 DEF B

\* Sifting up moves entries and changes none.
LEMMA SiftUpKeepsBag ==
    ASSUME NEW n \in Nat, NEW i \in 0..(n - 1), NEW h \in Heaps(n)
    PROVE  BagOf(_sift_up(h, i), n) = BagOf(h, n)
<1>. DEFINE g == _sift_up(h, i)
            r == UpTo(h, i)
            A == Ancestors(i)
            t == [k \in 0..(n - 1) |-> IF k = r THEN i
                                       ELSE IF k \in A /\ k > r THEN _parent(k) ELSE k]
<1>1. /\ A \subseteq 0..i /\ i \in A
      /\ \A k \in A : k # 0 => _parent(k) \in A
      /\ \A j, k \in A : j < k => j <= _parent(k)
      /\ \A k \in A : k # i => \E c \in A : c # 0 /\ _parent(c) = k
  BY AncestorsIsWayUp DEF WayUp
<1>2. r \in A /\ r \in 0..i  BY UpToRests
<1>3. /\ g[r] = h[i]
      /\ \A k \in A : k > r => k \in 1..(n - 1) /\ g[k] = h[_parent(k)]
      /\ \A k \in 0..(n - 1) : k # r /\ (k \notin A \/ k < r) => g[k] = h[k]
  BY SiftUpDoes
<1>. HIDE DEF g, r, A
<1>4. \A k \in A : k \in 0..(n - 1)  BY <1>1
<1>5. ASSUME NEW k \in A, k > r
      PROVE  /\ _parent(k) \in A /\ _parent(k) \in 0..(n - 1)
             /\ _parent(k) < k /\ r <= _parent(k) /\ _parent(k) # i
  <2>1. k \in Nat /\ k # 0 /\ k <= i /\ r \in A  BY <1>1, <1>2, <1>5
  <2>2. _parent(k) \in A /\ _parent(k) < k  BY <2>1, <1>1, ParentAndChildren
  <2>3. r <= _parent(k)  BY <2>1, <1>1, <1>5
  <2>4. _parent(k) \in 0..(n - 1)  BY <2>2, <1>4
  <2>5. _parent(k) # i  BY <2>1, <2>2, <2>4
  <2>. QED  BY <2>2, <2>3, <2>4, <2>5
<1>6. t \in [0..(n - 1) -> 0..(n - 1)]
  <2>1. \A k \in 0..(n - 1) : t[k] \in 0..(n - 1)  BY <1>5
  <2>2. t = [k \in 0..(n - 1) |-> t[k]]  OBVIOUS
  <2>. HIDE DEF t
  <2>. QED  BY <2>1, <2>2
<1>7. ASSUME NEW k \in 0..(n - 1)
      PROVE  /\ k = r => t[k] = i
             /\ k \in A /\ k > r => t[k] = _parent(k)
             /\ k # r /\ ~(k \in A /\ k > r) => t[k] = k
  <2>1. r \in Nat /\ (k > r => k # r)  BY <1>2
  <2>. QED  BY <2>1
<1>8. \A k \in 0..(n - 1) : g[k] = h[t[k]]
  <2>. SUFFICES ASSUME NEW k \in 0..(n - 1) PROVE g[k] = h[t[k]]  OBVIOUS
  <2>1. CASE k = r  BY <2>1, <1>3, <1>7
  <2>2. CASE k \in A /\ k > r  BY <2>2, <1>3, <1>7
  <2>3. CASE k # r /\ ~(k \in A /\ k > r)
    <3>1. k \notin A \/ k < r  BY <2>3, <1>2
    <3>. QED  BY <2>3, <3>1, <1>3, <1>7
  <2>. QED  BY <2>1, <2>2, <2>3
<1>. HIDE DEF t
<1>9. ASSUME NEW j \in 0..(n - 1) PROVE \E k \in 0..(n - 1) : t[k] = j
  <2>1. CASE j = i
    <3>1. r \in 0..(n - 1)  BY <1>2, <1>4
    <3>. QED  BY <2>1, <3>1, <1>7
  <2>2. CASE j # i /\ j \in A /\ r <= j
    <3>1. PICK c \in A : c # 0 /\ _parent(c) = j  BY <2>2, <1>1
    <3>2. c \in 0..(n - 1) /\ c > j /\ c > r
      <4>1. c \in 0..(n - 1) /\ c \in Nat  BY <1>4
      <4>2. j < c  BY <3>1, <4>1, ParentAndChildren
      <4>. QED  BY <4>1, <4>2, <2>2, <1>2
    <3>3. t[c] = j  BY <3>1, <3>2, <1>7
    <3>. QED  BY <3>2, <3>3
  <2>3. CASE j # i /\ ~(j \in A /\ r <= j)
    <3>1. j # r /\ ~(j \in A /\ j > r)  BY <2>3, <1>2
    <3>2. t[j] = j  BY <3>1, <1>7
    <3>. QED  BY <3>2
  <2>. QED  BY <2>1, <2>2, <2>3
<1>10. ASSUME NEW j \in 0..(n - 1), NEW k \in 0..(n - 1), t[j] = t[k], j < k PROVE FALSE
  <2>0. r \in 0..(n - 1) /\ i \in 0..(n - 1) /\ r <= i  BY <1>2, <1>4
  <2>1. CASE j \in A /\ j > r /\ k \in A
    <3>1. k > r  BY <2>1, <2>0, <1>10
    <3>2. t[j] = _parent(j) /\ t[k] = _parent(k)  BY <2>1, <3>1, <1>7
    <3>3. _parent(j) < j /\ j <= _parent(k) /\ _parent(j) \in 0..(n - 1) /\ _parent(k) \in 0..(n - 1)
      BY <2>1, <3>1, <1>1, <1>5, <1>10
    <3>. QED  BY <3>2, <3>3, <1>10
  <2>2. CASE j \in A /\ j > r /\ k \notin A
    <3>1. t[j] = _parent(j) /\ t[k] = k /\ _parent(j) \in A
      BY <2>2, <1>2, <1>5, <1>7
    <3>. QED  BY <3>1, <2>2, <1>10
  <2>3. CASE j = r
    <3>1. t[j] = i  BY <2>3, <1>7
    <3>2. CASE k \in A
      <4>1. k > r /\ t[k] = _parent(k)  BY <2>3, <3>2, <1>7, <1>10
      <4>. QED  BY <3>1, <3>2, <4>1, <1>5, <1>10
    <3>3. CASE k \notin A
      <4>1. t[k] = k  BY <3>3, <1>2, <1>7
      <4>. QED  BY <3>1, <3>3, <4>1, <1>1, <1>10
    <3>. QED  BY <3>2, <3>3
  <2>4. CASE j # r /\ ~(j \in A /\ j > r)
    <3>1. t[j] = j /\ (j \in A => j < r)  BY <2>4, <2>0, <1>7
    <3>2. CASE k = r
      <4>1. j = i  BY <3>1, <3>2, <1>7, <1>10
      <4>. QED  BY <4>1, <3>2, <2>0, <1>10
    <3>3. CASE k \in A /\ k > r
      <4>1. j = _parent(k)  BY <3>1, <3>3, <1>7, <1>10
      <4>2. j \in A /\ r <= j  BY <4>1, <3>3, <1>5
      <4>. QED  BY <4>2, <3>1, <2>0
    <3>4. CASE k # r /\ ~(k \in A /\ k > r)
      <4>1. t[k] = k  BY <3>4, <1>7
      <4>. QED  BY <4>1, <3>1, <1>10
    <3>. QED  BY <3>2, <3>3, <3>4
  <2>. QED  BY <2>1, <2>2, <2>3, <2>4
<1>11. \A j, k \in 0..(n - 1) : t[j] = t[k] => j = k
  <2>. SUFFICES ASSUME NEW j \in 0..(n - 1), NEW k \in 0..(n - 1), t[j] = t[k], j # k
                PROVE  FALSE
    OBVIOUS
  <2>1. CASE j < k  BY <2>1, <1>10
  <2>2. CASE k < j  BY <2>2, <1>10
  <2>. QED  BY <2>1, <2>2
<1>12. Permutes(t, n)  BY <1>6, <1>9, <1>11 DEF Permutes
<1>13. BagOf(g, n) = BagOf(h, n)  BY <1>8, <1>12, PermutedBag
<1>. QED  BY <1>13 DEF g

\* Sifting down moves entries and changes none.
LEMMA SiftDownKeepsBag ==
    ASSUME is_min_heap \in BOOLEAN, NEW n \in Nat, NEW i \in 0..(n - 1), NEW h \in Heaps(n)
    PROVE  BagOf(_sift_down(h, n, i), n) = BagOf(h, n)
<1>. DEFINE g == _sift_down(h, n, i)
            r == DownTo(h, n, i)
            D == Descent(h, n, i)
            U(k) == UpperChild(h, n, k)
            half == n \div 2
            moved(k) == k \in D /\ k < r
            t == [k \in 0..(n - 1) |-> IF k = r THEN i ELSE IF moved(k) THEN U(k) ELSE k]
<1>1. /\ D \subseteq i..(n - 1) /\ i \in D
      /\ \A k \in D : k < half => U(k) \in D
      /\ \A j, k \in D : j < k => j < half /\ U(j) <= k
      /\ \A k \in D : k # i => \E p \in D : p < half /\ U(p) = k
  BY DescentIsWayDown DEF WayDown
<1>2. r \in D /\ r \in i..(n - 1) /\ \A k \in D : k < r => k < half
  BY DownToRests
<1>3. /\ g[r] = h[i]
      /\ \A k \in D : k < r => g[k] = h[U(k)]
      /\ \A k \in 0..(n - 1) : k # r /\ (k \notin D \/ k > r) => g[k] = h[k]
  BY SiftDownDoes
<1>4. \A k \in 0..(n - 1) : k < half =>
         U(k) \in 1..(n - 1) /\ U(k) > k /\ _parent(U(k)) = k
  BY UpperChildIsUpper
<1>. HIDE DEF g, r, D, U, half
<1>5. \A k \in D : k \in 0..(n - 1)  BY <1>1
<1>6. ASSUME NEW k \in 0..(n - 1), moved(k)
      PROVE  /\ U(k) \in D /\ U(k) \in 0..(n - 1) /\ U(k) <= r /\ U(k) > k
             /\ _parent(U(k)) = k /\ U(k) # i
  <2>1. k < half  BY <1>2, <1>6
  <2>2. U(k) \in D /\ U(k) <= r  BY <2>1, <1>1, <1>2, <1>6
  <2>3. U(k) > k /\ _parent(U(k)) = k /\ U(k) \in 0..(n - 1)  BY <2>1, <2>2, <1>4, <1>5
  <2>4. k >= i  BY <1>1, <1>6
  <2>. QED  BY <2>2, <2>3, <2>4
<1>7. r \in 0..(n - 1)  BY <1>2, <1>5
<1>8. t \in [0..(n - 1) -> 0..(n - 1)]
  <2>1. \A k \in 0..(n - 1) : t[k] \in 0..(n - 1)
    <3>. SUFFICES ASSUME NEW k \in 0..(n - 1) PROVE t[k] \in 0..(n - 1)  OBVIOUS
    <3>1. moved(k) => U(k) \in 0..(n - 1)  BY <1>6
    <3>. HIDE DEF moved
    <3>. QED  BY <3>1
  <2>2. t = [k \in 0..(n - 1) |-> t[k]]  OBVIOUS
  <2>. HIDE DEF t
  <2>. QED  BY <2>1, <2>2
<1>9. ASSUME NEW k \in 0..(n - 1)
      PROVE  /\ k = r => t[k] = i
             /\ moved(k) => t[k] = U(k)
             /\ k # r /\ ~moved(k) => t[k] = k
  <2>1. moved(k) => k # r  BY <1>7
  <2>. HIDE DEF moved
  <2>. QED  BY <2>1
<1>10. \A k \in 0..(n - 1) : g[k] = h[t[k]]
  <2>. SUFFICES ASSUME NEW k \in 0..(n - 1) PROVE g[k] = h[t[k]]  OBVIOUS
  <2>. HIDE DEF t
  <2>1. CASE k = r  BY <2>1, <1>3, <1>9
  <2>2. CASE moved(k)  BY <2>2, <1>3, <1>9
  <2>3. CASE k # r /\ ~moved(k)
    <3>1. k \notin D \/ k > r  BY <2>3, <1>7
    <3>. QED  BY <2>3, <3>1, <1>3, <1>9
  <2>. QED  BY <2>1, <2>2, <2>3
<1>. HIDE DEF t
<1>11. ASSUME NEW j \in 0..(n - 1) PROVE \E k \in 0..(n - 1) : t[k] = j
  <2>1. CASE j = i  BY <2>1, <1>7, <1>9
  <2>2. CASE j # i /\ j \in D /\ j <= r
    <3>1. PICK p \in D : p < half /\ U(p) = j  BY <2>2, <1>1
    <3>2. p \in 0..(n - 1) /\ p < j  BY <3>1, <1>4, <1>5
    <3>3. moved(p)  BY <3>1, <3>2, <2>2, <1>7
    <3>. QED  BY <3>1, <3>2, <3>3, <1>9
  <2>3. CASE j # i /\ ~(j \in D /\ j <= r)
    <3>1. j # r /\ ~moved(j)  BY <2>3, <1>2, <1>7
    <3>. QED  BY <3>1, <1>9
  <2>. QED  BY <2>1, <2>2, <2>3
<1>12. ASSUME NEW j \in 0..(n - 1), NEW k \in 0..(n - 1), t[j] = t[k], j # k,
              moved(j) \/ (j = r /\ ~moved(k)) \/ (j # r /\ k # r /\ ~moved(j) /\ ~moved(k))
       PROVE  FALSE
  <2>1. CASE moved(j) /\ moved(k)
    <3>1. U(j) = U(k)  BY <2>1, <1>9, <1>12
    <3>. QED  BY <2>1, <3>1, <1>6, <1>12
  <2>2. CASE moved(j) /\ k = r
    <3>1. U(j) = i  BY <2>2, <1>9, <1>12
    <3>. QED  BY <2>2, <3>1, <1>6
  <2>3. CASE moved(j) /\ ~moved(k) /\ k # r
    <3>1. U(j) = k  BY <2>3, <1>9, <1>12
    <3>2. k \in D /\ k <= r  BY <2>3, <3>1, <1>6
    <3>. QED  BY <2>3, <3>2, <1>7
  <2>4. CASE j = r /\ ~moved(k)
    <3>1. k = i /\ k # r  BY <2>4, <1>9, <1>12
    <3>2. k \in D /\ k < r  BY <3>1, <1>1, <1>2
    <3>. QED  BY <2>4, <3>2
  <2>5. CASE j # r /\ k # r /\ ~moved(j) /\ ~moved(k)  BY <2>5, <1>9, <1>12
  <2>. HIDE DEF moved
  <2>. QED  BY <2>1, <2>2, <2>3, <2>4, <2>5, <1>12
<1>13. \A j, k \in 0..(n - 1) : t[j] = t[k] => j = k
  <2>. SUFFICES ASSUME NEW j \in 0..(n - 1), NEW k \in 0..(n - 1), t[j] = t[k], j # k
                PROVE  FALSE
    OBVIOUS
  <2>1. CASE moved(j) \/ (j = r /\ ~moved(k)) \/ (j # r /\ k # r /\ ~moved(j) /\ ~moved(k))
    BY <2>1, <1>12
  <2>2. CASE moved(k) \/ (k = r /\ ~moved(j))  BY <2>2, <1>12
  <2>. HIDE DEF moved
  <2>. QED  BY <2>1, <2>2
<1>14. Permutes(t, n)  BY <1>8, <1>11, <1>13 DEF Permutes
<1>15. BagOf(g, n) = BagOf(h, n)  BY <1>10, <1>14, PermutedBag
<1>. QED  BY <1>15 DEF g

\* In a heap that is in order nothing goes before the entry in slot 0.
LEMMA RootIsBest ==
    ASSUME is_min_heap \in BOOLEAN, NEW n \in Nat, NEW h \in Heaps(n), InHeapOrder(h, n)
    PROVE  \A k \in 0..(n - 1) : Below(h, 0, k)
<1>. DEFINE S == {k \in 0..(n - 1) : ~Below(h, 0, k)}
<1>1. S = {}
  <2>. SUFFICES ASSUME S # {} PROVE FALSE  OBVIOUS
  <2>0. S \in SUBSET Nat  OBVIOUS
  <2>1. PICK k \in S : \A j \in S : k <= j
    <3>. HIDE DEF S
    <3>. QED  BY <2>0, NatsHaveLeast
  <2>2. k \in 0..(n - 1) /\ ~Below(h, 0, k) /\ 0 \in 0..(n - 1)  BY <2>1
  <2>3. CASE k = 0
    <3>1. Below(h, 0, 0)  BY <2>2, BelowIsOrder
    <3>. QED  BY <2>2, <2>3, <3>1
  <2>4. CASE k # 0
    <3>. DEFINE p == _parent(k)
    <3>1. p \in 0..(n - 1) /\ p < k /\ k \in 1..(n - 1)  BY <2>2, <2>4, ParentAndChildren
    <3>. HIDE DEF p
    <3>2. p \notin S
      <4>. HIDE DEF S
      <4>. QED  BY <2>1, <2>2, <3>1
    <3>3. Below(h, 0, p)  BY <3>1, <3>2
    <3>4. Below(h, p, k)  BY <3>1 DEF InHeapOrder, p
    <3>5. Below(h, 0, k)  BY <2>2, <3>1, <3>3, <3>4, BelowIsOrder
    <3>. QED  BY <2>2, <3>5
  <2>. QED  BY <2>3, <2>4
<1>. QED  BY <1>1
-----------------------------------------------------------------------------
(* The heap is a priority queue *)

LEMMA ContentsIsBag == Contents = BagOf(node, size) /\ Contents' = BagOf(node', size')
BY DEF Contents, BagOf, Slots

\* The order is given up only as the abstract queue may: not while at most one
\* entry is left.
LEMMA LosesOrder ==
    ASSUME NEW failed \in BOOLEAN, NEW n \in Nat, size' = n,
           unsifted' = (n > 1 /\ (unsifted \/ failed))
    PROVE  Abstract!MayLoseOrder
<1>1. Abstract!Size(Contents') \in Nat /\ Abstract!Size(Contents') <= n
  BY ContentsIsBag, BagFits
<1>. DEFINE s == Abstract!Size(Contents')
<1>. HIDE DEF s
<1>2. s \in Nat /\ s <= n  BY <1>1 DEF s
<1>3. ~(n > 1) => s <= 1  BY <1>2
<1>4. ~unsifted' => ~unsifted \/ ~(n > 1)  BY Zenon
<1>5. ~unsifted' => ~unsifted \/ s <= 1  BY <1>3, <1>4, Zenon
<1>6. Abstract!MayLoseOrder <=> (~unsifted' => ~unsifted \/ s <= 1)
  BY DEF Abstract!MayLoseOrder, s
<1>. QED  BY <1>5, <1>6, Zenon

LEMMA PushPuts ==
    ASSUME HeapInv, NEW e \in Entries, vf_bh_push(e)
    PROVE  Abstract!Put(e)
<1>. DEFINE n == size
            m == n + 1
            h == [k \in 0..n |-> IF k = n THEN e ELSE node[k]]
            g == _sift_up(h, n)
<1>1. n \in Nat /\ node \in Heaps(n) /\ capacity \in Nat /\ n <= capacity
  BY TypesSay DEF HeapInv
<1>2. m \in Nat /\ m - 1 = n /\ n < capacity /\ n \in 0..(m - 1)  BY <1>1 DEF vf_bh_push
<1>3. h \in Heaps(m) /\ h[n] = e /\ \A k \in 0..(n - 1) : node[k] = h[k]
  <2>1. h \in [0..n -> Entries]  BY <1>1 DEF Heaps
  <2>2. \A k \in 0..(n - 1) : k \in 0..n /\ k # n  BY <1>1
  <2>3. n \in 0..n  BY <1>1
  <2>. QED  BY <2>1, <2>2, <2>3, <1>2 DEF Heaps
<1>4. size' = m /\ node' = g /\ alive /\ UNCHANGED <<capacity, is_min_heap, alive, unsifted>>
  BY DEF vf_bh_push
<1>5. BagOf(h, m) = Abstract!BagAdd(BagOf(node, n), e)
  <2>. HIDE DEF h
  <2>. QED  BY <1>1, <1>3, LastAdded
<1>. HIDE DEF h, m
<1>6. BagOf(g, m) = BagOf(h, m)  BY <1>2, <1>3, SiftUpKeepsBag
<1>7. Contents' = Abstract!BagAdd(Contents, e)  BY <1>4, <1>5, <1>6, ContentsIsBag
<1>8. Abstract!Size(Contents) < capacity
  <2>. DEFINE s == Abstract!Size(Contents)
  <2>1. s \in Nat /\ s <= n  BY <1>1, ContentsIsBag, BagFits
  <2>. HIDE DEF s
  <2>2. s < capacity  BY <2>1, <1>1, <1>2
  <2>. QED  BY <2>2 DEF s
<1>. QED  BY <1>4, <1>7, <1>8 DEF Abstract!Put, Abstract!chosen

LEMMA PopTakes ==
    ASSUME HeapInv, NEW failed \in BOOLEAN, vf_bh_pop(failed)
    PROVE  node[0] \in Entries /\ Abstract!Take(node[0])
<1>. DEFINE n == size - 1
            m == n + 1
            x == node[0]
            f == [k \in 0..n |-> IF k = n THEN x ELSE IF k = 0 THEN node[n] ELSE node[k]]
            h == [k \in 0..(n - 1) |-> IF k = 0 THEN node[size - 1] ELSE node[k]]
            g == IF n = 0 \/ failed THEN h ELSE _sift_down(h, n, 0)
<1>1. /\ is_min_heap \in BOOLEAN /\ size \in Nat /\ node \in Heaps(size)
      /\ unsifted \/ InHeapOrder(node, size)
  BY TypesSay DEF HeapInv
<1>2. n \in Nat /\ m \in Nat /\ size = m /\ m - 1 = n /\ size > 0  BY <1>1 DEF vf_bh_pop
<1>3. \A k \in 0..(size - 1) : node[k] \in Entries  BY <1>1 DEF Heaps
<1>4. 0 \in 0..(size - 1) /\ size - 1 \in 0..(size - 1)  BY <1>1, <1>2
<1>5. x \in Entries  BY <1>3, <1>4
<1>6. size' = n /\ node' = g /\ alive  BY DEF vf_bh_pop
<1>7. /\ unsifted' = (n > 1 /\ (unsifted \/ failed))
      /\ UNCHANGED <<capacity, is_min_heap, alive>>
  BY <1>6 DEF vf_bh_pop, Unsifted
<1>8. h \in Heaps(n)
  <2>1. \A k \in 0..(n - 1) : k \in 0..(size - 1)  BY <1>1
  <2>. QED  BY <1>3, <1>4, <2>1 DEF Heaps
<1>9. /\ f[0] = node[n] /\ f[n] = x /\ 0 \in 0..(m - 1) /\ n \in 0..(m - 1)
      /\ \A k \in 0..(m - 1) : k # 0 /\ k # n => f[k] = node[k]
      /\ \A k \in 0..(n - 1) : h[k] = f[k]
  <2>. HIDE DEF n, m, x
  <2>1. 0 \in 0..n /\ n \in 0..n  BY <1>2
  <2>2. f[n] = x  BY <2>1
  <2>3. f[0] = node[n]
    <3>1. n = 0 => x = node[n]  BY DEF x
    <3>. QED  BY <2>1, <3>1
  <2>4. \A k \in 0..(m - 1) : k # 0 /\ k # n => f[k] = node[k]  BY <1>2
  <2>5. \A k \in 0..(n - 1) : k \in 0..n /\ k # n  BY <1>2
  <2>6. size - 1 = n  BY <1>2
  <2>7. \A k \in 0..(n - 1) : h[k] = f[k]  BY <2>5, <2>6
  <2>. QED  BY <2>1, <2>2, <2>3, <2>4, <2>7, <1>2
<1>. HIDE DEF f, h, m
<1>10. BagOf(f, m) = BagOf(node, m)
  <2>. HIDE DEF n
  <2>. QED  BY <1>2, <1>9, ExchangedBag
<1>11. BagOf(h, n) = Abstract!BagRemove(BagOf(node, m), x)
  <2>. HIDE DEF n, x
  <2>1. BagOf(h, n) = Abstract!BagRemove(BagOf(f, n + 1), f[n])
    BY <1>2, <1>9, LastRemoved
  <2>. QED  BY <2>1, <1>9, <1>10 DEF m
<1>. HIDE DEF n
<1>12. BagOf(g, n) = BagOf(h, n)
  <2>1. n # 0 => 0 \in 0..(n - 1)  BY <1>2
  <2>2. n # 0 => BagOf(_sift_down(h, n, 0), n) = BagOf(h, n)
    BY <1>1, <1>2, <1>8, <2>1, SiftDownKeepsBag
  <2>. QED  BY <2>2
<1>13. Contents' = Abstract!BagRemove(Contents, x)
  BY <1>2, <1>6, <1>11, <1>12, ContentsIsBag
<1>14. Abstract!MayLoseOrder  BY <1>2, <1>6, <1>7, LosesOrder
<1>15. x \in DOMAIN Contents  BY <1>4 DEF Contents
<1>16. ASSUME ~unsifted PROVE Abstract!Best(x)
  <2>1. \A k \in 0..(size - 1) : Below(node, 0, k)  BY <1>1, <1>16, RootIsBest
  <2>2. ASSUME NEW k \in 0..(size - 1)
        PROVE  ~Abstract!Before(node[k].priority, x.priority)
    <3>1. node[k].priority \in Int /\ x.priority \in Int
      BY <1>3, <1>5, HeapAssumption DEF Entries
    <3>2. ~_compare(x.priority, node[k].priority)  BY <2>1 DEF Below
    <3>. HIDE DEF x
    <3>. QED  BY <3>1, <3>2, <1>1 DEF _compare, Abstract!Before
  <2>3. DOMAIN Contents = {node[k] : k \in 0..(size - 1)}  BY DEF Contents
  <2>. HIDE DEF x
  <2>. QED  BY <1>15, <2>2, <2>3 DEF Abstract!Best
<1>. HIDE DEF x
<1>17. Abstract!Take(x)
  BY <1>6, <1>7, <1>13, <1>14, <1>15, <1>16 DEF Abstract!Take, Abstract!chosen
<1>. QED  BY <1>5, <1>17 DEF x

\* The priority of one entry changes: its element leaves the bag, and one with
\* the new priority comes in.
LEMMA ChangedBag ==
    ASSUME NEW n \in Nat, NEW i \in 0..(n - 1), NEW g, NEW h,
           \A k \in 0..(n - 1) : k # i => h[k] = g[k]
    PROVE  BagOf(h, n) = Abstract!BagAdd(Abstract!BagRemove(BagOf(g, n), g[i]), h[i])
<1>. DEFINE m == n - 1
            swapped(a) == [k \in 0..m |-> IF k = i THEN a[m] ELSE IF k = m THEN a[i] ELSE a[k]]
            rest == [k \in 0..(m - 1) |-> swapped(g)[k]]
<1>1. m \in Nat /\ n = m + 1 /\ i \in 0..m /\ m \in 0..m  OBVIOUS
<1>2. ASSUME NEW a
      PROVE  /\ BagOf(swapped(a), n) = BagOf(a, n)
             /\ swapped(a)[m] = a[i]
  <2>1. swapped(a)[m] = a[i]
    <3>. HIDE DEF m
    <3>1. i = m => a[m] = a[i]  OBVIOUS
    <3>. QED  BY <1>1, <3>1
  <2>2. swapped(a)[i] = a[m]
    <3>. HIDE DEF m
    <3>. QED  BY <1>1
  <2>3. \A k \in 0..(n - 1) : k # i /\ k # m => swapped(a)[k] = a[k]  OBVIOUS
  <2>4. m \in 0..(n - 1) /\ i \in 0..(n - 1)  BY <1>1
  <2>. HIDE DEF swapped, m
  <2>. QED  BY <2>1, <2>2, <2>3, <2>4, ExchangedBag
<1>3. \A k \in 0..(m - 1) : rest[k] = swapped(g)[k] /\ rest[k] = swapped(h)[k]
  <2>. SUFFICES ASSUME NEW k \in 0..(m - 1)
                PROVE  rest[k] = swapped(g)[k] /\ rest[k] = swapped(h)[k]
    OBVIOUS
  <2>1. rest[k] = swapped(g)[k]  BY Zenon
  <2>2. k # m /\ k \in 0..m /\ k \in 0..(n - 1) /\ m \in 0..(n - 1)  BY <1>1
  <2>3. CASE k = i
    <3>1. swapped(g)[k] = g[m] /\ swapped(h)[k] = h[m]  BY <2>2, <2>3
    <3>2. m # i  BY <2>2, <2>3
    <3>. QED  BY <2>1, <2>2, <3>1, <3>2
  <2>4. CASE k # i
    <3>1. swapped(g)[k] = g[k] /\ swapped(h)[k] = h[k]  BY <2>2, <2>4
    <3>. QED  BY <2>1, <2>2, <2>4, <3>1
  <2>. QED  BY <2>3, <2>4
<1>. HIDE DEF swapped, rest, m
<1>4. BagOf(rest, m) = Abstract!BagRemove(BagOf(swapped(g), m + 1), swapped(g)[m])
  BY <1>1, <1>3, LastRemoved
<1>5. BagOf(swapped(h), m + 1) = Abstract!BagAdd(BagOf(rest, m), swapped(h)[m])
  BY <1>1, <1>3, LastAdded
<1>. QED  BY <1>1, <1>2, <1>4, <1>5

LEMMA UpdateChanges ==
    ASSUME HeapInv, NEW x \in Items, NEW p \in Priorities, NEW failed \in BOOLEAN,
           vf_bh_update_priority(x, p, failed)
    PROVE  \E e \in Entries : Abstract!Change(e, p)
<1>. DEFINE n == size
            i == Found(x)
            e == node[i]
            h == [node EXCEPT ![i].priority = p]
            g == IF failed THEN h
                 ELSE IF _compare(e.priority, p) THEN _sift_up(h, i) ELSE _sift_down(h, n, i)
<1>1. is_min_heap \in BOOLEAN /\ n \in Nat /\ node \in Heaps(n)  BY TypesSay DEF HeapInv
<1>2. i \in 0..(n - 1)  BY <1>1, FoundIsSlot DEF vf_bh_update_priority
<1>3. /\ node' = g /\ size' = n /\ unsifted' = (n > 1 /\ (unsifted \/ failed)) /\ alive
      /\ UNCHANGED <<capacity, is_min_heap, alive>>
  BY DEF vf_bh_update_priority, Unsifted
<1>. HIDE DEF i, n
<1>4. e \in Entries  BY <1>1, <1>2 DEF Heaps
<1>5. /\ h \in Heaps(n) /\ h[i] = [e EXCEPT !.priority = p]
      /\ \A k \in 0..(n - 1) : k # i => h[k] = node[k]
  <2>. DEFINE d == [e EXCEPT !.priority = p]
  <2>1. d \in Entries  BY <1>4 DEF Entries
  <2>2. h = [node EXCEPT ![i] = d]  OBVIOUS
  <2>. HIDE DEF d, h
  <2>3. /\ h \in Heaps(n) /\ h[i] = d
        /\ \A k \in 0..(n - 1) : k # i => h[k] = node[k]
    BY <2>1, <2>2, <1>1, <1>2 DEF Heaps
  <2>. QED  BY <2>3 DEF d
<1>. HIDE DEF h
<1>6. BagOf(h, n) = Abstract!BagAdd(Abstract!BagRemove(BagOf(node, n), e), h[i])
  BY <1>1, <1>2, <1>5, ChangedBag
<1>7. BagOf(g, n) = BagOf(h, n)
  <2>1. BagOf(_sift_up(h, i), n) = BagOf(h, n)  BY <1>1, <1>2, <1>5, SiftUpKeepsBag
  <2>2. BagOf(_sift_down(h, n, i), n) = BagOf(h, n)  BY <1>1, <1>2, <1>5, SiftDownKeepsBag
  <2>. QED  BY <2>1, <2>2
<1>8. Contents = BagOf(node, n) /\ Contents' = BagOf(node', size')  BY ContentsIsBag DEF n
<1>9. e \in DOMAIN Contents
  <2>1. e \in DOMAIN BagOf(node, n)  BY <1>2 DEF BagOf
  <2>. QED  BY <2>1, <1>8
<1>. HIDE DEF g
<1>10. Contents' = Abstract!BagAdd(Abstract!BagRemove(Contents, e), [e EXCEPT !.priority = p])
  BY <1>3, <1>5, <1>6, <1>7, <1>8
<1>11. Abstract!MayLoseOrder  BY <1>1, <1>3, LosesOrder
<1>. HIDE DEF e
<1>12. Abstract!Change(e, p)
  BY <1>3, <1>9, <1>10, <1>11 DEF Abstract!Change, Abstract!chosen
<1>. QED  BY <1>4, <1>12

\* Without entries the bag is empty.
LEMMA NothingHeld ==
    ASSUME NEW h
    PROVE  BagOf(h, 0) = Abstract!Bag!EmptyBag
<1>1. 0..(0 - 1) = {}  OBVIOUS
<1>2. BagOf(h, 0) = [e \in {} |-> 1]  BY <1>1 DEF BagOf
<1>. QED  BY <1>2 DEF Abstract!Bag!EmptyBag, Abstract!Bag!SetToBag

\* Every step is one of the abstract queue, or none.
LEMMA StepImplements == HeapInv /\ [Next]_vars => [Abstract!Next]_Abstract!vars
<1>. SUFFICES ASSUME HeapInv, [Next]_vars PROVE [Abstract!Next]_Abstract!vars
  OBVIOUS
<1>0. Abstract!Elements = Entries  BY DEF Abstract!Elements, Entries
<1>1. ASSUME NEW e \in Entries, vf_bh_push(e) PROVE Abstract!Next
  <2>1. Abstract!Put(e)  BY <1>1, PushPuts
  <2>. QED  BY <2>1, <1>0 DEF Abstract!Next
<1>2. ASSUME NEW failed \in BOOLEAN, vf_bh_pop(failed) PROVE Abstract!Next
  <2>1. node[0] \in Entries /\ Abstract!Take(node[0])  BY <1>2, PopTakes
  <2>. QED  BY <2>1, <1>0 DEF Abstract!Next
<1>3. ASSUME NEW x \in Items, NEW p \in Priorities, NEW failed \in BOOLEAN,
             vf_bh_update_priority(x, p, failed)
      PROVE  Abstract!Next
  <2>1. \E e \in Entries : Abstract!Change(e, p)  BY <1>3, UpdateChanges
  <2>. QED  BY <2>1, <1>0 DEF Abstract!Next
<1>4. CASE vf_bh_clear
  <2>1. Contents' = Abstract!Bag!EmptyBag  BY <1>4, ContentsIsBag, NothingHeld DEF vf_bh_clear
  <2>2. Abstract!Clear  BY <1>4, <2>1 DEF vf_bh_clear, Abstract!Clear, Abstract!chosen
  <2>. QED  BY <2>2 DEF Abstract!Next
<1>5. ASSUME UNCHANGED fields
      PROVE  UNCHANGED <<capacity, is_min_heap, Contents>>
  BY <1>5, ContentsIsBag DEF fields
<1>6. CASE vf_bh_destroy
  <2>1. Abstract!Close
    BY <1>5, <1>6 DEF vf_bh_destroy, Abstract!Close, Abstract!chosen
  <2>. QED  BY <2>1 DEF Abstract!Next
<1>7. CASE UNCHANGED vars
  <2>1. UNCHANGED Abstract!vars  BY <1>5, <1>7 DEF vars, Abstract!vars, Abstract!chosen
  <2>. QED  BY <2>1
<1>. QED  BY <1>1, <1>2, <1>3, <1>4, <1>6, <1>7 DEF Next, Entries

\* The heap implements the bounded priority queue, whatever its capacity and
\* kind: push adds its element, pop takes one no other goes before, an update
\* exchanges one element for one with the new priority, and no sift, nor one cut
\* short for want of memory, loses or doubles an element (vf_bh_push,
\* vf_bh_pop, vf_bh_update_priority).
THEOREM HeapIsPriorityQueue == Spec => ImplementsPriorityQueue
<1>1. Init => Abstract!Init
  <2>. SUFFICES ASSUME Init PROVE Abstract!Init  OBVIOUS
  <2>1. Contents = Abstract!Bag!EmptyBag  BY ContentsIsBag, NothingHeld DEF Init
  <2>2. capacity \in Nat  BY HeapAssumption DEF Init
  <2>. QED  BY <2>1, <2>2 DEF Init, Abstract!Init
<1>2. HeapInv /\ [Next]_vars => [Abstract!Next]_Abstract!vars  BY StepImplements
<1>. QED  BY <1>1, <1>2, InvHolds, PTL DEF Spec, ImplementsPriorityQueue, Abstract!Spec
=============================================================================
