------------------------------- MODULE DArray -------------------------------
(***************************************************************************)
(* vf_darray.h: a dynamic array for one thread, with its header in front   *)
(* of the elements.  One action per call that changes the array; the       *)
(* caller goes on with the pointer the call returns.  A call that reads or *)
(* writes outside the allocated elements is undefined: da_undefined names  *)
(* it, and nothing is claimed afterwards.  malloc succeeds, as the code    *)
(* assumes; all arrays have one stride.                                    *)
(***************************************************************************)
EXTENDS Integers, Sequences

CONSTANTS DaItems,        \* what is stored
          DaGarbage,      \* content of memory nobody wrote
          DaRequests,     \* the capacities a client asks for
          DaOthers,       \* the arrays a client appends: [capacity, items]
          DaMaxCapacity   \* bound: the header's capacity does not grow beyond

DA_RESIZE_FACTOR == 2

ASSUME DaAssumption ==
    /\ DaGarbage \notin DaItems
    /\ DaMaxCapacity \in Nat /\ DaRequests \subseteq 0..DaMaxCapacity
    /\ \A b \in DaOthers : /\ b.capacity \in Nat /\ b.items \in Seq(DaItems)
                           /\ Len(b.items) <= b.capacity

VARIABLES da,             \* header and elements; the domain of data is what malloc gave
          da_alive,       \* between vf_da_alloc_exact and vf_da_free
          da_lost,        \* history: the last call, if it spoilt or forgot elements
          da_undefined    \* the call that left the allocated elements, or "none"

da_vars == <<da, da_alive, da_lost, da_undefined>>

DaUsable == da_alive /\ da_undefined = "none"

\* vf_da_alloc_exact: an empty array of n elements.
Allocated(n) == [data |-> [k \in 0..(n - 1) |-> DaGarbage],
                 count |-> 0, capacity |-> n, max_capacity |-> n]

DaInit == /\ \E n \in DaRequests : da = Allocated(n)
          /\ da_alive = TRUE /\ da_lost = "none" /\ da_undefined = "none"

\* The call op returns the array d, unless it left the memory; lost tells
\* whether elements were spoilt on the way.
Returns(op, inside, d, lost) ==
    /\ DaUsable
    /\ \/ /\ inside
          /\ d.capacity <= DaMaxCapacity
          /\ da' = d
          /\ da_lost' = IF lost THEN op ELSE "none"
          /\ UNCHANGED da_undefined
       \/ /\ ~inside
          /\ da_undefined' = op
          /\ da_lost' = "none"
          /\ UNCHANGED da
    /\ UNCHANGED da_alive

\* The array with a block of n elements into which m elements were copied.
Moved(d, n, m) == [Allocated(n) EXCEPT
    !.data = [k \in 0..(n - 1) |-> IF k < m /\ k \in DOMAIN d.data THEN d.data[k]
                                                                   ELSE DaGarbage]]
-----------------------------------------------------------------------------
(* Capacity *)

\* vf_da_reserve copies as many elements as the header says there is room for;
\* nobody frees the old block.
ReservedEmpty(d, n) ==                          \* mutant
    IF d.capacity >= n THEN d ELSE Moved(d, n, d.capacity)
ReservedKeepsMax(d, n) ==                       \* mutant
    IF d.capacity >= n THEN d
    ELSE [Moved(d, n, d.capacity) EXCEPT !.count = d.count, !.max_capacity = d.capacity]
Reserved(d, n) ==
    IF d.capacity >= n THEN d
    ELSE [Moved(d, n, d.capacity) EXCEPT !.count = d.count]

ReserveInside(d, n) == d.capacity >= n \/ d.capacity <= d.max_capacity

vf_da_reserve(n) ==
    /\ n > da.capacity
    /\ Returns("reserve", ReserveInside(da, n), Reserved(da, n), FALSE)

\* The new header says that no element is held.  Making an array smaller only
\* changes a local variable.
vf_da_resize(n) ==
    /\ n > da.capacity
    /\ Returns("resize", da.count <= da.max_capacity, Moved(da, n, da.count), da.count > 0)
-----------------------------------------------------------------------------
(* Elements *)

\* The array after push_back has made room.
FullByOne(d) == d.count > d.capacity            \* mutant
Full(d) == d.count >= d.capacity

vf_da_push_back(x) ==
    LET n == da.capacity * DA_RESIZE_FACTOR
        d == IF Full(da) THEN Reserved(da, n) ELSE da
    IN  Returns("push_back",
                (Full(da) => ReserveInside(da, n)) /\ d.count \in DOMAIN d.data,
                [d EXCEPT !.data = [@ EXCEPT ![d.count] = x], !.count = @ + 1], FALSE)

vf_da_is_empty == da.count = 0

vf_da_pop_back == /\ ~vf_da_is_empty
                  /\ Returns("pop_back", TRUE, [da EXCEPT !.count = @ - 1], FALSE)

\* memcpy of elements from..(count - 1) to the places one further.  The two
\* ranges overlap, which memcpy does not allow: it may copy any number of
\* elements at a time, and the first load of a later chunk sees what the last
\* store of the chunk before it has put.
Shifted(d, from, chunk) ==
    LET Loaded(k) == IF chunk = 1 THEN d.data[from]
                     ELSE IF k > from + 1 /\ (k - from - 1) % chunk = 0 THEN d.data[k - 2]
                     ELSE d.data[k - 1]
    IN  [k \in DOMAIN d.data |-> IF k \in (from + 1)..d.count THEN Loaded(k) ELSE d.data[k]]

\* A full array gets a larger capacity in its header first: reserve then finds
\* that there is room, and moves nothing.
vf_da_insert(x, index, chunk) ==
    LET h == IF Full(da) THEN [da EXCEPT !.capacity = @ * DA_RESIZE_FACTOR] ELSE da
        d == IF Full(da) THEN Reserved(h, h.capacity) ELSE h
    IN  Returns("insert", d.count \in DOMAIN d.data,
                [d EXCEPT !.data = [Shifted(d, index, chunk) EXCEPT ![index] = x],
                          !.count = @ + 1],
                chunk < d.count - index)

\* One element of b is copied, and all are counted; b is freed.  The capacities
\* are added before reserve is asked, as in insert.
AppendCopies(d, b) ==
    [d.data EXCEPT ![d.count] = IF b.items = <<>> THEN DaGarbage ELSE b.items[1]]

vf_da_append(b) ==
    LET h == [da EXCEPT !.capacity = @ + b.capacity]
        d == IF da.capacity < h.capacity THEN Reserved(h, h.capacity) ELSE da
    IN  Returns(IF b.capacity = 0 THEN "append_nothing" ELSE "append",
                b.capacity > 0 /\ d.count \in DOMAIN d.data,
                [d EXCEPT !.data = AppendCopies(d, b), !.count = @ + Len(b.items)],
                Len(b.items) > 1)

vf_da_clear == Returns("clear", TRUE, [da EXCEPT !.count = 0], FALSE)

_vf_memswap(s, k, l) == [s EXCEPT ![k] = s[l], ![l] = s[k]]

vf_da_swap(k, l) == Returns("swap", {k, l} \subseteq DOMAIN da.data,
                            [da EXCEPT !.data = _vf_memswap(@, k, l)], FALSE)

vf_da_free == /\ DaUsable
              /\ da' = Allocated(0)
              /\ da_alive' = FALSE /\ da_lost' = "none"
              /\ UNCHANGED da_undefined

DaNext ==
    \/ \E n \in 0..DaMaxCapacity : vf_da_reserve(n) \/ vf_da_resize(n)
    \/ \E x \in DaItems :
          \/ vf_da_push_back(x)
          \/ \E index \in 0..da.count : \E chunk \in 1..(da.count - index) \cup {1} :
                vf_da_insert(x, index, chunk)
    \/ \E b \in DaOthers : vf_da_append(b)
    \/ \E k, l \in 0..(da.count - 1) : vf_da_swap(k, l)
    \/ vf_da_pop_back \/ vf_da_clear \/ vf_da_free

DaSpec == DaInit /\ [][DaNext]_da_vars
-----------------------------------------------------------------------------
(* Properties *)

Calls == {"reserve", "resize", "push_back", "insert", "append", "append_nothing", "swap"}

\* Every variable has its type.
DaTypeOK == /\ da.data \in [DOMAIN da.data -> DaItems \cup {DaGarbage}]
            /\ {da.count, da.capacity, da.max_capacity} \subseteq Nat
            /\ da_alive \in BOOLEAN
            /\ da_lost \in {"none", "resize", "insert", "append"}
            /\ da_undefined \in Calls \cup {"none"}

\* Of the two capacities in the header max_capacity is always the number of
\* elements the block has, while capacity may promise more than there is; the
\* count never passes what capacity promises.
DaHeaderTellsMemory == /\ DaTypeOK
                       /\ DOMAIN da.data = 0..(da.max_capacity - 1)
                       /\ da.max_capacity <= da.capacity
                       /\ da.count <= da.capacity

\* The capacity promises more than the block has.
Overstated == da.capacity > da.max_capacity

\* A call leaves the allocated elements only in the cases that are known: the
\* capacity is overstated since an append, push_back doubles a capacity of
\* nothing, insert or append meet a full array, or the array appended has no
\* elements to read.
DaOverrunsAreKnown ==
    CASE da_undefined = "push_back" -> Overstated \/ da.capacity = 0
      [] da_undefined \in {"insert", "append"} -> Overstated \/ Full(da)
      [] da_undefined \in {"reserve", "resize", "swap"} -> Overstated
      [] OTHER -> TRUE

DaContents == [k \in 1..da.count |-> IF k - 1 \in DOMAIN da.data THEN da.data[k - 1]
                                                                ELSE DaGarbage]

DaSeq == INSTANCE EditableSequence WITH
            Elems <- DaItems, items <- DaContents, closed <- ~da_alive

\* Each call edits the sequence of held elements as its name says, also when it
\* moves the array to a new block, except for those that are known not to: an
\* insert that smears the elements it moves, an append of more than one element,
\* and a resize, which forgets all of them.
DaEditsSequence ==
    /\ DaSeq!Init
    /\ [][CASE da_lost' = "resize" -> DaContents' = <<>>
            [] da_lost' = "insert" -> Len(DaContents') = Len(DaContents) + 1
            [] da_lost' = "append" -> SubSeq(DaContents', 1, da.count) = DaContents
            [] da_lost' = "none"   -> DaSeq!Next \/ UNCHANGED <<DaContents, da_alive>>]_da_vars
=============================================================================
