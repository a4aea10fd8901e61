----------------------------- MODULE MemoryPool -----------------------------
(***************************************************************************)
(* vf_memory_pool.h: equal blocks out of one piece of memory, with a list  *)
(* of freed blocks threaded through the blocks themselves.  A pointer is   *)
(* the piece of memory it points into and a block number.  The client      *)
(* keeps to the contract: it uses and frees only blocks it holds, and      *)
(* holds none after a reset.  One action per call and outcome; a call that *)
(* gets no memory changes nothing and is no step.                          *)
(***************************************************************************)
EXTENDS Integers, Sequences, FiniteSets

CONSTANTS Data,          \* what clients write to blocks, and unwritten memory
          NULL,
          Requests,      \* capacities a client asks for
          VF_MEMORY_POOL_INITIAL_CAPACITY,
          MaxCapacity    \* bound: there is no memory for more blocks

ASSUME PoolAssumption == /\ VF_MEMORY_POOL_INITIAL_CAPACITY \in Nat \ {0, 1}
                         /\ Requests \subseteq Nat
                         /\ MaxCapacity \in Nat
                         /\ Data # {}
                         /\ NULL \notin [memory : Nat, block : Nat]

VARIABLES memory,        \* the piece of memory the pool owns: 0, then 1, ...
          block,         \* its blocks: what their first word holds
          capacity, used, free_list,
          alive,         \* between create and destroy
          undefined,     \* memory returned to the system was accessed
          held,          \* the pointers the client holds
          freed,         \* history: the pointers it freed, the latest first
          moved          \* history: blocks in use when the pool last grew

fields  == <<memory, block, capacity, used, free_list>>
history == <<freed, moved>>
vars    == <<fields, alive, undefined, held, history>>

Pointer(m, b) == [memory |-> m, block |-> b]
Pointers == [memory : Nat, block : Nat]

\* vf_memory_pool_create
Init == /\ \E n \in Requests :
              capacity = IF n <= 1 THEN VF_MEMORY_POOL_INITIAL_CAPACITY ELSE n
        /\ memory = 0
        /\ block \in {[b \in 0..(capacity - 1) |-> x] : x \in Data}
        /\ used = 0 /\ free_list = NULL
        /\ alive = TRUE /\ undefined = FALSE
        /\ held = {} /\ freed = <<>> /\ moved = 0

Usable == alive /\ ~undefined
-----------------------------------------------------------------------------
(* vf_memory_pool_alloc *)

AllocFreedKeepsHead ==                          \* mutant
    /\ Usable
    /\ free_list # NULL
    /\ held' = held \cup {free_list}
    /\ free_list' = free_list
    /\ freed' = SubSeq(freed, 2, Len(freed))
    /\ UNCHANGED <<memory, block, capacity, used, alive, undefined, moved>>

AllocFreed == /\ Usable
              /\ free_list # NULL
              /\ held' = held \cup {free_list}
              /\ free_list' = block[free_list.block]
              /\ freed' = SubSeq(freed, 2, Len(freed))
              /\ UNCHANGED <<memory, block, capacity, used, alive, undefined, moved>>

AllocNext == /\ Usable
             /\ free_list = NULL
             /\ used < capacity
             /\ held' = held \cup {Pointer(memory, used)}
             /\ used' = used + 1
             /\ UNCHANGED <<memory, block, capacity, free_list, alive, undefined, history>>

\* Growth by 50%
GrownByQuarter == capacity + capacity \div 4    \* mutant
Grown == capacity + capacity \div 2

\* _grow_pool; its loop over the free list finds it empty.
AllocGrows == /\ Usable
              /\ free_list = NULL
              /\ used >= capacity
              /\ Grown <= MaxCapacity
              /\ memory' = memory + 1
              /\ capacity' = Grown
              /\ block' \in {[b \in 0..(Grown - 1) |->
                                 IF b < used THEN block[b] ELSE x] : x \in Data}
              /\ held' = held \cup {Pointer(memory', used)}
              /\ used' = used + 1
              /\ moved' = used
              /\ UNCHANGED <<free_list, alive, undefined, freed>>
-----------------------------------------------------------------------------
\* The client writes to a block it holds.
Write(p, x) == /\ Usable
               /\ p \in held /\ p.memory = memory
               /\ block' = [block EXCEPT ![p.block] = x]
               /\ UNCHANGED <<memory, capacity, used, free_list, alive, undefined,
                              held, history>>

FreeBreaksLink(p) ==                            \* mutant
    /\ Usable
    /\ p \in held /\ p.memory = memory
    /\ free_list' = p
    /\ block' = [block EXCEPT ![p.block] = free_list']
    /\ held' = held \ {p}
    /\ freed' = <<p>> \o freed
    /\ UNCHANGED <<memory, capacity, used, alive, undefined, moved>>

vf_memory_pool_free(p) ==
    /\ Usable
    /\ p \in held /\ p.memory = memory
    /\ block' = [block EXCEPT ![p.block] = free_list]
    /\ free_list' = p
    /\ held' = held \ {p}
    /\ freed' = <<p>> \o freed
    /\ UNCHANGED <<memory, capacity, used, alive, undefined, moved>>

\* A block the client holds went with memory the pool has left: reading,
\* writing or freeing it accesses memory that was returned.
UseStale(p) == /\ Usable
               /\ p \in held /\ p.memory # memory
               /\ undefined' = TRUE
               /\ UNCHANGED <<fields, alive, held, history>>

vf_memory_pool_reset == /\ Usable
                        /\ used' = 0 /\ free_list' = NULL
                        /\ held' = {} /\ freed' = <<>> /\ moved' = 0
                        /\ UNCHANGED <<memory, block, capacity, alive, undefined>>

vf_memory_pool_destroy == /\ Usable
                          /\ alive' = FALSE
                          /\ held' = {}
                          /\ UNCHANGED <<fields, undefined, history>>

vf_memory_pool_alloc == AllocFreed \/ AllocNext \/ AllocGrows

Next == \/ vf_memory_pool_alloc
        \/ \E p \in held : \/ \E x \in Data : Write(p, x)
                           \/ vf_memory_pool_free(p)
                           \/ UseStale(p)
        \/ vf_memory_pool_reset
        \/ vf_memory_pool_destroy

Spec == Init /\ [][Next]_vars
-----------------------------------------------------------------------------
(* Properties *)

\* Every variable has its type; the pool never counts past its capacity.
TypeOK == /\ memory \in Nat /\ capacity \in Nat \ {0, 1} /\ used \in 0..capacity
          /\ block \in [0..(capacity - 1) -> Data \cup {NULL} \cup Pointers]
          /\ free_list \in {NULL} \cup Pointers
          /\ alive \in BOOLEAN /\ undefined \in BOOLEAN
          /\ held \subseteq Pointers /\ freed \in Seq(Pointers) /\ moved \in Nat

\* The list threaded through the blocks is the blocks freed and not handed out
\* again, the latest first: nothing a client writes to a block it holds, and
\* neither growth nor reset, breaks or loops it.
FreeListIsFreed ==
    /\ free_list = IF freed = <<>> THEN NULL ELSE Head(freed)
    /\ \A k \in 1..Len(freed) :
          block[freed[k].block] = IF k < Len(freed) THEN freed[k + 1] ELSE NULL

InPool(p) == p.memory = memory /\ p.block \in moved..(used - 1)

\* Every block handed out since the pool last grew is either held by the client
\* or on the free list, never both and never twice: no block has two owners and
\* none is forgotten.
EveryBlockHasOneOwner ==
    LET current == {p \in held : p.memory = memory}
    IN  alive =>
        /\ \A p \in current : InPool(p)
        /\ \A k \in 1..Len(freed) :
              InPool(freed[k]) /\ freed[k] \notin held
        /\ \A j, k \in 1..Len(freed) : freed[j] = freed[k] => j = k
        /\ moved + Cardinality(current) + Len(freed) = used

\* test_vf_memory_pool.h reads the first blocks after the pool has grown: what
\* was handed out stays valid until it is freed.
HeldBlocksStayValid == \A p \in held : p.memory = memory
=============================================================================
