------------------------------- MODULE Hashmap -------------------------------
(***************************************************************************)
(* vf_hashmap.h: open addressing with linear probing; removal clears the   *)
(* slot.  One action per call and outcome.  A key whose memory was freed   *)
(* while a slot still points to it is Freed; a call that reads it is       *)
(* undefined, and nothing is claimed afterwards.  Calls that change        *)
(* nothing (get and has, removal of a missing key, an expansion that gets  *)
(* no memory) are no steps.                                                *)
(***************************************************************************)
EXTENDS Integers, FiniteSets

CONSTANTS Keys, Values,
          NoKey, NoValue,   \* NULL
          Freed,            \* a key pointer that dangles
          Hash,             \* key -> what _hash_key makes of it
          VF_HASH_INITIAL_CAPACITY,
          MaxCapacity,      \* bound: the table does not grow beyond
          MaxFailures       \* bound: allocations of values that fail

ASSUME MapAssumption == /\ VF_HASH_INITIAL_CAPACITY \in Nat /\ VF_HASH_INITIAL_CAPACITY >= 4
                        /\ Hash \in [Keys -> Nat]
                        /\ NoKey \notin Keys /\ Freed \notin Keys /\ NoKey # Freed
                        /\ NoValue \notin Values
                        /\ MaxCapacity \in Nat /\ MaxFailures \in Nat

VARIABLES key, value, capacity, size,   \* vf_hashmap_t: key and value of each slot
          alive,       \* between create and free
          undefined,   \* a dangling key was read
          failures,    \* allocations of values that failed so far
          impaired     \* history: a removal cleared a slot in front of a used one,
                       \* or an expansion ran out of memory for an entry

table == <<key, value, capacity, size>>
vars  == <<table, alive, undefined, failures, impaired>>

Usable == alive /\ ~undefined

\* vf_hashmap_create: calloc makes every slot NULL.
Empty(cap, null) == [i \in 0..(cap - 1) |-> null]

Init == /\ capacity = VF_HASH_INITIAL_CAPACITY
        /\ key = Empty(capacity, NoKey) /\ value = Empty(capacity, NoValue)
        /\ size = 0
        /\ alive = TRUE /\ undefined = FALSE /\ failures = 0 /\ impaired = FALSE
-----------------------------------------------------------------------------
(* Probing: the loop that every call has *)

\* hash & (capacity - 1): the capacity is a power of two.
Home(k, cap) == Hash[k] % cap

\* The slot probed after j others in a table of cap slots.
Probed(k, cap, j) == (Home(k, cap) + j) % cap

Stops(t, cap, k, j) == t[Probed(k, cap, j)] \in {NoKey, k, Freed}

\* The slot of table t, of cap slots, at which the loop ends.
Slot(t, cap, k) ==
    Probed(k, cap, CHOOSE j \in 0..(cap - 1) :
                       Stops(t, cap, k, j) /\ \A i \in 0..(j - 1) : ~Stops(t, cap, k, i))

Here(k) == Slot(key, capacity, k)

vf_hashmap_has(k) == key[Here(k)] = k
vf_hashmap_get(k) == IF vf_hashmap_has(k) THEN value[Here(k)] ELSE NoValue

\* has, get or remove compares its key with one that was freed.
LookupReadsFreed(k) == /\ Usable
                       /\ key[Here(k)] = Freed
                       /\ undefined' = TRUE
                       /\ UNCHANGED <<table, alive, failures, impaired>>
-----------------------------------------------------------------------------
(* _hashmap_expand *)

AtLoadFull == size >= capacity                  \* mutant
AtLoad == 4 * size >= 3 * capacity

\* Enters slot i into the new table t; lost are the slots for whose value there
\* is no memory: the key is freed, and its new slot keeps the pointer.
EnterAtHome(t, i, cap, lost) ==                 \* mutant
    IF key[i] = NoKey THEN t
    ELSE LET s == Home(key[i], cap)
         IN  [t EXCEPT !.key[s] = key[i], !.value[s] = value[i]]

Enter(t, i, cap, lost) ==
    IF t.undefined \/ key[i] = NoKey THEN t
    ELSE IF key[i] = Freed THEN [t EXCEPT !.undefined = TRUE]
    ELSE LET s == Slot(t.key, cap, key[i])
         IN  IF t.key[s] = Freed THEN [t EXCEPT !.undefined = TRUE]
             ELSE IF t.key[s] = NoKey /\ i \in lost THEN [t EXCEPT !.key[s] = Freed]
             ELSE [t EXCEPT !.key[s] = key[i], !.value[s] = value[i]]

\* The new table, of twice the capacity, after all slots in order.
Expansion(lost) ==
    LET cap == capacity * 2
        after[n \in 0..capacity] ==
            IF n = 0 THEN [key |-> Empty(cap, NoKey), value |-> Empty(cap, NoValue),
                           cap |-> cap, undefined |-> FALSE]
            ELSE Enter(after[n - 1], n - 1, cap, lost)
    IN  after[capacity]

\* The table in which vf_hashmap_set looks for its key.
Before(lost) == IF AtLoad THEN Expansion(lost)
                ELSE [key |-> key, value |-> value, cap |-> capacity,
                      undefined |-> FALSE]

\* Used slots that an expansion may fail to copy, as far as failures go.
Losses == {lost \in SUBSET {i \in DOMAIN key : AtLoad /\ key[i] \in Keys} :
              Cardinality(lost) + failures <= MaxFailures}
-----------------------------------------------------------------------------
(* vf_hashmap_set *)

\* The table is, or was made, large enough, and the probe ends in slot s of t.
Finds(k, t, s) == /\ Usable
                  /\ AtLoad => capacity * 2 <= MaxCapacity
                  /\ ~t.undefined
                  /\ s = Slot(t.key, t.cap, k)
                  /\ t.key[s] # Freed
                  /\ capacity' = t.cap
                  /\ UNCHANGED <<alive, undefined>>

Spend(n, lost) == /\ failures' = failures + n + Cardinality(lost)
                  /\ impaired' = (impaired \/ lost # {})

SetKeepsOldValue(k, v, lost) ==                 \* mutant
    LET t == Before(lost)
        s == Slot(t.key, t.cap, k)
    IN  /\ Finds(k, t, s)
        /\ key' = [t.key EXCEPT ![s] = k]
        /\ value' = IF t.key[s] = k THEN t.value ELSE [t.value EXCEPT ![s] = v]
        /\ size' = IF t.key[s] = k THEN size ELSE size + 1
        /\ Spend(0, lost)

SetStores(k, v, lost) ==
    LET t == Before(lost)
        s == Slot(t.key, t.cap, k)
    IN  /\ Finds(k, t, s)
        /\ key' = [t.key EXCEPT ![s] = k]
        /\ value' = [t.value EXCEPT ![s] = v]
        /\ size' = IF t.key[s] = k THEN size ELSE size + 1
        /\ Spend(0, lost)

\* strdup fails: -1, but the table stays expanded.
SetCannotCopyKey(k, lost) ==
    LET t == Before(lost)
        s == Slot(t.key, t.cap, k)
    IN  /\ Finds(k, t, s)
        /\ t.key[s] = NoKey
        /\ key' = t.key /\ value' = t.value
        /\ UNCHANGED size
        /\ Spend(0, lost)

\* The value's malloc fails: -1, with the freed key in the slot and counted.
SetCannotCopyValue(k, lost) ==
    LET t == Before(lost)
        s == Slot(t.key, t.cap, k)
    IN  /\ Finds(k, t, s)
        /\ t.key[s] = NoKey
        /\ failures + Cardinality(lost) < MaxFailures
        /\ key' = [t.key EXCEPT ![s] = Freed]
        /\ value' = t.value
        /\ size' = size + 1
        /\ Spend(1, lost)

SetReadsFreed(k, lost) ==
    LET t == Before(lost)
    IN  /\ Usable
        /\ AtLoad => capacity * 2 <= MaxCapacity
        /\ t.undefined \/ t.key[Slot(t.key, t.cap, k)] = Freed
        /\ undefined' = TRUE
        /\ UNCHANGED <<table, alive, failures, impaired>>

vf_hashmap_set(k) == \E lost \in Losses :
                        \/ \E v \in Values : SetStores(k, v, lost)
                        \/ SetCannotCopyKey(k, lost)
                        \/ SetCannotCopyValue(k, lost)
                        \/ SetReadsFreed(k, lost)
-----------------------------------------------------------------------------
RemoveKeepsValue(k) ==                          \* mutant
    /\ Usable
    /\ vf_hashmap_has(k)
    /\ key' = [key EXCEPT ![Here(k)] = NoKey]
    /\ value' = value
    /\ size' = size - 1
    /\ impaired' = (impaired \/ key[(Here(k) + 1) % capacity] # NoKey)
    /\ UNCHANGED <<capacity, alive, undefined, failures>>

vf_hashmap_remove(k) ==
    /\ Usable
    /\ vf_hashmap_has(k)
    /\ key' = [key EXCEPT ![Here(k)] = NoKey]
    /\ value' = [value EXCEPT ![Here(k)] = NoValue]
    /\ size' = size - 1
    /\ impaired' = (impaired \/ key[(Here(k) + 1) % capacity] # NoKey)
    /\ UNCHANGED <<capacity, alive, undefined, failures>>

\* Freeing a key that was freed is undefined as well.
vf_hashmap_free ==
    /\ Usable
    /\ alive' = FALSE
    /\ undefined' = (\E i \in DOMAIN key : key[i] = Freed)
    /\ UNCHANGED <<table, failures, impaired>>

Next == \/ \E k \in Keys : \/ vf_hashmap_set(k)
                           \/ vf_hashmap_remove(k)
                           \/ LookupReadsFreed(k)
        \/ vf_hashmap_free

Spec == Init /\ [][Next]_vars
-----------------------------------------------------------------------------
(* Properties *)

\* Every variable has its type.
TypeOK == /\ capacity \in Nat /\ capacity >= 4 /\ size \in Nat
          /\ key \in [0..(capacity - 1) -> Keys \cup {NoKey, Freed}]
          /\ value \in [0..(capacity - 1) -> Values \cup {NoValue}]
          /\ \A i \in DOMAIN key : key[i] \in Keys <=> value[i] # NoValue
          /\ alive \in BOOLEAN /\ undefined \in BOOLEAN /\ impaired \in BOOLEAN
          /\ failures \in 0..MaxFailures

\* Every probe ends: size never falls behind the slots in use, although failed
\* calls and double entries count too, and stays below the capacity, so some
\* slot is NULL; and a removal never takes it below zero.
ProbesEnd ==
    /\ Cardinality({i \in DOMAIN key : key[i] # NoKey}) <= size
    /\ size < capacity

\* A key that was just set is found with its new value, also in a map whose
\* removals have cut other keys off and whose expansion dropped some.
SetIsRead == [][\A k \in Keys, v \in Values :
                   (\E lost \in Losses : SetStores(k, v, lost))
                       => vf_hashmap_get(k)' = v]_vars

Contents == [k \in {j \in Keys : vf_hashmap_has(j)} |-> vf_hashmap_get(k)]

Dict == INSTANCE Dictionary WITH Vals <- Values, map <- Contents, closed <- ~alive

\* Until a removal clears a slot in front of a used one, or an expansion runs
\* out of memory, the map is a dictionary: each call changes one key at most,
\* expansions and failed calls change none.
DictionaryUntilImpaired ==
    /\ Dict!Init
    /\ [][~impaired' => Dict!Next \/ UNCHANGED <<Contents, alive>>]_vars

\* test_vf_hashmap.h: "Verify all entries are still accessible"; and after the
\* removal of key1 the value of key2 is still there.
AllEntriesAccessible == \A i \in DOMAIN key : key[i] \in Keys => vf_hashmap_has(key[i])
=============================================================================
