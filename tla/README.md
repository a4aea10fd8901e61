# A verification of vf

vf is a collection of header-only C libraries: a thread layer with a thread pool
and a reader-writer lock, five containers, a memory pool, a test runner, a logger
and small helpers. This directory holds TLA+ specifications of the parts that keep
state, TLC configurations that check them on small instances, and TLAPS proofs of
theorems about them for every instance. `PROJECT.json` lists the components, runs,
mutations, the map from definitions to source lines, findings, hazards and theorems.

Run things in this directory: `tlc -config MCSequences.cfg MCSequences.tla` checks a model,
`tlapm SequencesProofs.tla` checks the proofs of a module.

## 1. Inventory

| part | state | operations that change it | what is hard about it | covered by |
|---|---|---|---|---|
| `vf_threadpool.h` | ring of tasks (`queue`, `front`, `rear`, `queue_size`), `stop`, thread handles, one mutex, two conditions | create, worker loop, add_task, destroy | interleavings, signals that reach the wrong thread, a full ring, creation failing half way, shutdown | `ThreadPool`, proofs |
| `vf_thread.h` threads, mutexes, conditions | OS objects | create, join, lock, unlock, wait, signal, broadcast | spurious wakeups, joins of handles never written | `VfThread` |
| `vf_thread.h` reader-writer lock | an SRWLOCK, `readers`, `writer_waiting`, `writer_active` | rdlock, wrlock, unlock | every access is a separate step, readers hold a count only | `RWLock`, proofs |
| `vf_queue.h` | `data`, `front`, `back`, `size` | push, pop, free | the `-1` sentinel in `size_t`, wrap-around, capacity 0 and 1 | `Queue`, proofs |
| `vf_sparseset.h` | `sparse`, `dense`, `data`, two capacities; an iterator | insert, set, remove, destroy, iterate | two arrays that must stay inverse, growth failing half way, `id * 2` in 32 bits, removal while iterating | `SparseSet`, proofs |
| `vf_hashmap.h` | slots of key and value, `size`, `capacity` | set (with expansion), remove, free | probing past holes, failed allocations in the middle of a set or an expansion | `Hashmap`, proofs |
| `vf_memory_pool.h` | one piece of memory, `used`, a free list inside the free blocks | alloc (with growth), free, reset, destroy | the free list shares memory with client data, growth moves everything | `MemoryPool`, proofs |
| `vf_binaryheap.h` | `data` and `priorities`, `size` | push, pop, update_priority, clear, destroy | sifting in both directions, a sift that gets no buffer | `BinaryHeap`, proofs |
| `vf_darray.h` | a header of stride, `count`, `capacity`, `max_capacity` in front of the data | reserve, resize, push_back, pop_back, insert, append, clear, swap, free | the header is changed before and after the memory it describes is replaced; `memcpy` with overlapping ranges | `DArray`, proofs |
| `vf_test.h` | registered tests, results, the list of failures, totals | register, sort, run, record a failure or a skip | which of several results of one test counts; checks in a helper thread, which may outlive its test; two limits | `VfTest`, proofs |
| `vf_log.h` | `vf_log_initialized`, the handle | init, shutdown, message | a message is four writes and nothing is locked; the handle is read at each of them | `VfLog`, proofs |
| `sort.h` | the array, and the recursion's stack | quicksort | boundaries of the partition, equal keys, depth | `Sort`, proofs |
| `vf_memory.h`, `str.h`, `timer.h`, `defines.h` | none | byte loops, macros, reading a clock | stateless; copies are atomic in the models of their callers, but for the overlapping one in `DArray` | not modelled |
| `thread.h`, `sparse_set.h`, `llist.h`, `mathematics.h` | none | stubs and an older thread layer | superseded or empty | not modelled |
| `tests/`, `speed/` | none | tests, a benchmark | read as statements of what the code should do | not modelled |

How the parts interact: the thread pool uses the primitives of `vf_thread.h`; tasks
call back into the pool (`vf_threadpool_add_task` from inside a task). The containers
are independent of each other, have no locking and are used by one thread; their
models are sequential and what varies is the order of the calls, the arguments and
which allocations fail. The test runner and the logger are single global objects
without locks that several threads reach: tests start threads that check, and any
thread may log. `vf_darray.h` copies and swaps with `vf_memory.h`.

What makes each part correct:

* thread pool: every accepted task is started once and in order, no worker or adder
  sleeps beside something it could do, every call returns, and the pool is freed
  only when nobody uses it;
* lock: a writer is alone, and the counters return to rest;
* queue: a FIFO of bounded length;
* sparse set and hash map: a map in which one call changes one key;
* memory pool: every block has one owner, and the free list survives what clients
  write into blocks;
* heap: what is taken is the best, and nothing is lost;
* dynamic array: a sequence edited in place, whose header tells the truth about the
  block it stands in front of;
* quicksort: a permutation in order, with a bounded recursion;
* test runner: the totals, and with them the exit status, are those of the tests;
* logger: every line is one message, in the file that was set up.

`hazards` in `PROJECT.json` lists, with the source line, what can go wrong in each
of these and which property would notice. A hazard without a property, or with a note,
is one that properties except or cover in part; section 3 collects these.

## 2. Modules

```
ThreadPool  EXTENDS VfThread         implements  BoundedFifo
Queue                                implements  BoundedFifo
SparseSet                            implements  Dictionary
Hashmap                              implements  Dictionary, until impaired
BinaryHeap                           implements  PriorityQueue
DArray                               implements  EditableSequence, but for known calls
RWLock, MemoryPool, Sort, VfTest, VfLog          (invariants only)
MCSequences     EXTENDS Queue, DArray, Sort      side by side, chosen by `header`
MCDiagnostics   EXTENDS VfTest, VfLog            side by side, chosen by `header`
MC<module>   constants for TLC
<module>Proofs      theorems about one module
SequencesProofs     theorems about Queue, DArray and Sort
DiagnosticsProofs   theorems about VfTest and VfLog
```

Operators named like a C function are that function; operators marked `mutant` are
wrong on purpose: each is a plausible mistake in the definition below it, and a run
whose definition is replaced by it must fail. They occur nowhere in a specification.

### ThreadPool and VfThread

`VfThread` holds what the OS keeps: who owns the `mutex`, which threads sleep on
each condition (`waiting`), and what each slot of `threads` contains (`handle`:
`garbage` before anything was written, `null` after a failed creation, `live`,
`closed`). The Windows branch is modelled. `vf_cond_wait` releases the mutex and
sleeps in one step, as `SleepConditionVariableCS` promises; it returns when the
thread is no longer asleep and the mutex is free. Joining a handle that was never
written either fails at once or never returns, as both can happen.

`ThreadPool` gives each thread a program counter and one action per statement group
between two points at which others can interfere: locking, testing and sleeping,
waking, taking or storing under the lock, unlocking, running. What happens under the
mutex is one action up to the unlock: the mutex is held throughout, and
`LockDiscipline` checks that it is. `CreateThreadFails` may happen for any worker.
A task function either returns or first submits the task `Follow` names for it, so
that add_task is also called by workers.

The client keeps the contract that the code relies on and does not check: it calls
add_task between the return of create and the call of destroy, no producer is inside
add_task when destroy is called, and no task destroys its own pool. Without the first
two, destroy frees a pool that a producer is about to read; without the third, a
worker joins itself.

Tasks that submit tasks can fill the ring and then occupy all workers, each asleep
in its own add_task. `SelfFed` names that state. It is a resting state of the model
and an exception in two liveness properties, since the code has no remedy for it.

### RWLock

The Windows branch of `vf_rwlock_t`. Every access to shared memory is an action:
acquiring and releasing the SRWLOCK, reading and writing each counter, the
compare-and-swap. `overlap` records that a writer came in while a reader was inside,
which the code permits; `crashed` that an SRWLOCK nobody held was released.

### Queue

One action per call. `size_t` is `0..SIZE_MAX` with wrapping arithmetic, so that
`front = -1` is `SIZE_MAX` and the first push wraps to 0, as in C.

### SparseSet

One action per call that changes something, with insert split by outcome: stored;
no memory for `dense` and `data` after `sparse` has already grown; and `id * 2`
wrapping, after which memory past the array is written and nothing more is claimed
(`overrun`). `visited` and `passed` remember what the client's iterator has returned
and how many removals happened behind it.

### Hashmap

The hash is an arbitrary constant function, so collisions are chosen in the
configuration. When the copy of a value fails, the code frees the key but leaves the
pointer in its slot: such a key is `Freed`, and whoever compares with it is
`undefined`. Expansion re-enters every slot and drops, silently, those whose value
finds no memory (`Losses`). `impaired` is set by a removal that leaves a hole in front
of a used slot and by an expansion that lost an entry. Values copied by get_mutable's
clients, and the copies that expansion and removal leak, are not modelled.

### MemoryPool

A pointer is the piece of memory it points into and a block number; each growth
starts a new piece. The first word of a block is either what a client wrote or the
link of the free list, which is the point of the model. The client uses and frees
only what it holds. `freed` remembers the order of frees, `moved` how many blocks
were in use when the pool last grew.

### BinaryHeap

`node` is the used part of `data` and `priorities`. A sift is described by the way it
takes (ancestors, or upper children), the slot where the entry comes to rest, and the
shift of the entries in between. pop and update_priority come with a flag saying that
the sift's `malloc` failed; the code then returns as if nothing had happened, and
`unsifted` remembers it until one element is left, when order is trivial again.

### DArray

`da` is one array: the three numbers of its header and the elements, whose domain is
what malloc gave (`data`), so that header and memory can disagree. One action per
call; the caller goes on with the pointer that the call returns. A call that leaves
the allocated elements is undefined: `da_undefined` names it and nothing is claimed
any more. `da_lost` marks the last call if it spoilt or forgot elements. insert moves
elements with a `memcpy` whose ranges overlap; `chunk`, the number of elements it
copies at a time, is chosen freely. A block that was moved leaks; that is left out.

### Sort

An element is its first position, and its key is what `cmp` sees. The recursion is a
stack of calls to be made (`sort_calls`), and the loop of the partition makes one
step at a time, so that the properties speak of every moment and not only of the end.

### VfTest

Constructors register the tests in any order; `vf_test_run` is cut at the points where
a helper thread can come between: the start of a test, the comparison of its result
with `NONE`, the replacement by `PASS`, and the reading for the totals.
`vf_test_record_failure` is three steps (compare the count, claim the slot, set the
result); the compiler may or may not read the count again for the second, so both are
allowed. A helper started by a test may be joined or may outlive it, in which case it
books its failures on whichever test runs.

### VfLog

The owner calls init (two steps: the flag, then the copy of the handle) and shutdown,
closes the file it gave, and may set the logger up again with another. A message is
four steps, each of which reads the handle. What was written to a file is a sequence
of parts, each with its thread.

### Abstract specifications

`BoundedFifo`: a sequence; an item is appended while there is room, or given from the
front; closing ends both. `Dictionary`: a function; a call assigns one key, deletes
one key, or closes. `PriorityQueue`: a bag of bounded size; an element is put in, a best one is
taken, one priority is changed, and order may be given up but never elements.
`EditableSequence`: a sequence; an item is put anywhere, the last one removed, two
exchanged, all forgotten. `DaEditsSequence` says which calls of `DArray` are not such
an edit, and what is still true of those.

## 3. Runs

| run | instance | distinct states | shows |
|---|---|---|---|
| `threadpool` | 1 or 2 workers, ring of 2, 2 producers, 5 tasks of which one is submitted by another, requests 0..3, one spurious wakeup | 92,833 | all invariants, the FIFO refinement, and liveness of tasks, add_task and destroy |
| `threadpool_joins` | as `threadpool` | violation | destroy joins threads that were never created |
| `rwlock` | 2 readers, 2 writers, 3 calls each, symmetry | 556,602 | what the lock still guarantees |
| `rwlock_exclusion` | 2 readers, 2 writers, 1 call each | violation | a writer writes while a reader reads |
| `sequences` | queue: capacities 0..4, 2 values, `SIZE_MAX` 15; array: first capacity 0, 2, 3, up to 6, four arrays to append; sort: 0..5 elements, 4 keys | 32,523 | indices, ends, FIFO; header, overruns, edits; order, depth |
| `sparseset` | ids 0, 2, 5, 12; first capacity 2 or 3; 4-bit `uint32_t` | 39,228 | inverse arrays, iteration, dictionary |
| `hashmap` | 3 keys, 2 values, table of 4 growing to 8, one failing allocation | 263,500 | probing ends, what was set is read, dictionary until impaired |
| `hashmap_remove` | as `hashmap` | violation | a removal hides another key |
| `binaryheap` | capacities 0, 1, 5; 2 items, 3 priorities, both orders | 44,988 | heap order, priority queue |
| `memorypool` | first capacity 2 or 3, growing up to 4 | 63,666 | free list, ownership |
| `memorypool_growth` | as `memorypool` | violation | growth invalidates held pointers |
| `diagnostics` | tests: 4 for a registry of 3, 2 suites, 2 failure slots, 3 checks a test, one helper; log: 2 threads, 2 files, 3 messages | 1,601,996 | totals, failure list, whole lines |

Why the bounds are enough:

* Thread pool: with a ring of two slots and these tasks the ring is empty, full and
  wraps; two workers let a signal be taken by a worker that was not asleep; one worker
  is needed for two producers to be asleep at once with tasks left to wake them;
  requests 0 and 3 are refused, 1 leaves a slot of `threads` unused; one spurious
  wakeup is enough because a second one meets the same test. Tasks that do nothing but
  run differ in name only, so an `ACTION_CONSTRAINT` has clients submit them in one
  order; it prunes calls of add_task, which no fairness asks for. The fourth outside
  task is given to a pool of one worker only. The proofs remove the bounds for every
  safety property.
* Lock: the wrong unlocks need a writer that comes in over a reader and a second
  writer; three calls each let every thread come back into what the others left.
  Threads are interchangeable and no liveness is checked, so symmetry is sound.
* Queue: capacity 4 wraps with any number of items in the ring; 0 and 1 are the
  degenerate cases. The proofs cover every capacity.
* Sparse set: id 2 or 5 makes `sparse` grow once from a length of 2 or 3, 5 and
  then 12 would wrap in four bits as 2^31 does in 32 (24 mod 16 = 8 < 12), ids 0, 2
  and 5 together make `dense` grow from two slots. `MaxPassed` stops counting
  removals behind one iterator at two. The proofs cover every width.
* Hash map: k1 and k2 share slot 3 of 4, the last one, so one of them wraps to slot
  0, where k3 lives; after doubling k3 parts from them (slots 7, 7 and 4). One
  failure reaches each failing outcome; `MaxCapacity` stops the second doubling.
* Memory pool: 3 blocks grow to 4 and 2 to 3 to 4 (growth by half), so growth
  happens with and without a history of growth; `MaxCapacity` is the end of memory.
* Dynamic array: capacity 2 or 3 grows once by doubling and is then full again at the
  bound of 6 (`DaMaxCapacity`); capacity 0 is the one that never grows; the appended
  arrays have no capacity, no elements, one, and more than one. The proofs cover
  every capacity for header and overruns.
* Sort: five elements make partitions of partitions with empty, single and longer
  halves on either side; four keys give all equal, all but distinct, and mixed. The
  proofs cover every length.
* Tests: one more test than the registry holds, two suites so that registration order
  and sorted order differ; two slots are full after two of three checks; a helper can
  outlive its test into another one and into the end of the run.
* Log: two threads mix lines; two files are needed for a stale handle.
* Heap: five entries make three levels, with a node that has one child while the
  size is 2 or 4; equal items and equal priorities occur.

### Fairness

Only the thread pool claims liveness. `Spec` has weak fairness for each worker's
steps, for each thread's steps inside add_task, for create and for destroy: a thread
that can run and goes on being able to run is scheduled. That is all. Nothing makes a
client call anything, call destroy, or wake a sleeper spuriously, and nothing hands the
mutex to a given thread: one whose `vf_mutex_lock` finds the mutex taken again and again
may be passed over for ever. It is enough for the checked properties because tasks, and
with them calls of add_task, are finitely many, as are spurious wakeups: the others run
out of reasons to take the mutex, and it then stays free until the thread has it. With
endless tasks the same properties would need strong fairness of the lock, which a
critical section does not promise. No liveness is claimed for the lock:
Windows promises none for SRWLOCKs, and two readers that poll while a writer waits
may hold the SRWLOCK shared in turns, so that weak fairness never lets the writer in.

### Where code and documentation disagree

1. `vf_threadpool.h:77`: when a worker cannot be created, destroy joins all
   `thread_count` slots, among them the failed one and the ones never written.
2. `vf_thread.h:458`: a writer does not look at `readers`, and a reader gives the
   SRWLOCK back at once, so rdlock and wrlock do not exclude each other. The other
   lock properties say what is left: writers exclude each other until the first such
   overlap; `writer_waiting` stays exact and a lock that everybody has left is clean.
3. `vf_hashmap.h:230`: removal leaves a hole at which later probes stop, so a
   colliding key is no longer found (and setting it again stores it twice).
4. `vf_memory_pool.h:105`: growth frees the memory that held pointers refer to; the
   pool's own test reads them.

### Defects that properties except

The code also does the following. The models contain it, and a property that would
otherwise fail names it as an exception. Such a property therefore does not catch the
defect; it shows that there is no other way to go wrong. Where a violation run reports
the same defect it is named.

| where | what the code does | excepted by | reported by |
|---|---|---|---|
| `vf_threadpool.h:89` | tasks that submit tasks block every worker | `SelfFed` in the liveness of tasks and of add_task | |
| `vf_threadpool.h:121` | destroy may wait for ever on a handle never written | `DestroyCompletes` | `threadpool_joins` |
| `vf_thread.h:472` | a reader releases a writer's SRWLOCK | `SafeUntilOverlap` ends at the overlap | `rwlock_exclusion`, but only the overlap |
| `vf_hashmap.h:230` | a removal hides keys | `impaired` | `hashmap_remove` |
| `vf_hashmap.h:139` | an expansion drops an entry whose copy failed | `impaired` | |
| `vf_sparseset.h:127` | `id * 2` wraps, `sparse` is too short | the model stops (`overrun`) | |
| `vf_sparseset.h:252` | an iterator misses the element that a removal moves | `passed` bounds how many | |
| `vf_binaryheap.h:125` | a sift without memory leaves the heap unordered | `unsifted`; elements are still all there | |
| `vf_darray.h:372` | "Check if we have enough space to insert an element. If not, we reserve more", but the header is raised before `vf_da_reserve` compares it, which then reserves nothing | `DaOverrunsAreKnown` | |
| `vf_darray.h:343` | a capacity of 0 doubles to 0 | `DaOverrunsAreKnown` | |
| `vf_darray.h:411` | append raises the header the same way | `DaOverrunsAreKnown` | |
| `vf_darray.h:416` | append copies one element and counts all | `da_lost` | |
| `vf_darray.h:330` | resize copies into a block whose header says that it has none | `da_lost` | |
| `vf_darray.h:382` | insert may smear the elements it moves | `da_lost` | |
| `vf_test.h:799` | tests beyond the limit are dropped and the run may pass | the summary is that of the registered tests | |
| `vf_test.h:871` | a skip overwrites a failure | `test_failed \ test_skipped` | |
| `vf_test.h:853` | two threads record at once and pass the end of the list | `test_together` | |
| `vf_test.h:864` | a helper that outlives its test fails another | `test_outlived`; no failure is lost | |
| `vf_log.h:175`, `:203` | messages meet init, shutdown or each other | `log_raced`, `log_mixed` | |

What a caller must not do is in no model, and so no property catches it: calling add_task
while destroy runs (`vf_threadpool.h:127`), freeing a block twice or after a reset
(`vf_memory_pool.h:177`). Indices stay right for every id whose double fits.

## 4. Proofs

Assumptions are the named `ASSUME`s of each module: sizes are naturals, threads of
different kinds are distinct, `Follow` names each task once at most, and special
values are not ordinary ones.

* **Thread pool** (`ThreadPoolProofs`), for every number of threads, slots, producers and tasks.
  The inductive invariant adds to the types what each program counter implies:
  `TaskLocals` (who has a task in hand), `RingSlots` (used slots hold tasks, and
  `rear` is `queue_size` after `front`), `Lifecycle` (what `stop`, the handles, the
  owner's loop variable and the workers' states allow together: a worker that was
  joined has returned, one that was never created has not begun), `LockDiscipline`
  itself, and `Sleepers` (only threads waiting on a condition are asleep on it, and
  none once `stop` is set). From it: `TypeCorrect`, `MutexIsRight`, no use after
  free, the FIFO refinement. `OnceInv` adds to `TasksRunOnce` where a task
  comes from: a producer that is about to enqueue has an outside task of its own, not
  yet handed over, and no two producers share one; a task that another one submits is
  in the ring only once its parent has finished or its worker is leaving add_task.
  `WakeInv` counts, and is inductive together with the invariant above: until stop,
  while some worker sleeps there are at most as many tasks as threads on their way to
  take one, and while some adder sleeps at most as many free slots as threads on their
  way to fill one. A step that adds a task or frees a slot also wakes a sleeper of the
  kind it concerns, if there is one, and that sleeper is on its way from then on; a
  thread that goes to sleep has seen under the mutex that there is nothing for it.
* **Lock** (`RWLockProofs`), for any sets of readers and writers. `Exact` ties
  `shared` and `writer_waiting` to the threads between their two changes; `Balance`
  adds up, as long as no SRWLOCK was given up that was not held, the exclusive holder
  and the `readers` count against the threads inside, and the claims on the SRWLOCK
  against the flag and the pending releases, whoever cleared whose flag;
  `FlagHasWriter` says that a raised flag has a writer; `Separate` says that, until the
  first overlap, the flag and the SRWLOCK each belong to one writer. Proved: types, the exact waiting count,
  safety until the overlap, and the clean lock at rest.
* **Queue** (`SequencesProofs`), for every capacity and `SIZE_MAX`: types, agreement of
  the indices, the ends, and the FIFO. The invariant says in addition that the slots
  in use were written.
* **Sparse set** (`SparseSetProofs`), for every width of the integer and every set of
  ids. `SparseDenseAgree` is inductive together with the types, but that the place of a
  new element is never the tombstone value needs a counting step: the elements and the
  new id are an injection into the slots of `sparse`, whose number fits `uint32_t`.
  For the iterator the property "no more skipped than removals" is strengthened by how
  far the iterator stands beyond the last place: a removal there lets no element be
  skipped yet, but the next insertion is. The dictionary refinement maps insert and
  set to an assignment, remove to a deletion, and everything else to a stutter.
* **Dynamic array** (`SequencesProofs`), for all items, requests and appended arrays.
  `Sound` says of any array what the helpers that allocate and move need: the elements
  are exactly `max_capacity`, and neither the count nor `max_capacity` exceeds the
  capacity. `ReturnsInv` reduces a call to two obligations: the array it returns is
  sound, and if it left the memory, then in one of the known cases. The second follows for
  push_back because a block that had to be moved has all the room that was asked for,
  and twice a capacity that is not 0 is more than the count. For the edits
  (`DaEditsCorrect`), `HeldBy` is the sequence of the elements in front of the count, and
  one lemma per call says what it becomes: making room, moving to another block included,
  leaves it alone; the chunked and overlapping copy of insert shifts it by one place or
  is one of the calls named as spoiling elements.
* **Quicksort** (`SequencesProofs`), for every length and all integer keys. `SortInv`
  adds to `SortedOutsideCalls` that the pending calls are for ranges from left to right
  with an element between them (`GoodCalls`), and what the scan has compared so far
  (`Scanned`). Exchanging two elements inside the first call's range cannot disturb a
  pair that no call spans, for at most one of the pair is in the range
  (`ExchangeKeepsOrder`); placing the pivot puts in order exactly the pairs that the two
  new calls no longer span. Depth follows from `GoodCall`.
* **Memory pool** (`MemoryPoolProofs`), for every first capacity, bound and contents of
  the blocks. Inductive are the types, `FreeListIsFreed` and, while the pool is alive,
  `Owned`: blocks held of the current memory and blocks freed are different blocks below
  `used`, none is freed twice, nothing points into memory yet to come, and held, freed
  and `moved` add up to `used`. The free list survives a write because the list goes
  through freed blocks only, and a client writes to held ones.
* **Hash map** (`HashmapProofs`), for every hash function, set of keys and values,
  first capacity and sequence of failures. `ProbesEnd` (`size` counts at least the used
  slots and stays below the capacity) gives every probe a free slot to stop at; probing
  is first shown to visit every slot once. `Findable` (each key is where its probe ends)
  is what a hole or a lost entry destroys, and what the invariant promises until then.
  Expansion re-enters the slots one by one: by induction on the slots done, the new table
  is sound, has at most one slot per slot re-entered and, when no copy failed, maps the
  keys as the old one did, so
  that set with expansion is one assignment of the dictionary, whatever the new probing
  order. A removal that leaves no used slot behind it breaks no probe, and is a deletion.
* **Binary heap** (`BinaryHeapProofs`), for every capacity, both orders and any
  priorities. `HeapInv` is types and order. The way up from a slot (`WayUp`) and the way
  down along upper children (`WayDown`) are described once, and both sifts then by what
  they do to each slot (`SiftUpDoes`, `SiftDownDoes`). `MayGoUp` and `MayGoDown` say which
  pairs of parent and child may be out of order before a sift: push and an update that
  raises an entry establish the one, pop and an update that lowers it the other, and a
  sift mends exactly these. For the refinement (`HeapIsPriorityQueue`) the contents are a
  bag: a sift permutes the slots (`SiftUpKeepsBag`, `SiftDownKeepsBag`), the last slot can
  be added or removed (`LastAdded`, `LastRemoved`), and pop and update are an exchange
  with the last slot, a removal or replacement there, and a sift. `RootIsBest` follows
  along the tree: the least slot that would go before the root has a parent that does
  not. With failing sifts the same steps hold without the order.
* **Logger** (`DiagnosticsProofs`), for any threads and files. `LogInv`: while the logger
  is set up its handle is an open file; until a race, a thread inside a message is the
  only one, the file it writes ends with the parts it has written, and all other files
  consist of whole lines.
* **Test runner** (`DiagnosticsProofs`), for any tests, limits and number of checks.
  `TestInv` has five parts: the steps of runner and helper that go together (`Shape`);
  how far the failure list is behind the failures, thread by thread, while no two record
  at once (`FailuresKnown`); which tests are registered, each once, and sorted once the
  run has begun (`RegisteredOnce`); suites counted so far (`SuitesCounted`), which needs
  the order, as equal suites must be neighbours; and the totals against the finished tests
  and the result of the current one (`ResultsKnown`). That the insertion sort puts any
  registry in order and loses no test is proved on its recursive definition.

What the libraries compute by a loop is a recursive function here (the sort, the ways of
a sift, the slots of an expansion). Facts about such a function are shown by least
counterexample: a number at which the fact fails is a least one (`NatsHaveLeast`, from
`WellFoundedInduction`), and the step from the number before refutes it.

One assumption is about representation: `NULL` of the memory pool is none of its
pointers.

`theorems` in `PROJECT.json` names each result and the property of a run it proves.

Only model-checked: the three liveness properties of the thread pool
(`EveryAcceptedTaskStarts`, `AddTaskReturns`, `DestroyCompletes`): they rest on fairness,
and so on ENABLED, which the prover does not treat. Every other property of the passing
runs is a theorem. The types of the test runner and of the logger are parts of their
inductive invariants.

## 5. What is not modelled

* detach, sleep, thread-local storage and the init and destroy of mutexes and
  conditions: wrappers without state of their own. The POSIX branches: the lock is
  then `pthread_rwlock`, and create and detach of a thread name an undeclared variable.
* Allocation failures in `vf_queue_create`, `vf_da_alloc_exact`, `vf_bh_create`, which the code
  does not check.
* Contents of the strings, alignment and sizes in bytes; memory that is leaked
  (expansion and removal in the hash map, half a growth in the sparse set).
* `vf_memory_pool.h`: the product `block_size * capacity` (lines 82 and 125), which the
  code does not check and which may wrap, so that the memory is shorter than the pool
  believes; and a `block_size` of 0, with which all blocks have one address and the
  free list nowhere to be.
* `vf_sparseset.h`: a first capacity greater than `UINT32_MAX`. create takes a `size_t`
  and keeps it in the 32-bit `sparse_capacity`; the model's `Requests` fit.
* Clients that break the contracts named above.
* `vf_darray.h`: arrays of different stride (append returns without a change) and the
  block that reserve leaks. `remove` and `remove_swap` have no body.
* `vf_test.h`: a second call of `vf_test_run`, which would add to the totals of the first;
  what the check macros compare; time and printing; and a skip from a helper thread. The
  model's `vf_test_record_skip` is `VF_SKIP` in the test's own thread: the result is set
  and the test returns. (The macro's bare `return` does not fit a thread function, which
  returns a pointer; a helper that skips has to call a void function for it.) `vf_log.h`: init from two threads;
  levels, colours and options that nothing reads after init.
* `sort.h`: insertsort, heapsort and introsort are declared only; `mem.h`, which it
  includes for `mem_swap`, is not in the repository.
* The components marked "not modelled" in the inventory.

## 6. Plan

In order; done items first.

1. `VfThread`, `ThreadPool` with `BoundedFifo`; runs and proofs. Done.
2. `RWLock`, `Queue`; runs and proofs. Done.
3. `SparseSet` with `Dictionary`; run and proofs. Done.
4. `Hashmap`, `MemoryPool`, `BinaryHeap` with `PriorityQueue`; runs. Done.
5. `DArray` with `EditableSequence`, and `Sort`; run and proofs. Done.
6. `VfTest`, `VfLog`; run. Done.
7. The adders' scenario as part of the main pool run. Done.
8. `MemoryPoolProofs`, `HashmapProofs`, `BinaryHeapProofs`: every property of the three
   runs, the refinements included. Done.
9. `DiagnosticsProofs`, and the edits of the dynamic array in `SequencesProofs`. Done.
10. Facts about the abstract specifications themselves (a `BoundedFifo` never holds more
    than its bound, a `PriorityQueue` neither), and what they give the
    implementations; the theorems about the lock and its clients.
