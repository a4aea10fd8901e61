-------------------------- MODULE ThreadPoolProofs --------------------------
(***************************************************************************)
(* Theorems about ThreadPool for every number of workers, producers and    *)
(* tasks and every length of the ring.                                     *)
(***************************************************************************)
EXTENDS ThreadPool, TLAPS, FiniteSetTheorems

-----------------------------------------------------------------------------
(* Indices of the ring *)

\* The slot k places after f, without a remainder.
Slot(f, k) == IF f + k < MAX_QUEUE THEN f + k ELSE f + k - MAX_QUEUE

\* The remainder the code takes is Slot, as long as no more than one lap is
\* added to an index of the ring.
LEMMA SlotIsRemainder ==
    ASSUME NEW f \in 0..(MAX_QUEUE - 1), NEW k \in 0..MAX_QUEUE
    PROVE  (f + k) % MAX_QUEUE = Slot(f, k)
  BY PoolSizes, SMT DEF Slot

\* Advance stays inside the ring.
LEMMA AdvanceIsSlot ==
    ASSUME NEW f \in 0..(MAX_QUEUE - 1)
    PROVE  Advance(f) = Slot(f, 1) /\ Advance(f) \in 0..(MAX_QUEUE - 1)
  BY PoolSizes, SMT DEF Slot, Advance

-----------------------------------------------------------------------------
(* Types and the contents of the ring *)

\* What a thread that is handing over or running a task has in its locals.
TaskLocals ==
    /\ \A w \in Workers : pc[w] \in {"unlock", "run"} \cup InAddTask => task[w] \in Tasks
    /\ \A w \in Workers : pc[w] \in InAddTask => Follow[task[w]] \in Tasks
    /\ \A p \in Producers : pc[p] \in InAddTask => arg[p] \in Tasks

\* RingHoldsBacklog with Slot in place of the remainder.
RingSlots ==
    /\ Len(accepted) = Len(started) + queue_size
    /\ rear = Slot(front, queue_size)
    /\ \A k \in 1..Len(started) : started[k] = accepted[k]
    /\ \A k \in 0..(queue_size - 1) :
          queue[Slot(front, k)] = accepted[Len(started) + k + 1]

DataInv == TypeOK /\ TaskLocals /\ RingSlots

\* RingSlots, the ring slot by slot, says what RingHoldsBacklog says of sequences.
LEMMA RingSlotsIsBacklog ==
    ASSUME TypeOK PROVE RingSlots <=> RingHoldsBacklog
  <1>1. /\ front \in 0..(MAX_QUEUE - 1) /\ queue_size \in 0..MAX_QUEUE
        /\ MAX_QUEUE \in Nat
    BY PoolSizes DEF TypeOK, PoolTypes
  <1>2. (front + queue_size) % MAX_QUEUE = Slot(front, queue_size)
    BY <1>1, SlotIsRemainder
  <1>3. \A k \in 0..(queue_size - 1) : (front + k) % MAX_QUEUE = Slot(front, k)
    BY <1>1, SlotIsRemainder
  <1>4. QED
    BY <1>2, <1>3 DEF RingSlots, RingHoldsBacklog

\* Before create nothing is allocated: types, locals and ring are as they should be.
LEMMA TypesInitially == Init => DataInv
  <1> USE PoolSizes, DistinctThreads, TaskChains
  <1> SUFFICES ASSUME Init PROVE DataInv
    OBVIOUS
  <1>1. TypeOK
    <2>1. PoolTypes
      <3>1. queue \in [0..(MAX_QUEUE - 1) -> Tasks \cup {NoTask}]
        BY DEF Init
      <3>2. /\ thread_count \in 0..MAX_THREADS /\ queue_size \in 0..MAX_QUEUE
            /\ front \in 0..(MAX_QUEUE - 1) /\ rear \in 0..(MAX_QUEUE - 1)
        BY DEF Init
      <3>3. stop \in BOOLEAN
        BY DEF Init
      <3>4. QED
        BY <3>1, <3>2, <3>3 DEF PoolTypes
    <2>2. SyncTypes
      BY DEF Init, SyncTypes, HandleState
    <2>3. ThreadTypes
      <3>1. pc \in [Threads -> OwnerLabels \cup WorkerLabels \cup ProducerLabels]
        BY DEF Init, OwnerLabels, WorkerLabels, ProducerLabels
      <3>2. /\ pc[Owner] \in OwnerLabels
            /\ \A w \in Workers : pc[w] \in WorkerLabels
            /\ \A p \in Producers : pc[p] \in ProducerLabels
        BY DEF Init, Threads, Adders, OwnerLabels, WorkerLabels, ProducerLabels
      <3>3. QED
        BY <3>1, <3>2 DEF Init, ThreadTypes
    <2>4. HistoryTypes
      BY DEF Init, HistoryTypes
    <2>5. QED
      BY <2>1, <2>2, <2>3, <2>4 DEF TypeOK
  <1>2. TaskLocals
    BY DEF Init, TaskLocals, Threads, Adders, InAddTask
  <1>3. RingSlots
    BY DEF Init, RingSlots, Slot
  <1>4. QED
    BY <1>1, <1>2, <1>3 DEF DataInv

\* What signals, broadcasts and sleeping threads do to the wait sets.
LEMMA WaitSets ==
    ASSUME waiting \in [Conds -> SUBSET Adders], NEW t \in Adders, NEW c \in Conds,
           \/ vf_cond_wait(t, c)
           \/ vf_cond_signal(c)
           \/ SpuriousWakeup(t, c)
           \/ vf_cond_broadcast(Conds)
    PROVE  waiting' \in [Conds -> SUBSET Adders]
  <1>1. CASE vf_cond_wait(t, c)
    BY <1>1 DEF vf_cond_wait
  <1>2. CASE vf_cond_signal(c)
    BY <1>2 DEF vf_cond_signal
  <1>3. CASE SpuriousWakeup(t, c)
    BY <1>3 DEF SpuriousWakeup
  <1>4. CASE vf_cond_broadcast(Conds)
    BY <1>4 DEF vf_cond_broadcast
  <1>5. QED
    BY <1>1, <1>2, <1>3, <1>4

\* A step that moves one thread to a label of its own keeps the types of pc.
LEMMA MovesKeepTypes ==
    ASSUME ThreadTypes, NEW t \in Threads, NEW label, Goto(t, label),
           \/ t = Owner /\ label \in OwnerLabels
           \/ t \in Workers /\ label \in WorkerLabels
           \/ t \in Producers /\ label \in ProducerLabels
    PROVE  /\ pc' \in [Threads -> OwnerLabels \cup WorkerLabels \cup ProducerLabels]
           /\ pc'[Owner] \in OwnerLabels
           /\ \A w \in Workers : pc'[w] \in WorkerLabels
           /\ \A p \in Producers : pc'[p] \in ProducerLabels
           /\ pc'[t] = label
           /\ \A u \in Threads \ {t} : pc'[u] = pc[u]
  BY DistinctThreads DEF ThreadTypes, Goto, Threads, Adders

\* A step that leaves the pool's fields alone and starts or accepts no task.
LEMMA QuietStep ==
    ASSUME DataInv, UNCHANGED <<pool, accepted, started>>, finished' \in SUBSET Tasks,
           SyncTypes', ThreadTypes', TaskLocals'
    PROVE  DataInv'
  <1>1. PoolTypes' /\ HistoryTypes'
    BY DEF DataInv, TypeOK, PoolTypes, HistoryTypes, pool, ring
  <1>2. RingSlots'
    BY DEF DataInv, RingSlots, Slot, pool, ring
  <1>3. QED
    BY <1>1, <1>2 DEF DataInv, TypeOK

\* Each step of threadpool_worker keeps types, locals and ring.
LEMMA WorkerKeepsData ==
    ASSUME DataInv, NEW w \in Workers, Worker(w) PROVE DataInv'
  <1> USE DEF pool, ring, sync, local, history
  <1>t. /\ PoolTypes /\ SyncTypes /\ ThreadTypes /\ HistoryTypes
        /\ TaskLocals /\ RingSlots /\ w \in Threads /\ w \in Adders
    BY DEF DataInv, TypeOK, Threads, Adders
  <1>1. CASE WorkerLock(w)
    <2>1. SyncTypes'
      BY <1>1, <1>t DEF WorkerLock, vf_mutex_lock, SyncTypes
    <2>2. ThreadTypes' /\ TaskLocals'
      BY <1>1, <1>t, MovesKeepTypes DEF WorkerLock, ThreadTypes, WorkerLabels, TaskLocals, InAddTask, Threads, Adders
    <2>3. QED
      BY <1>1, <1>t, <2>1, <2>2, QuietStep DEF WorkerLock, HistoryTypes
  <1>2. CASE WorkerWait(w)
    <2>1. SyncTypes'
      BY <1>2, <1>t, WaitSets DEF WorkerWait, vf_cond_wait, vf_mutex_unlock, SyncTypes, Conds
    <2>2. ThreadTypes' /\ TaskLocals'
      BY <1>2, <1>t, MovesKeepTypes DEF WorkerWait, ThreadTypes, WorkerLabels, TaskLocals, InAddTask, Threads, Adders
    <2>3. QED
      BY <1>2, <1>t, <2>1, <2>2, QuietStep DEF WorkerWait, HistoryTypes
  <1>3. CASE WorkerWake(w)
    <2>1. SyncTypes'
      BY <1>3, <1>t DEF WorkerWake, vf_cond_wait_returns, vf_mutex_lock, SyncTypes
    <2>2. ThreadTypes' /\ TaskLocals'
      BY <1>3, <1>t, MovesKeepTypes DEF WorkerWake, ThreadTypes, WorkerLabels, TaskLocals, InAddTask, Threads, Adders
    <2>3. QED
      BY <1>3, <1>t, <2>1, <2>2, QuietStep DEF WorkerWake, HistoryTypes
  <1>4. CASE WorkerExit(w)
    <2>1. SyncTypes'
      BY <1>4, <1>t DEF WorkerExit, vf_mutex_unlock, SyncTypes
    <2>2. ThreadTypes' /\ TaskLocals'
      BY <1>4, <1>t, MovesKeepTypes DEF WorkerExit, ThreadTypes, WorkerLabels, TaskLocals, InAddTask, Threads, Adders
    <2>3. QED
      BY <1>4, <1>t, <2>1, <2>2, QuietStep DEF WorkerExit, HistoryTypes
  <1>5. CASE WorkerTake(w)
    <2>1. SyncTypes'
      BY <1>5, <1>t, WaitSets DEF WorkerTake, AnnounceSlot, SyncTypes, Conds
    <2>2. queue_size \in 1..MAX_QUEUE /\ front \in 0..(MAX_QUEUE - 1) /\ MAX_QUEUE \in Nat
      BY <1>5, <1>t, PoolSizes DEF WorkerTake, MayTake, PoolTypes
    <2>3. /\ Len(started) \in Nat /\ Len(accepted) \in Nat
          /\ Len(accepted) = Len(started) + queue_size
      BY <1>t DEF HistoryTypes, RingSlots
    <2>4. TaskAtFront = accepted[Len(started) + 1] /\ TaskAtFront \in Tasks
      <3>1. Slot(front, 0) = front
        BY <2>2 DEF Slot
      <3>2. queue[front] = accepted[Len(started) + 0 + 1]
        BY <1>t, <2>2, <3>1 DEF RingSlots
      <3>3. Len(started) + 1 \in 1..Len(accepted)
        BY <2>2, <2>3
      <3>4. QED
        BY <1>t, <2>3, <3>2, <3>3 DEF TaskAtFront, HistoryTypes
    <2>5. /\ Advance(front) \in 0..(MAX_QUEUE - 1)
          /\ Advance(front) = Slot(front, 1)
      BY <2>2, AdvanceIsSlot
    <2>6. PoolTypes' /\ HistoryTypes'
      BY <1>5, <1>t, <2>2, <2>4, <2>5 DEF WorkerTake, PoolTypes, HistoryTypes
    <2>7. ThreadTypes' /\ TaskLocals'
      <3>1. /\ ThreadTypes'
            /\ pc'[w] = "unlock" /\ \A u \in Threads \ {w} : pc'[u] = pc[u]
        BY <1>5, <1>t, <2>4, MovesKeepTypes DEF WorkerTake, ThreadTypes, WorkerLabels
      <3>2. task'[w] \in Tasks /\ \A v \in Workers \ {w} : task'[v] = task[v]
        BY <1>5, <1>t, <2>4 DEF WorkerTake, ThreadTypes
      <3>3. TaskLocals'
        BY <1>5, <1>t, <3>1, <3>2, DistinctThreads
           DEF WorkerTake, TaskLocals, InAddTask, Threads, Adders
      <3>4. QED
        BY <3>1, <3>3
    <2>8. RingSlots'
      <3>1. /\ Len(started') = Len(started) + 1
            /\ started'[Len(started) + 1] = TaskAtFront
            /\ \A k \in 1..Len(started) : started'[k] = started[k]
        BY <1>5, <1>t, <2>4 DEF WorkerTake, HistoryTypes
      <3>2. /\ front' = Slot(front, 1) /\ queue_size' = queue_size - 1
            /\ UNCHANGED <<queue, rear, accepted>>
        BY <1>5, <2>5 DEF WorkerTake
      <3>3. rear' = Slot(front', queue_size')
        BY <1>t, <2>2, <3>2 DEF RingSlots, Slot
      <3>4. \A k \in 1..Len(started') : started'[k] = accepted'[k]
        BY <1>t, <2>3, <2>4, <3>1, <3>2 DEF RingSlots
      <3>5. \A k \in 0..(queue_size' - 1) : Slot(front', k) = Slot(front, k + 1)
        BY <2>2, <3>2 DEF Slot
      <3>6. \A k \in 0..(queue_size' - 1) :
               queue'[Slot(front', k)] = accepted'[Len(started') + k + 1]
        <4> SUFFICES ASSUME NEW k \in 0..(queue_size' - 1)
                     PROVE  queue'[Slot(front', k)] = accepted'[Len(started') + k + 1]
          OBVIOUS
        <4>1. k + 1 \in 0..(queue_size - 1)
          BY <2>2, <3>2
        <4>2. queue[Slot(front, k + 1)] = accepted[Len(started) + (k + 1) + 1]
          BY <1>t, <4>1 DEF RingSlots
        <4>3. Len(started) + (k + 1) + 1 = Len(started') + k + 1
          BY <2>2, <2>3, <3>1, <3>2
        <4>4. QED
          BY <3>2, <3>5, <4>2, <4>3
      <3>7. Len(accepted') = Len(started') + queue_size'
        BY <2>2, <2>3, <3>1, <3>2
      <3>8. QED
        BY <3>3, <3>4, <3>6, <3>7 DEF RingSlots
    <2>9. QED
      BY <2>1, <2>6, <2>7, <2>8 DEF DataInv, TypeOK
  <1>6. CASE WorkerUnlock(w)
    <2>1. SyncTypes'
      BY <1>6, <1>t DEF WorkerUnlock, vf_mutex_unlock, SyncTypes
    <2>2. ThreadTypes' /\ TaskLocals'
      BY <1>6, <1>t, MovesKeepTypes DEF WorkerUnlock, ThreadTypes, WorkerLabels, TaskLocals, InAddTask, Threads, Adders
    <2>3. QED
      BY <1>6, <1>t, <2>1, <2>2, QuietStep DEF WorkerUnlock, HistoryTypes
  <1>7. CASE RunSubmits(w)
    <2>1. Follow[task[w]] \in Tasks
      BY <1>7, <1>t, TaskChains DEF RunSubmits, TaskLocals
    <2>2. SyncTypes'
      BY <1>7, <1>t DEF RunSubmits, SyncTypes
    <2>3. ThreadTypes' /\ TaskLocals'
      <3>1. /\ ThreadTypes'
            /\ pc'[w] = "add_lock" /\ \A u \in Threads \ {w} : pc'[u] = pc[u]
        BY <1>7, <1>t, MovesKeepTypes DEF RunSubmits, ThreadTypes, WorkerLabels, InAddTask
      <3>2. TaskLocals'
        BY <1>7, <1>t, <2>1, <3>1, DistinctThreads
           DEF RunSubmits, TaskLocals, InAddTask, Threads, Adders
      <3>3. QED
        BY <3>1, <3>2
    <2>4. QED
      BY <1>7, <1>t, <2>2, <2>3, QuietStep DEF RunSubmits, HistoryTypes
  <1>8. CASE RunReturns(w)
    <2>1. SyncTypes'
      BY <1>8, <1>t DEF RunReturns, SyncTypes
    <2>2. ThreadTypes' /\ TaskLocals'
      BY <1>8, <1>t, MovesKeepTypes DEF RunReturns, ThreadTypes, WorkerLabels, TaskLocals, InAddTask, Threads, Adders
    <2>3. finished' \in SUBSET Tasks
      BY <1>8, <1>t DEF RunReturns, HistoryTypes, TaskLocals
    <2>4. QED
      BY <1>8, <1>t, <2>1, <2>2, <2>3, QuietStep DEF RunReturns
  <1>9. QED
    BY <1>1, <1>2, <1>3, <1>4, <1>5, <1>6, <1>7, <1>8 DEF Worker

\* The return from vf_threadpool_add_task, to a task's function or a producer.
LEMMA ReturnKeepsTypes ==
    ASSUME ThreadTypes, HistoryTypes, TaskLocals, NEW t \in Adders,
           pc[t] \in InAddTask, ReturnFromAddTask(t), UNCHANGED <<task, i, spurious>>
    PROVE  ThreadTypes' /\ TaskLocals' /\ finished' \in SUBSET Tasks
  <1>1. CASE t \in Workers
    <2>1. /\ Goto(t, "lock") /\ finished' = finished \cup {task[t]} /\ UNCHANGED arg
      BY <1>1, DistinctThreads DEF ReturnFromAddTask
    <2>2. ThreadTypes' /\ TaskLocals'
      BY <1>1, <2>1, MovesKeepTypes
         DEF ThreadTypes, WorkerLabels, TaskLocals, InAddTask, Threads, Adders
    <2>3. finished' \in SUBSET Tasks
      BY <1>1, <2>1 DEF HistoryTypes, TaskLocals
    <2>4. QED
      BY <2>2, <2>3
  <1>2. CASE t \in Producers
    <2>1. Goto(t, "idle") /\ arg' = [arg EXCEPT ![t] = NoTask] /\ UNCHANGED finished
      BY <1>2, DistinctThreads DEF ReturnFromAddTask
    <2>2. ThreadTypes' /\ pc'[t] = "idle" /\ \A u \in Threads \ {t} : pc'[u] = pc[u]
      BY <1>2, <2>1, MovesKeepTypes DEF ThreadTypes, ProducerLabels, Threads, Adders
    <2>3. TaskLocals'
      BY <1>2, <2>1, <2>2, DistinctThreads
         DEF ThreadTypes, TaskLocals, InAddTask, Threads, Adders
    <2>4. QED
      BY <2>1, <2>2, <2>3 DEF HistoryTypes
  <1>3. QED
    BY <1>1, <1>2 DEF Adders

\* Each step of vf_threadpool_add_task keeps types, locals and ring.
LEMMA AddTaskKeepsData ==
    ASSUME DataInv, NEW t \in Adders, AddTask(t) PROVE DataInv'
  <1> USE DEF pool, ring, sync, local, history
  <1>t. /\ PoolTypes /\ SyncTypes /\ ThreadTypes /\ HistoryTypes
        /\ TaskLocals /\ RingSlots /\ t \in Threads
    BY DEF DataInv, TypeOK, Threads
  <1>m. ASSUME NEW label \in InAddTask, Goto(t, label), UNCHANGED <<local, history>>,
               pc[t] \in InAddTask
        PROVE  ThreadTypes' /\ TaskLocals'
    <2>1. /\ ThreadTypes' /\ pc'[t] = label
          /\ \A u \in Threads \ {t} : pc'[u] = pc[u]
      BY <1>t, <1>m, MovesKeepTypes DEF ThreadTypes, WorkerLabels, ProducerLabels, Adders
    <2>2. TaskLocals'
      BY <1>t, <1>m, <2>1 DEF TaskLocals, Threads, Adders
    <2>3. QED
      BY <2>1, <2>2
  <1>1. CASE AddLock(t)
    <2>1. SyncTypes'
      BY <1>1, <1>t DEF AddLock, vf_mutex_lock, SyncTypes
    <2>2. ThreadTypes' /\ TaskLocals'
      BY <1>1, <1>m DEF AddLock, InAddTask
    <2>3. QED
      BY <1>1, <1>t, <2>1, <2>2, QuietStep DEF AddLock, HistoryTypes
  <1>2. CASE AddWait(t)
    <2>1. SyncTypes'
      BY <1>2, <1>t, WaitSets DEF AddWait, vf_cond_wait, vf_mutex_unlock, SyncTypes, Conds
    <2>2. ThreadTypes' /\ TaskLocals'
      BY <1>2, <1>m DEF AddWait, InAddTask
    <2>3. QED
      BY <1>2, <1>t, <2>1, <2>2, QuietStep DEF AddWait, HistoryTypes
  <1>3. CASE AddWake(t)
    <2>1. SyncTypes'
      BY <1>3, <1>t DEF AddWake, vf_cond_wait_returns, vf_mutex_lock, SyncTypes
    <2>2. ThreadTypes' /\ TaskLocals'
      BY <1>3, <1>m DEF AddWake, InAddTask
    <2>3. QED
      BY <1>3, <1>t, <2>1, <2>2, QuietStep DEF AddWake, HistoryTypes
  <1>4. CASE AddRefused(t)
    <2>1. SyncTypes'
      BY <1>4, <1>t DEF AddRefused, vf_mutex_unlock, SyncTypes
    <2>2. ThreadTypes' /\ TaskLocals' /\ finished' \in SUBSET Tasks
      BY <1>4, <1>t, ReturnKeepsTypes DEF AddRefused, InAddTask
    <2>3. QED
      BY <1>4, <1>t, <2>1, <2>2, QuietStep DEF AddRefused
  <1>5. CASE AddEnqueue(t)
    <2>1. SyncTypes'
      BY <1>5, <1>t, WaitSets DEF AddEnqueue, AnnounceTask, SyncTypes, Conds
    <2>2. /\ queue_size \in 0..(MAX_QUEUE - 1) /\ MAX_QUEUE \in Nat
          /\ front \in 0..(MAX_QUEUE - 1) /\ rear \in 0..(MAX_QUEUE - 1)
          /\ queue \in [0..(MAX_QUEUE - 1) -> Tasks \cup {NoTask}]
      BY <1>5, <1>t, PoolSizes DEF AddEnqueue, PoolTypes
    <2>3. /\ Len(started) \in Nat /\ Len(accepted) \in Nat
          /\ Len(accepted) = Len(started) + queue_size
      BY <1>t DEF HistoryTypes, RingSlots
    <2>4. Submitting(t) \in Tasks
      BY <1>5, <1>t, DistinctThreads DEF AddEnqueue, Submitting, TaskLocals, InAddTask, Adders
    <2>5. Advance(rear) \in 0..(MAX_QUEUE - 1) /\ Advance(rear) = Slot(rear, 1)
      BY <2>2, AdvanceIsSlot
    <2>6. PoolTypes' /\ HistoryTypes'
      BY <1>5, <1>t, <2>2, <2>4, <2>5 DEF AddEnqueue, PoolTypes, HistoryTypes
    <2>7. ThreadTypes' /\ TaskLocals'
      <3>1. /\ ThreadTypes' /\ pc'[t] = "add_unlock"
            /\ \A u \in Threads \ {t} : pc'[u] = pc[u]
        BY <1>5, <1>t, MovesKeepTypes
           DEF AddEnqueue, ThreadTypes, WorkerLabels, ProducerLabels, InAddTask, Adders
      <3>2. TaskLocals'
        BY <1>5, <1>t, <3>1 DEF AddEnqueue, TaskLocals, InAddTask, Threads, Adders
      <3>3. QED
        BY <3>1, <3>2
    <2>8. RingSlots'
      <3>1. /\ Len(accepted') = Len(accepted) + 1
            /\ accepted'[Len(accepted) + 1] = Submitting(t)
            /\ \A k \in 1..Len(accepted) : accepted'[k] = accepted[k]
        BY <1>5, <1>t, <2>4 DEF AddEnqueue, HistoryTypes
      <3>2. /\ rear' = Slot(rear, 1) /\ queue_size' = queue_size + 1
            /\ queue' = [queue EXCEPT ![rear] = Submitting(t)]
            /\ UNCHANGED <<front, started>>
        BY <1>5, <2>5 DEF AddEnqueue
      <3>3. rear = Slot(front, queue_size)
        BY <1>t DEF RingSlots
      <3>4. rear' = Slot(front', queue_size')
        BY <2>2, <3>2, <3>3 DEF Slot
      <3>5. \A k \in 1..Len(started') : started'[k] = accepted'[k]
        BY <1>t, <2>2, <2>3, <3>1, <3>2 DEF RingSlots
      <3>6. \A k \in 0..(queue_size - 1) :
               Slot(front, k) # rear /\ Slot(front, k) \in 0..(MAX_QUEUE - 1)
        BY <2>2, <3>3 DEF Slot
      <3>7. ASSUME NEW k \in 0..(queue_size' - 1)
            PROVE  queue'[Slot(front', k)] = accepted'[Len(started') + k + 1]
        <4>1. CASE k = queue_size
          BY <2>2, <2>3, <3>1, <3>2, <3>3, <4>1
        <4>2. CASE k # queue_size
          <5>1. k \in 0..(queue_size - 1)
            BY <2>2, <3>2, <4>2
          <5>2. queue[Slot(front, k)] = accepted[Len(started) + k + 1]
            BY <1>t, <5>1 DEF RingSlots
          <5>3. Len(started) + k + 1 \in 1..Len(accepted)
            BY <2>2, <2>3, <5>1
          <5>4. queue'[Slot(front, k)] = queue[Slot(front, k)]
            BY <2>2, <3>2, <3>6, <5>1
          <5>5. QED
            BY <3>1, <3>2, <5>2, <5>3, <5>4
        <4>3. QED
          BY <4>1, <4>2
      <3>8. Len(accepted') = Len(started') + queue_size'
        BY <2>2, <2>3, <3>1, <3>2
      <3>9. QED
        BY <3>4, <3>5, <3>7, <3>8 DEF RingSlots
    <2>9. QED
      BY <2>1, <2>6, <2>7, <2>8 DEF DataInv, TypeOK
  <1>6. CASE AddSucceeds(t)
    <2>1. SyncTypes'
      BY <1>6, <1>t DEF AddSucceeds, vf_mutex_unlock, SyncTypes
    <2>2. ThreadTypes' /\ TaskLocals' /\ finished' \in SUBSET Tasks
      BY <1>6, <1>t, ReturnKeepsTypes DEF AddSucceeds, InAddTask
    <2>3. QED
      BY <1>6, <1>t, <2>1, <2>2, QuietStep DEF AddSucceeds
  <1>7. QED
    BY <1>1, <1>2, <1>3, <1>4, <1>5, <1>6 DEF AddTask

\* A client's call of add_task keeps types, locals and ring.
LEMMA CallKeepsData ==
    ASSUME DataInv, NEW p \in Producers, NEW x \in Roots, CallAddTask(p, x) PROVE DataInv'
  <1> USE DEF pool, ring, sync, local, history
  <1>t. /\ SyncTypes /\ ThreadTypes /\ HistoryTypes /\ TaskLocals
        /\ p \in Threads /\ Roots \subseteq Tasks
    BY DEF DataInv, TypeOK, Threads, Adders, Roots
  <1>1. SyncTypes'
    BY <1>t DEF CallAddTask, SyncTypes
  <1>2. /\ ThreadTypes' /\ pc'[p] = "add_lock"
        /\ \A u \in Threads \ {p} : pc'[u] = pc[u]
    BY <1>t, MovesKeepTypes DEF CallAddTask, ThreadTypes, ProducerLabels, InAddTask
  <1>3. TaskLocals'
    BY <1>t, <1>2, DistinctThreads
       DEF CallAddTask, ThreadTypes, TaskLocals, Threads, Adders
  <1>4. QED
    BY <1>t, <1>1, <1>2, <1>3, QuietStep DEF CallAddTask, HistoryTypes

\* What only the owner's program counter and the synchronisation objects see.
LEMMA OwnerMoves ==
    ASSUME ThreadTypes, TaskLocals, NEW label \in OwnerLabels, Goto(Owner, label),
           UNCHANGED <<task, arg, spurious>>, i' \in 0..MAX_THREADS
    PROVE  ThreadTypes' /\ TaskLocals'
  <1>1. /\ ThreadTypes'
        /\ \A u \in Threads \ {Owner} : pc'[u] = pc[u]
    BY MovesKeepTypes DEF ThreadTypes, Threads
  <1>2. TaskLocals'
    BY <1>1, DistinctThreads DEF TaskLocals, Threads, Adders
  <1>3. QED
    BY <1>1, <1>2

\* Before the pool exists no thread but the owner runs and no task was taken.
NothingBeforeCreate ==
    pc[Owner] \in {"new", "null"} =>
        /\ \A w \in Workers : pc[w] = "unborn" /\ handle[w] = "garbage"
        /\ accepted = <<>> /\ started = <<>> /\ finished = {}

\* Each step of vf_threadpool_create keeps types, locals and ring.
LEMMA CreateKeepsData ==
    ASSUME DataInv, NothingBeforeCreate, Create PROVE DataInv'
  <1> USE DEF pool, ring, sync, local, history
  <1>t. /\ PoolTypes /\ SyncTypes /\ ThreadTypes /\ HistoryTypes
        /\ TaskLocals /\ RingSlots /\ Owner \in Threads
    BY DEF DataInv, TypeOK, Threads
  <1>1. CASE CreateReturnsNull
    <2>1. SyncTypes' /\ finished' \in SUBSET Tasks
      BY <1>1, <1>t DEF CreateReturnsNull, SyncTypes, HistoryTypes
    <2>2. ThreadTypes' /\ TaskLocals'
      BY <1>1, <1>t, OwnerMoves DEF CreateReturnsNull, OwnerLabels, ThreadTypes
    <2>3. QED
      BY <1>1, <2>1, <2>2, QuietStep DEF CreateReturnsNull
  <1>2. ASSUME NEW n \in Requests, CreatePool(n) PROVE DataInv'
    <2>1. SyncTypes' /\ HistoryTypes'
      BY <1>2, <1>t DEF CreatePool, SyncTypes, HistoryTypes
    <2>2. ThreadTypes' /\ TaskLocals'
      BY <1>2, <1>t, OwnerMoves, PoolSizes DEF CreatePool, OwnerLabels, ThreadTypes
    <2>3. PoolTypes'
      <3>1. n \in 0..MAX_THREADS /\ 0 \in 0..MAX_QUEUE /\ 0 \in 0..(MAX_QUEUE - 1)
        BY <1>2, PoolSizes DEF CreatePool
      <3>2. stop' \in BOOLEAN
        BY <1>2 DEF CreatePool
      <3>3. QED
        BY <1>2, <1>t, <3>1, <3>2 DEF CreatePool, PoolTypes
    <2>4. RingSlots'
      <3>1. accepted' = <<>> /\ started' = <<>>
        BY <1>2 DEF CreatePool, NothingBeforeCreate
      <3>2. queue_size' = 0 /\ front' = 0 /\ rear' = 0 /\ MAX_QUEUE' = MAX_QUEUE
        BY <1>2 DEF CreatePool
      <3>3. QED
        BY <3>1, <3>2, PoolSizes DEF RingSlots, Slot
    <2>5. QED
      BY <2>1, <2>2, <2>3, <2>4 DEF DataInv, TypeOK
  <1>3. CASE CreateThread
    <2>1. i \in Workers /\ i + 1 \in 0..MAX_THREADS
      BY <1>3, <1>t, PoolSizes DEF CreateThread, PoolTypes, ThreadTypes, Workers
    <2>2. SyncTypes' /\ finished' \in SUBSET Tasks
      BY <1>3, <1>t, <2>1 DEF CreateThread, vf_thread_create, HandleState, SyncTypes, HistoryTypes
    <2>3. /\ ThreadTypes' /\ pc'[i] = "lock"
          /\ \A u \in Threads \ {i} : pc'[u] = pc[u]
      BY <1>3, <1>t, <2>1, MovesKeepTypes
         DEF CreateThread, Goto, ThreadTypes, WorkerLabels, Threads, Adders
    <2>4. TaskLocals'
      BY <1>3, <1>t, <2>1, <2>3 DEF CreateThread, TaskLocals, InAddTask, Threads, Adders
    <2>5. QED
      BY <1>3, <2>2, <2>3, <2>4, QuietStep DEF CreateThread
  <1>4. CASE CreateThreadFails
    <2>1. i \in Workers
      BY <1>4, <1>t, PoolSizes DEF CreateThreadFails, PoolTypes, ThreadTypes, Workers
    <2>2. SyncTypes' /\ finished' \in SUBSET Tasks
      BY <1>4, <1>t, <2>1 DEF CreateThreadFails, vf_thread_create, HandleState, SyncTypes, HistoryTypes
    <2>3. ThreadTypes' /\ TaskLocals'
      BY <1>4, <1>t, OwnerMoves DEF CreateThreadFails, OwnerLabels, ThreadTypes
    <2>4. QED
      BY <1>4, <2>2, <2>3, QuietStep DEF CreateThreadFails
  <1>5. CASE CreateReturnsPool
    <2>1. SyncTypes' /\ finished' \in SUBSET Tasks
      BY <1>5, <1>t DEF CreateReturnsPool, SyncTypes, HistoryTypes
    <2>2. ThreadTypes' /\ TaskLocals'
      BY <1>5, <1>t, OwnerMoves DEF CreateReturnsPool, OwnerLabels, ThreadTypes
    <2>3. QED
      BY <1>5, <2>1, <2>2, QuietStep DEF CreateReturnsPool
  <1>6. QED
    BY <1>1, <1>2, <1>3, <1>4, <1>5 DEF Create

\* Each step of vf_threadpool_destroy keeps types, locals and ring.
LEMMA DestroyKeepsData ==
    ASSUME DataInv, CallDestroy \/ Destroy PROVE DataInv'
  <1> USE DEF pool, ring, sync, local, history
  <1>t. /\ PoolTypes /\ SyncTypes /\ ThreadTypes /\ HistoryTypes
        /\ TaskLocals /\ RingSlots /\ Owner \in Threads /\ MAX_THREADS \in Nat
        /\ finished \in SUBSET Tasks
    BY PoolSizes DEF DataInv, TypeOK, Threads, HistoryTypes
  <1>1. CASE CallDestroy
    BY <1>1, <1>t, OwnerMoves, QuietStep DEF CallDestroy, OwnerLabels, ThreadTypes, SyncTypes
  <1>2. CASE DestroyLock
    BY <1>2, <1>t, OwnerMoves, QuietStep
       DEF DestroyLock, OwnerLabels, ThreadTypes, SyncTypes, vf_mutex_lock
  <1>3. CASE DestroyStop
    <2>1. waiting' \in [Conds -> SUBSET Adders]
      BY <1>3, <1>t DEF DestroyStop, AnnounceStop, vf_cond_broadcast, SyncTypes, Conds
    <2>2. SyncTypes' /\ PoolTypes' /\ HistoryTypes'
      BY <1>3, <1>t, <2>1 DEF DestroyStop, SyncTypes, PoolTypes, HistoryTypes
    <2>3. ThreadTypes' /\ TaskLocals'
      BY <1>3, <1>t, OwnerMoves DEF DestroyStop, OwnerLabels, ThreadTypes
    <2>4. RingSlots'
      BY <1>3, <1>t DEF DestroyStop, RingSlots, Slot
    <2>5. QED
      BY <2>2, <2>3, <2>4 DEF DataInv, TypeOK
  <1>4. CASE DestroyUnlock
    BY <1>4, <1>t, OwnerMoves, QuietStep
       DEF DestroyUnlock, OwnerLabels, ThreadTypes, SyncTypes, vf_mutex_unlock
  <1>5. CASE DestroyJoin
    <2>1. i \in Workers /\ i + 1 \in 0..MAX_THREADS
      BY <1>5, <1>t, PoolSizes DEF DestroyJoin, PoolTypes, ThreadTypes, Workers
    <2>2. SyncTypes'
      BY <1>5, <1>t, <2>1 DEF DestroyJoin, vf_thread_join, HandleState, SyncTypes
    <2>3. ThreadTypes' /\ TaskLocals'
      BY <1>5, <1>t, <2>1 DEF DestroyJoin, ThreadTypes, TaskLocals
    <2>4. QED
      BY <1>5, <1>t, <2>2, <2>3, QuietStep DEF DestroyJoin
  <1>6. CASE DestroyJoinHangs
    BY <1>6, <1>t, OwnerMoves, QuietStep
       DEF DestroyJoinHangs, OwnerLabels, ThreadTypes, SyncTypes, vf_thread_join_hangs
  <1>7. CASE DestroyFree
    BY <1>7, <1>t, OwnerMoves, QuietStep DEF DestroyFree, OwnerLabels, ThreadTypes, SyncTypes
  <1>8. QED
    BY <1>1, <1>2, <1>3, <1>4, <1>5, <1>6, <1>7 DEF Destroy

-----------------------------------------------------------------------------
(* Who runs when *)

\* The threads array, the owner's loops and the workers' lives belong together.
Lifecycle ==
    /\ NothingBeforeCreate
    /\ pc[Owner] # "open" => \A p \in Producers : pc[p] = "idle"
    /\ stop <=> pc[Owner] \in {"destroy_unlock", "join", "hung", "freed"}
    /\ \A w \in Workers : pc[w] # "unborn" <=> handle[w] \in {"live", "closed"}
    /\ \A w \in Workers : handle[w] = "closed" => pc[w] = "exited"
    /\ \A w \in Workers : w >= thread_count => handle[w] = "garbage"
    /\ pc[Owner] \in {"creating", "join"} => i <= thread_count
    /\ pc[Owner] = "creating" => \A w \in Workers : w >= i => pc[w] = "unborn"
    /\ pc[Owner] = "join" => \A w \in Workers : w < i => handle[w] # "live"
    /\ pc[Owner] = "freed" => \A w \in Workers : handle[w] # "live"

\* Before create no thread has been started.
LEMMA LifecycleInitially == Init => Lifecycle
  BY PoolSizes, DistinctThreads
     DEF Init, Lifecycle, NothingBeforeCreate, Threads, Adders, Workers

\* Steps of workers and producers do not touch what the owner does.
LEMMA AddersKeepLifecycle ==
    ASSUME TypeOK, Lifecycle, NEW t \in Adders, NEW label, Goto(t, label),
           t \in Workers => pc[t] # "unborn" /\ label # "unborn" /\ pc[t] # "exited",
           t \in Producers => pc[t] # "idle" \/ pc[Owner] = "open",
           UNCHANGED <<stop, handle, thread_count, i>>
    PROVE  Lifecycle'
  <1>1. /\ pc'[t] = label
        /\ \A u \in Threads \ {t} : pc'[u] = pc[u]
        /\ Owner # t /\ Owner \in Threads
    BY DistinctThreads DEF Goto, TypeOK, ThreadTypes, Threads, Adders
  <1>2. QED
    BY <1>1, DistinctThreads DEF Lifecycle, NothingBeforeCreate, Threads, Adders

\* A worker's steps keep the life cycle: it leaves only after destroy set stop.
LEMMA WorkerKeepsLifecycle ==
    ASSUME TypeOK, Lifecycle, NEW w \in Workers, Worker(w) PROVE Lifecycle'
  <1> USE AddersKeepLifecycle, DistinctThreads DEF pool, ring, sync, local, history, Adders
  <1>1. CASE WorkerLock(w)
    BY <1>1 DEF WorkerLock
  <1>2. CASE WorkerWait(w)
    BY <1>2 DEF WorkerWait
  <1>3. CASE WorkerWake(w)
    BY <1>3 DEF WorkerWake
  <1>4. CASE WorkerExit(w)
    BY <1>4 DEF WorkerExit
  <1>5. CASE WorkerTake(w)
    BY <1>5 DEF WorkerTake
  <1>6. CASE WorkerUnlock(w)
    BY <1>6 DEF WorkerUnlock
  <1>7. CASE RunSubmits(w)
    BY <1>7 DEF RunSubmits
  <1>8. CASE RunReturns(w)
    BY <1>8 DEF RunReturns
  <1>9. QED
    BY <1>1, <1>2, <1>3, <1>4, <1>5, <1>6, <1>7, <1>8 DEF Worker

\* A step of add_task keeps the life cycle: it starts and ends no thread.
LEMMA AddTaskKeepsLifecycle ==
    ASSUME TypeOK, Lifecycle, NEW t \in Adders, AddTask(t) PROVE Lifecycle'
  <1> USE AddersKeepLifecycle, DistinctThreads DEF pool, ring, sync, local, history
  <1>1. CASE AddLock(t)
    BY <1>1 DEF AddLock
  <1>2. CASE AddWait(t)
    BY <1>2 DEF AddWait
  <1>3. CASE AddWake(t)
    BY <1>3 DEF AddWake
  <1>4. CASE AddRefused(t)
    <2>1. \E label \in {"lock", "idle"} : Goto(t, label)
      BY <1>4 DEF AddRefused, ReturnFromAddTask
    <2>2. QED
      BY <1>4, <2>1 DEF AddRefused, ReturnFromAddTask
  <1>5. CASE AddEnqueue(t)
    BY <1>5 DEF AddEnqueue
  <1>6. CASE AddSucceeds(t)
    <2>1. \E label \in {"lock", "idle"} : Goto(t, label)
      BY <1>6 DEF AddSucceeds, ReturnFromAddTask
    <2>2. QED
      BY <1>6, <2>1 DEF AddSucceeds, ReturnFromAddTask
  <1>7. QED
    BY <1>1, <1>2, <1>3, <1>4, <1>5, <1>6 DEF AddTask

\* The owner's create and destroy take the pool from one stage of its life to the next.
LEMMA OwnerKeepsLifecycle ==
    ASSUME TypeOK, Lifecycle, Create \/ CallDestroy \/ Destroy PROVE Lifecycle'
  <1> USE DEF pool, ring, sync, local, history
  <1>t. /\ thread_count \in 0..MAX_THREADS /\ i \in 0..MAX_THREADS /\ MAX_THREADS \in Nat
        /\ handle \in [Workers -> HandleState]
        /\ Owner \in Threads /\ Owner \notin Workers /\ Owner \notin Producers
        /\ \A w \in Workers : w \in Threads /\ w \in 0..(MAX_THREADS - 1)
        /\ \A p \in Producers : p \in Threads
    BY PoolSizes, DistinctThreads
       DEF TypeOK, PoolTypes, ThreadTypes, SyncTypes, Threads, Adders, Workers
  <1>m. ASSUME NEW label, Goto(Owner, label)
        PROVE  pc'[Owner] = label /\ \A u \in Threads \ {Owner} : pc'[u] = pc[u]
    BY <1>m, <1>t DEF Goto, TypeOK, ThreadTypes
  <1>1. CASE CreateReturnsNull
    BY <1>1, <1>m, <1>t DEF CreateReturnsNull, Lifecycle, NothingBeforeCreate
  <1>2. ASSUME NEW n \in Requests, CreatePool(n) PROVE Lifecycle'
    <2>1. /\ pc'[Owner] = "creating" /\ pc[Owner] = "new"
          /\ \A u \in Threads \ {Owner} : pc'[u] = pc[u]
          /\ i' = 0 /\ thread_count' = n /\ n \in Nat /\ stop' = FALSE
          /\ UNCHANGED handle
      BY <1>2, <1>m, PoolSizes DEF CreatePool
    <2>2. QED
      BY <1>t, <2>1 DEF Lifecycle, NothingBeforeCreate
  <1>3. CASE CreateThread
    <2>1. i \in Workers
      BY <1>3, <1>t DEF CreateThread, Workers
    <2>2. /\ pc'[i] = "lock" /\ \A u \in Threads \ {i} : pc'[u] = pc[u]
          /\ handle'[i] = "live" /\ \A w \in Workers \ {i} : handle'[w] = handle[w]
          /\ UNCHANGED <<thread_count, stop>> /\ i' = i + 1 /\ i < thread_count
          /\ pc[Owner] = "creating"
      BY <1>3, <1>t, <2>1 DEF CreateThread, vf_thread_create, TypeOK, ThreadTypes
    <2>3. QED
      BY <1>t, <2>1, <2>2 DEF Lifecycle, NothingBeforeCreate
  <1>4. CASE CreateThreadFails
    <2>1. i \in Workers
      BY <1>4, <1>t DEF CreateThreadFails, Workers
    <2>2. /\ handle'[i] = "null" /\ \A w \in Workers \ {i} : handle'[w] = handle[w]
          /\ UNCHANGED <<thread_count, stop, i>> /\ i < thread_count
          /\ pc[Owner] = "creating"
      BY <1>4, <1>t, <2>1 DEF CreateThreadFails, vf_thread_create
    <2>3. pc'[Owner] = "destroy_lock" /\ \A u \in Threads \ {Owner} : pc'[u] = pc[u]
      BY <1>4, <1>m DEF CreateThreadFails
    <2>4. QED
      BY <1>t, <2>1, <2>2, <2>3 DEF Lifecycle, NothingBeforeCreate
  <1>5. CASE CreateReturnsPool
    BY <1>5, <1>m, <1>t DEF CreateReturnsPool, Lifecycle, NothingBeforeCreate
  <1>6. CASE CallDestroy
    BY <1>6, <1>m, <1>t DEF CallDestroy, Lifecycle, NothingBeforeCreate
  <1>7. CASE DestroyLock
    BY <1>7, <1>m, <1>t DEF DestroyLock, Lifecycle, NothingBeforeCreate
  <1>8. CASE DestroyStop
    BY <1>8, <1>m, <1>t DEF DestroyStop, Lifecycle, NothingBeforeCreate
  <1>9. CASE DestroyUnlock
    BY <1>9, <1>m, <1>t DEF DestroyUnlock, Lifecycle, NothingBeforeCreate
  <1>10. CASE DestroyJoin
    <2>1. i \in Workers
      BY <1>10, <1>t DEF DestroyJoin, Workers
    <2>2. handle'[i] # "live" /\ \A w \in Workers \ {i} : handle'[w] = handle[w]
      BY <1>10, <1>t, <2>1 DEF DestroyJoin, vf_thread_join
    <2>3. handle'[i] = "closed" => pc[i] = "exited"
      BY <1>10, <1>t, <2>1 DEF DestroyJoin, vf_thread_join, Lifecycle
    <2>4. handle'[i] \in {"live", "closed"} <=> handle[i] \in {"live", "closed"}
      BY <1>10, <1>t, <2>1 DEF DestroyJoin, vf_thread_join
    <2>5. handle'[i] = "garbage" <=> handle[i] = "garbage"
      BY <1>10, <1>t, <2>1 DEF DestroyJoin, vf_thread_join
    <2>6. QED
      BY <1>10, <1>t, <2>1, <2>2, <2>3, <2>4, <2>5 DEF DestroyJoin, Lifecycle, NothingBeforeCreate
  <1>11. CASE DestroyJoinHangs
    BY <1>11, <1>m, <1>t DEF DestroyJoinHangs, vf_thread_join_hangs, Lifecycle, NothingBeforeCreate
  <1>12. CASE DestroyFree
    BY <1>12, <1>m, <1>t DEF DestroyFree, Lifecycle, NothingBeforeCreate
  <1>13. QED
    BY <1>1, <1>2, <1>3, <1>4, <1>5, <1>6, <1>7, <1>8, <1>9, <1>10, <1>11, <1>12
       DEF Create, Destroy

-----------------------------------------------------------------------------
(* Who holds the mutex, who sleeps *)

\* A thread takes the mutex as it enters a critical section, gives it back as
\* it leaves one, and moves inside or outside of one without touching it.
LEMMA LockStep ==
    ASSUME ThreadTypes, LockDiscipline, NEW t \in Threads, NEW label, Goto(t, label),
           \/ vf_mutex_lock(t) /\ label \in Critical
           \/ vf_mutex_unlock(t) /\ label \notin Critical
           \/ UNCHANGED mutex /\ (pc[t] \in Critical <=> label \in Critical)
    PROVE  LockDiscipline'
  <1>1. pc'[t] = label /\ \A u \in Threads \ {t} : pc'[u] = pc[u]
    BY DEF Goto, ThreadTypes
  <1>2. NoThread \notin Threads
    BY DistinctThreads
  <1>3. CASE vf_mutex_lock(t) /\ label \in Critical
    BY <1>1, <1>2, <1>3 DEF LockDiscipline, vf_mutex_lock, Critical
  <1>4. CASE vf_mutex_unlock(t) /\ label \notin Critical
    BY <1>1, <1>2, <1>4 DEF LockDiscipline, vf_mutex_unlock, Critical
  <1>5. CASE UNCHANGED mutex /\ (pc[t] \in Critical <=> label \in Critical)
    BY <1>1, <1>5 DEF LockDiscipline, Critical
  <1>6. QED
    BY <1>3, <1>4, <1>5

\* Every step keeps the mutex with the thread in the critical section.
LEMMA StepKeepsLock ==
    ASSUME TypeOK, Lifecycle, LockDiscipline, [Next]_vars PROVE LockDiscipline'
  <1> USE DEF pool, ring, sync, local, history
  <1>t. /\ ThreadTypes /\ Owner \in Threads /\ Adders \subseteq Threads
        /\ Workers \subseteq Adders /\ Producers \subseteq Adders
        /\ \A t \in Threads : t \in Workers \/ t \in Producers \/ t = Owner
    BY DEF TypeOK, Threads, Adders
  <1>1. ASSUME NEW w \in Workers, Worker(w) PROVE LockDiscipline'
    BY <1>1, <1>t, LockStep
       DEF Worker, WorkerLock, WorkerWait, WorkerWake, WorkerExit, WorkerTake,
           WorkerUnlock, RunSubmits, RunReturns, vf_cond_wait,
           vf_cond_wait_returns, Critical
  <1>2. ASSUME NEW t \in Adders, AddTask(t) PROVE LockDiscipline'
    <2>1. CASE AddRefused(t) \/ AddSucceeds(t)
      BY <1>t, <2>1, LockStep DEF AddRefused, AddSucceeds, ReturnFromAddTask, Critical
    <2>2. CASE AddLock(t) \/ AddWait(t) \/ AddWake(t) \/ AddEnqueue(t)
      BY <1>t, <2>2, LockStep
         DEF AddLock, AddWait, AddWake, AddEnqueue, vf_cond_wait,
             vf_cond_wait_returns, Critical
    <2>3. QED
      BY <1>2, <2>1, <2>2 DEF AddTask
  <1>3. ASSUME NEW t \in Adders, Spurious(t) PROVE LockDiscipline'
    BY <1>3 DEF Spurious, LockDiscipline
  <1>4. ASSUME NEW p \in Producers, NEW x \in Roots, CallAddTask(p, x)
        PROVE  LockDiscipline'
    BY <1>4, <1>t, LockStep DEF CallAddTask, Critical
  <1>5. CASE CreateReturnsNull
    BY <1>5, <1>t, LockStep DEF CreateReturnsNull, Critical
  <1>6. ASSUME NEW n \in Requests, CreatePool(n) PROVE LockDiscipline'
    BY <1>6, <1>t, LockStep DEF CreatePool, Critical
  <1>7. CASE CreateThread
    <2>1. i \in Workers /\ i \in Threads /\ pc[i] = "unborn"
      <3>1. i \in 0..MAX_THREADS /\ thread_count \in 0..MAX_THREADS /\ MAX_THREADS \in Nat
        BY PoolSizes DEF TypeOK, PoolTypes, ThreadTypes
      <3>2. i \in Workers
        BY <1>7, <3>1 DEF CreateThread, Workers
      <3>3. QED
        BY <1>7, <1>t, <3>1, <3>2 DEF CreateThread, Lifecycle
    <2>2. Goto(i, "lock") /\ UNCHANGED mutex
      BY <1>7 DEF CreateThread, Goto
    <2>3. QED
      BY <1>t, <2>1, <2>2, LockStep DEF Critical
  <1>8. CASE CreateThreadFails
    BY <1>8, <1>t, LockStep DEF CreateThreadFails, Critical
  <1>9. CASE CreateReturnsPool
    BY <1>9, <1>t, LockStep DEF CreateReturnsPool, Critical
  <1>10. CASE CallDestroy
    BY <1>10, <1>t, LockStep DEF CallDestroy, Critical
  <1>11. CASE DestroyLock \/ DestroyStop \/ DestroyUnlock
    BY <1>11, <1>t, LockStep DEF DestroyLock, DestroyStop, DestroyUnlock, Critical
  <1>12. CASE DestroyJoin
    BY <1>12 DEF DestroyJoin, LockDiscipline
  <1>13. CASE DestroyJoinHangs \/ DestroyFree
    BY <1>13, <1>t, LockStep DEF DestroyJoinHangs, DestroyFree, Critical
  <1>14. CASE Rest \/ UNCHANGED vars
    BY <1>14 DEF Rest, vars, LockDiscipline
  <1>15. QED
    BY <1>1, <1>2, <1>3, <1>4, <1>5, <1>6, <1>7, <1>8, <1>9, <1>10, <1>11, <1>12,
       <1>13, <1>14 DEF Next, Create, Destroy

\* Whoever sleeps is inside the wait call for that condition, and once stop is
\* set nobody sleeps.
Sleepers ==
    /\ \A t \in waiting["queue_not_empty"] : t \in Workers /\ pc[t] = "wait"
    /\ \A t \in waiting["queue_not_full"] : t \in Adders /\ pc[t] = "add_wait"
    /\ stop => waiting["queue_not_empty"] = {} /\ waiting["queue_not_full"] = {}

\* A step of a thread that is awake, which wakes others or nobody, keeps the
\* sleepers where they are.
LEMMA AwakeStep ==
    ASSUME TypeOK, Sleepers, NEW t \in Threads, NEW label, Goto(t, label),
           \A c \in Conds : t \notin waiting[c] /\ waiting'[c] \subseteq waiting[c],
           UNCHANGED stop
    PROVE  Sleepers'
  <1>1. \A u \in Threads \ {t} : pc'[u] = pc[u]
    BY DEF Goto, TypeOK, ThreadTypes
  <1>2. Workers \subseteq Threads /\ Adders \subseteq Threads
    BY DEF Threads, Adders
  <1>3. "queue_not_empty" \in Conds /\ "queue_not_full" \in Conds
    BY DEF Conds
  <1>4. \A u \in waiting'["queue_not_empty"] : u \in Workers /\ pc'[u] = "wait"
    BY <1>1, <1>2, <1>3 DEF Sleepers
  <1>5. \A u \in waiting'["queue_not_full"] : u \in Adders /\ pc'[u] = "add_wait"
    BY <1>1, <1>2, <1>3 DEF Sleepers
  <1>6. stop' => waiting'["queue_not_empty"] = {} /\ waiting'["queue_not_full"] = {}
    BY <1>3 DEF Sleepers
  <1>7. QED
    BY <1>4, <1>5, <1>6 DEF Sleepers

\* A thread that runs is not asleep.
LEMMA RunnersAreAwake ==
    ASSUME Sleepers, DistinctThreads, NEW t \in Threads, pc[t] \notin {"wait", "add_wait"}
    PROVE  \A c \in Conds : t \notin waiting[c]
  BY DEF Sleepers, Conds

\* Signals only wake.
LEMMA SignalsWake ==
    ASSUME SyncTypes, NEW c \in Conds, vf_cond_signal(c)
    PROVE  \A d \in Conds : waiting'[d] \subseteq waiting[d]
  <1>1. CASE UNCHANGED waiting
    BY <1>1
  <1>2. CASE \E t \in waiting[c] : waiting' = [waiting EXCEPT ![c] = @ \ {t}]
    <2>1. PICK t \in waiting[c] : waiting' = [waiting EXCEPT ![c] = @ \ {t}]
      BY <1>2
    <2>2. QED
      BY <2>1 DEF SyncTypes
  <1>3. QED
    BY <1>1, <1>2 DEF vf_cond_signal

\* Every step leaves the sleepers inside their wait calls, and wakes all of
\* them when it sets stop.
LEMMA StepKeepsSleepers ==
    ASSUME TypeOK, Lifecycle, Sleepers, [Next]_vars PROVE Sleepers'
  <1> USE DistinctThreads DEF pool, ring, sync, local, history
  <1>t. /\ ThreadTypes /\ SyncTypes /\ Owner \in Threads /\ Adders \subseteq Threads
        /\ Workers \subseteq Adders /\ Producers \subseteq Adders
        /\ waiting \in [Conds -> SUBSET Adders]
        /\ "queue_not_empty" \in Conds /\ "queue_not_full" \in Conds
    BY DEF TypeOK, SyncTypes, Threads, Adders, Conds
  <1>o. \A c \in Conds : Owner \notin waiting[c]
    BY <1>t
  <1>1. ASSUME NEW w \in Workers, Worker(w) PROVE Sleepers'
    <2>1. CASE WorkerWait(w)
      <3>1. /\ waiting'["queue_not_empty"] = waiting["queue_not_empty"] \cup {w}
            /\ waiting'["queue_not_full"] = waiting["queue_not_full"]
        BY <1>t, <2>1 DEF WorkerWait, vf_cond_wait
      <3>2. pc'[w] = "wait" /\ \A u \in Threads \ {w} : pc'[u] = pc[u]
        BY <1>t, <2>1 DEF WorkerWait, Goto, ThreadTypes
      <3>3. ~stop' /\ pc[w] = "test"
        BY <2>1 DEF WorkerWait
      <3>4. QED
        BY <1>t, <3>1, <3>2, <3>3 DEF Sleepers
    <2>2. CASE WorkerWake(w)
      <3>1. \A c \in Conds : w \notin waiting[c]
        BY <1>t, <2>2 DEF WorkerWake, vf_cond_wait_returns, Sleepers, Conds
      <3>2. QED
        BY <1>t, <2>2, <3>1, AwakeStep DEF WorkerWake
    <2>3. CASE WorkerTake(w)
      BY <1>t, <2>3, RunnersAreAwake, SignalsWake, AwakeStep
         DEF WorkerTake, AnnounceSlot
    <2>4. CASE WorkerLock(w) \/ WorkerExit(w) \/ WorkerUnlock(w) \/ RunSubmits(w)
               \/ RunReturns(w)
      BY <1>t, <2>4, RunnersAreAwake, AwakeStep
         DEF WorkerLock, WorkerExit, WorkerUnlock, RunSubmits, RunReturns
    <2>5. QED
      BY <1>1, <2>1, <2>2, <2>3, <2>4 DEF Worker
  <1>2. ASSUME NEW t \in Adders, AddTask(t) PROVE Sleepers'
    <2>1. CASE AddWait(t)
      <3>1. /\ waiting'["queue_not_full"] = waiting["queue_not_full"] \cup {t}
            /\ waiting'["queue_not_empty"] = waiting["queue_not_empty"]
        BY <1>t, <2>1 DEF AddWait, vf_cond_wait
      <3>2. pc'[t] = "add_wait" /\ \A u \in Threads \ {t} : pc'[u] = pc[u]
        BY <1>t, <2>1 DEF AddWait, Goto, ThreadTypes
      <3>3. ~stop' /\ pc[t] = "add_test"
        BY <2>1 DEF AddWait
      <3>4. QED
        BY <1>t, <3>1, <3>2, <3>3 DEF Sleepers
    <2>2. CASE AddWake(t)
      <3>1. \A c \in Conds : t \notin waiting[c]
        BY <1>t, <2>2 DEF AddWake, vf_cond_wait_returns, Sleepers, Conds
      <3>2. QED
        BY <1>t, <2>2, <3>1, AwakeStep DEF AddWake
    <2>3. CASE AddEnqueue(t)
      BY <1>t, <2>3, RunnersAreAwake, SignalsWake, AwakeStep
         DEF AddEnqueue, AnnounceTask
    <2>4. CASE AddLock(t)
      BY <1>t, <2>4, RunnersAreAwake, AwakeStep DEF AddLock
    <2>5. CASE AddRefused(t) \/ AddSucceeds(t)
      BY <1>t, <2>5, RunnersAreAwake, AwakeStep
         DEF AddRefused, AddSucceeds, ReturnFromAddTask
    <2>6. QED
      BY <1>2, <2>1, <2>2, <2>3, <2>4, <2>5 DEF AddTask
  <1>3. ASSUME NEW t \in Adders, Spurious(t) PROVE Sleepers'
    <2>1. PICK c \in Conds : SpuriousWakeup(t, c)
      BY <1>3 DEF Spurious
    <2>2. \A d \in Conds : waiting'[d] \subseteq waiting[d]
      BY <1>t, <2>1 DEF SpuriousWakeup
    <2>3. UNCHANGED <<pc, stop>>
      BY <1>3 DEF Spurious
    <2>4. QED
      BY <1>t, <2>2, <2>3 DEF Sleepers
  <1>4. ASSUME NEW p \in Producers, NEW x \in Roots, CallAddTask(p, x) PROVE Sleepers'
    BY <1>4, <1>t, RunnersAreAwake, AwakeStep DEF CallAddTask
  <1>5. CASE CreateReturnsNull
    BY <1>5, <1>t, <1>o, AwakeStep DEF CreateReturnsNull
  <1>6. ASSUME NEW n \in Requests, CreatePool(n) PROVE Sleepers'
    <2>1. stop = FALSE /\ stop' = FALSE
      <3>1. stop \in BOOLEAN
        BY DEF TypeOK, PoolTypes
      <3>2. QED
        BY <1>6, <3>1 DEF CreatePool, Lifecycle
    <2>2. QED
      BY <1>6, <1>t, <1>o, <2>1, AwakeStep DEF CreatePool
  <1>7. CASE CreateThread
    <2>1. i \in Workers /\ pc[i] = "unborn"
      <3>1. i \in 0..MAX_THREADS /\ thread_count \in 0..MAX_THREADS /\ MAX_THREADS \in Nat
        BY PoolSizes DEF TypeOK, PoolTypes, ThreadTypes
      <3>2. i \in Workers
        BY <1>7, <3>1 DEF CreateThread, Workers
      <3>3. QED
        BY <1>7, <1>t, <3>1, <3>2 DEF CreateThread, Lifecycle
    <2>2. Goto(i, "lock") /\ UNCHANGED <<waiting, stop>>
      BY <1>7 DEF CreateThread, Goto
    <2>3. QED
      BY <1>t, <2>1, <2>2, RunnersAreAwake, AwakeStep
  <1>8. CASE CreateThreadFails
    BY <1>8, <1>t, <1>o, AwakeStep DEF CreateThreadFails
  <1>9. CASE CreateReturnsPool \/ CallDestroy \/ DestroyLock \/ DestroyUnlock
    BY <1>9, <1>t, <1>o, AwakeStep
       DEF CreateReturnsPool, CallDestroy, DestroyLock, DestroyUnlock
  <1>10. CASE DestroyStop
    <2>1. waiting' = [c \in Conds |-> {}]
      BY <1>10, <1>t DEF DestroyStop, AnnounceStop, vf_cond_broadcast, Conds
    <2>2. QED
      BY <1>t, <2>1 DEF Sleepers
  <1>11. CASE DestroyJoin
    BY <1>11 DEF DestroyJoin, Sleepers
  <1>12. CASE DestroyJoinHangs \/ DestroyFree
    BY <1>12, <1>t, <1>o, AwakeStep DEF DestroyJoinHangs, DestroyFree
  <1>13. CASE Rest \/ UNCHANGED vars
    BY <1>13 DEF Rest, vars, Sleepers
  <1>14. QED
    BY <1>1, <1>2, <1>3, <1>4, <1>5, <1>6, <1>7, <1>8, <1>9, <1>10, <1>11, <1>12,
       <1>13 DEF Next, Create, Destroy

-----------------------------------------------------------------------------
(* The inductive invariant, and what it implies *)

Inv == DataInv /\ Lifecycle /\ LockDiscipline /\ Sleepers

\* The inductive invariant holds when the program starts.
LEMMA InvInitially == Init => Inv
  <1> SUFFICES ASSUME Init PROVE Inv
    OBVIOUS
  <1>1. DataInv /\ Lifecycle
    BY TypesInitially, LifecycleInitially
  <1>2. LockDiscipline
    BY DistinctThreads DEF Init, LockDiscipline, Critical, Threads, Adders
  <1>3. Sleepers
    BY DEF Init, Sleepers, Conds
  <1>4. QED
    BY <1>1, <1>2, <1>3 DEF Inv

\* Every step of the program preserves it.
LEMMA StepKeepsInv == Inv /\ [Next]_vars => Inv'
  <1> SUFFICES ASSUME Inv, [Next]_vars PROVE Inv'
    OBVIOUS
  <1> USE DEF pool, ring, sync, local, history
  <1>t. DataInv /\ TypeOK /\ Lifecycle /\ LockDiscipline /\ Sleepers
    BY DEF Inv, DataInv
  <1>1. LockDiscipline' /\ Sleepers'
    BY <1>t, StepKeepsLock, StepKeepsSleepers
  <1>2. ASSUME NEW t \in Adders, Spurious(t) PROVE DataInv' /\ Lifecycle'
    <2>1. PICK c \in Conds : SpuriousWakeup(t, c)
      BY <1>2 DEF Spurious
    <2>2. SyncTypes'
      BY <1>t, <1>2, <2>1, WaitSets DEF Spurious, TypeOK, SyncTypes
    <2>3. ThreadTypes' /\ TaskLocals'
      <3>1. spurious' \in 0..MaxSpurious
        BY <1>t, <1>2, PoolSizes DEF Spurious, TypeOK, ThreadTypes
      <3>2. UNCHANGED <<pc, task, arg, i>>
        BY <1>2 DEF Spurious
      <3>3. QED
        BY <1>t, <3>1, <3>2 DEF DataInv, TypeOK, ThreadTypes, TaskLocals
    <2>4. DataInv'
      BY <1>t, <1>2, <2>2, <2>3, QuietStep DEF Spurious, TypeOK, HistoryTypes
    <2>5. Lifecycle'
      BY <1>t, <1>2 DEF Spurious, Lifecycle, NothingBeforeCreate
    <2>6. QED
      BY <2>4, <2>5
  <1>3. ASSUME NEW p \in Producers, NEW x \in Roots, CallAddTask(p, x)
        PROVE  DataInv' /\ Lifecycle'
    BY <1>t, <1>3, CallKeepsData, AddersKeepLifecycle, DistinctThreads
       DEF CallAddTask, Adders
  <1>4. ASSUME Rest \/ UNCHANGED vars PROVE DataInv' /\ Lifecycle'
    <2>1. UNCHANGED vars
      BY <1>4 DEF Rest
    <2>2. SyncTypes' /\ ThreadTypes' /\ TaskLocals' /\ finished' \in SUBSET Tasks
      BY <1>t, <2>1 DEF vars, DataInv, TypeOK, SyncTypes, ThreadTypes, TaskLocals, HistoryTypes
    <2>3. DataInv'
      BY <1>t, <2>1, <2>2, QuietStep DEF vars
    <2>4. Lifecycle'
      BY <1>t, <2>1 DEF vars, Lifecycle, NothingBeforeCreate
    <2>5. QED
      BY <2>3, <2>4
  <1>5. ASSUME NEW w \in Workers, Worker(w) PROVE DataInv' /\ Lifecycle'
    BY <1>t, <1>5, WorkerKeepsData, WorkerKeepsLifecycle
  <1>6. ASSUME NEW t \in Adders, AddTask(t) PROVE DataInv' /\ Lifecycle'
    BY <1>t, <1>6, AddTaskKeepsData, AddTaskKeepsLifecycle
  <1>7. ASSUME Create PROVE DataInv' /\ Lifecycle'
    BY <1>t, <1>7, CreateKeepsData, OwnerKeepsLifecycle DEF Lifecycle
  <1>8. ASSUME CallDestroy \/ Destroy PROVE DataInv' /\ Lifecycle'
    BY <1>t, <1>8, DestroyKeepsData, OwnerKeepsLifecycle
  <1>9. DataInv' /\ Lifecycle'
    BY <1>2, <1>3, <1>4, <1>5, <1>6, <1>7, <1>8 DEF Next
  <1>10. QED
    BY <1>1, <1>9 DEF Inv

\* Inv is an invariant of the program.
THEOREM InvHolds == Spec => []Inv
  BY InvInitially, StepKeepsInv, PTL DEF Spec

\* Every index stays inside its array and every variable has its type, for any
\* number of threads and any length of the ring.
THEOREM TypeCorrect == Spec => []TypeOK
  <1>1. Inv => TypeOK
    BY DEF Inv, DataInv
  <1>2. QED
    BY <1>1, InvHolds, PTL

\* The ring always holds the accepted tasks that were not started, in order:
\* no interleaving of workers and adders loses, doubles or reorders a task.
THEOREM RingCorrect == Spec => []RingHoldsBacklog
  <1>1. Inv => RingHoldsBacklog
    BY RingSlotsIsBacklog DEF Inv, DataInv
  <1>2. QED
    BY <1>1, InvHolds, PTL

\* The mutex is always with the one thread that is in a critical section, so
\* the ring and stop are only read and written by one thread at a time.
THEOREM LockCorrect == Spec => []LockDiscipline
  <1>1. Inv => LockDiscipline
    BY DEF Inv
  <1>2. QED
    BY <1>1, InvHolds, PTL

\* vf_threadpool_destroy frees a pool no thread uses any more.
THEOREM FreeIsSafe == Spec => []NoUseAfterFree
  <1>1. Inv => NoUseAfterFree
    <2> SUFFICES ASSUME Inv, pc[Owner] = "freed" PROVE NoUseAfterFree
      BY DEF NoUseAfterFree
    <2>1. stop /\ \A p \in Producers : pc[p] = "idle"
      BY DEF Inv, Lifecycle
    <2>2. \A w \in Workers : pc[w] \in {"unborn", "exited"}
      BY DEF Inv, Lifecycle
    <2>3. mutex = NoThread
      <3>1. \A t \in Threads : pc[t] \notin Critical
        BY <2>1, <2>2 DEF Threads, Adders, Critical
      <3>2. mutex \in Threads \cup {NoThread}
        BY DEF Inv, DataInv, TypeOK, SyncTypes
      <3>3. QED
        BY <3>1, <3>2 DEF Inv, LockDiscipline
    <2>4. \A c \in Conds : waiting[c] = {}
      BY <2>1 DEF Inv, Sleepers, Conds
    <2>5. QED
      BY <2>1, <2>2, <2>3, <2>4 DEF NoUseAfterFree
  <1>2. QED
    BY <1>1, InvHolds, PTL
-----------------------------------------------------------------------------
(***************************************************************************)
(* What clients of the thread pool see: the pool is a bounded queue, and   *)
(* each accepted task is run by one worker, once.                          *)
(***************************************************************************)

-----------------------------------------------------------------------------
(* The pool implements the bounded queue *)

\* The n tasks from slot f on, read out of the ring q the way Backlog does.
Window(q, f, n) == [k \in 1..n |-> q[(f + k - 1) % MAX_QUEUE]]

\* A window of at most one lap, all slots of which hold tasks, is a sequence.
LEMMA WindowIsSequence ==
    ASSUME NEW q, NEW f \in 0..(MAX_QUEUE - 1), NEW n \in 0..MAX_QUEUE,
           \A k \in 0..(n - 1) : q[Slot(f, k)] \in Tasks
    PROVE  /\ Window(q, f, n) \in Seq(Tasks)
           /\ Len(Window(q, f, n)) = n
           /\ \A k \in 1..n : Window(q, f, n)[k] = q[Slot(f, k - 1)]
  <1>1. MAX_QUEUE \in Nat
    BY PoolSizes
  <1>2. \A k \in 1..n : (f + k - 1) % MAX_QUEUE = Slot(f, k - 1)
    <2> SUFFICES ASSUME NEW k \in 1..n PROVE (f + k - 1) % MAX_QUEUE = Slot(f, k - 1)
      OBVIOUS
    <2>1. k - 1 \in 0..MAX_QUEUE /\ f + (k - 1) = f + k - 1
      BY <1>1
    <2>2. QED
      BY <1>1, <2>1, SlotIsRemainder
  <1>3. \A k \in 1..n : k - 1 \in 0..(n - 1)
    BY <1>1
  <1>4. Window(q, f, n) = [k \in 1..n |-> q[Slot(f, k - 1)]]
    BY <1>2 DEF Window
  <1>5. \A k \in 1..n : q[Slot(f, k - 1)] \in Tasks
    BY <1>3
  <1>6. QED
    BY <1>1, <1>4, <1>5

\* The slots of the ring that are in use hold accepted tasks.
LEMMA SlotsHoldTasks ==
    ASSUME DataInv PROVE \A k \in 0..(queue_size - 1) : queue[Slot(front, k)] \in Tasks
  <1> SUFFICES ASSUME NEW k \in 0..(queue_size - 1)
               PROVE  queue[Slot(front, k)] \in Tasks
    OBVIOUS
  <1>1. /\ queue_size \in Nat /\ Len(started) \in Nat /\ accepted \in Seq(Tasks)
        /\ Len(accepted) = Len(started) + queue_size
    BY PoolSizes DEF DataInv, TypeOK, PoolTypes, HistoryTypes, RingSlots
  <1>2. queue[Slot(front, k)] = accepted[Len(started) + k + 1]
    BY DEF DataInv, RingSlots
  <1>3. Len(started) + k + 1 \in 1..Len(accepted)
    BY <1>1
  <1>4. QED
    BY <1>1, <1>2, <1>3

\* Backlog is the sequence of the queue_size tasks from front on.
LEMMA BacklogIsSequence ==
    ASSUME DataInv
    PROVE  /\ Backlog \in Seq(Tasks)
           /\ Len(Backlog) = queue_size
           /\ \A k \in 1..queue_size : Backlog[k] = queue[Slot(front, k - 1)]
  <1>1. front \in 0..(MAX_QUEUE - 1) /\ queue_size \in 0..MAX_QUEUE
    BY DEF DataInv, TypeOK, PoolTypes
  <1>2. Backlog = Window(queue, front, queue_size)
    BY DEF Backlog, Window
  <1>3. QED
    BY <1>1, <1>2, SlotsHoldTasks, WindowIsSequence

\* A step that does not touch the ring, stop and started is invisible.
LEMMA InvisibleStep ==
    ASSUME UNCHANGED <<queue, queue_size, front, stop, started>>
    PROVE  UNCHANGED Fifo!vars
  BY DEF Fifo!vars, Backlog

\* A worker's take is a Take of the bounded queue.
LEMMA TakeIsTake ==
    ASSUME DataInv, NEW w \in Workers, WorkerTake(w) PROVE Fifo!Take
  <1>1. /\ front \in 0..(MAX_QUEUE - 1) /\ queue_size \in 1..MAX_QUEUE
        /\ MAX_QUEUE \in Nat /\ started \in Seq(Tasks)
    BY PoolSizes DEF DataInv, TypeOK, PoolTypes, HistoryTypes, WorkerTake, MayTake
  <1>2. /\ front' = Slot(front, 1) /\ queue_size' = queue_size - 1
        /\ UNCHANGED <<queue, stop>> /\ ~stop
        /\ started' = Append(started, queue[front])
    BY <1>1, AdvanceIsSlot DEF WorkerTake, MayTake, TaskAtFront
  <1>w. /\ Backlog' \in Seq(Tasks) /\ Len(Backlog') = queue_size'
        /\ \A k \in 1..queue_size' : Backlog'[k] = queue'[Slot(front', k - 1)]
    <2>1. front' \in 0..(MAX_QUEUE - 1) /\ queue_size' \in 0..MAX_QUEUE
      BY <1>1, <1>2 DEF Slot
    <2>2. \A k \in 0..(queue_size' - 1) : queue'[Slot(front', k)] \in Tasks
      <3> SUFFICES ASSUME NEW k \in 0..(queue_size' - 1)
                   PROVE  queue'[Slot(front', k)] \in Tasks
        OBVIOUS
      <3>1. Slot(front', k) = Slot(front, k + 1) /\ k + 1 \in 0..(queue_size - 1)
        BY <1>1, <1>2 DEF Slot
      <3>2. QED
        BY <1>2, <3>1, SlotsHoldTasks
    <2>3. Backlog' = Window(queue', front', queue_size')
      BY DEF Backlog, Window
    <2>4. QED
      BY <2>1, <2>2, <2>3, WindowIsSequence
  <1>3. \A k \in 1..(queue_size - 1) : Backlog'[k] = Backlog[k + 1]
    <2> SUFFICES ASSUME NEW k \in 1..(queue_size - 1) PROVE Backlog'[k] = Backlog[k + 1]
      OBVIOUS
    <2>1. Slot(front', k - 1) = Slot(front, (k + 1) - 1)
      BY <1>1, <1>2 DEF Slot
    <2>2. Backlog'[k] = queue'[Slot(front', k - 1)]
      BY <1>1, <1>2, <1>w
    <2>3. Backlog[k + 1] = queue[Slot(front, (k + 1) - 1)]
      BY <1>1, BacklogIsSequence
    <2>4. QED
      BY <1>2, <2>1, <2>2, <2>3
  <1>4. Backlog' = Tail(Backlog)
    <2>1. Backlog \in Seq(Tasks) /\ Len(Backlog) = queue_size
      BY BacklogIsSequence
    <2>2. Backlog' \in Seq(Tasks) /\ Len(Backlog') = queue_size - 1
      BY <1>2, <1>w
    <2>3. Tail(Backlog) \in Seq(Tasks) /\ Len(Tail(Backlog)) = queue_size - 1
      BY <1>1, <2>1
    <2>4. \A k \in 1..(queue_size - 1) : Tail(Backlog)[k] = Backlog[k + 1]
      BY <1>1, <2>1
    <2>5. QED
      BY <1>3, <2>2, <2>3, <2>4
  <1>5. Backlog # <<>> /\ Head(Backlog) = queue[front]
    <2>1. Backlog[1] = queue[Slot(front, 1 - 1)] /\ Len(Backlog) = queue_size
          /\ Backlog \in Seq(Tasks)
      BY <1>1, BacklogIsSequence
    <2>2. Slot(front, 1 - 1) = front
      BY <1>1 DEF Slot
    <2>3. QED
      BY <1>1, <2>1, <2>2
  <1>6. started' # <<>> /\ started'[Len(started')] = queue[front]
    BY <1>1, <1>2
  <1>7. QED
    BY <1>2, <1>4, <1>5, <1>6 DEF Fifo!Take

\* Storing a task in the ring is a Put of the bounded queue.
LEMMA EnqueueIsPut ==
    ASSUME DataInv, NEW t \in Adders, AddEnqueue(t)
    PROVE  \E x \in Tasks : Fifo!Put(x)
  <1> DEFINE x == Submitting(t)
  <1>1. /\ front \in 0..(MAX_QUEUE - 1) /\ queue_size \in 0..(MAX_QUEUE - 1)
        /\ MAX_QUEUE \in Nat /\ queue \in [0..(MAX_QUEUE - 1) -> Tasks \cup {NoTask}]
        /\ rear = Slot(front, queue_size) /\ rear \in 0..(MAX_QUEUE - 1)
    BY PoolSizes DEF DataInv, TypeOK, PoolTypes, RingSlots, AddEnqueue
  <1>2. /\ queue' = [queue EXCEPT ![rear] = x] /\ queue_size' = queue_size + 1
        /\ UNCHANGED <<front, stop, started>> /\ ~stop
    BY DEF AddEnqueue
  <1>3. x \in Tasks
    BY DistinctThreads
       DEF AddEnqueue, Submitting, DataInv, TaskLocals, InAddTask, Adders
  <1>w. /\ Backlog' \in Seq(Tasks) /\ Len(Backlog') = queue_size'
        /\ \A k \in 1..queue_size' : Backlog'[k] = queue'[Slot(front', k - 1)]
    <2>1. front' \in 0..(MAX_QUEUE - 1) /\ queue_size' \in 0..MAX_QUEUE
      BY <1>1, <1>2
    <2>2. \A k \in 0..(queue_size' - 1) : queue'[Slot(front', k)] \in Tasks
      <3> SUFFICES ASSUME NEW k \in 0..(queue_size' - 1)
                   PROVE  queue'[Slot(front', k)] \in Tasks
        OBVIOUS
      <3>1. CASE k = queue_size
        BY <1>1, <1>2, <1>3, <3>1
      <3>2. CASE k # queue_size
        <4>1. k \in 0..(queue_size - 1) /\ Slot(front, k) # rear
              /\ Slot(front, k) \in 0..(MAX_QUEUE - 1)
          BY <1>1, <1>2, <3>2 DEF Slot
        <4>2. queue'[Slot(front', k)] = queue[Slot(front, k)]
          BY <1>1, <1>2, <4>1
        <4>3. QED
          BY <4>1, <4>2, SlotsHoldTasks
      <3>3. QED
        BY <3>1, <3>2
    <2>3. Backlog' = Window(queue', front', queue_size')
      BY DEF Backlog, Window
    <2>4. QED
      BY <2>1, <2>2, <2>3, WindowIsSequence
  <1>4. \A k \in 1..queue_size : Backlog'[k] = Backlog[k]
    <2> SUFFICES ASSUME NEW k \in 1..queue_size PROVE Backlog'[k] = Backlog[k]
      OBVIOUS
    <2>1. Slot(front, k - 1) # rear
      BY <1>1 DEF Slot
    <2>2. Slot(front, k - 1) \in 0..(MAX_QUEUE - 1)
      BY <1>1 DEF Slot
    <2>3. Backlog[k] = queue[Slot(front, k - 1)]
      BY <1>1, BacklogIsSequence
    <2>4. Backlog'[k] = queue'[Slot(front', k - 1)]
      BY <1>1, <1>2, <1>w
    <2>5. Slot(front', k - 1) = Slot(front, k - 1)
      BY <1>2
    <2>6. QED
      BY <1>1, <1>2, <2>1, <2>2, <2>3, <2>4, <2>5
  <1>5. Backlog'[queue_size + 1] = x
    <2>1. Backlog'[queue_size + 1] = queue'[Slot(front', (queue_size + 1) - 1)]
      BY <1>1, <1>2, <1>w
    <2>2. Slot(front', (queue_size + 1) - 1) = rear
      BY <1>1, <1>2 DEF Slot
    <2>3. QED
      BY <1>1, <1>2, <2>1, <2>2
  <1>6. Backlog' = Append(Backlog, x)
    <2>1. Backlog \in Seq(Tasks) /\ Len(Backlog) = queue_size
      BY BacklogIsSequence
    <2>2. Backlog' \in Seq(Tasks) /\ Len(Backlog') = queue_size + 1
      BY <1>2, <1>w
    <2>3. QED
      BY <1>1, <1>3, <1>4, <1>5, <2>1, <2>2
  <1>7. Len(Backlog) < MAX_QUEUE
    BY <1>1, BacklogIsSequence
  <1>8. Fifo!Put(x)
    BY <1>2, <1>6, <1>7 DEF Fifo!Put
  <1>9. QED
    BY <1>3, <1>8

\* Every step of the pool is a step of the bounded queue or invisible there.
LEMMA StepIsFifoStep ==
    ASSUME Inv, [Next]_vars PROVE [Fifo!Next]_(Fifo!vars)
  <1> USE DEF pool, ring, sync, local, history
  <1>t. DataInv /\ Lifecycle
    BY DEF Inv
  <1>1. ASSUME NEW w \in Workers, Worker(w) PROVE [Fifo!Next]_(Fifo!vars)
    <2>1. CASE WorkerTake(w)
      BY <1>t, <2>1, TakeIsTake DEF Fifo!Next
    <2>2. CASE \/ WorkerLock(w) \/ WorkerWait(w) \/ WorkerWake(w) \/ WorkerExit(w)
               \/ WorkerUnlock(w) \/ RunSubmits(w) \/ RunReturns(w)
      BY <2>2, InvisibleStep
         DEF WorkerLock, WorkerWait, WorkerWake, WorkerExit, WorkerUnlock,
             RunSubmits, RunReturns
    <2>3. QED
      BY <1>1, <2>1, <2>2 DEF Worker
  <1>2. ASSUME NEW t \in Adders, AddTask(t) PROVE [Fifo!Next]_(Fifo!vars)
    <2>1. CASE AddEnqueue(t)
      BY <1>t, <2>1, EnqueueIsPut DEF Fifo!Next
    <2>2. CASE AddLock(t) \/ AddWait(t) \/ AddWake(t) \/ AddRefused(t) \/ AddSucceeds(t)
      BY <2>2, InvisibleStep DEF AddLock, AddWait, AddWake, AddRefused, AddSucceeds
    <2>3. QED
      BY <1>2, <2>1, <2>2 DEF AddTask
  <1>3. CASE \/ \E t \in Adders : Spurious(t)
             \/ \E p \in Producers, x \in Roots : CallAddTask(p, x)
             \/ CallDestroy \/ Rest \/ UNCHANGED vars
    BY <1>3, InvisibleStep DEF Spurious, CallAddTask, CallDestroy, Rest, vars
  <1>4. CASE Create
    <2>1. CASE \E n \in Requests : CreatePool(n)
      <3>1. accepted = <<>> /\ started = <<>> /\ UNCHANGED started
        BY <1>t, <2>1 DEF CreatePool, Lifecycle, NothingBeforeCreate
      <3>2. queue_size = 0 /\ queue_size' = 0
        BY <1>t, <2>1, <3>1
           DEF CreatePool, DataInv, RingSlots, TypeOK, PoolTypes
      <3>3. Backlog = <<>> /\ Backlog' = <<>>
        BY <3>2 DEF Backlog
      <3>4. stop = FALSE /\ stop' = FALSE
        <4>1. stop \in BOOLEAN
          BY <1>t DEF DataInv, TypeOK, PoolTypes
        <4>2. QED
          BY <1>t, <2>1, <4>1 DEF CreatePool, Lifecycle
      <3>5. QED
        BY <3>1, <3>3, <3>4 DEF Fifo!vars
    <2>2. CASE \/ CreateReturnsNull \/ CreateThread \/ CreateThreadFails
               \/ CreateReturnsPool
      BY <2>2, InvisibleStep
         DEF CreateReturnsNull, CreateThread, CreateThreadFails, CreateReturnsPool
    <2>3. QED
      BY <1>4, <2>1, <2>2 DEF Create
  <1>5. CASE Destroy
    <2>1. CASE DestroyStop
      <3>1. ~stop /\ stop' = TRUE /\ UNCHANGED <<queue, queue_size, front, started>>
        BY <1>t, <2>1 DEF DestroyStop, Lifecycle
      <3>2. UNCHANGED Backlog
        BY <3>1 DEF Backlog
      <3>3. QED
        BY <3>1, <3>2 DEF Fifo!Next, Fifo!Close
    <2>2. CASE \/ DestroyLock \/ DestroyUnlock \/ DestroyJoin \/ DestroyJoinHangs
               \/ DestroyFree
      BY <2>2, InvisibleStep
         DEF DestroyLock, DestroyUnlock, DestroyJoin, DestroyJoinHangs, DestroyFree
    <2>3. QED
      BY <1>5, <2>1, <2>2 DEF Destroy
  <1>6. QED
    BY <1>1, <1>2, <1>3, <1>4, <1>5 DEF Next

\* Seen from outside the pool is a bounded first-in first-out queue that
\* destroy closes, whatever the number of threads and the length of the ring.
THEOREM PoolIsFifo == Spec => ImplementsFifo
  <1>1. Init => Fifo!Init
    <2> SUFFICES ASSUME Init PROVE Fifo!Init
      OBVIOUS
    <2>1. DataInv
      BY TypesInitially
    <2>2. queue_size = 0 /\ stop = FALSE /\ started = <<>>
      BY DEF Init
    <2>3. Backlog = <<>>
      BY <2>1, <2>2, BacklogIsSequence
    <2>4. QED
      BY <2>2, <2>3 DEF Fifo!Init
  <1>2. Inv /\ [Next]_vars => [Fifo!Next]_(Fifo!vars)
    BY StepIsFifoStep
  <1>3. QED
    BY <1>1, <1>2, InvHolds, PTL DEF Spec, ImplementsFifo, Fifo!Spec

-----------------------------------------------------------------------------
(* Each task runs once *)

\* add_task has stored x in the ring at some time.
HandedOver(x) == \E k \in 1..Len(accepted) : accepted[k] = x

RunLabels == {"unlock", "run"} \cup InAddTask
BeforeEnqueue == InAddTask \ {"add_unlock"}

\* A producer inside add_task has a task of its own that is not in the ring yet.
ProducersOwnTheirTask ==
    /\ \A p \in Producers : pc[p] \in BeforeEnqueue => arg[p] \in Roots /\ ~HandedOver(arg[p])
    /\ \A p, q \in Producers : arg[p] = arg[q] => p = q \/ arg[p] = NoTask

\* A task that another task submits is in the ring only after that one did so.
FollowersComeLater ==
    \A x \in Tasks : Follow[x] # NoTask /\ HandedOver(Follow[x]) =>
        x \in finished \/ \E w \in Workers : pc[w] = "add_unlock" /\ task[w] = x

OnceInv == TasksRunOnce /\ ProducersOwnTheirTask /\ FollowersComeLater

\* No task has been accepted, started or finished before create.
LEMMA OnceInitially == Init => OnceInv
  <1> SUFFICES ASSUME Init PROVE OnceInv
    OBVIOUS
  <1>1. /\ Len(accepted) = 0 /\ Len(started) = 0 /\ finished = {}
        /\ \A p \in Producers : arg[p] = NoTask
    BY DEF Init
  <1>2. \A w \in Workers : pc[w] = "unborn"
    BY DEF Init, Threads, Adders
  <1>3. \A p \in Producers : pc[p] = "idle"
    BY DistinctThreads DEF Init, Threads, Adders
  <1>4. Running = {}
    BY <1>2 DEF Running, InAddTask
  <1>5. TasksRunOnce
    BY <1>1, <1>4 DEF TasksRunOnce
  <1>6. ProducersOwnTheirTask /\ FollowersComeLater
    BY <1>1, <1>3 DEF ProducersOwnTheirTask, FollowersComeLater, HandedOver,
                      BeforeEnqueue, InAddTask
  <1>7. QED
    BY <1>5, <1>6 DEF OnceInv

\* A move that starts, ends and hands over no task changes nothing here.
LEMMA QuietMove ==
    ASSUME ThreadTypes, OnceInv, NEW t \in Threads, NEW label, Goto(t, label),
           UNCHANGED <<task, arg, history>>,
           t \in Workers => /\ pc[t] \in RunLabels <=> label \in RunLabels
                            /\ pc[t] # "add_unlock",
           t \in Producers => (label \in BeforeEnqueue => pc[t] \in BeforeEnqueue)
    PROVE  OnceInv'
  <1>1. pc'[t] = label /\ \A u \in Threads \ {t} : pc'[u] = pc[u]
    BY DEF Goto, ThreadTypes
  <1>2. Workers \subseteq Threads /\ Producers \subseteq Threads
    BY DEF Threads, Adders
  <1>3. UNCHANGED <<task, arg, accepted, started, finished>>
    BY DEF history
  <1>4. Running' = Running
    BY <1>1, <1>2 DEF Running, RunLabels
  <1>5. TasksRunOnce'
    BY <1>3, <1>4 DEF OnceInv, TasksRunOnce
  <1>6. ProducersOwnTheirTask'
    BY <1>1, <1>2, <1>3 DEF OnceInv, ProducersOwnTheirTask, HandedOver
  <1>7. FollowersComeLater'
    BY <1>1, <1>2, <1>3 DEF OnceInv, FollowersComeLater, HandedOver
  <1>8. QED
    BY <1>5, <1>6, <1>7 DEF OnceInv

\* A task that ends moves from its worker to finished.
LEMMA EndOfTask ==
    ASSUME ThreadTypes, OnceInv, NEW w \in Workers, pc[w] \in RunLabels,
           Goto(w, "lock"), finished' = finished \cup {task[w]},
           UNCHANGED <<task, arg, accepted, started>>
    PROVE  OnceInv'
  <1>1. pc'[w] = "lock" /\ \A u \in Threads \ {w} : pc'[u] = pc[u]
    BY DEF Goto, ThreadTypes, Threads, Adders
  <1>2. Workers \subseteq Threads /\ Producers \subseteq Threads /\ w \notin Producers
    BY DistinctThreads DEF Threads, Adders
  <1>3. w \in Running /\ Running' = Running \ {w}
    BY <1>1, <1>2 DEF Running, RunLabels, InAddTask
  <1>4. TasksRunOnce'
    <2>1. \A v \in Running' : task'[v] \notin finished'
      BY <1>3 DEF OnceInv, TasksRunOnce
    <2>2. finished' \cup {task'[v] : v \in Running'}
             = finished \cup {task[v] : v \in Running}
      BY <1>3
    <2>3. QED
      BY <1>3, <2>1, <2>2 DEF OnceInv, TasksRunOnce
  <1>5. ProducersOwnTheirTask'
    BY <1>1, <1>2 DEF OnceInv, ProducersOwnTheirTask, HandedOver
  <1>6. FollowersComeLater'
    <2> SUFFICES ASSUME NEW x \in Tasks, Follow[x] # NoTask, HandedOver(Follow[x])',
                        x \notin finished'
                 PROVE  \E v \in Workers : pc'[v] = "add_unlock" /\ task'[v] = x
      BY DEF FollowersComeLater
    <2>1. HandedOver(Follow[x]) /\ x \notin finished
      BY DEF HandedOver
    <2>2. PICK v \in Workers : pc[v] = "add_unlock" /\ task[v] = x
      BY <2>1 DEF OnceInv, FollowersComeLater
    <2>3. v # w
      BY <2>2
    <2>4. QED
      BY <1>1, <1>2, <2>2, <2>3
  <1>7. QED
    BY <1>4, <1>5, <1>6 DEF OnceInv

\* A task a worker takes was accepted once and never started before.
LEMMA TakeKeepsOnce ==
    ASSUME DataInv, OnceInv, NEW w \in Workers, WorkerTake(w) PROVE OnceInv'
  <1> DEFINE n == Len(started)
             x == accepted[n + 1]
  <1>t. /\ ThreadTypes /\ HistoryTypes /\ n \in Nat /\ Len(accepted) \in Nat
        /\ accepted \in Seq(Tasks) /\ started \in Seq(Tasks)
        /\ task \in [Workers -> Tasks \cup {NoTask}]
    BY DEF DataInv, TypeOK, HistoryTypes, ThreadTypes
  <1>1. /\ TaskAtFront = x /\ n + 1 \in 1..Len(accepted) /\ x \in Tasks
        /\ \A k \in 1..n : started[k] = accepted[k] /\ k \in 1..Len(accepted)
    <2>1. /\ queue_size \in 1..MAX_QUEUE /\ MAX_QUEUE \in Nat
          /\ front \in 0..(MAX_QUEUE - 1) /\ Len(accepted) = n + queue_size
      BY PoolSizes DEF DataInv, TypeOK, PoolTypes, WorkerTake, MayTake, RingSlots
    <2>2. Slot(front, 0) = front
      BY <2>1 DEF Slot
    <2>3. queue[front] = accepted[n + 0 + 1]
      BY <2>1, <2>2 DEF DataInv, RingSlots
    <2>4. QED
      BY <1>t, <2>1, <2>3 DEF TaskAtFront, DataInv, RingSlots
  <1>2. /\ task'[w] = x /\ \A v \in Workers \ {w} : task'[v] = task[v]
        /\ started' = Append(started, x) /\ UNCHANGED <<arg, accepted, finished>>
    BY <1>t, <1>1 DEF WorkerTake
  <1>3. /\ pc[w] = "test" /\ pc'[w] = "unlock"
        /\ \A u \in Threads \ {w} : pc'[u] = pc[u]
        /\ Workers \subseteq Threads /\ Producers \subseteq Threads /\ w \notin Producers
    BY <1>t, DistinctThreads DEF WorkerTake, Goto, ThreadTypes, Threads, Adders
  <1>4. w \notin Running /\ Running' = Running \cup {w}
    BY <1>3 DEF Running, InAddTask
  <1>5. x \notin {started[k] : k \in 1..n}
    <2> SUFFICES ASSUME NEW k \in 1..n, started[k] = x PROVE FALSE
      OBVIOUS
    <2>1. accepted[k] = accepted[n + 1] /\ k \in 1..Len(accepted)
      BY <1>1
    <2>2. k = n + 1
      BY <1>1, <2>1 DEF OnceInv, TasksRunOnce
    <2>3. QED
      BY <1>t, <2>2
  <1>6. x \notin finished /\ \A v \in Running : task[v] # x
    BY <1>5 DEF OnceInv, TasksRunOnce
  <1>7. TasksRunOnce'
    <2>1. \A v, u \in Running' : task'[v] = task'[u] => v = u
      BY <1>2, <1>4, <1>6 DEF OnceInv, TasksRunOnce, Running
    <2>2. \A v \in Running' : task'[v] \notin finished'
      BY <1>2, <1>4, <1>6 DEF OnceInv, TasksRunOnce, Running
    <2>3. {started'[k] : k \in 1..Len(started')} = {started[k] : k \in 1..n} \cup {x}
      <3>1. /\ Len(started') = n + 1 /\ started'[n + 1] = x
            /\ \A k \in 1..n : started'[k] = started[k]
        BY <1>t, <1>1, <1>2
      <3>2. 1..(n + 1) = 1..n \cup {n + 1}
        BY <1>t
      <3>3. QED
        BY <3>1, <3>2
    <2>4. {task'[v] : v \in Running'} = {task[v] : v \in Running} \cup {x}
      <3>1. \A v \in Running : task'[v] = task[v]
        BY <1>2, <1>4 DEF Running
      <3>2. QED
        BY <1>2, <1>4, <3>1
    <2>5. {started'[k] : k \in 1..Len(started')}
             = finished' \cup {task'[v] : v \in Running'}
      BY <1>2, <2>3, <2>4 DEF OnceInv, TasksRunOnce
    <2>6. QED
      BY <1>2, <2>1, <2>2, <2>5 DEF OnceInv, TasksRunOnce
  <1>8. ProducersOwnTheirTask'
    BY <1>2, <1>3 DEF OnceInv, ProducersOwnTheirTask, HandedOver
  <1>9. FollowersComeLater'
    <2> SUFFICES ASSUME NEW y \in Tasks, Follow[y] # NoTask, HandedOver(Follow[y])',
                        y \notin finished'
                 PROVE  \E v \in Workers : pc'[v] = "add_unlock" /\ task'[v] = y
      BY DEF FollowersComeLater
    <2>1. HandedOver(Follow[y]) /\ y \notin finished
      BY <1>2 DEF HandedOver
    <2>2. PICK v \in Workers : pc[v] = "add_unlock" /\ task[v] = y
      BY <2>1 DEF OnceInv, FollowersComeLater
    <2>3. v # w
      BY <1>3, <2>2
    <2>4. QED
      BY <1>2, <1>3, <2>2, <2>3
  <1>10. QED
    BY <1>7, <1>8, <1>9 DEF OnceInv

\* A task add_task stores was not in the ring before, whoever submits it.
LEMMA EnqueueKeepsOnce ==
    ASSUME DataInv, OnceInv, NEW t \in Adders, AddEnqueue(t) PROVE OnceInv'
  <1> DEFINE x == Submitting(t)
             n == Len(accepted)
  <1>t. /\ ThreadTypes /\ HistoryTypes /\ n \in Nat /\ TaskLocals
        /\ accepted \in Seq(Tasks) /\ started \in Seq(Tasks)
        /\ Roots \subseteq Tasks
    BY DEF DataInv, TypeOK, HistoryTypes, Roots
  <1>1. /\ pc[t] = "add_test" /\ accepted' = Append(accepted, x)
        /\ UNCHANGED <<task, arg, started, finished>>
    BY DEF AddEnqueue, local
  <1>2. /\ pc'[t] = "add_unlock" /\ \A u \in Threads \ {t} : pc'[u] = pc[u]
        /\ Workers \subseteq Threads /\ Producers \subseteq Threads
        /\ Workers \cap Producers = {} /\ t \in Threads
    BY <1>t, DistinctThreads DEF AddEnqueue, Goto, ThreadTypes, Threads, Adders
  <1>3. \/ t \in Workers /\ x = Follow[task[t]] /\ task[t] \in Tasks /\ t \in Running
        \/ t \in Producers /\ x = arg[t] /\ x \in Roots
    <2>1. CASE t \in Workers
      BY <1>t, <1>1, <2>1 DEF Submitting, TaskLocals, InAddTask, Running
    <2>2. CASE t \in Producers
      BY <1>t, <1>1, <1>2, <2>2
         DEF Submitting, OnceInv, ProducersOwnTheirTask, BeforeEnqueue, InAddTask
    <2>3. QED
      BY <2>1, <2>2 DEF Adders
  <1>4. x \in Tasks
    BY <1>t, <1>1, <1>3 DEF TaskLocals, InAddTask
  <1>5. ~HandedOver(x)
    <2>1. CASE t \in Producers
      BY <1>1, <1>2, <1>3, <2>1
         DEF OnceInv, ProducersOwnTheirTask, BeforeEnqueue, InAddTask
    <2>2. CASE t \in Workers
      <3> SUFFICES ASSUME HandedOver(x) PROVE FALSE
        OBVIOUS
      <3>1. x = Follow[task[t]] /\ task[t] \in Tasks /\ t \in Running /\ x # NoTask
        BY <1>2, <1>3, <1>4, <2>2, TaskChains
      <3>2. task[t] \notin finished
        BY <3>1 DEF OnceInv, TasksRunOnce
      <3>3. PICK v \in Workers : pc[v] = "add_unlock" /\ task[v] = task[t]
        BY <3>1, <3>2 DEF OnceInv, FollowersComeLater
      <3>4. v \in Running
        BY <3>3 DEF Running, InAddTask
      <3>5. v = t
        BY <3>1, <3>3, <3>4 DEF OnceInv, TasksRunOnce
      <3>6. QED
        BY <1>1, <3>3, <3>5
    <2>3. QED
      BY <2>1, <2>2 DEF Adders
  <1>6. /\ Len(accepted') = n + 1 /\ accepted'[n + 1] = x
        /\ \A k \in 1..n : accepted'[k] = accepted[k]
    BY <1>t, <1>1, <1>4
  <1>7. \A y : HandedOver(y)' <=> HandedOver(y) \/ y = x
    BY <1>t, <1>6 DEF HandedOver
  <1>8. Running' = Running
    BY <1>1, <1>2, <1>3 DEF Running, InAddTask
  <1>9. TasksRunOnce'
    <2>1. \A k, l \in 1..Len(accepted') : accepted'[k] = accepted'[l] => k = l
      <3>1. \A k \in 1..n : accepted[k] # x
        BY <1>5 DEF HandedOver
      <3>2. \A k \in 1..(n + 1) : k \in 1..n \/ k = n + 1
        BY <1>t
      <3>3. \A k, l \in 1..n : accepted[k] = accepted[l] => k = l
        BY DEF OnceInv, TasksRunOnce
      <3>4. QED
        BY <1>6, <3>1, <3>2, <3>3
    <2>2. QED
      BY <1>1, <1>8, <2>1 DEF OnceInv, TasksRunOnce
  <1>10. ProducersOwnTheirTask'
    <2> SUFFICES ASSUME NEW p \in Producers, pc'[p] \in BeforeEnqueue
                 PROVE  arg'[p] \in Roots /\ ~HandedOver(arg[p])'
      BY <1>1 DEF OnceInv, ProducersOwnTheirTask
    <2>1. p # t /\ pc[p] \in BeforeEnqueue
      BY <1>2 DEF BeforeEnqueue
    <2>2. arg[p] \in Roots /\ ~HandedOver(arg[p])
      BY <2>1 DEF OnceInv, ProducersOwnTheirTask
    <2>3. arg[p] # x
      <3>1. CASE t \in Workers
        BY <1>2, <1>3, <2>2, <3>1 DEF Roots
      <3>2. CASE t \in Producers
        BY <1>2, <1>3, <1>4, <2>1, <2>2, <3>2, TaskChains
           DEF OnceInv, ProducersOwnTheirTask
      <3>3. QED
        BY <3>1, <3>2 DEF Adders
    <2>4. QED
      BY <1>1, <1>7, <2>2, <2>3
  <1>11. FollowersComeLater'
    <2> SUFFICES ASSUME NEW y \in Tasks, Follow[y] # NoTask, HandedOver(Follow[y])',
                        y \notin finished'
                 PROVE  \E v \in Workers : pc'[v] = "add_unlock" /\ task'[v] = y
      BY DEF FollowersComeLater
    <2>1. CASE HandedOver(Follow[y])
      <3>1. PICK v \in Workers : pc[v] = "add_unlock" /\ task[v] = y
        BY <1>1, <2>1 DEF OnceInv, FollowersComeLater
      <3>2. QED
        BY <1>1, <1>2, <3>1
    <2>2. CASE Follow[y] = x
      <3>1. t \in Workers
        BY <1>3, <2>2 DEF Roots
      <3>2. y = task[t]
        BY <1>2, <1>3, <2>2, <3>1, TaskChains
      <3>3. QED
        BY <1>1, <1>2, <3>1, <3>2
    <2>3. QED
      BY <1>7, <2>1, <2>2
  <1>12. QED
    BY <1>9, <1>10, <1>11 DEF OnceInv

\* A client submits a task nobody submitted before.
LEMMA CallKeepsOnce ==
    ASSUME DataInv, OnceInv, NEW p \in Producers, NEW x \in Roots, CallAddTask(p, x)
    PROVE  OnceInv'
  <1>1. /\ arg'[p] = x /\ \A q \in Producers \ {p} : arg'[q] = arg[q]
        /\ \A q \in Producers : arg[q] # x
        /\ ~HandedOver(x)
        /\ UNCHANGED <<task, accepted, started, finished>>
    BY DEF CallAddTask, DataInv, TypeOK, ThreadTypes, HandedOver, history
  <1>2. /\ pc'[p] = "add_lock" /\ \A u \in Threads \ {p} : pc'[u] = pc[u]
        /\ Workers \subseteq Threads /\ Producers \subseteq Threads /\ p \notin Workers
    BY DistinctThreads
       DEF CallAddTask, Goto, DataInv, TypeOK, ThreadTypes, Threads, Adders
  <1>3. Running' = Running
    BY <1>2 DEF Running
  <1>4. TasksRunOnce'
    BY <1>1, <1>3 DEF OnceInv, TasksRunOnce
  <1>5. ProducersOwnTheirTask'
    BY <1>1, <1>2 DEF OnceInv, ProducersOwnTheirTask, HandedOver
  <1>6. FollowersComeLater'
    BY <1>1, <1>2 DEF OnceInv, FollowersComeLater, HandedOver
  <1>7. QED
    BY <1>4, <1>5, <1>6 DEF OnceInv

\* A return from add_task ends the task of a worker, and frees a producer.
LEMMA ReturnKeepsOnce ==
    ASSUME ThreadTypes, OnceInv, NEW t \in Adders, pc[t] \in InAddTask,
           ReturnFromAddTask(t), UNCHANGED <<task, accepted, started>>
    PROVE  OnceInv'
  <1>1. CASE t \in Workers
    BY <1>1, EndOfTask, DistinctThreads DEF ReturnFromAddTask, RunLabels
  <1>2. CASE t \in Producers
    <2>1. /\ t \notin Workers /\ Workers \subseteq Threads /\ Producers \subseteq Threads
      BY <1>2, DistinctThreads DEF Threads, Adders
    <2>2. /\ arg'[t] = NoTask /\ \A q \in Producers \ {t} : arg'[q] = arg[q]
          /\ UNCHANGED <<task, accepted, started, finished>>
      BY <1>2, <2>1 DEF ReturnFromAddTask, ThreadTypes
    <2>3. pc'[t] = "idle" /\ \A u \in Threads \ {t} : pc'[u] = pc[u]
      BY <1>2, <2>1 DEF ReturnFromAddTask, Goto, ThreadTypes
    <2>4. Running' = Running
      BY <2>1, <2>3 DEF Running
    <2>5. TasksRunOnce'
      BY <2>2, <2>4 DEF OnceInv, TasksRunOnce
    <2>6. ProducersOwnTheirTask'
      BY <2>1, <2>2, <2>3
         DEF OnceInv, ProducersOwnTheirTask, HandedOver, BeforeEnqueue, InAddTask
    <2>7. FollowersComeLater'
      BY <2>1, <2>2, <2>3 DEF OnceInv, FollowersComeLater, HandedOver
    <2>8. QED
      BY <2>5, <2>6, <2>7 DEF OnceInv
  <1>3. QED
    BY <1>1, <1>2 DEF Adders

\* Every step keeps each task in one place.
LEMMA StepKeepsOnce ==
    ASSUME Inv, OnceInv, [Next]_vars PROVE OnceInv'
  <1> USE DEF pool, ring, sync, local, history
  <1>t. /\ DataInv /\ ThreadTypes /\ Lifecycle /\ Owner \in Threads
        /\ Owner \notin Workers /\ Owner \notin Producers
        /\ Adders \subseteq Threads /\ Workers \subseteq Adders
        /\ Producers \subseteq Adders /\ Producers \cap Workers = {}
    BY DistinctThreads DEF Inv, DataInv, TypeOK, Threads, Adders
  <1>1. ASSUME NEW w \in Workers, Worker(w) PROVE OnceInv'
    <2>1. CASE WorkerTake(w)
      BY <1>t, <2>1, TakeKeepsOnce
    <2>2. CASE RunReturns(w)
      BY <1>t, <2>2, EndOfTask DEF RunReturns, RunLabels
    <2>3. CASE WorkerLock(w) \/ WorkerWait(w) \/ WorkerWake(w) \/ WorkerExit(w)
      BY <1>t, <2>3, QuietMove
         DEF WorkerLock, WorkerWait, WorkerWake, WorkerExit, RunLabels, InAddTask
    <2>4. CASE WorkerUnlock(w) \/ RunSubmits(w)
      BY <1>t, <2>4, QuietMove DEF WorkerUnlock, RunSubmits, RunLabels, InAddTask
    <2>5. QED
      BY <1>1, <2>1, <2>2, <2>3, <2>4 DEF Worker
  <1>2. ASSUME NEW t \in Adders, AddTask(t) PROVE OnceInv'
    <2>1. CASE AddEnqueue(t)
      BY <1>t, <2>1, EnqueueKeepsOnce
    <2>2. CASE AddRefused(t) \/ AddSucceeds(t)
      BY <1>t, <2>2, ReturnKeepsOnce DEF AddRefused, AddSucceeds, InAddTask
    <2>3. CASE AddLock(t) \/ AddWait(t) \/ AddWake(t)
      BY <1>t, <2>3, QuietMove
         DEF AddLock, AddWait, AddWake, RunLabels, BeforeEnqueue, InAddTask
    <2>4. QED
      BY <1>2, <2>1, <2>2, <2>3 DEF AddTask
  <1>3. ASSUME NEW p \in Producers, NEW x \in Roots, CallAddTask(p, x) PROVE OnceInv'
    BY <1>t, <1>3, CallKeepsOnce
  <1>4. CASE CreateThread
    <2>1. i \in Workers /\ pc[i] = "unborn"
      <3>1. i \in 0..MAX_THREADS /\ thread_count \in 0..MAX_THREADS /\ MAX_THREADS \in Nat
        BY <1>t, PoolSizes DEF DataInv, TypeOK, PoolTypes, ThreadTypes
      <3>2. i \in Workers
        BY <1>4, <3>1 DEF CreateThread, Workers
      <3>3. QED
        BY <1>4, <1>t, <3>1, <3>2 DEF CreateThread, Lifecycle
    <2>2. Goto(i, "lock") /\ UNCHANGED <<task, arg, accepted, started, finished>>
      BY <1>4 DEF CreateThread, Goto
    <2>3. QED
      BY <1>t, <2>1, <2>2, QuietMove DEF RunLabels, InAddTask
  <1>5. CASE \/ CreateReturnsNull \/ CreateThreadFails \/ CreateReturnsPool
             \/ \E n \in Requests : CreatePool(n)
    BY <1>5, <1>t, QuietMove
       DEF CreateReturnsNull, CreateThreadFails, CreateReturnsPool, CreatePool
  <1>6. CASE CallDestroy \/ DestroyLock \/ DestroyStop \/ DestroyUnlock
             \/ DestroyJoinHangs \/ DestroyFree
    BY <1>6, <1>t, QuietMove
       DEF CallDestroy, DestroyLock, DestroyStop, DestroyUnlock, DestroyJoinHangs,
           DestroyFree
  <1>7. CASE DestroyJoin \/ Rest \/ UNCHANGED vars \/ \E t \in Adders : Spurious(t)
    <2>1. UNCHANGED <<pc, task, arg, accepted, started, finished>>
      BY <1>7 DEF DestroyJoin, Rest, vars, Spurious
    <2>2. QED
      BY <2>1 DEF OnceInv, TasksRunOnce, ProducersOwnTheirTask, FollowersComeLater,
                  HandedOver, Running
  <1>8. QED
    BY <1>1, <1>2, <1>3, <1>4, <1>5, <1>6, <1>7 DEF Next, Create, Destroy

\* No accepted task is run twice or by two workers, and none disappears once a
\* worker has taken it, for any number of workers and tasks.
THEOREM TasksAreRunOnce == Spec => []TasksRunOnce
  <1>1. Init => OnceInv
    BY OnceInitially
  <1>2. Inv /\ OnceInv /\ [Next]_vars => OnceInv'
    BY StepKeepsOnce
  <1>3. OnceInv => TasksRunOnce
    BY DEF OnceInv
  <1>4. QED
    BY <1>1, <1>2, <1>3, InvHolds, PTL DEF Spec
-----------------------------------------------------------------------------
(***************************************************************************)
(* Signalling one thread per slot or task is enough: no wakeup is lost.    *)
(* The argument counts threads: a step that adds a task, or frees a slot,  *)
(* also wakes a sleeper of the right kind if there is one, and a thread    *)
(* that goes to sleep has just seen that there is nothing for it to do.    *)
(***************************************************************************)

-----------------------------------------------------------------------------
(* Counting threads *)

\* There are finitely many threads.
LEMMA FiniteAdders == IsFiniteSet(Adders)
  <1>1. IsFiniteSet(Workers)
    BY PoolSizes, FS_Interval DEF Workers
  <1>2. QED
    BY <1>1, FS_Union, DistinctThreads DEF Adders

\* The number of threads in a set grows with the set.
LEMMA CountGrows ==
    ASSUME NEW S \in SUBSET Adders, NEW T \in SUBSET Adders, S \subseteq T
    PROVE  Cardinality(S) \in Nat /\ Cardinality(T) \in Nat /\ Cardinality(S) <= Cardinality(T)
  <1>1. IsFiniteSet(S) /\ IsFiniteSet(T)
    BY FiniteAdders, FS_Subset
  <1>2. QED
    BY <1>1, FS_Subset, FS_CardinalityType

\* A set that also has a new member is larger by one at least.
LEMMA CountGains ==
    ASSUME NEW S \in SUBSET Adders, NEW T \in SUBSET Adders, NEW u \in Adders,
           S \cup {u} \subseteq T, u \notin S
    PROVE  /\ Cardinality(S) \in Nat /\ Cardinality(T) \in Nat
           /\ Cardinality(S) + 1 <= Cardinality(T)
  <1>1. IsFiniteSet(S)
    BY FiniteAdders, FS_Subset
  <1>2. Cardinality(S \cup {u}) = Cardinality(S) + 1
    BY <1>1, FS_AddElement
  <1>3. Cardinality(S \cup {u}) <= Cardinality(T) /\ Cardinality(T) \in Nat
    BY CountGrows
  <1>4. QED
    BY <1>1, <1>2, <1>3, FS_CardinalityType

\* A set that loses one member at most is smaller by one at most.
LEMMA CountLoses ==
    ASSUME NEW S \in SUBSET Adders, NEW T \in SUBSET Adders, NEW u, S \ {u} \subseteq T
    PROVE  /\ Cardinality(S) \in Nat /\ Cardinality(T) \in Nat
           /\ Cardinality(S) - 1 <= Cardinality(T)
  <1>1. IsFiniteSet(S) /\ Cardinality(S) \in Nat
    BY FiniteAdders, FS_Subset, FS_CardinalityType
  <1>2. Cardinality(S \ {u}) >= Cardinality(S) - 1 /\ Cardinality(S \ {u}) \in Nat
    <2>1. Cardinality(S \ {u}) = IF u \in S THEN Cardinality(S) - 1 ELSE Cardinality(S)
      BY <1>1, FS_RemoveElement
    <2>2. Cardinality(S \ {u}) \in Nat
      BY <1>1, FS_RemoveElement, FS_CardinalityType
    <2>3. QED
      BY <1>1, <2>1, <2>2
  <1>3. Cardinality(S \ {u}) <= Cardinality(T) /\ Cardinality(T) \in Nat
    BY CountGrows
  <1>4. QED
    BY <1>1, <1>2, <1>3

-----------------------------------------------------------------------------
(* The counts *)

EnoughSeekers ==
    waiting["queue_not_empty"] # {} => queue_size <= Cardinality(Seekers)
EnoughPutters ==
    waiting["queue_not_full"] # {} => MAX_QUEUE - queue_size <= Cardinality(Putters)

WakeInv == ~stop => EnoughSeekers /\ EnoughPutters

\* Seekers and Putters are sets of threads, now and after a step.
LEMMA SeekersPuttersTypes ==
    /\ Seekers \in SUBSET Adders /\ Putters \in SUBSET Adders
    /\ Seekers' \in SUBSET Adders /\ Putters' \in SUBSET Adders
  BY DEF Seekers, Putters, Adders

\* A step keeps the counts when it leaves the ring alone, puts nobody to sleep
\* and sends no seeker and no putter away.
LEMMA NobodyLeaves ==
    ASSUME TypeOK, WakeInv, UNCHANGED <<queue_size, stop>>,
           waiting'["queue_not_empty"] \subseteq waiting["queue_not_empty"],
           waiting'["queue_not_full"] \subseteq waiting["queue_not_full"],
           Seekers \subseteq Seekers', Putters \subseteq Putters'
    PROVE  WakeInv'
  <1>1. queue_size \in Nat /\ MAX_QUEUE \in Nat
    BY PoolSizes DEF TypeOK, PoolTypes
  <1>2. Cardinality(Seekers) <= Cardinality(Seekers')
        /\ Cardinality(Seekers) \in Nat /\ Cardinality(Seekers') \in Nat
    BY SeekersPuttersTypes, CountGrows
  <1>3. Cardinality(Putters) <= Cardinality(Putters')
        /\ Cardinality(Putters) \in Nat /\ Cardinality(Putters') \in Nat
    BY SeekersPuttersTypes, CountGrows
  <1>4. stop \in BOOLEAN /\ stop' = stop
    BY DEF TypeOK, PoolTypes
  <1>5. ~stop => EnoughSeekers'
    BY <1>1, <1>2 DEF WakeInv, EnoughSeekers
  <1>6. ~stop => EnoughPutters'
    BY <1>1, <1>3 DEF WakeInv, EnoughPutters
  <1>7. QED
    BY <1>4, <1>5, <1>6 DEF WakeInv

SeekerLabels == {"lock", "test", "wait"}
PutterLabels == {"add_lock", "add_test", "add_wait"}

\* So does the move of one thread that does not stop seeking or putting, and
\* wakes others or nobody.
LEMMA MoveKeepsCounts ==
    ASSUME TypeOK, WakeInv, UNCHANGED <<queue_size, stop>>,
           NEW t \in Threads, NEW label, Goto(t, label),
           waiting'["queue_not_empty"] \subseteq waiting["queue_not_empty"],
           waiting'["queue_not_full"] \subseteq waiting["queue_not_full"],
           t \in Workers => (pc[t] \in SeekerLabels => label \in SeekerLabels),
           t \in Adders => (pc[t] \in PutterLabels => label \in PutterLabels)
    PROVE  WakeInv'
  <1>1. pc'[t] = label /\ \A u \in Threads \ {t} : pc'[u] = pc[u]
    BY DEF Goto, TypeOK, ThreadTypes
  <1>2. Workers \subseteq Threads /\ Adders \subseteq Threads
    BY DEF Threads, Adders
  <1>3. Seekers \subseteq Seekers'
    BY <1>1, <1>2 DEF Seekers, SeekerLabels
  <1>4. Putters \subseteq Putters'
    BY <1>1, <1>2 DEF Putters, PutterLabels
  <1>5. QED
    BY <1>3, <1>4, NobodyLeaves

\* Once stop is set there is nothing to count.
LEMMA StopEndsCounts ==
    ASSUME stop' = TRUE PROVE WakeInv'
  BY DEF WakeInv

\* A worker that falls asleep has seen an empty ring.
LEMMA WorkerWaitKeepsCounts ==
    ASSUME TypeOK, Sleepers, WakeInv, NEW w \in Workers, WorkerWait(w) PROVE WakeInv'
  <1>t. /\ waiting \in [Conds -> SUBSET Adders] /\ w \in Threads /\ w \in Adders
        /\ Adders \subseteq Threads /\ Workers \subseteq Adders
        /\ "queue_not_empty" \in Conds /\ "queue_not_full" \in Conds
    BY DEF TypeOK, SyncTypes, Threads, Adders, Conds
  <1>1. /\ queue_size' = 0 /\ queue_size = 0 /\ stop = FALSE /\ stop' = FALSE
    BY DEF WorkerWait, pool, ring, TypeOK, PoolTypes
  <1>2. waiting'["queue_not_full"] = waiting["queue_not_full"]
    BY <1>t DEF WorkerWait, vf_cond_wait
  <1>3. /\ pc[w] = "test" /\ pc'[w] = "wait"
        /\ \A u \in Threads \ {w} : pc'[u] = pc[u]
    BY <1>t DEF WorkerWait, Goto, TypeOK, ThreadTypes
  <1>4. Putters' = Putters
    BY <1>t, <1>2, <1>3 DEF Putters
  <1>5. EnoughPutters'
    BY <1>1, <1>2, <1>4 DEF WakeInv, EnoughPutters
  <1>6. EnoughSeekers'
    <2>1. Cardinality(Seekers') \in Nat
      BY SeekersPuttersTypes, CountGrows
    <2>2. QED
      BY <1>1, <2>1 DEF EnoughSeekers
  <1>7. QED
    BY <1>5, <1>6 DEF WakeInv

\* An adder that falls asleep has seen a full ring.
LEMMA AddWaitKeepsCounts ==
    ASSUME TypeOK, Sleepers, WakeInv, NEW t \in Adders, AddWait(t) PROVE WakeInv'
  <1>t. /\ waiting \in [Conds -> SUBSET Adders] /\ t \in Threads
        /\ Adders \subseteq Threads /\ Workers \subseteq Adders
        /\ "queue_not_empty" \in Conds /\ "queue_not_full" \in Conds
    BY DEF TypeOK, SyncTypes, Threads, Adders, Conds
  <1>1. /\ queue_size = MAX_QUEUE /\ queue_size' = queue_size /\ MAX_QUEUE \in Nat
        /\ stop = FALSE /\ stop' = FALSE
    BY PoolSizes DEF AddWait, pool, ring, TypeOK, PoolTypes
  <1>2. waiting'["queue_not_empty"] = waiting["queue_not_empty"]
    BY <1>t DEF AddWait, vf_cond_wait
  <1>3. /\ pc[t] = "add_test" /\ pc'[t] = "add_wait"
        /\ \A u \in Threads \ {t} : pc'[u] = pc[u]
    BY <1>t DEF AddWait, Goto, TypeOK, ThreadTypes
  <1>4. Seekers' = Seekers
    BY <1>t, <1>2, <1>3 DEF Seekers
  <1>5. EnoughSeekers'
    BY <1>1, <1>2, <1>4 DEF WakeInv, EnoughSeekers
  <1>6. EnoughPutters'
    <2>1. Cardinality(Putters') \in Nat
      BY SeekersPuttersTypes, CountGrows
    <2>2. QED
      BY <1>1, <2>1 DEF EnoughPutters
  <1>7. QED
    BY <1>5, <1>6 DEF WakeInv

\* A signal wakes one of the sleepers on that condition, if there is one.
LEMMA SignalWakesOne ==
    ASSUME SyncTypes, NEW c \in Conds, vf_cond_signal(c)
    PROVE  /\ \A d \in Conds \ {c} : waiting'[d] = waiting[d]
           /\ waiting'[c] # {} =>
                 \E u \in waiting[c] : waiting'[c] = waiting[c] \ {u}
  <1>1. CASE waiting[c] = {} /\ UNCHANGED waiting
    BY <1>1
  <1>2. CASE \E u \in waiting[c] : waiting' = [waiting EXCEPT ![c] = @ \ {u}]
    <2>1. PICK u \in waiting[c] : waiting' = [waiting EXCEPT ![c] = @ \ {u}]
      BY <1>2
    <2>2. QED
      BY <2>1 DEF SyncTypes
  <1>3. QED
    BY <1>1, <1>2 DEF vf_cond_signal

\* A worker that takes a task frees a slot and wakes an adder for it.
LEMMA TakeKeepsCounts ==
    ASSUME TypeOK, Sleepers, WakeInv, NEW w \in Workers, WorkerTake(w) PROVE WakeInv'
  <1>t. /\ SyncTypes /\ w \in Threads /\ w \in Adders
        /\ Adders \subseteq Threads /\ Workers \subseteq Adders
        /\ "queue_not_empty" \in Conds /\ "queue_not_full" \in Conds
    BY DEF TypeOK, Threads, Adders, Conds
  <1>1. /\ queue_size \in 1..MAX_QUEUE /\ queue_size' = queue_size - 1 /\ MAX_QUEUE \in Nat
        /\ ~stop /\ stop' = stop
    BY PoolSizes DEF WorkerTake, MayTake, TypeOK, PoolTypes
  <1>2. /\ waiting'["queue_not_empty"] = waiting["queue_not_empty"]
        /\ waiting'["queue_not_full"] # {} =>
              \E u \in waiting["queue_not_full"] :
                  waiting'["queue_not_full"] = waiting["queue_not_full"] \ {u}
    <2>1. vf_cond_signal("queue_not_full")
      BY DEF WorkerTake, AnnounceSlot
    <2>2. "queue_not_empty" \in Conds \ {"queue_not_full"}
      BY DEF Conds
    <2>3. QED
      BY <1>t, <2>1, <2>2, SignalWakesOne
  <1>3. /\ pc[w] = "test" /\ pc'[w] = "unlock"
        /\ \A u \in Threads \ {w} : pc'[u] = pc[u]
    BY <1>t DEF WorkerTake, Goto, TypeOK, ThreadTypes
  <1>4. EnoughSeekers'
    <2>1. Seekers \ {w} \subseteq Seekers'
      BY <1>t, <1>2, <1>3 DEF Seekers
    <2>2. /\ Cardinality(Seekers) - 1 <= Cardinality(Seekers')
          /\ Cardinality(Seekers) \in Nat /\ Cardinality(Seekers') \in Nat
      BY <2>1, SeekersPuttersTypes, CountLoses
    <2>3. QED
      BY <1>1, <1>2, <2>2 DEF WakeInv, EnoughSeekers
  <1>5. EnoughPutters'
    <2> SUFFICES ASSUME waiting'["queue_not_full"] # {}
                 PROVE  MAX_QUEUE - queue_size' <= Cardinality(Putters')
      BY DEF EnoughPutters
    <2>1. PICK u \in waiting["queue_not_full"] :
              waiting'["queue_not_full"] = waiting["queue_not_full"] \ {u}
      BY <1>2
    <2>2. u \in Adders /\ pc[u] = "add_wait" /\ u # w
      BY <1>3, <2>1 DEF Sleepers
    <2>3. u \notin Putters /\ Putters \cup {u} \subseteq Putters'
      BY <1>t, <1>3, <2>1, <2>2 DEF Putters
    <2>4. /\ Cardinality(Putters) + 1 <= Cardinality(Putters')
          /\ Cardinality(Putters) \in Nat /\ Cardinality(Putters') \in Nat
      BY <2>2, <2>3, SeekersPuttersTypes, CountGains
    <2>5. MAX_QUEUE - queue_size <= Cardinality(Putters)
      BY <1>1, <2>1 DEF WakeInv, EnoughPutters
    <2>6. QED
      BY <1>1, <2>4, <2>5
  <1>6. QED
    BY <1>4, <1>5 DEF WakeInv

\* An adder that stores a task uses up a slot and wakes a worker for the task.
LEMMA EnqueueKeepsCounts ==
    ASSUME TypeOK, Sleepers, WakeInv, NEW t \in Adders, AddEnqueue(t) PROVE WakeInv'
  <1>t. /\ SyncTypes /\ t \in Threads
        /\ Adders \subseteq Threads /\ Workers \subseteq Adders
        /\ "queue_not_empty" \in Conds /\ "queue_not_full" \in Conds
    BY DEF TypeOK, Threads, Adders, Conds
  <1>1. /\ queue_size \in 0..MAX_QUEUE /\ queue_size' = queue_size + 1 /\ MAX_QUEUE \in Nat
        /\ ~stop /\ stop' = stop
    BY PoolSizes DEF AddEnqueue, TypeOK, PoolTypes
  <1>2. /\ waiting'["queue_not_full"] = waiting["queue_not_full"]
        /\ waiting'["queue_not_empty"] # {} =>
              \E u \in waiting["queue_not_empty"] :
                  waiting'["queue_not_empty"] = waiting["queue_not_empty"] \ {u}
    <2>1. vf_cond_signal("queue_not_empty")
      BY DEF AddEnqueue, AnnounceTask
    <2>2. "queue_not_full" \in Conds \ {"queue_not_empty"}
      BY DEF Conds
    <2>3. QED
      BY <1>t, <2>1, <2>2, SignalWakesOne
  <1>3. /\ pc[t] = "add_test" /\ pc'[t] = "add_unlock"
        /\ \A u \in Threads \ {t} : pc'[u] = pc[u]
    BY <1>t DEF AddEnqueue, Goto, TypeOK, ThreadTypes
  <1>4. EnoughPutters'
    <2>1. Putters \ {t} \subseteq Putters'
      BY <1>t, <1>2, <1>3 DEF Putters
    <2>2. /\ Cardinality(Putters) - 1 <= Cardinality(Putters')
          /\ Cardinality(Putters) \in Nat /\ Cardinality(Putters') \in Nat
      BY <2>1, SeekersPuttersTypes, CountLoses
    <2>3. QED
      BY <1>1, <1>2, <2>2 DEF WakeInv, EnoughPutters
  <1>5. EnoughSeekers'
    <2> SUFFICES ASSUME waiting'["queue_not_empty"] # {}
                 PROVE  queue_size' <= Cardinality(Seekers')
      BY DEF EnoughSeekers
    <2>1. PICK u \in waiting["queue_not_empty"] :
              waiting'["queue_not_empty"] = waiting["queue_not_empty"] \ {u}
      BY <1>2
    <2>2. u \in Workers /\ pc[u] = "wait" /\ u # t
      BY <1>3, <2>1 DEF Sleepers
    <2>3. u \notin Seekers /\ Seekers \cup {u} \subseteq Seekers'
      BY <1>t, <1>3, <2>1, <2>2 DEF Seekers
    <2>4. /\ Cardinality(Seekers) + 1 <= Cardinality(Seekers')
          /\ Cardinality(Seekers) \in Nat /\ Cardinality(Seekers') \in Nat
      BY <1>t, <2>2, <2>3, SeekersPuttersTypes, CountGains
    <2>5. queue_size <= Cardinality(Seekers)
      BY <1>1, <2>1 DEF WakeInv, EnoughSeekers
    <2>6. QED
      BY <1>1, <2>4, <2>5
  <1>6. QED
    BY <1>4, <1>5 DEF WakeInv

\* Every step of the program keeps the counts.
LEMMA StepKeepsCounts ==
    ASSUME Inv, WakeInv, [Next]_vars PROVE WakeInv'
  <1> USE DEF pool, ring, sync, local, history
  <1>t. /\ TypeOK /\ Sleepers /\ Lifecycle /\ SyncTypes /\ Owner \in Threads
        /\ Owner \notin Workers /\ Owner \notin Adders
        /\ Adders \subseteq Threads /\ Workers \subseteq Adders
        /\ Producers \subseteq Adders /\ Producers \cap Workers = {}
        /\ "queue_not_empty" \in Conds /\ "queue_not_full" \in Conds
    BY DistinctThreads DEF Inv, DataInv, TypeOK, Threads, Adders, Conds
  <1>1. ASSUME NEW w \in Workers, Worker(w) PROVE WakeInv'
    <2>1. CASE WorkerTake(w)
      BY <1>t, <2>1, TakeKeepsCounts
    <2>2. CASE WorkerWait(w)
      BY <1>t, <2>2, WorkerWaitKeepsCounts
    <2>3. CASE WorkerExit(w)
      <3>1. stop' = TRUE
        BY <1>t, <2>3 DEF WorkerExit, TypeOK, PoolTypes
      <3>2. QED
        BY <3>1, StopEndsCounts
    <2>4. CASE \/ WorkerLock(w) \/ WorkerWake(w) \/ WorkerUnlock(w) \/ RunSubmits(w)
               \/ RunReturns(w)
      BY <1>t, <2>4, MoveKeepsCounts
         DEF WorkerLock, WorkerWake, WorkerUnlock, RunSubmits, RunReturns,
             SeekerLabels, PutterLabels
    <2>5. QED
      BY <1>1, <2>1, <2>2, <2>3, <2>4 DEF Worker
  <1>2. ASSUME NEW t \in Adders, AddTask(t) PROVE WakeInv'
    <2>1. CASE AddEnqueue(t)
      BY <1>t, <2>1, EnqueueKeepsCounts
    <2>2. CASE AddWait(t)
      BY <1>t, <2>2, AddWaitKeepsCounts
    <2>3. CASE AddRefused(t)
      <3>1. stop' = TRUE
        BY <1>t, <2>3 DEF AddRefused, TypeOK, PoolTypes
      <3>2. QED
        BY <3>1, StopEndsCounts
    <2>4. CASE AddLock(t) \/ AddWake(t) \/ AddSucceeds(t)
      BY <1>t, <2>4, MoveKeepsCounts
         DEF AddLock, AddWake, AddSucceeds, ReturnFromAddTask, SeekerLabels, PutterLabels
    <2>5. QED
      BY <1>2, <2>1, <2>2, <2>3, <2>4 DEF AddTask
  <1>3. ASSUME NEW t \in Adders, Spurious(t) PROVE WakeInv'
    <2>1. PICK c \in Conds : SpuriousWakeup(t, c)
      BY <1>3 DEF Spurious
    <2>2. \A d \in Conds : waiting'[d] \subseteq waiting[d]
      BY <1>t, <2>1 DEF SpuriousWakeup, SyncTypes
    <2>3. UNCHANGED <<pc, stop, queue_size>>
      BY <1>3 DEF Spurious
    <2>4. Seekers \subseteq Seekers' /\ Putters \subseteq Putters'
      BY <1>t, <2>2, <2>3 DEF Seekers, Putters
    <2>5. QED
      BY <1>t, <2>2, <2>3, <2>4, NobodyLeaves
  <1>4. ASSUME NEW p \in Producers, NEW x \in Roots, CallAddTask(p, x) PROVE WakeInv'
    BY <1>4, <1>t, MoveKeepsCounts DEF CallAddTask, SeekerLabels, PutterLabels
  <1>5. ASSUME NEW n \in Requests, CreatePool(n) PROVE WakeInv'
    <2>1. /\ \A w \in Workers : pc[w] = "unborn"
          /\ \A p \in Producers : pc[p] = "idle"
      BY <1>t, <1>5 DEF CreatePool, Lifecycle, NothingBeforeCreate
    <2>2. waiting["queue_not_empty"] = {} /\ waiting["queue_not_full"] = {}
      BY <2>1 DEF Inv, Sleepers, Adders
    <2>3. UNCHANGED waiting
      BY <1>5 DEF CreatePool
    <2>4. QED
      BY <2>2, <2>3 DEF WakeInv, EnoughSeekers, EnoughPutters
  <1>6. CASE CreateThread
    <2>1. i \in Workers /\ pc[i] = "unborn"
      <3>1. i \in 0..MAX_THREADS /\ thread_count \in 0..MAX_THREADS /\ MAX_THREADS \in Nat
        BY <1>t, PoolSizes DEF TypeOK, PoolTypes, ThreadTypes
      <3>2. i \in Workers
        BY <1>6, <3>1 DEF CreateThread, Workers
      <3>3. QED
        BY <1>6, <1>t, <3>1, <3>2 DEF CreateThread, Lifecycle
    <2>2. Goto(i, "lock") /\ UNCHANGED <<waiting, queue_size, stop>>
      BY <1>6 DEF CreateThread, Goto
    <2>3. QED
      BY <1>t, <2>1, <2>2, MoveKeepsCounts DEF SeekerLabels, PutterLabels
  <1>7. CASE \/ CreateReturnsNull \/ CreateThreadFails \/ CreateReturnsPool \/ CallDestroy
             \/ DestroyLock \/ DestroyUnlock \/ DestroyJoinHangs \/ DestroyFree
    BY <1>7, <1>t, MoveKeepsCounts
       DEF CreateReturnsNull, CreateThreadFails, CreateReturnsPool, CallDestroy,
           DestroyLock, DestroyUnlock, DestroyJoinHangs, DestroyFree
  <1>8. CASE DestroyStop
    BY <1>8, StopEndsCounts DEF DestroyStop
  <1>9. CASE DestroyJoin \/ Rest \/ UNCHANGED vars
    <2>1. UNCHANGED <<pc, waiting, queue_size, stop>>
      BY <1>9 DEF DestroyJoin, Rest, vars
    <2>2. Seekers' = Seekers /\ Putters' = Putters
      BY <2>1 DEF Seekers, Putters
    <2>3. QED
      BY <1>t, <2>1, <2>2, NobodyLeaves
  <1>10. QED
    BY <1>1, <1>2, <1>3, <1>4, <1>5, <1>6, <1>7, <1>8, <1>9 DEF Next, Create, Destroy

\* While the pool runs, every task in the ring has a worker on its way and every
\* free slot an adder, as long as somebody sleeps that could use it; after stop
\* nobody sleeps.  This holds for any number of threads and any ring length.
THEOREM WakeupsAreNotLost == Spec => []NoLostWakeup
  <1>1. Init => WakeInv
    BY DEF Init, WakeInv, EnoughSeekers, EnoughPutters, Conds
  <1>2. Inv /\ WakeInv /\ [Next]_vars => WakeInv'
    BY StepKeepsCounts
  <1>3. Inv /\ WakeInv => NoLostWakeup
    BY DEF Inv, Sleepers, WakeInv, EnoughSeekers, EnoughPutters, NoLostWakeup, Conds
  <1>4. QED
    BY <1>1, <1>2, <1>3, InvHolds, PTL DEF Spec
=============================================================================
