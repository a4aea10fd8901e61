----------------------------- MODULE ThreadPool -----------------------------
(***************************************************************************)
(* vf_threadpool.h: a fixed set of worker threads fed through a bounded    *)
(* ring of tasks guarded by one mutex and two condition variables.         *)
(*                                                                         *)
(* One thread, Owner, creates and destroys the pool; Producers submit      *)
(* tasks while the pool is open; a task may itself submit another task     *)
(* from the worker that runs it (Follow).  Tasks are distinct, so that     *)
(* each one can be followed through the ring.  pc[t] names the statement   *)
(* thread t is about to execute.                                           *)
(***************************************************************************)
EXTENDS Integers, Sequences, FiniteSets, VfThread

CONSTANTS
    MAX_THREADS,      \* length of the threads array
    MAX_QUEUE,        \* length of the ring
    Requests,         \* the values of num_threads a client asks for
    Producers,        \* threads that call vf_threadpool_add_task from outside
    Owner,            \* the thread that creates and destroys the pool
    Tasks, NoTask,
    Follow,           \* task -> the task its function submits, or NoTask
    MaxSpurious       \* bound: spurious wakeups in one behaviour

Workers == 0..(MAX_THREADS - 1)     \* worker i is started from threads[i]
Adders  == Workers \cup Producers
Threads == Adders \cup {Owner}
Conds   == {"queue_not_empty", "queue_not_full"}
Roots   == Tasks \ {Follow[x] : x \in Tasks}     \* submitted by Producers

ASSUME PoolSizes == /\ MAX_THREADS \in Nat \ {0}
                    /\ MAX_QUEUE \in Nat \ {0}
                    /\ Requests \subseteq Int
                    /\ MaxSpurious \in Nat
ASSUME DistinctThreads == /\ Producers \cap Workers = {}
                          /\ Owner \notin Adders
                          /\ NoThread \notin Threads
                          /\ IsFiniteSet(Producers)
ASSUME TaskChains == /\ NoTask \notin Tasks
                     /\ Follow \in [Tasks -> Tasks \cup {NoTask}]
                     /\ \A x, y \in Tasks : Follow[x] = Follow[y] =>
                            x = y \/ Follow[x] = NoTask
-----------------------------------------------------------------------------
VARIABLES
    thread_count, queue, queue_size, front, rear, stop,   \* vf_threadpool_t
    pc,               \* thread -> its next statement
    task,             \* worker -> its local variable task
    arg,              \* producer -> the task it is submitting
    i,                \* the owner's loop variable
    spurious,         \* spurious wakeups so far
    accepted,         \* history: tasks add_task reported SUCCESS for, in order
    started,          \* history: tasks taken from the ring, in order
    finished          \* history: tasks whose function returned

ring    == <<queue, queue_size, front, rear>>
pool    == <<thread_count, ring, stop>>
sync    == <<mutex, waiting, handle>>
local   == <<task, arg, i, spurious>>
history == <<accepted, started, finished>>
vars    == <<pool, sync, pc, local, history>>

\* The next slot of the ring.
AdvanceNoWrap(k) == k + 1                       \* mutant
AdvanceNot(k)    == k                           \* mutant
Advance(k) == (k + 1) % MAX_QUEUE

TaskBehindFront == queue[Advance(front)]        \* mutant
TaskAtFront == queue[front]

\* When a worker whose wait is over takes a task.
MayDrain == queue_size # 0                      \* mutant
MayTake == queue_size # 0 /\ ~stop

\* A slot became free; a task arrived; the pool stops.
AnnounceSlotIfFull ==                           \* mutant
    IF queue_size = MAX_QUEUE THEN vf_cond_signal("queue_not_full")
                              ELSE UNCHANGED waiting
AnnounceSlot == vf_cond_signal("queue_not_full")

AnnounceTaskIfEmpty ==                          \* mutant
    IF queue_size = 0 THEN vf_cond_signal("queue_not_empty")
                      ELSE UNCHANGED waiting
AnnounceTaskToAdders == vf_cond_signal("queue_not_full")  \* mutant
AnnounceTask == vf_cond_signal("queue_not_empty")

AnnounceStopToWorkers == vf_cond_broadcast({"queue_not_empty"})  \* mutant
AnnounceStop == vf_cond_broadcast({"queue_not_empty", "queue_not_full"})

InAddTask == {"add_lock", "add_test", "add_wait", "add_unlock"}
Goto(t, label) == pc' = [pc EXCEPT ![t] = label]

\* The task a thread inside vf_threadpool_add_task is handing over.
Submitting(t) == IF t \in Workers THEN Follow[task[t]] ELSE arg[t]

Init == /\ thread_count = 0
        /\ queue = [k \in 0..(MAX_QUEUE - 1) |-> NoTask]
        /\ queue_size = 0 /\ front = 0 /\ rear = 0
        /\ stop = FALSE
        /\ mutex = NoThread
        /\ waiting = [c \in Conds |-> {}]
        /\ handle = [w \in Workers |-> "garbage"]
        /\ pc = [t \in Threads |-> IF t \in Workers THEN "unborn"
                                   ELSE IF t = Owner THEN "new" ELSE "idle"]
        /\ task = [w \in Workers |-> NoTask]
        /\ arg = [p \in Producers |-> NoTask]
        /\ i = 0 /\ spurious = 0
        /\ accepted = <<>> /\ started = <<>> /\ finished = {}
-----------------------------------------------------------------------------
(* threadpool_worker *)

WorkerLock(w) == /\ pc[w] = "lock"
                 /\ vf_mutex_lock(w)
                 /\ Goto(w, "test")
                 /\ UNCHANGED <<pool, waiting, handle, local, history>>

WorkerWait(w) == /\ pc[w] = "test"
                 /\ queue_size = 0 /\ ~stop
                 /\ vf_cond_wait(w, "queue_not_empty")
                 /\ Goto(w, "wait")
                 /\ UNCHANGED <<pool, handle, local, history>>

WorkerWake(w) == /\ pc[w] = "wait"
                 /\ vf_cond_wait_returns(w, "queue_not_empty")
                 /\ Goto(w, "test")
                 /\ UNCHANGED <<pool, waiting, handle, local, history>>

WorkerExitLocked(w) ==                          \* mutant
                 /\ pc[w] = "test"
                 /\ stop
                 /\ Goto(w, "exited")
                 /\ UNCHANGED <<pool, sync, local, history>>

WorkerExit(w) == /\ pc[w] = "test"
                 /\ stop
                 /\ vf_mutex_unlock(w)
                 /\ Goto(w, "exited")
                 /\ UNCHANGED <<pool, waiting, handle, local, history>>

WorkerTake(w) == /\ pc[w] = "test"
                 /\ MayTake
                 /\ task' = [task EXCEPT ![w] = TaskAtFront]
                 /\ front' = Advance(front)
                 /\ queue_size' = queue_size - 1
                 /\ AnnounceSlot
                 /\ started' = Append(started, TaskAtFront)
                 /\ Goto(w, "unlock")
                 /\ UNCHANGED <<thread_count, queue, rear, stop, mutex, handle,
                                arg, i, spurious, accepted, finished>>

WorkerUnlock(w) == /\ pc[w] = "unlock"
                   /\ vf_mutex_unlock(w)
                   /\ Goto(w, "run")
                   /\ UNCHANGED <<pool, waiting, handle, local, history>>

\* The task's function submits another task before it returns ...
RunSubmits(w) == /\ pc[w] = "run"
                 /\ Follow[task[w]] # NoTask
                 /\ Goto(w, "add_lock")
                 /\ UNCHANGED <<pool, sync, local, history>>

\* ... or returns straight away.
RunReturns(w) == /\ pc[w] = "run"
                 /\ Follow[task[w]] = NoTask
                 /\ finished' = finished \cup {task[w]}
                 /\ Goto(w, "lock")
                 /\ UNCHANGED <<pool, sync, local, accepted, started>>
-----------------------------------------------------------------------------
(* vf_threadpool_add_task *)

\* A client may call only between create's return and its call of destroy.
CallAddTask(p, x) ==
    /\ pc[p] = "idle" /\ pc[Owner] = "open"
    /\ \A k \in 1..Len(accepted) : accepted[k] # x
    /\ \A q \in Producers : arg[q] # x
    /\ arg' = [arg EXCEPT ![p] = x]
    /\ Goto(p, "add_lock")
    /\ UNCHANGED <<pool, sync, task, i, spurious, history>>

\* Where a thread goes when the call is over: a worker's task function returns.
ReturnFromAddTask(t) ==
    \/ /\ t \in Workers
       /\ Goto(t, "lock")
       /\ finished' = finished \cup {task[t]}
       /\ UNCHANGED arg
    \/ /\ t \in Producers
       /\ Goto(t, "idle")
       /\ arg' = [arg EXCEPT ![t] = NoTask]
       /\ UNCHANGED finished

AddLock(t) == /\ pc[t] = "add_lock"
              /\ vf_mutex_lock(t)
              /\ Goto(t, "add_test")
              /\ UNCHANGED <<pool, waiting, handle, local, history>>

AddWait(t) == /\ pc[t] = "add_test"
              /\ queue_size = MAX_QUEUE /\ ~stop
              /\ vf_cond_wait(t, "queue_not_full")
              /\ Goto(t, "add_wait")
              /\ UNCHANGED <<pool, handle, local, history>>

AddWake(t) == /\ pc[t] = "add_wait"
              /\ vf_cond_wait_returns(t, "queue_not_full")
              /\ Goto(t, "add_test")
              /\ UNCHANGED <<pool, waiting, handle, local, history>>

\* VF_THREAD_ERROR_THREADPOOL_STOPPED
AddRefused(t) == /\ pc[t] = "add_test"
                 /\ stop
                 /\ vf_mutex_unlock(t)
                 /\ ReturnFromAddTask(t)
                 /\ UNCHANGED <<pool, waiting, handle, task, i, spurious,
                                accepted, started>>

AddEnqueue(t) == /\ pc[t] = "add_test"
                 /\ queue_size # MAX_QUEUE /\ ~stop
                 /\ queue' = [queue EXCEPT ![rear] = Submitting(t)]
                 /\ rear' = Advance(rear)
                 /\ queue_size' = queue_size + 1
                 /\ AnnounceTask
                 /\ accepted' = Append(accepted, Submitting(t))
                 /\ Goto(t, "add_unlock")
                 /\ UNCHANGED <<thread_count, front, stop, mutex, handle, local,
                                started, finished>>

AddSucceeds(t) == /\ pc[t] = "add_unlock"
                  /\ vf_mutex_unlock(t)
                  /\ ReturnFromAddTask(t)
                  /\ UNCHANGED <<pool, waiting, handle, task, i, spurious,
                                 accepted, started>>
-----------------------------------------------------------------------------
(* vf_threadpool_create *)

\* The request is out of range, or malloc fails.
CreateReturnsNull ==
    /\ pc[Owner] = "new"
    /\ Goto(Owner, "null")
    /\ UNCHANGED <<pool, sync, local, history>>

CreatePool(num_threads) ==
    /\ pc[Owner] = "new"
    /\ num_threads > 0 /\ num_threads <= MAX_THREADS
    /\ thread_count' = num_threads
    /\ queue_size' = 0 /\ front' = 0 /\ rear' = 0
    /\ stop' = FALSE
    /\ i' = 0
    /\ Goto(Owner, "creating")
    /\ UNCHANGED <<queue, sync, task, arg, spurious, history>>

CreateThread ==
    /\ pc[Owner] = "creating"
    /\ i < thread_count
    /\ vf_thread_create(i, "live")
    /\ i' = i + 1
    /\ pc' = [pc EXCEPT ![i] = "lock"]
    /\ UNCHANGED <<pool, mutex, waiting, task, arg, spurious, history>>

\* On a failure the half-built pool is destroyed before NULL is returned.
CreateThreadFails ==
    /\ pc[Owner] = "creating"
    /\ i < thread_count
    /\ vf_thread_create(i, "null")
    /\ Goto(Owner, "destroy_lock")
    /\ UNCHANGED <<pool, mutex, waiting, local, history>>

CreateReturnsPool ==
    /\ pc[Owner] = "creating"
    /\ i = thread_count
    /\ Goto(Owner, "open")
    /\ UNCHANGED <<pool, sync, local, history>>
-----------------------------------------------------------------------------
(* vf_threadpool_destroy *)

\* The client's part of the contract: no producer is still inside add_task.
CallDestroy == /\ pc[Owner] = "open"
               /\ \A p \in Producers : pc[p] = "idle"
               /\ Goto(Owner, "destroy_lock")
               /\ UNCHANGED <<pool, sync, local, history>>

DestroyLock == /\ pc[Owner] = "destroy_lock"
               /\ vf_mutex_lock(Owner)
               /\ Goto(Owner, "destroy_stop")
               /\ UNCHANGED <<pool, waiting, handle, local, history>>

DestroyStop == /\ pc[Owner] = "destroy_stop"
               /\ stop' = TRUE
               /\ AnnounceStop
               /\ Goto(Owner, "destroy_unlock")
               /\ UNCHANGED <<thread_count, ring, mutex, handle, local, history>>

DestroyUnlock == /\ pc[Owner] = "destroy_unlock"
                 /\ vf_mutex_unlock(Owner)
                 /\ i' = 0
                 /\ Goto(Owner, "join")
                 /\ UNCHANGED <<pool, waiting, handle, task, arg, spurious, history>>

DestroyJoin == /\ pc[Owner] = "join"
               /\ i < thread_count
               /\ vf_thread_join(i, pc[i] = "exited")
               /\ i' = i + 1
               /\ UNCHANGED <<pool, mutex, waiting, pc, task, arg, spurious, history>>

DestroyJoinHangs == /\ pc[Owner] = "join"
                    /\ i < thread_count
                    /\ vf_thread_join_hangs(i)
                    /\ Goto(Owner, "hung")
                    /\ UNCHANGED <<pool, mutex, waiting, local, history>>

DestroyFree == /\ pc[Owner] = "join"
               /\ i = thread_count
               /\ Goto(Owner, "freed")
               /\ UNCHANGED <<pool, sync, local, history>>
-----------------------------------------------------------------------------
Spurious(t) == /\ spurious < MaxSpurious
               /\ \E c \in Conds : SpuriousWakeup(t, c)
               /\ spurious' = spurious + 1
               /\ UNCHANGED <<pool, mutex, handle, pc, task, arg, i, history>>

\* Every worker is inside its own task's add_task, asleep on a full ring.
SelfFed == /\ thread_count > 0
           /\ \A w \in Workers : w < thread_count => w \in waiting["queue_not_full"]

\* Where the whole system may come to rest: no pool is left, or the client's
\* tasks have filled the ring and occupy every worker.
AtRest == \/ /\ pc[Owner] \in {"null", "freed", "hung"}
             /\ \A w \in Workers : pc[w] \in {"unborn", "exited"}
             /\ \A p \in Producers : pc[p] = "idle"
          \/ SelfFed

Rest == AtRest /\ UNCHANGED vars

Worker(w) == \/ WorkerLock(w) \/ WorkerWait(w) \/ WorkerWake(w) \/ WorkerExit(w)
             \/ WorkerTake(w) \/ WorkerUnlock(w) \/ RunSubmits(w) \/ RunReturns(w)

AddTask(t) == \/ AddLock(t) \/ AddWait(t) \/ AddWake(t)
              \/ AddRefused(t) \/ AddEnqueue(t) \/ AddSucceeds(t)

Create == \/ CreateReturnsNull
          \/ \E n \in Requests : CreatePool(n)
          \/ CreateThread \/ CreateThreadFails \/ CreateReturnsPool

Destroy == \/ DestroyLock \/ DestroyStop \/ DestroyUnlock
           \/ DestroyJoin \/ DestroyJoinHangs \/ DestroyFree

Next == \/ \E w \in Workers : Worker(w)
        \/ \E t \in Adders : AddTask(t) \/ Spurious(t)
        \/ \E p \in Producers, x \in Roots : CallAddTask(p, x)
        \/ Create \/ CallDestroy \/ Destroy
        \/ Rest

\* The scheduler runs every thread that can run.  Clients need not call, and
\* no wakeup is promised but those that are signalled.
Fairness == /\ \A w \in Workers : WF_vars(Worker(w))
            /\ \A t \in Adders : WF_vars(AddTask(t))
            /\ WF_vars(Create) /\ WF_vars(Destroy)

Spec == Init /\ [][Next]_vars /\ Fairness
-----------------------------------------------------------------------------
(* Properties *)

OwnerLabels    == {"new", "null", "creating", "open", "destroy_lock",
                   "destroy_stop", "destroy_unlock", "join", "hung", "freed"}
WorkerLabels   == {"unborn", "lock", "test", "wait", "unlock", "run", "exited"}
                  \cup InAddTask
ProducerLabels == {"idle"} \cup InAddTask

PoolTypes == /\ thread_count \in 0..MAX_THREADS
             /\ queue \in [0..(MAX_QUEUE - 1) -> Tasks \cup {NoTask}]
             /\ queue_size \in 0..MAX_QUEUE
             /\ front \in 0..(MAX_QUEUE - 1) /\ rear \in 0..(MAX_QUEUE - 1)
             /\ stop \in BOOLEAN

SyncTypes == /\ mutex \in Threads \cup {NoThread}
             /\ waiting \in [Conds -> SUBSET Adders]
             /\ handle \in [Workers -> HandleState]

ThreadTypes == /\ pc \in [Threads -> OwnerLabels \cup WorkerLabels \cup ProducerLabels]
               /\ pc[Owner] \in OwnerLabels
               /\ \A w \in Workers : pc[w] \in WorkerLabels
               /\ \A p \in Producers : pc[p] \in ProducerLabels
               /\ task \in [Workers -> Tasks \cup {NoTask}]
               /\ arg \in [Producers -> Roots \cup {NoTask}]
               /\ i \in 0..MAX_THREADS /\ spurious \in 0..MaxSpurious

HistoryTypes == accepted \in Seq(Tasks) /\ started \in Seq(Tasks) /\ finished \in SUBSET Tasks

\* Every variable has its type: indices stay inside the ring and the threads
\* array, and only workers and producers are ever asleep.
TypeOK == PoolTypes /\ SyncTypes /\ ThreadTypes /\ HistoryTypes

Critical == {"test", "unlock", "add_test", "add_unlock",
             "destroy_stop", "destroy_unlock"}

\* The queue mutex is held by exactly the thread whose next statement is in a
\* critical section: no return path of the three functions keeps it, none
\* touches the ring or stop without it.
LockDiscipline == \A t \in Threads : (pc[t] \in Critical) <=> (mutex = t)

\* Threads on their way to look at the ring, and not asleep.
Seekers == {w \in Workers : /\ pc[w] \in {"lock", "test", "wait"}
                            /\ w \notin waiting["queue_not_empty"]}
Putters == {t \in Adders : /\ pc[t] \in {"add_lock", "add_test", "add_wait"}
                           /\ t \notin waiting["queue_not_full"]}

\* No wakeup is lost although both conditions are only signalled, never
\* broadcast, while the pool runs: as long as a worker sleeps there are as many
\* workers on their way as there are tasks, as long as an adder sleeps there are
\* as many adders on their way as there are free slots, and nobody is left
\* asleep once stop is set.
NoLostWakeup ==
    /\ ~stop => /\ waiting["queue_not_empty"] # {} =>
                      queue_size <= Cardinality(Seekers)
                /\ waiting["queue_not_full"] # {} =>
                      MAX_QUEUE - queue_size <= Cardinality(Putters)
    /\ stop => \A c \in Conds : waiting[c] = {}

\* The ring holds exactly the tasks that were accepted and not yet started, in
\* the order they were accepted, and rear is the slot after the last of them.
RingHoldsBacklog ==
    /\ Len(accepted) = Len(started) + queue_size
    /\ rear = (front + queue_size) % MAX_QUEUE
    /\ \A k \in 1..Len(started) : started[k] = accepted[k]
    /\ \A k \in 0..(queue_size - 1) :
          queue[(front + k) % MAX_QUEUE] = accepted[Len(started) + k + 1]

Running == {w \in Workers : pc[w] \in {"unlock", "run"} \cup InAddTask}

\* Every accepted task is in one place: it was accepted once, and once started
\* it either has returned or is the local task of exactly one worker.
TasksRunOnce ==
    /\ \A k, l \in 1..Len(accepted) : accepted[k] = accepted[l] => k = l
    /\ \A w, v \in Running : task[w] = task[v] => w = v
    /\ {started[k] : k \in 1..Len(started)} = finished \cup {task[w] : w \in Running}
    /\ \A w \in Running : task[w] \notin finished

\* When vf_threadpool_destroy frees the pool nobody uses it any more: every
\* worker that was started has returned, also after a create that failed half
\* way, no thread holds its mutex and none sleeps on its conditions.
NoUseAfterFree ==
    pc[Owner] = "freed" => /\ \A w \in Workers : pc[w] \in {"unborn", "exited"}
                           /\ \A p \in Producers : pc[p] = "idle"
                           /\ mutex = NoThread
                           /\ \A c \in Conds : waiting[c] = {}

Backlog == [k \in 1..queue_size |-> queue[(front + k - 1) % MAX_QUEUE]]

Fifo == INSTANCE BoundedFifo WITH
            Items <- Tasks, Capacity <- MAX_QUEUE, NoItem <- NoTask,
            items <- Backlog, closed <- stop,
            given <- IF started = <<>> THEN NoTask ELSE started[Len(started)]

\* Seen from outside the pool is a bounded queue: tasks are handed to workers
\* in the order they were accepted, the ring never overflows, and after
\* destroy has set stop no task is accepted and none is started.
ImplementsFifo == Fifo!Spec

\* A task add_task reported SUCCESS for is started by some worker, unless the
\* pool is stopped or the tasks themselves have blocked every worker.
EveryAcceptedTaskStarts ==
    \A x \in Tasks :
        (\E k \in 1..Len(accepted) : accepted[k] = x)
            ~> \/ \E k \in 1..Len(started) : started[k] = x
               \/ stop \/ SelfFed

\* vf_threadpool_add_task returns, to a producer as to a task, also when the
\* ring was full or the pool stopped while it waited; all workers blocked in
\* add_task is again the one exception.
AddTaskReturns ==
    \A t \in Adders : pc[t] = "add_lock" ~> (pc[t] \notin InAddTask \/ SelfFed)

\* vf_threadpool_destroy returns whenever each of its joins has a handle that
\* vf_thread_create wrote.
DestroyCompletes ==
    (stop /\ \A w \in Workers : w < thread_count => handle[w] # "garbage")
        ~> pc[Owner] = "freed"

\* vf_thread.h documents vf_thread_join's argument as "the thread to join":
\* destroy passes only handles of threads that were created.
JoinsOnlyCreatedThreads ==
    pc[Owner] = "join" /\ i < thread_count => handle[i] = "live"
=============================================================================
