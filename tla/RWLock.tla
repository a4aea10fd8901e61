------------------------------- MODULE RWLock -------------------------------
(***************************************************************************)
(* vf_rwlock_t of vf_thread.h, Windows branch: a reader-writer lock made   *)
(* of an SRWLOCK and three counters.  A reader keeps only its count, not   *)
(* the SRWLOCK; a writer keeps the SRWLOCK, exclusively, and a flag.  One  *)
(* action per access to shared state; pc[t] names the next one.            *)
(***************************************************************************)
EXTENDS Integers, FiniteSets

CONSTANTS Readers,    \* threads that call rdlock ... unlock
          Writers,    \* threads that call wrlock ... unlock
          MaxCalls    \* bound: lock calls each thread makes

ASSUME ThreadAssumption == /\ Readers \cap Writers = {}
                           /\ IsFiniteSet(Readers) /\ IsFiniteSet(Writers)
                           /\ MaxCalls \in Nat

Threads == Readers \cup Writers

VARIABLES
    shared, excl,     \* the SRWLOCK: threads that share it; held exclusively?
    readers, writer_waiting, writer_active,      \* the LONG counters
    pc,               \* thread -> its next access
    calls,            \* thread -> lock calls made so far
    crashed,          \* an SRWLOCK nobody holds was released: the process dies
    overlap           \* history: a reader and a writer were once both inside

srw      == <<shared, excl>>
counters == <<readers, writer_waiting, writer_active>>
vars     == <<srw, counters, pc, calls, crashed, overlap>>

Goto(t, label) == pc' = [pc EXCEPT ![t] = label]

\* vf_rwlock_init
Init == /\ shared = 0 /\ excl = FALSE
        /\ readers = 0 /\ writer_waiting = 0 /\ writer_active = 0
        /\ pc = [t \in Threads |-> "idle"]
        /\ calls = [t \in Threads |-> 0]
        /\ crashed = FALSE /\ overlap = FALSE

Call(t, label) == /\ pc[t] = "idle"
                  /\ calls[t] < MaxCalls
                  /\ calls' = [calls EXCEPT ![t] = @ + 1]
                  /\ Goto(t, label)
                  /\ UNCHANGED <<srw, counters, crashed>>
-----------------------------------------------------------------------------
(* vf_rwlock_rdlock *)

RdAcquire(r) == /\ pc[r] = "r_acquire"
                /\ ~excl
                /\ shared' = shared + 1
                /\ Goto(r, "r_test")
                /\ UNCHANGED <<excl, counters, calls, crashed>>

RdTest(r) == /\ pc[r] = "r_test"
             /\ Goto(r, IF writer_waiting = 0 THEN "r_count" ELSE "r_retreat")
             /\ UNCHANGED <<srw, counters, calls, crashed>>

RdCount(r) == /\ pc[r] = "r_count"
              /\ readers' = readers + 1
              /\ Goto(r, "r_release")
              /\ UNCHANGED <<srw, writer_waiting, writer_active, calls, crashed>>

RdRelease(r) == /\ pc[r] = "r_release"
                /\ shared' = shared - 1
                /\ Goto(r, "reading")
                /\ UNCHANGED <<excl, counters, calls, crashed>>

\* A writer waits: step back, Sleep(1), try again.
RdRetreat(r) == /\ pc[r] = "r_retreat"
                /\ shared' = shared - 1
                /\ Goto(r, "r_acquire")
                /\ UNCHANGED <<excl, counters, calls, crashed>>
-----------------------------------------------------------------------------
(* vf_rwlock_wrlock *)

WrAnnounce(w) == /\ pc[w] = "w_announce"
                 /\ writer_waiting' = writer_waiting + 1
                 /\ Goto(w, "w_cas")
                 /\ UNCHANGED <<srw, readers, writer_active, calls, crashed>>

\* A failed compare-and-exchange changes nothing and is tried again.
WrCasBlind(w) == /\ pc[w] = "w_cas"             \* mutant
                 /\ writer_active' = 1
                 /\ Goto(w, "w_acquire")
                 /\ UNCHANGED <<srw, readers, writer_waiting, calls, crashed>>

WrCasReannounces(w) == /\ pc[w] = "w_cas"       \* mutant
                       /\ writer_active' = 1
                       /\ Goto(w, IF writer_active = 0 THEN "w_acquire" ELSE "w_announce")
                       /\ UNCHANGED <<srw, readers, writer_waiting, calls, crashed>>

WrCas(w) == /\ pc[w] = "w_cas"
            /\ writer_active = 0
            /\ writer_active' = 1
            /\ Goto(w, "w_acquire")
            /\ UNCHANGED <<srw, readers, writer_waiting, calls, crashed>>

WrTryAcquire(w) == /\ pc[w] = "w_acquire"      \* mutant
                   /\ excl' = TRUE
                   /\ Goto(w, "w_withdraw")
                   /\ UNCHANGED <<shared, counters, calls, crashed>>

WrAcquire(w) == /\ pc[w] = "w_acquire"
                /\ ~excl /\ shared = 0
                /\ excl' = TRUE
                /\ Goto(w, "w_withdraw")
                /\ UNCHANGED <<shared, counters, calls, crashed>>

WrWithdraw(w) == /\ pc[w] = "w_withdraw"
                 /\ writer_waiting' = writer_waiting - 1
                 /\ Goto(w, "writing")
                 /\ UNCHANGED <<srw, readers, writer_active, calls, crashed>>
-----------------------------------------------------------------------------
(* vf_rwlock_unlock: the same code for both, told apart by writer_active *)

CallUnlock(t) == /\ pc[t] \in {"reading", "writing"}
                 /\ Goto(t, "u_test")
                 /\ UNCHANGED <<srw, counters, calls, crashed>>

UnTest(t) == /\ pc[t] = "u_test"
             /\ Goto(t, IF writer_active # 0 THEN "u_clear" ELSE "u_readers")
             /\ UNCHANGED <<srw, counters, calls, crashed>>

UnClearDecrements(t) == /\ pc[t] = "u_clear"    \* mutant
                        /\ writer_active' = writer_active - 1
                        /\ Goto(t, "u_release")
                        /\ UNCHANGED <<srw, readers, writer_waiting, calls, crashed>>

UnClear(t) == /\ pc[t] = "u_clear"
              /\ writer_active' = 0
              /\ Goto(t, "u_release")
              /\ UNCHANGED <<srw, readers, writer_waiting, calls, crashed>>

UnRelease(t) == /\ pc[t] = "u_release"
                /\ excl' = FALSE
                /\ crashed' = ~excl
                /\ Goto(t, "idle")
                /\ UNCHANGED <<shared, counters, calls>>

UnReaders(t) == /\ pc[t] = "u_readers"
                /\ readers' = readers - 1
                /\ Goto(t, "idle")
                /\ UNCHANGED <<srw, writer_waiting, writer_active, calls, crashed>>
-----------------------------------------------------------------------------
Unlocking == {"u_test", "u_clear", "u_release", "u_readers"}
ReaderInside(r) == pc[r] \in {"r_release", "reading"} \cup Unlocking
WriterInside(w) == pc[w] \in {"w_acquire", "w_withdraw", "writing"} \cup Unlocking
Overlap == (\E r \in Readers : ReaderInside(r)) /\ (\E w \in Writers : WriterInside(w))

Rdlock(r) == RdAcquire(r) \/ RdTest(r) \/ RdCount(r) \/ RdRelease(r) \/ RdRetreat(r)
Wrlock(w) == WrAnnounce(w) \/ WrCas(w) \/ WrAcquire(w) \/ WrWithdraw(w)
Unlock(t) == UnTest(t) \/ UnClear(t) \/ UnRelease(t) \/ UnReaders(t)

Step == \/ \E r \in Readers : Call(r, "r_acquire") \/ Rdlock(r)
        \/ \E w \in Writers : Call(w, "w_announce") \/ Wrlock(w)
        \/ \E t \in Threads : CallUnlock(t) \/ Unlock(t)

Rest == \/ crashed
        \/ \A t \in Threads : pc[t] = "idle" /\ calls[t] = MaxCalls

Next == \/ ~crashed /\ Step /\ overlap' = (overlap \/ Overlap')
        \/ Rest /\ UNCHANGED vars

Spec == Init /\ [][Next]_vars
-----------------------------------------------------------------------------
(* Properties *)

ReaderLabels == {"idle", "r_acquire", "r_test", "r_count", "r_release",
                 "r_retreat", "reading"} \cup Unlocking
WriterLabels == {"idle", "w_announce", "w_cas", "w_acquire", "w_withdraw",
                 "writing"} \cup Unlocking

\* Every variable has its type; readers may go below zero, see QuiescentClean.
TypeOK == /\ shared \in Nat /\ excl \in BOOLEAN
          /\ readers \in Int /\ writer_waiting \in Int /\ writer_active \in {0, 1}
          /\ pc \in [Threads -> ReaderLabels \cup WriterLabels]
          /\ \A r \in Readers : pc[r] \in ReaderLabels
          /\ \A w \in Writers : pc[w] \in WriterLabels
          /\ calls \in [Threads -> 0..MaxCalls]
          /\ crashed \in BOOLEAN /\ overlap \in BOOLEAN

Holding == {"w_withdraw", "writing", "u_test", "u_clear", "u_release"}

\* As long as no writer has come in while a reader was inside, the lock keeps
\* its word between writers: at most one writer holds it, and unlock releases
\* the SRWLOCK only when it is held.
SafeUntilOverlap ==
    ~overlap => /\ \A v, w \in Writers :
                      pc[v] \in Holding /\ pc[w] \in Holding => v = w
                /\ ~crashed

\* Whatever the threads did, once all of them are out the lock is as good as
\* new: although unlock may undo another thread's acquisition, the decrements
\* and clears it makes add up, unless an SRWLOCK that was not held is released.
QuiescentClean ==
    (\A t \in Threads : pc[t] = "idle") /\ ~crashed =>
        /\ readers = 0 /\ writer_waiting = 0 /\ writer_active = 0
        /\ shared = 0 /\ ~excl

\* writer_waiting counts exactly the writers between their announcement and
\* their entry, also after readers and writers have mixed: a count that stayed
\* up would turn every reader away for good.
WaitingCountExact ==
    writer_waiting = Cardinality({w \in Writers :
                         pc[w] \in {"w_cas", "w_acquire", "w_withdraw"}})

\* vf_thread.h: wrlock "acquires a write lock on a read-write lock", rdlock a
\* read lock: while a writer writes no reader reads and no other writer writes.
ReadersExcludeWriters ==
    \A w \in Writers, t \in Threads :
        pc[w] = "writing" /\ t # w => pc[t] \notin {"reading", "writing"}
=============================================================================
