---------------------------- MODULE RWLockProofs ----------------------------
(***************************************************************************)
(* What vf_rwlock_t keeps, although it does not keep readers and writers   *)
(* apart, for every number of threads and calls.  The counters are compared *)
(* with the number of threads at the places where they were changed.       *)
(***************************************************************************)
EXTENDS RWLock, TLAPS, FiniteSetTheorems

-----------------------------------------------------------------------------
(* Counting threads *)

At(L) == {t \in Threads : pc[t] \in L}

LabelTypes == /\ pc \in [Threads -> ReaderLabels \cup WriterLabels]
              /\ \A r \in Readers : pc[r] \in ReaderLabels
              /\ \A w \in Writers : pc[w] \in WriterLabels

\* There are finitely many threads.
LEMMA FiniteThreads == IsFiniteSet(Threads)
  BY ThreadAssumption, FS_Union DEF Threads

\* When a thread moves, the count of a set of labels changes by its leaving
\* and its arriving.
LEMMA CountMoves ==
    ASSUME LabelTypes, NEW t \in Threads, NEW label, Goto(t, label), NEW L
    PROVE  /\ Cardinality(At(L)) \in Nat /\ Cardinality(At(L)') \in Nat
           /\ Cardinality(At(L)') = Cardinality(At(L))
                 + (IF label \in L THEN 1 ELSE 0) - (IF pc[t] \in L THEN 1 ELSE 0)
  <1>1. pc'[t] = label /\ \A u \in Threads \ {t} : pc'[u] = pc[u]
    BY DEF Goto, LabelTypes
  <1>2. IsFiniteSet(At(L)) /\ IsFiniteSet(At(L)')
    BY FiniteThreads, FS_Subset DEF At
  <1>3. Cardinality(At(L)) \in Nat /\ Cardinality(At(L)') \in Nat
    BY <1>2, FS_CardinalityType
  <1>4. CASE label \in L /\ pc[t] \in L
    <2>1. At(L)' = At(L)
      BY <1>1, <1>4 DEF At
    <2>2. QED
      BY <1>3, <1>4, <2>1
  <1>5. CASE label \in L /\ pc[t] \notin L
    <2>1. At(L)' = At(L) \cup {t} /\ t \notin At(L)
      BY <1>1, <1>5 DEF At
    <2>2. Cardinality(At(L)') = Cardinality(At(L)) + 1
      BY <1>2, <2>1, FS_AddElement
    <2>3. QED
      BY <1>3, <1>5, <2>2
  <1>6. CASE label \notin L /\ pc[t] \in L
    <2>1. At(L)' = At(L) \ {t} /\ t \in At(L)
      BY <1>1, <1>6 DEF At
    <2>2. Cardinality(At(L)') = Cardinality(At(L)) - 1
      BY <1>2, <2>1, FS_RemoveElement
    <2>3. QED
      BY <1>3, <1>6, <2>2
  <1>7. CASE label \notin L /\ pc[t] \notin L
    <2>1. At(L)' = At(L)
      BY <1>1, <1>7 DEF At
    <2>2. QED
      BY <1>3, <1>7, <2>1
  <1>8. QED
    BY <1>4, <1>5, <1>6, <1>7

-----------------------------------------------------------------------------
(* The inductive invariant *)

Sharing  == {"r_test", "r_count", "r_release", "r_retreat"}
Waiting  == {"w_cas", "w_acquire", "w_withdraw"}
Entered  == {"r_release", "reading", "w_withdraw", "writing"} \cup Unlocking
Claiming == {"w_acquire", "w_withdraw", "writing", "u_test", "u_clear"}

Excl == IF excl THEN 1 ELSE 0

\* Everything but the sign of shared, which the counts imply.
PlainTypes ==
    /\ excl \in BOOLEAN
    /\ readers \in Int /\ writer_waiting \in Int /\ writer_active \in {0, 1}
    /\ LabelTypes
    /\ calls \in [Threads -> 0..MaxCalls]
    /\ crashed \in BOOLEAN /\ overlap \in BOOLEAN

\* shared and writer_waiting count the threads between their two changes.
Exact == /\ shared = Cardinality(At(Sharing))
         /\ writer_waiting = Cardinality(At(Waiting))

\* A thread that leaves takes back either one count of readers or the SRWLOCK,
\* so together they make up for the threads inside; and the SRWLOCK is claimed
\* and given up at most as often as the flag.
Balance ==
    ~crashed => /\ readers + Excl = Cardinality(At(Entered))
                /\ Excl + Cardinality(At({"w_acquire"}))
                      <= writer_active + Cardinality(At({"u_release"}))

\* A flag that is up belongs to a writer that has not come to its unlock's end.
FlagHasWriter == writer_active = 1 => \E w \in Writers : pc[w] \in Claiming

\* The flag and the SRWLOCK each tell of exactly one writer.
Apart == /\ \A r \in Readers : pc[r] \notin {"u_clear", "u_release"}
         /\ \A w \in Writers : pc[w] # "u_readers"
         /\ \A w \in Writers : pc[w] \in Claiming => writer_active = 1
         /\ \A v, w \in Writers : pc[v] \in Claiming /\ pc[w] \in Claiming => v = w
         /\ \A w \in Writers : pc[w] \in Holding => excl
         /\ \A v, w \in Writers : pc[v] \in Holding /\ pc[w] \in Holding => v = w

Separate == ~overlap => ~Overlap /\ ~crashed /\ Apart

Inv == PlainTypes /\ Exact /\ Balance /\ FlagHasWriter /\ Separate

\* vf_rwlock_init makes the invariant true: no thread is anywhere yet.
LEMMA InvInitially == Init => Inv
  <1> SUFFICES ASSUME Init PROVE Inv
    OBVIOUS
  <1>1. \A t \in Threads : pc[t] = "idle"
    BY DEF Init
  <1>2. PlainTypes
    <2>1. calls \in [Threads -> 0..MaxCalls]
      BY ThreadAssumption DEF Init
    <2>2. LabelTypes
      BY DEF Init, LabelTypes, ReaderLabels, WriterLabels, Threads
    <2>3. excl \in BOOLEAN /\ crashed \in BOOLEAN /\ overlap \in BOOLEAN
      BY DEF Init
    <2>4. readers \in Int /\ writer_waiting \in Int /\ writer_active \in {0, 1}
      BY DEF Init
    <2>5. QED
      BY <2>1, <2>2, <2>3, <2>4 DEF PlainTypes
  <1>3. /\ At(Sharing) = {} /\ At(Waiting) = {} /\ At(Entered) = {}
        /\ At({"w_acquire"}) = {} /\ At({"u_release"}) = {}
    BY <1>1 DEF At, Sharing, Waiting, Entered, Unlocking
  <1>4. Exact /\ Balance
    BY <1>3, FS_EmptySet DEF Init, Exact, Balance, Excl
  <1>5. FlagHasWriter
    BY DEF Init, FlagHasWriter
  <1>6. Separate
    BY <1>1 DEF Init, Separate, Apart, Overlap, ReaderInside, Threads, Unlocking,
                Claiming, Holding
  <1>7. QED
    BY <1>2, <1>4, <1>5, <1>6 DEF Inv

\* One move of a thread that is not inside unlock's last step: the labels.
LEMMA MovesKeepLabels ==
    ASSUME LabelTypes, NEW t \in Threads, NEW label, Goto(t, label),
           t \in Readers => label \in ReaderLabels,
           t \in Writers => label \in WriterLabels
    PROVE  LabelTypes'
  BY DEF LabelTypes, Goto, Threads

\* Every step keeps the types.
LEMMA StepKeepsTypes ==
    ASSUME PlainTypes, Step, overlap' \in BOOLEAN PROVE PlainTypes'
  <1> USE DEF srw, counters
  <1>t. /\ LabelTypes /\ Readers \subseteq Threads /\ Writers \subseteq Threads
        /\ Readers \cap Writers = {} /\ MaxCalls \in Nat
    BY ThreadAssumption DEF PlainTypes, Threads
  <1>1. ASSUME NEW t \in Threads, NEW label, Call(t, label),
               t \in Readers => label \in ReaderLabels,
               t \in Writers => label \in WriterLabels
        PROVE  PlainTypes'
    <2>1. LabelTypes'
      BY <1>t, <1>1, MovesKeepLabels DEF Call
    <2>2. calls' \in [Threads -> 0..MaxCalls]
      BY <1>t, <1>1 DEF Call, PlainTypes
    <2>3. QED
      BY <1>1, <2>1, <2>2 DEF Call, PlainTypes
  <1>2. ASSUME NEW r \in Readers, Call(r, "r_acquire") PROVE PlainTypes'
    BY <1>t, <1>1, <1>2 DEF ReaderLabels
  <1>3. ASSUME NEW w \in Writers, Call(w, "w_announce") PROVE PlainTypes'
    BY <1>t, <1>1, <1>3 DEF WriterLabels
  <1>4. ASSUME NEW r \in Readers, Rdlock(r) PROVE PlainTypes'
    <2>1. LabelTypes'
      BY <1>t, <1>4, MovesKeepLabels
         DEF Rdlock, RdAcquire, RdTest, RdCount, RdRelease, RdRetreat, ReaderLabels
    <2>2. UNCHANGED <<excl, writer_waiting, writer_active, calls, crashed>>
      BY <1>4 DEF Rdlock, RdAcquire, RdTest, RdCount, RdRelease, RdRetreat
    <2>3. readers' \in Int
      BY <1>4
         DEF Rdlock, RdAcquire, RdTest, RdCount, RdRelease, RdRetreat, PlainTypes
    <2>4. QED
      BY <2>1, <2>2, <2>3 DEF PlainTypes
  <1>5. ASSUME NEW w \in Writers, Wrlock(w) PROVE PlainTypes'
    <2>1. LabelTypes'
      BY <1>t, <1>5, MovesKeepLabels
         DEF Wrlock, WrAnnounce, WrCas, WrAcquire, WrWithdraw, WriterLabels
    <2>2. UNCHANGED <<readers, calls, crashed>>
      BY <1>5 DEF Wrlock, WrAnnounce, WrCas, WrAcquire, WrWithdraw
    <2>3. writer_waiting' \in Int /\ writer_active' \in {0, 1}
      BY <1>5 DEF Wrlock, WrAnnounce, WrCas, WrAcquire, WrWithdraw, PlainTypes
    <2>4. excl' \in BOOLEAN
      BY <1>5 DEF Wrlock, WrAnnounce, WrCas, WrAcquire, WrWithdraw, PlainTypes
    <2>5. QED
      BY <2>1, <2>2, <2>3, <2>4 DEF PlainTypes
  <1>6. ASSUME NEW t \in Threads, CallUnlock(t) \/ Unlock(t) PROVE PlainTypes'
    <2>1. LabelTypes'
      BY <1>t, <1>6, MovesKeepLabels
         DEF CallUnlock, Unlock, UnTest, UnClear, UnRelease, UnReaders, ReaderLabels,
             WriterLabels, Unlocking
    <2>2. UNCHANGED <<writer_waiting, calls>>
      BY <1>6 DEF CallUnlock, Unlock, UnTest, UnClear, UnRelease, UnReaders
    <2>3. readers' \in Int /\ writer_active' \in {0, 1}
      BY <1>6 DEF CallUnlock, Unlock, UnTest, UnClear, UnRelease, UnReaders, PlainTypes
    <2>4. excl' \in BOOLEAN /\ crashed' \in BOOLEAN
      BY <1>6 DEF CallUnlock, Unlock, UnTest, UnClear, UnRelease, UnReaders, PlainTypes
    <2>5. QED
      BY <2>1, <2>2, <2>3, <2>4 DEF PlainTypes
  <1>7. QED
    BY <1>2, <1>3, <1>4, <1>5, <1>6 DEF Step

In(label, L) == IF label \in L THEN 1 ELSE 0

\* A move keeps the counts when the counters change as the labels do.
LEMMA CountStep ==
    ASSUME PlainTypes, Exact, Balance, ~crashed,
           NEW t \in Threads, NEW label, Goto(t, label),
           readers' \in Int, writer_active' \in {0, 1}, excl' \in BOOLEAN,
           shared' = shared + In(label, Sharing) - In(pc[t], Sharing),
           writer_waiting' = writer_waiting + In(label, Waiting) - In(pc[t], Waiting),
           ~crashed' =>
               /\ readers' + Excl' = readers + Excl + In(label, Entered) - In(pc[t], Entered)
               /\ (Excl' - Excl) + In(label, {"w_acquire"}) - In(pc[t], {"w_acquire"})
                     <= (writer_active' - writer_active) + In(label, {"u_release"})
                           - In(pc[t], {"u_release"})
    PROVE  Exact' /\ Balance'
  <1>1. \A L : /\ Cardinality(At(L)) \in Nat /\ Cardinality(At(L)') \in Nat
               /\ Cardinality(At(L)') = Cardinality(At(L)) + In(label, L) - In(pc[t], L)
    BY CountMoves DEF PlainTypes, In
  <1>2. Exact'
    <2>1. shared' = Cardinality(At(Sharing)')
      BY <1>1 DEF Exact
    <2>2. writer_waiting' = Cardinality(At(Waiting)')
      BY <1>1 DEF Exact
    <2>3. QED
      BY <2>1, <2>2 DEF Exact
  <1>3. Balance'
    <2> SUFFICES ASSUME ~crashed'
                 PROVE  /\ readers' + Excl' = Cardinality(At(Entered)')
                        /\ Excl' + Cardinality(At({"w_acquire"})')
                              <= writer_active' + Cardinality(At({"u_release"})')
      BY DEF Balance
    <2>1. /\ Excl \in {0, 1} /\ Excl' \in {0, 1} /\ readers \in Int
          /\ writer_active \in {0, 1}
          /\ \A a, L : In(a, L) \in {0, 1}
      BY DEF Excl, In, PlainTypes
    <2>2. readers' + Excl' = Cardinality(At(Entered)')
      <3>1. readers + Excl = Cardinality(At(Entered))
        BY DEF Balance
      <3>2. Cardinality(At(Entered)')
               = Cardinality(At(Entered)) + In(label, Entered) - In(pc[t], Entered)
        BY <1>1
      <3>3. QED
        BY <3>1, <3>2
    <2>3. Excl' + Cardinality(At({"w_acquire"})')
             <= writer_active' + Cardinality(At({"u_release"})')
      <3>1. Excl + Cardinality(At({"w_acquire"}))
               <= writer_active + Cardinality(At({"u_release"}))
        BY DEF Balance
      <3>2. /\ Cardinality(At({"w_acquire"})) \in Nat
            /\ Cardinality(At({"u_release"})) \in Nat
            /\ Cardinality(At({"w_acquire"})') = Cardinality(At({"w_acquire"}))
                  + In(label, {"w_acquire"}) - In(pc[t], {"w_acquire"})
            /\ Cardinality(At({"u_release"})') = Cardinality(At({"u_release"}))
                  + In(label, {"u_release"}) - In(pc[t], {"u_release"})
        BY <1>1
      <3>3. QED
        BY <2>1, <3>1, <3>2
    <2>4. QED
      BY <2>2, <2>3
  <1>4. QED
    BY <1>2, <1>3

\* Every step of a process that has not crashed keeps the counts.
LEMMA StepKeepsCounts ==
    ASSUME PlainTypes, PlainTypes', Exact, Balance, ~crashed, Step
    PROVE  Exact' /\ Balance'
  <1> USE DEF srw, counters
  <1>t. /\ readers \in Int /\ writer_waiting \in Int /\ writer_active \in {0, 1}
        /\ excl \in BOOLEAN /\ readers' \in Int /\ writer_active' \in {0, 1}
        /\ excl' \in BOOLEAN /\ shared \in Int
        /\ Readers \subseteq Threads /\ Writers \subseteq Threads
    <2>1. Cardinality(At(Sharing)) \in Nat
      BY FiniteThreads, FS_Subset, FS_CardinalityType DEF At
    <2>2. QED
      BY <2>1 DEF PlainTypes, Exact, Threads
  <1> USE CountStep
      DEF In, Excl, Sharing, Waiting, Entered, Unlocking
  <1>1. ASSUME NEW r \in Readers, Call(r, "r_acquire") PROVE Exact' /\ Balance'
    BY <1>t, <1>1 DEF Call
  <1>2. ASSUME NEW r \in Readers, Rdlock(r) PROVE Exact' /\ Balance'
    <2>1. CASE RdAcquire(r)
      BY <1>t, <2>1 DEF RdAcquire
    <2>2. CASE RdTest(r)
      BY <1>t, <2>2 DEF RdTest
    <2>3. CASE RdCount(r)
      BY <1>t, <2>3 DEF RdCount
    <2>4. CASE RdRelease(r)
      BY <1>t, <2>4 DEF RdRelease
    <2>5. CASE RdRetreat(r)
      BY <1>t, <2>5 DEF RdRetreat
    <2>6. QED
      BY <1>2, <2>1, <2>2, <2>3, <2>4, <2>5 DEF Rdlock
  <1>3. ASSUME NEW w \in Writers, Call(w, "w_announce") PROVE Exact' /\ Balance'
    BY <1>t, <1>3 DEF Call
  <1>4. ASSUME NEW w \in Writers, Wrlock(w) PROVE Exact' /\ Balance'
    <2>1. CASE WrAnnounce(w)
      BY <1>t, <2>1 DEF WrAnnounce
    <2>2. CASE WrCas(w)
      BY <1>t, <2>2 DEF WrCas
    <2>3. CASE WrAcquire(w)
      BY <1>t, <2>3 DEF WrAcquire
    <2>4. CASE WrWithdraw(w)
      BY <1>t, <2>4 DEF WrWithdraw
    <2>5. QED
      BY <1>4, <2>1, <2>2, <2>3, <2>4 DEF Wrlock
  <1>5. ASSUME NEW t \in Threads, CallUnlock(t) PROVE Exact' /\ Balance'
    BY <1>t, <1>5 DEF CallUnlock
  <1>6. ASSUME NEW t \in Threads, Unlock(t) PROVE Exact' /\ Balance'
    <2>1. CASE UnTest(t)
      BY <1>t, <2>1 DEF UnTest
    <2>2. CASE UnClear(t)
      BY <1>t, <2>2 DEF UnClear
    <2>3. CASE UnRelease(t)
      <3>1. /\ pc[t] = "u_release" /\ Goto(t, "idle") /\ excl' = FALSE
            /\ crashed' = ~excl
            /\ shared' = shared /\ readers' = readers
            /\ writer_waiting' = writer_waiting /\ writer_active' = writer_active
        BY <2>3 DEF UnRelease
      <3>2. ~crashed' => excl = TRUE
        BY <1>t, <3>1
      <3>3. ~crashed' => Excl = 1 /\ Excl' = 0
        BY <3>1, <3>2
      <3>4. QED
        BY <1>t, <3>1, <3>3
    <2>4. CASE UnReaders(t)
      BY <1>t, <2>4 DEF UnReaders
    <2>5. QED
      BY <1>6, <2>1, <2>2, <2>3, <2>4 DEF Unlock
  <1>7. QED
    BY <1>1, <1>2, <1>3, <1>4, <1>5, <1>6 DEF Step

-----------------------------------------------------------------------------
(* The flag *)

\* A move that leaves the flag alone keeps its witness when no writer leaves
\* the labels that claim it.
LEMMA FlagStep ==
    ASSUME LabelTypes, FlagHasWriter, NEW t \in Threads, NEW label, Goto(t, label),
           writer_active' = writer_active,
           t \in Writers /\ pc[t] \in Claiming /\ writer_active = 1
               => label \in Claiming
    PROVE  FlagHasWriter'
  <1> SUFFICES ASSUME writer_active' = 1
               PROVE  \E w \in Writers : pc'[w] \in Claiming
    BY DEF FlagHasWriter
  <1>1. PICK w \in Writers : pc[w] \in Claiming
    BY DEF FlagHasWriter
  <1>2. pc'[w] \in Claiming
    BY <1>1 DEF Goto, LabelTypes, Threads
  <1>3. QED
    BY <1>2

\* A flag that is up keeps a writer: one that wins the compare-and-exchange is
\* its witness until some unlock clears the flag.
LEMMA StepKeepsFlag ==
    ASSUME LabelTypes, writer_active \in {0, 1}, FlagHasWriter, Step
    PROVE  FlagHasWriter'
  <1> USE DEF srw, counters
  <1>t. Readers \subseteq Threads /\ Writers \subseteq Threads
        /\ Readers \cap Writers = {}
    BY ThreadAssumption DEF Threads
  <1>1. ASSUME NEW r \in Readers, Call(r, "r_acquire") \/ Rdlock(r)
        PROVE  FlagHasWriter'
    <2>1. r \in Threads /\ r \notin Writers /\ writer_active' = writer_active
      BY <1>t, <1>1
         DEF Call, Rdlock, RdAcquire, RdTest, RdCount, RdRelease, RdRetreat
    <2>2. \E label : Goto(r, label)
      BY <1>1 DEF Call, Rdlock, RdAcquire, RdTest, RdCount, RdRelease, RdRetreat
    <2>3. QED
      BY <2>1, <2>2, FlagStep
  <1>2. ASSUME NEW w \in Writers, Call(w, "w_announce") PROVE FlagHasWriter'
    BY <1>t, <1>2, FlagStep DEF Call, Claiming
  <1>3. ASSUME NEW w \in Writers, Wrlock(w) PROVE FlagHasWriter'
    <2>1. CASE WrAnnounce(w)
      BY <1>t, <2>1, FlagStep DEF WrAnnounce, Claiming
    <2>2. CASE WrCas(w)
      <3>1. pc'[w] = "w_acquire"
        BY <1>t, <2>2 DEF WrCas, Goto, LabelTypes
      <3>2. QED
        BY <3>1 DEF FlagHasWriter, Claiming
    <2>3. CASE WrAcquire(w)
      BY <1>t, <2>3, FlagStep DEF WrAcquire, Claiming
    <2>4. CASE WrWithdraw(w)
      BY <1>t, <2>4, FlagStep DEF WrWithdraw, Claiming
    <2>5. QED
      BY <1>3, <2>1, <2>2, <2>3, <2>4 DEF Wrlock
  <1>4. ASSUME NEW t \in Threads, CallUnlock(t) PROVE FlagHasWriter'
    BY <1>4, FlagStep DEF CallUnlock, Claiming
  <1>5. ASSUME NEW t \in Threads, Unlock(t) PROVE FlagHasWriter'
    <2>1. CASE UnTest(t)
      BY <2>1, FlagStep DEF UnTest, Claiming
    <2>2. CASE UnClear(t)
      BY <2>2 DEF UnClear, FlagHasWriter
    <2>3. CASE UnRelease(t)
      BY <2>3, FlagStep DEF UnRelease, Claiming
    <2>4. CASE UnReaders(t)
      BY <2>4, FlagStep DEF UnReaders, Claiming
    <2>5. QED
      BY <1>5, <2>1, <2>2, <2>3, <2>4 DEF Unlock
  <1>6. QED
    BY <1>1, <1>2, <1>3, <1>4, <1>5 DEF Step

-----------------------------------------------------------------------------
(* Until the first overlap *)

\* A move that changes neither the flag nor the SRWLOCK's exclusive bit keeps
\* the writers apart when it brings nobody into a new claim.
LEMMA ApartStep ==
    ASSUME LabelTypes, Apart, NEW t \in Threads, NEW label, Goto(t, label),
           UNCHANGED <<writer_active, excl>>,
           t \in Readers => label \notin {"u_clear", "u_release"},
           t \in Writers => /\ label # "u_readers"
                            /\ label \in Claiming => pc[t] \in Claiming
                            /\ label \in Holding => pc[t] \in Holding
    PROVE  Apart'
  <1>1. /\ pc'[t] = label
        /\ \A u \in Threads \ {t} : pc'[u] = pc[u]
        /\ Readers \subseteq Threads /\ Writers \subseteq Threads
    BY DEF Goto, LabelTypes, Threads
  <1>2. /\ \A r \in Readers : pc'[r] \notin {"u_clear", "u_release"}
        /\ \A w \in Writers : pc'[w] # "u_readers"
    BY <1>1 DEF Apart
  <1>3. \A w \in Writers : /\ pc'[w] \in Claiming => pc[w] \in Claiming
                           /\ pc'[w] \in Holding => pc[w] \in Holding
    BY <1>1
  <1>4. QED
    BY <1>2, <1>3 DEF Apart

\* While readers and writers have not met, a step that does not let them meet
\* keeps the writers apart and releases only an SRWLOCK that is held.
LEMMA StepKeepsApart ==
    ASSUME LabelTypes, writer_active \in {0, 1}, excl \in BOOLEAN,
           FlagHasWriter, ~Overlap, ~crashed, Apart, Step
    PROVE  Apart' /\ ~crashed'
  <1> USE DEF srw, counters
  <1>t. /\ Readers \subseteq Threads /\ Writers \subseteq Threads
        /\ Readers \cap Writers = {} /\ Threads = Readers \cup Writers
    BY ThreadAssumption DEF Threads
  <1>m. ASSUME NEW t \in Threads, NEW label, Goto(t, label)
        PROVE  pc'[t] = label /\ \A u \in Threads \ {t} : pc'[u] = pc[u]
    BY <1>m DEF Goto, LabelTypes
  <1>1. ASSUME NEW r \in Readers, Call(r, "r_acquire") \/ Rdlock(r)
        PROVE  Apart' /\ ~crashed'
    <2>1. r \in Threads /\ r \notin Writers /\ UNCHANGED <<writer_active, excl, crashed>>
      BY <1>t, <1>1
         DEF Call, Rdlock, RdAcquire, RdTest, RdCount, RdRelease, RdRetreat
    <2>2. \E label : Goto(r, label) /\ label \notin {"u_clear", "u_release"}
      BY <1>1 DEF Call, Rdlock, RdAcquire, RdTest, RdCount, RdRelease, RdRetreat
    <2>3. QED
      BY <2>1, <2>2, ApartStep
  <1>2. ASSUME NEW w \in Writers, Call(w, "w_announce") PROVE Apart' /\ ~crashed'
    BY <1>t, <1>2, ApartStep DEF Call, Claiming, Holding
  <1>3. ASSUME NEW w \in Writers, Wrlock(w) PROVE Apart' /\ ~crashed'
    <2>1. CASE WrAnnounce(w)
      BY <1>t, <2>1, ApartStep DEF WrAnnounce, Claiming, Holding
    <2>2. CASE WrCas(w)
      <3>1. /\ pc'[w] = "w_acquire" /\ \A u \in Threads \ {w} : pc'[u] = pc[u]
            /\ writer_active = 0 /\ writer_active' = 1
            /\ excl' = excl /\ crashed' = crashed
        BY <1>t, <1>m, <2>2 DEF WrCas
      <3>2. \A v \in Writers : pc[v] \notin Claiming
        BY <3>1 DEF Apart
      <3>3. \A v \in Writers : pc'[v] \in Claiming => v = w
        BY <1>t, <3>1, <3>2
      <3>4. \A v \in Writers : pc'[v] \in Holding => pc[v] \in Holding
        BY <1>t, <3>1 DEF Holding
      <3>5. /\ \A r \in Readers : pc'[r] \notin {"u_clear", "u_release"}
            /\ \A v \in Writers : pc'[v] # "u_readers"
        BY <1>t, <3>1 DEF Apart
      <3>6. QED
        BY <3>1, <3>3, <3>4, <3>5 DEF Apart
    <2>3. CASE WrAcquire(w)
      <3>1. /\ pc[w] = "w_acquire" /\ pc'[w] = "w_withdraw"
            /\ \A u \in Threads \ {w} : pc'[u] = pc[u]
            /\ ~excl /\ excl' = TRUE
            /\ writer_active' = writer_active /\ crashed' = crashed
        BY <1>t, <1>m, <2>3 DEF WrAcquire
      <3>2. \A v \in Writers : pc[v] \notin Holding
        BY <3>1 DEF Apart
      <3>3. \A v \in Writers : pc'[v] \in Holding => v = w
        BY <1>t, <3>1, <3>2
      <3>4. \A v \in Writers : pc'[v] \in Claiming => pc[v] \in Claiming
        BY <1>t, <3>1 DEF Claiming
      <3>5. /\ \A r \in Readers : pc'[r] \notin {"u_clear", "u_release"}
            /\ \A v \in Writers : pc'[v] # "u_readers"
        BY <1>t, <3>1 DEF Apart
      <3>6. QED
        BY <3>1, <3>3, <3>4, <3>5 DEF Apart
    <2>4. CASE WrWithdraw(w)
      BY <1>t, <2>4, ApartStep DEF WrWithdraw, Claiming, Holding
    <2>5. QED
      BY <1>3, <2>1, <2>2, <2>3, <2>4 DEF Wrlock
  <1>4. ASSUME NEW t \in Threads, CallUnlock(t) PROVE Apart' /\ ~crashed'
    <2>1. t \in Writers => pc[t] = "writing"
      BY <1>4 DEF CallUnlock, LabelTypes, WriterLabels, Unlocking
    <2>2. QED
      BY <1>4, <2>1, ApartStep DEF CallUnlock, Claiming, Holding
  <1>5. ASSUME NEW t \in Threads, UnTest(t) PROVE Apart' /\ ~crashed'
    <2>1. t \in Readers => writer_active = 0
      <3> SUFFICES ASSUME t \in Readers, writer_active = 1 PROVE FALSE
        OBVIOUS
      <3>1. PICK w \in Writers : pc[w] \in Claiming
        BY DEF FlagHasWriter
      <3>2. WriterInside(w)
        BY <3>1 DEF WriterInside, Claiming, Unlocking
      <3>3. ReaderInside(t)
        BY <1>5 DEF UnTest, ReaderInside, Unlocking
      <3>4. QED
        BY <3>2, <3>3 DEF Overlap
    <2>2. t \in Writers => writer_active = 1
      BY <1>5 DEF UnTest, Apart, Claiming
    <2>3. CASE t \in Readers
      BY <1>t, <1>5, <2>1, <2>3, ApartStep DEF UnTest
    <2>4. CASE t \in Writers
      <3>1. Goto(t, "u_clear") /\ pc[t] = "u_test"
        BY <1>5, <2>2, <2>4 DEF UnTest
      <3>2. QED
        BY <1>t, <1>5, <2>4, <3>1, ApartStep DEF UnTest, Claiming, Holding
    <2>5. QED
      BY <1>t, <2>3, <2>4
  <1>6. ASSUME NEW t \in Threads, UnClear(t) PROVE Apart' /\ ~crashed'
    <2>1. /\ pc[t] = "u_clear" /\ pc'[t] = "u_release"
          /\ \A u \in Threads \ {t} : pc'[u] = pc[u]
          /\ excl' = excl /\ crashed' = crashed
      BY <1>m, <1>6 DEF UnClear
    <2>2. t \in Writers /\ t \notin Readers
      BY <1>t, <2>1 DEF Apart
    <2>3. \A v \in Writers : pc'[v] \notin Claiming
      BY <1>t, <2>1, <2>2 DEF Apart, Claiming
    <2>4. \A v \in Writers : pc'[v] \in Holding => pc[v] \in Holding
      BY <1>t, <2>1 DEF Holding
    <2>5. /\ \A r \in Readers : pc'[r] \notin {"u_clear", "u_release"}
          /\ \A v \in Writers : pc'[v] # "u_readers"
      BY <1>t, <2>1, <2>2 DEF Apart
    <2>6. QED
      BY <2>1, <2>3, <2>4, <2>5 DEF Apart
  <1>7. ASSUME NEW t \in Threads, UnRelease(t) PROVE Apart' /\ ~crashed'
    <2>1. /\ pc[t] = "u_release" /\ pc'[t] = "idle"
          /\ \A u \in Threads \ {t} : pc'[u] = pc[u]
          /\ writer_active' = writer_active /\ crashed' = ~excl
      BY <1>m, <1>7 DEF UnRelease
    <2>2. t \in Writers /\ t \notin Readers
      BY <1>t, <2>1 DEF Apart
    <2>3. excl
      BY <2>1, <2>2 DEF Apart, Holding
    <2>4. \A v \in Writers : pc'[v] \notin Holding
      BY <1>t, <2>1, <2>2 DEF Apart, Holding
    <2>5. \A v \in Writers : pc'[v] \in Claiming => pc[v] \in Claiming
      BY <1>t, <2>1 DEF Claiming
    <2>6. /\ \A r \in Readers : pc'[r] \notin {"u_clear", "u_release"}
          /\ \A v \in Writers : pc'[v] # "u_readers"
      BY <1>t, <2>1, <2>2 DEF Apart
    <2>7. Apart'
      BY <2>1, <2>4, <2>5, <2>6 DEF Apart
    <2>8. ~crashed'
      BY <2>1, <2>3
    <2>9. QED
      BY <2>7, <2>8
  <1>8. ASSUME NEW t \in Threads, UnReaders(t) PROVE Apart' /\ ~crashed'
    BY <1>8, ApartStep DEF UnReaders, Claiming, Holding
  <1>9. QED
    BY <1>1, <1>2, <1>3, <1>4, <1>5, <1>6, <1>7, <1>8 DEF Step, Unlock

-----------------------------------------------------------------------------
(* The theorems *)

\* Every step, also one of threads that have met, keeps the whole invariant.
LEMMA StepKeepsInv == Inv /\ [Next]_vars => Inv'
  <1>1. ASSUME Inv, ~crashed, Step, overlap' = (overlap \/ Overlap')
        PROVE  Inv'
    <2>1. /\ PlainTypes /\ LabelTypes /\ writer_active \in {0, 1} /\ excl \in BOOLEAN
          /\ overlap \in BOOLEAN /\ Exact /\ Balance /\ FlagHasWriter /\ Separate
      BY <1>1 DEF Inv, PlainTypes
    <2>2. overlap' \in BOOLEAN
      BY <1>1, <2>1 DEF Overlap
    <2>3. PlainTypes'
      BY <1>1, <2>1, <2>2, StepKeepsTypes
    <2>4. Exact' /\ Balance'
      BY <1>1, <2>1, <2>3, StepKeepsCounts
    <2>5. FlagHasWriter'
      BY <1>1, <2>1, StepKeepsFlag
    <2>6. Separate'
      <3> SUFFICES ASSUME ~overlap' PROVE ~Overlap' /\ ~crashed' /\ Apart'
        BY DEF Separate
      <3>1. ~overlap /\ ~Overlap'
        BY <1>1
      <3>2. ~Overlap /\ Apart
        BY <2>1, <3>1 DEF Separate
      <3>3. QED
        BY <1>1, <2>1, <3>1, <3>2, StepKeepsApart
    <2>7. QED
      BY <2>3, <2>4, <2>5, <2>6 DEF Inv
  <1>2. ASSUME Inv, UNCHANGED vars PROVE Inv'
    <2>1. UNCHANGED <<shared, excl, readers, writer_waiting, writer_active, pc,
                      calls, crashed, overlap>>
      BY <1>2 DEF vars, srw, counters
    <2>2. PlainTypes' /\ FlagHasWriter'
      BY <1>2, <2>1 DEF Inv, PlainTypes, LabelTypes, FlagHasWriter
    <2>3. Exact' /\ Balance'
      BY <1>2, <2>1 DEF Inv, Exact, Balance, Excl, At
    <2>4. Separate'
      BY <1>2, <2>1 DEF Inv, Separate, Apart, Overlap, ReaderInside, WriterInside
    <2>5. QED
      BY <2>2, <2>3, <2>4 DEF Inv
  <1>3. QED
    BY <1>1, <1>2 DEF Next

\* The inductive invariant holds of every behaviour of the lock.
THEOREM InvHolds == Spec => []Inv
  <1>1. Init => Inv
    BY InvInitially
  <1>2. Inv /\ [Next]_vars => Inv'
    BY StepKeepsInv
  <1>3. QED
    BY <1>1, <1>2, PTL DEF Spec

\* Every variable keeps its type: in particular the SRWLOCK's count of sharers
\* never goes below zero, whoever unlocks what.
THEOREM TypeCorrect == Spec => []TypeOK
  <1>1. Inv => TypeOK
    <2> SUFFICES ASSUME Inv PROVE TypeOK
      OBVIOUS
    <2>1. Cardinality(At(Sharing)) \in Nat
      BY FiniteThreads, FS_Subset, FS_CardinalityType DEF At
    <2>2. QED
      BY <2>1 DEF Inv, Exact, PlainTypes, LabelTypes, TypeOK
  <1>2. QED
    BY <1>1, InvHolds, PTL

\* writer_waiting counts exactly the writers between announcement and entry,
\* for any number of threads and whatever overlaps have happened.
THEOREM WaitingIsExact == Spec => []WaitingCountExact
  <1>1. Inv => WaitingCountExact
    <2> SUFFICES ASSUME Inv PROVE WaitingCountExact
      OBVIOUS
    <2>1. At(Waiting) = {w \in Writers : pc[w] \in {"w_cas", "w_acquire", "w_withdraw"}}
      BY DEF Inv, PlainTypes, LabelTypes, ReaderLabels, Unlocking, At, Waiting, Threads
    <2>2. QED
      BY <2>1 DEF Inv, Exact, WaitingCountExact
  <1>2. QED
    BY <1>1, InvHolds, PTL

\* Until a reader and a writer are inside together, writers exclude each other
\* and the SRWLOCK is released only by its holder.
THEOREM WritersAreSafeUntilOverlap == Spec => []SafeUntilOverlap
  <1>1. Inv => SafeUntilOverlap
    BY DEF Inv, Separate, Apart, SafeUntilOverlap
  <1>2. QED
    BY <1>1, InvHolds, PTL

\* When every thread is out, every counter and the SRWLOCK are as after init,
\* also after overlaps, unless an SRWLOCK that nobody held was released.
THEOREM LockIsCleanAtRest == Spec => []QuiescentClean
  <1>1. Inv => QuiescentClean
    <2> SUFFICES ASSUME Inv, \A t \in Threads : pc[t] = "idle", ~crashed
                 PROVE  /\ readers = 0 /\ writer_waiting = 0 /\ writer_active = 0
                        /\ shared = 0 /\ ~excl
      BY DEF QuiescentClean
    <2>1. /\ At(Sharing) = {} /\ At(Waiting) = {} /\ At(Entered) = {}
          /\ At({"w_acquire"}) = {} /\ At({"u_release"}) = {}
      BY DEF At, Sharing, Waiting, Entered, Unlocking
    <2>2. shared = 0 /\ writer_waiting = 0
      BY <2>1, FS_EmptySet DEF Inv, Exact
    <2>3. writer_active = 0
      BY DEF Inv, PlainTypes, FlagHasWriter, Claiming, Threads
    <2>4. readers + Excl = 0 /\ Excl + 0 <= writer_active + 0
      BY <2>1, FS_EmptySet DEF Inv, Balance
    <2>5. Excl = 0
      BY <2>3, <2>4 DEF Excl
    <2>6. ~excl
      BY <2>5 DEF Excl
    <2>7. readers = 0
      BY <2>4, <2>5 DEF Inv, PlainTypes
    <2>8. QED
      BY <2>2, <2>3, <2>6, <2>7
  <1>2. QED
    BY <1>1, InvHolds, PTL
=============================================================================
