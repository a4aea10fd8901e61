-------------------------- MODULE DiagnosticsProofs --------------------------
(***************************************************************************)
(* Proofs about vf_log.h and vf_test.h, for any threads, files, tests and  *)
(* limits.                                                                 *)
(***************************************************************************)
EXTENDS VfTest, VfLog, FiniteSetTheorems, SequenceTheorems, WellFoundedInduction, TLAPS

(***************************************************************************)
(* vf_log.h: every line of every file is one whole message                 *)
(***************************************************************************)

Pieces == [by : LogThreads, part : Parts]

\* What Whole says of a file, said of a sequence of written parts
WholeLines(s) == \A k \in DOMAIN s :
                    /\ s[k].part = ((k - 1) % 4) + 1
                    /\ s[k].part > 1 => s[k].by = s[k - 1].by

\* A message has four parts.
LEMMA FourParts == Cardinality(Parts) = 4
<1>1. Cardinality(1..4) = IF 1 > 4 THEN 0 ELSE 4 - 1 + 1
  BY 1 \in Int, 4 \in Int, FS_Interval, Zenon
<1>. QED  BY <1>1 DEF Parts

\* The next part of the message that the last part belongs to, or the first
\* part of a message behind whole lines, leaves whole lines.
LEMMA LineGrows ==
    ASSUME NEW s \in Seq(Pieces), WholeLines(s), NEW t \in LogThreads, NEW p \in Parts,
           Len(s) % 4 = p - 1,
           p > 1 => s[Len(s)].by = t
    PROVE  LET g == Append(s, [by |-> t, part |-> p])
           IN  /\ g \in Seq(Pieces)
               /\ WholeLines(g)
               /\ Len(g) % 4 = p % 4
               /\ Len(g) > 0
               /\ g[Len(g)].by = t
<1>. DEFINE e == [by |-> t, part |-> p]
            g == Append(s, e)
            n == Len(s)
<1>1. e \in Pieces  BY DEF Pieces
<1>2. n \in Nat  OBVIOUS
<1>3. g \in Seq(Pieces) /\ Len(g) = n + 1  BY <1>1
<1>4. \A k \in 1..n : g[k] = s[k]  BY <1>1
<1>5. g[n + 1] = e  BY <1>1
<1>6. DOMAIN s = 1..n /\ DOMAIN g = 1..(n + 1)  BY <1>3
<1>7. n % 4 = p - 1 /\ p \in 1..4  BY DEF Parts
<1>8. (n + 1) % 4 = p % 4
  <2>. HIDE DEF n
  <2>. QED  BY <1>2, <1>7
<1>9. WholeLines(g)
  <2>. SUFFICES ASSUME NEW k \in 1..(n + 1)
                PROVE  /\ g[k].part = ((k - 1) % 4) + 1
                       /\ g[k].part > 1 => g[k].by = g[k - 1].by
    BY <1>6 DEF WholeLines
  <2>1. CASE k \in 1..n
    <3>1. /\ s[k].part = ((k - 1) % 4) + 1
          /\ s[k].part > 1 => s[k].by = s[k - 1].by
      BY <2>1, <1>6 DEF WholeLines
    <3>2. s[k].part > 1 => k - 1 \in 1..n
      <4>. HIDE DEF n
      <4>. QED  BY <3>1, <2>1, <1>2
    <3>. HIDE DEF g, n
    <3>. QED  BY <3>1, <3>2, <2>1, <1>4
  <2>2. CASE k = n + 1
    <3>1. g[k].part = p /\ g[k].by = t  BY <2>2, <1>5
    <3>2. p = ((k - 1) % 4) + 1
      <4>. HIDE DEF n
      <4>. QED  BY <2>2, <1>2, <1>7
    <3>3. p > 1 => k - 1 \in 1..n /\ k - 1 = n
      <4>. HIDE DEF n
      <4>. QED  BY <2>2, <1>2, <1>7
    <3>4. p > 1 => s[n].by = t  OBVIOUS
    <3>. HIDE DEF g, n
    <3>. QED  BY <3>1, <3>2, <3>3, <3>4, <1>4
  <2>. HIDE DEF n, g
  <2>. QED  BY <2>1, <2>2, <1>2
<1>10. g[n + 1].by = t  BY <1>5
<1>. HIDE DEF n, g
<1>11. /\ g \in Seq(Pieces) /\ WholeLines(g) /\ Len(g) % 4 = p % 4
       /\ Len(g) > 0 /\ g[Len(g)].by = t
  BY <1>2, <1>3, <1>8, <1>9, <1>10
<1>. QED  BY <1>11 DEF g

-----------------------------------------------------------------------------

\* While the logger is announced and its handle copied, the handle's file is open.
HandleIsOpen == /\ log_owner # LogNull => vf_log_initialized /\ log_owner \in log_open
                /\ vf_log_initialized /\ log_owner = LogNull => log_handle \in log_open

\* A message that met no init and no shutdown is written between them.
LoggingIsInside == ~log_raced /\ Logging => vf_log_initialized /\ log_owner = LogNull

\* A thread inside a message has written the parts before log_at at the end of
\* the handle's file.
MidLine(t) == /\ Len(log_text[log_handle]) % 4 = log_at[t] - 1
              /\ log_at[t] > 1 => log_text[log_handle][Len(log_text[log_handle])].by = t

\* As long as no message met another, one thread at most is inside a message.
Alone == \A t, u \in LogThreads : log_at[t] # 0 /\ log_at[u] # 0 => t = u

LinesAreWhole ==
    /\ Alone
    /\ \A f \in LogFiles : WholeLines(log_text[f])
    /\ \A f \in LogFiles : f # log_handle \/ ~Logging => Len(log_text[f]) % 4 = 0
    /\ \A t \in LogThreads : log_at[t] # 0 => MidLine(t)

LogInv == /\ LogTypeOK
          /\ HandleIsOpen
          /\ LoggingIsInside
          /\ log_bad => log_raced
          /\ ~log_raced /\ ~log_mixed => LinesAreWhole

\* What Whole says of a file is what WholeLines says of its text.
LEMMA WholeIsWholeLines ==
    ASSUME NEW f \in LogFiles
    PROVE  Whole(f) <=> WholeLines(log_text[f])
BY FourParts DEF Whole, WholeLines

LEMMA LogInitInv == LogInit => LogInv
<1>. SUFFICES ASSUME LogInit PROVE LogInv  OBVIOUS
<1>. USE DEF LogInit
<1>1. LogTypeOK
  <2>1. <<>> \in Seq([by : LogThreads, part : Parts])  OBVIOUS
  <2>2. log_text \in [LogFiles -> Seq([by : LogThreads, part : Parts])]  BY <2>1
  <2>3. log_messages \in 0..MaxMessages  BY LogAssumption
  <2>. QED  BY <2>2, <2>3 DEF LogTypeOK, Parts
<1>2. ~Logging  BY DEF Logging
<1>3. HandleIsOpen /\ LoggingIsInside  BY <1>2 DEF HandleIsOpen, LoggingIsInside
<1>4. LinesAreWhole
  <2>1. \A f \in LogFiles : Len(log_text[f]) % 4 = 0  OBVIOUS
  <2>2. \A f \in LogFiles : WholeLines(log_text[f])  BY DEF WholeLines
  <2>. QED  BY <1>2, <2>1, <2>2 DEF LinesAreWhole, Alone, Logging
<1>. QED  BY <1>1, <1>3, <1>4 DEF LogInv

\* Nothing that LinesAreWhole speaks of changes, and Logging does not come about.
LEMMA LinesUnchanged ==
    ASSUME LinesAreWhole, UNCHANGED <<log_at, log_text, log_handle>>
    PROVE  LinesAreWhole'
BY DEF LinesAreWhole, Alone, MidLine, Logging

LEMMA LogInitCallKeepsInv ==
    ASSUME LogInv, NEW f \in LogFiles, vf_log_init(f)
    PROVE  LogInv'
<1>. USE DEF LogInv
<1>1. CASE InitAnnounces(f)
  <2>. USE <1>1 DEF InitAnnounces
  <2>1. LogTypeOK'  BY DEF LogTypeOK
  <2>2. HandleIsOpen'
    <3>1. f # LogNull  BY LogAssumption
    <3>. QED  BY <3>1 DEF HandleIsOpen
  <2>3. ~log_raced => ~Logging  BY DEF LoggingIsInside
  <2>4. LoggingIsInside'  BY <2>3 DEF LoggingIsInside, Logging
  <2>5. (log_bad => log_raced)'  OBVIOUS
  <2>6. (~log_raced /\ ~log_mixed => LinesAreWhole)'  BY LinesUnchanged
  <2>. QED  BY <2>1, <2>2, <2>4, <2>5, <2>6
<1>2. CASE InitCopiesHandle(f)
  <2>. USE <1>2 DEF InitCopiesHandle
  <2>1. LogTypeOK'  BY DEF LogTypeOK
  <2>2. log_owner # LogNull  BY LogAssumption
  <2>3. HandleIsOpen'  BY <2>2 DEF HandleIsOpen
  <2>4. ~log_raced => ~Logging  BY <2>2 DEF LoggingIsInside
  <2>5. LoggingIsInside'  BY <2>4 DEF LoggingIsInside, Logging
  <2>6. (log_bad => log_raced)'  OBVIOUS
  <2>7. (~log_raced /\ ~log_mixed => LinesAreWhole)'
    <3>. SUFFICES ASSUME ~log_raced, ~log_mixed PROVE LinesAreWhole'  OBVIOUS
    <3>1. LinesAreWhole /\ ~Logging /\ ~Logging'  BY <2>4 DEF Logging
    <3>. QED  BY <3>1 DEF LinesAreWhole, Alone, MidLine, Logging
  <2>. QED  BY <2>1, <2>3, <2>5, <2>6, <2>7
<1>. QED  BY <1>1, <1>2 DEF vf_log_init

LEMMA LogShutdownKeepsInv ==
    ASSUME LogInv, vf_log_shutdown
    PROVE  LogInv'
<1>. USE DEF LogInv, vf_log_shutdown
<1>1. LogTypeOK'
  <2>1. log_raced' \in BOOLEAN  BY DEF LogTypeOK, Logging
  <2>. QED  BY <2>1 DEF LogTypeOK
<1>2. HandleIsOpen'  BY DEF HandleIsOpen
<1>3. LoggingIsInside'  BY DEF LoggingIsInside, Logging
<1>4. (log_bad => log_raced)'  OBVIOUS
<1>5. (~log_raced /\ ~log_mixed => LinesAreWhole)'
  <2>. SUFFICES ASSUME ~log_raced', ~log_mixed' PROVE LinesAreWhole'  OBVIOUS
  <2>1. ~log_raced /\ ~log_mixed  OBVIOUS
  <2>. QED  BY <2>1, LinesUnchanged
<1>. QED  BY <1>1, <1>2, <1>3, <1>4, <1>5

LEMMA OwnerClosesKeepsInv ==
    ASSUME LogInv, OwnerCloses
    PROVE  LogInv'
<1>. USE DEF LogInv, OwnerCloses
<1>1. LogTypeOK'  BY DEF LogTypeOK
<1>2. HandleIsOpen'  BY DEF HandleIsOpen
<1>3. LoggingIsInside'  BY DEF LoggingIsInside, Logging
<1>4. (log_bad => log_raced)'  OBVIOUS
<1>5. (~log_raced /\ ~log_mixed => LinesAreWhole)'  BY LinesUnchanged
<1>. QED  BY <1>1, <1>2, <1>3, <1>4, <1>5

LEMMA MessageBeginsKeepsInv ==
    ASSUME LogInv, NEW t \in LogThreads, MessageBegins(t)
    PROVE  LogInv'
<1>. USE DEF LogInv, MessageBegins
<1>0. log_at \in [LogThreads -> Parts \cup {0}]  BY DEF LogTypeOK
<1>1. LogTypeOK'
  <2>1. log_mixed' \in BOOLEAN /\ log_raced' \in BOOLEAN  BY DEF LogTypeOK, Logging
  <2>2. log_at' \in [LogThreads -> Parts \cup {0}]  BY <1>0 DEF Parts
  <2>3. log_messages' \in 0..MaxMessages  BY LogAssumption DEF LogTypeOK
  <2>. QED  BY <2>1, <2>2, <2>3 DEF LogTypeOK
<1>2. HandleIsOpen'  BY DEF HandleIsOpen
<1>3. LoggingIsInside'  BY DEF LoggingIsInside, MayLog
<1>4. (log_bad => log_raced)'  OBVIOUS
<1>5. (~log_raced /\ ~log_mixed => LinesAreWhole)'
  <2>. SUFFICES ASSUME ~log_raced', ~log_mixed' PROVE LinesAreWhole'  OBVIOUS
  <2>1. ~log_raced /\ ~log_mixed /\ ~Logging /\ log_owner = LogNull  OBVIOUS
  <2>2. LinesAreWhole  BY <2>1
  <2>3. \A u \in LogThreads : log_at'[u] = IF u = t THEN 1 ELSE 0
    BY <1>0, <2>1 DEF Logging
  <2>4. Alone'  BY <2>3 DEF Alone
  <2>5. log_handle \in LogFiles
    BY <2>1 DEF HandleIsOpen, LogTypeOK, MayLog
  <2>6. Len(log_text[log_handle]) % 4 = 0  BY <2>1, <2>2, <2>5 DEF LinesAreWhole
  <2>7. \A u \in LogThreads : log_at'[u] # 0 => MidLine(u)'
    <3>1. \A u \in LogThreads : log_at'[u] # 0 => log_at'[u] = 1  BY <2>3
    <3>2. log_text' = log_text /\ log_handle' = log_handle  OBVIOUS
    <3>3. \A n : n = 1 => n - 1 = 0 /\ ~(n > 1)  OBVIOUS
    <3>. QED  BY <3>1, <3>2, <3>3, <2>6, Zenon DEF MidLine
  <2>. QED  BY <2>1, <2>2, <2>4, <2>7 DEF LinesAreWhole
<1>. QED  BY <1>1, <1>2, <1>3, <1>4, <1>5

\* A part is written by the only thread inside a message, to the open file.
LEMMA PartKeepsLines ==
    ASSUME LogInv, NEW t \in LogThreads, MessageWrites(t), ~log_raced, ~log_mixed
    PROVE  LinesAreWhole' /\ ~log_bad'
<1>. DEFINE f == log_handle
            p == log_at[t]
            s == log_text[f]
            e == [by |-> t, part |-> p]
<1>. USE DEF LogInv, MessageWrites
<1>1. log_at \in [LogThreads -> Parts \cup {0}] /\ p \in Parts  BY DEF LogTypeOK
<1>2. vf_log_initialized /\ log_owner = LogNull  BY DEF LoggingIsInside, Logging
<1>3. f \in log_open /\ f \in LogFiles  BY <1>2 DEF HandleIsOpen, LogTypeOK
<1>4. log_text \in [LogFiles -> Seq(Pieces)]  BY DEF LogTypeOK, Pieces
<1>5. s \in Seq(Pieces)  BY <1>3, <1>4
<1>6. log_text' = [log_text EXCEPT ![f] = Append(s, e)] /\ ~log_bad'  BY <1>3
<1>7. WholeLines(s) /\ MidLine(t)  BY <1>3 DEF LinesAreWhole
<1>8. /\ Len(s) % 4 = p - 1
      /\ p > 1 => s[Len(s)].by = t
  BY <1>7 DEF MidLine
<1>9. /\ WholeLines(Append(s, e))
      /\ Len(Append(s, e)) % 4 = p % 4
      /\ Append(s, e)[Len(Append(s, e))].by = t
  <2>. HIDE DEF s, p
  <2>. QED  BY <1>1, <1>5, <1>7, <1>8, LineGrows
<1>10. log_text'[f] = Append(s, e)  BY <1>3, <1>4, <1>6
<1>11. \A g \in LogFiles : g # f => log_text'[g] = log_text[g]  BY <1>4, <1>6
<1>12. log_at'[t] = (p + 1) % 5
  BY <1>1, FourParts
<1>13. \A u \in LogThreads : u # t => log_at'[u] = 0
  BY <1>1 DEF LinesAreWhole, Alone
<1>14. log_at'[t] # 0 => log_at'[t] = p + 1 /\ p % 4 = p
  <2>. HIDE DEF p
  <2>. QED  BY <1>1, <1>12 DEF Parts
<1>15. log_at'[t] = 0 => p % 4 = 0
  <2>. HIDE DEF p
  <2>. QED  BY <1>1, <1>12 DEF Parts
<1>16. p \in 1..4  BY <1>1 DEF Parts
<1>17. Alone'  BY <1>13 DEF Alone
<1>18. log_handle' = f  OBVIOUS
<1>19. \A g \in LogFiles : WholeLines(log_text[g])'
  <2>. HIDE DEF s, e, f
  <2>1. \A g \in LogFiles : WholeLines(log_text'[g])
    BY <1>9, <1>10, <1>11 DEF LinesAreWhole, f
  <2>. QED  BY <2>1 DEF WholeLines
<1>20. \A u \in LogThreads : log_at'[u] # 0 => MidLine(u)'
  <2>1. SUFFICES ASSUME log_at'[t] # 0 PROVE MidLine(t)'  BY <1>13
  <2>2. log_at'[t] - 1 = p /\ p % 4 = p
    <3>. HIDE DEF p
    <3>. QED  BY <2>1, <1>14, <1>16
  <2>. HIDE DEF s, e, p
  <2>. QED  BY <2>2, <1>9, <1>10, <1>18 DEF MidLine
<1>21. \A g \in LogFiles : g # log_handle' \/ ~Logging' => Len(log_text'[g]) % 4 = 0
  <2>. SUFFICES ASSUME NEW g \in LogFiles, g # log_handle' \/ ~Logging'
                PROVE  Len(log_text'[g]) % 4 = 0
    OBVIOUS
  <2>1. CASE g # f
    BY <2>1, <1>11 DEF LinesAreWhole
  <2>2. CASE g = f
    <3>1. log_at'[t] = 0  BY <2>2, <1>18 DEF Logging
    <3>. HIDE DEF s, e, p, f
    <3>. QED  BY <2>2, <3>1, <1>15, <1>9, <1>10
  <2>. QED  BY <2>1, <2>2
<1>. QED  BY <1>6, <1>17, <1>19, <1>20, <1>21 DEF LinesAreWhole

LEMMA MessageWritesKeepsInv ==
    ASSUME LogInv, NEW t \in LogThreads, MessageWrites(t)
    PROVE  LogInv'
<1>. USE DEF LogInv, MessageWrites
<1>0. log_at \in [LogThreads -> Parts \cup {0}] /\ log_at[t] \in Parts  BY DEF LogTypeOK
<1>1. LogTypeOK'
  <2>1. (log_at[t] + 1) % 5 \in Parts \cup {0}
    <3>1. \A p \in 1..4 : (p + 1) % 5 \in 1..4 \cup {0}  OBVIOUS
    <3>. QED  BY <3>1, <1>0 DEF Parts
  <2>2. log_at' \in [LogThreads -> Parts \cup {0}]  BY <1>0, <2>1, FourParts
  <2>3. log_text' \in [LogFiles -> Seq([by : LogThreads, part : Parts])]
    <3>1. CASE log_handle \in log_open
      <4>. DEFINE e == [by |-> t, part |-> log_at[t]]
      <4>1. log_handle \in LogFiles  BY <3>1 DEF LogTypeOK
      <4>2. e \in [by : LogThreads, part : Parts]  BY <1>0
      <4>3. log_text \in [LogFiles -> Seq([by : LogThreads, part : Parts])]  BY DEF LogTypeOK
      <4>4. Append(log_text[log_handle], e) \in Seq([by : LogThreads, part : Parts])
        <5>1. log_text[log_handle] \in Seq([by : LogThreads, part : Parts])
          BY <4>1, <4>3
        <5>. HIDE DEF e
        <5>. QED  BY <5>1, <4>2, AppendProperties
      <4>. QED  BY <3>1, <4>1, <4>3, <4>4
    <3>2. CASE log_handle \notin log_open
      BY <3>2 DEF LogTypeOK
    <3>. QED  BY <3>1, <3>2
  <2>4. log_bad' \in BOOLEAN  BY DEF LogTypeOK
  <2>. QED  BY <2>2, <2>3, <2>4 DEF LogTypeOK
<1>2. HandleIsOpen'  BY DEF HandleIsOpen
<1>3. LoggingIsInside'
  <2>1. Logging  BY DEF Logging
  <2>. QED  BY <2>1 DEF LoggingIsInside
<1>4. (log_bad => log_raced)'
  <2>. SUFFICES ASSUME log_bad', ~log_raced' PROVE FALSE  OBVIOUS
  <2>1. ~log_raced /\ Logging  BY DEF Logging
  <2>2. log_handle \in log_open  BY <2>1 DEF LoggingIsInside, HandleIsOpen
  <2>. QED  BY <2>2
<1>5. (~log_raced /\ ~log_mixed => LinesAreWhole)'  BY PartKeepsLines
<1>. QED  BY <1>1, <1>2, <1>3, <1>4, <1>5

LEMMA LogStepKeepsInv == LogInv /\ [LogNext]_log_vars => LogInv'
<1>. SUFFICES ASSUME LogInv, [LogNext]_log_vars PROVE LogInv'  OBVIOUS
<1>1. ASSUME NEW f \in LogFiles, vf_log_init(f) PROVE LogInv'
  BY <1>1, LogInitCallKeepsInv
<1>2. CASE vf_log_shutdown  BY <1>2, LogShutdownKeepsInv
<1>3. CASE OwnerCloses  BY <1>3, OwnerClosesKeepsInv
<1>4. ASSUME NEW t \in LogThreads, _vf_log_message(t) PROVE LogInv'
  BY <1>4, MessageBeginsKeepsInv, MessageWritesKeepsInv DEF _vf_log_message
<1>5. CASE UNCHANGED log_vars
  BY <1>5 DEF log_vars, LogInv, LogTypeOK, HandleIsOpen, LoggingIsInside, Logging,
              LinesAreWhole, Alone, MidLine, WholeLines
<1>. QED  BY <1>1, <1>2, <1>3, <1>4, <1>5 DEF LogNext

\* The inductive invariant of the logger.
THEOREM LogInvHolds == LogSpec => []LogInv
<1>. QED  BY LogInitInv, LogStepKeepsInv, PTL DEF LogSpec

\* vf_log.h has no lock of its own.  As long as no message meets an init or a
\* shutdown, no part goes to a missing or closed file; and if no message meets
\* another one either, every line of every file is one whole message.
THEOREM LinesCorrect == LogSpec => []LogLinesWhole
<1>1. LogInv => LogLinesWhole
  <2>. SUFFICES ASSUME LogInv PROVE LogLinesWhole  OBVIOUS
  <2>1. ASSUME ~log_raced, ~log_mixed, NEW f \in LogFiles
        PROVE  /\ Whole(f)
               /\ f # log_handle \/ ~Logging => Len(log_text[f]) % Cardinality(Parts) = 0
    BY <2>1, FourParts, WholeIsWholeLines DEF LogInv, LinesAreWhole
  <2>. QED  BY <2>1 DEF LogLinesWhole, LogInv
<1>. QED  BY <1>1, LogInvHolds, PTL

(***************************************************************************)
(* vf_test.h: the tests, the runner and the threads that record failures   *)
(***************************************************************************)

Results == {"NONE", "PASS", "FAIL", "SKIP"}
Entries == [case : TestCases, result : Results]
RunStates == [current_test_idx : Nat, current_suite : Nat, suites : Nat,
              passes : Nat, fails : Nat, skips : Nat]

\* A test is being run.
Running == test_pc \in {"body", "returned", "pass", "count"}

TestTypes ==
    /\ vf_tests \in Seq(Entries) /\ Len(vf_tests) <= VF_TEST_MAX_TESTS
    /\ vf_test_failure_count \in Nat
    /\ vf_test_rs \in RunStates
    /\ Current <= Len(vf_tests)
    /\ test_loaded \subseteq TestCases
    /\ test_pc \in {"load", "next", "body", "returned", "pass", "count", "done"}
    /\ test_inside \in [Recorders -> {"out", "claim", "mark"}]
    /\ test_seen \in [Recorders -> Nat]
    /\ test_helper \in 0..Current
    /\ test_checks \in Nat
    /\ test_failed \in SUBSET (1..Current) /\ test_skipped \in SUBSET (1..Current)
    /\ test_together \in BOOLEAN /\ test_outlived \in BOOLEAN

\* What the runner's step says of its position and of the threads.
Positions ==
    /\ test_pc = "load" => Current = 0
    /\ test_pc # "load" => test_loaded = TestCases
    /\ Running => Current # 0
    /\ test_pc = "done" => Current = Len(vf_tests)
    /\ test_inside["main"] # "out" => test_pc = "body"
    /\ test_inside["helper"] # "out" => test_helper # 0

Shape == TestTypes /\ Positions

\* All tests are as before, but test c has result r.
ResultSet(c, r) ==
    /\ vf_tests' \in Seq(Entries) /\ Len(vf_tests') = Len(vf_tests)
    /\ \A k \in 1..Len(vf_tests) :
          vf_tests'[k] = IF k = c THEN [case |-> vf_tests[k].case, result |-> r]
                                  ELSE vf_tests[k]

LEMMA ResultIsSet ==
    ASSUME TestTypes, NEW c \in Nat, NEW r \in Results,
           vf_tests' = [vf_tests EXCEPT ![c].result = r]
    PROVE  ResultSet(c, r)
<1>. DEFINE n == Len(vf_tests)
<1>1. vf_tests \in Seq(Entries) /\ n \in Nat  BY DEF TestTypes
<1>2. vf_tests \in [1..n -> Entries]  BY <1>1
<1>3. \A k \in 1..n : [vf_tests[k] EXCEPT !.result = r]
                        = [case |-> vf_tests[k].case, result |-> r]
  <2>1. \A e \in Entries : [e EXCEPT !.result = r] = [case |-> e.case, result |-> r]
    BY DEF Entries
  <2>. QED  BY <1>2, <2>1
<1>4. \A k \in 1..n : vf_tests'[k] = IF k = c THEN [case |-> vf_tests[k].case, result |-> r]
                                             ELSE vf_tests[k]
  BY <1>2, <1>3
<1>5. \A k \in 1..n : vf_tests'[k] \in Entries
  BY <1>2, <1>4 DEF Entries
<1>6. DOMAIN vf_tests' = 1..n  BY <1>2
<1>7. vf_tests' = [k \in 1..n |-> vf_tests'[k]]  BY <1>2, <1>6
<1>8. vf_tests' \in [1..n -> Entries]  BY <1>5, <1>7
<1>9. vf_tests' \in Seq(Entries) /\ Len(vf_tests') = n
  <2>. HIDE DEF n
  <2>. QED  BY <1>1, <1>8
<1>. QED  BY <1>4, <1>9 DEF ResultSet

\* The runner's record after each kind of update.
LEMMA RunStateUpdates ==
    ASSUME NEW rs \in RunStates
    PROVE  /\ \A i, s, n : [rs EXCEPT !.current_test_idx = i, !.current_suite = s,
                                      !.suites = n]
                = [current_test_idx |-> i, current_suite |-> s, suites |-> n,
                   passes |-> rs.passes, fails |-> rs.fails, skips |-> rs.skips]
           /\ \A n : [rs EXCEPT !.passes = n]
                = [current_test_idx |-> rs.current_test_idx,
                   current_suite |-> rs.current_suite, suites |-> rs.suites,
                   passes |-> n, fails |-> rs.fails, skips |-> rs.skips]
           /\ \A n : [rs EXCEPT !.fails = n]
                = [current_test_idx |-> rs.current_test_idx,
                   current_suite |-> rs.current_suite, suites |-> rs.suites,
                   passes |-> rs.passes, fails |-> n, skips |-> rs.skips]
           /\ \A n : [rs EXCEPT !.skips = n]
                = [current_test_idx |-> rs.current_test_idx,
                   current_suite |-> rs.current_suite, suites |-> rs.suites,
                   passes |-> rs.passes, fails |-> rs.fails, skips |-> n]
<1>1. \A n : [rs EXCEPT !.passes = n]
                = [current_test_idx |-> rs.current_test_idx,
                   current_suite |-> rs.current_suite, suites |-> rs.suites,
                   passes |-> n, fails |-> rs.fails, skips |-> rs.skips]
  BY DEF RunStates
<1>2. \A n : [rs EXCEPT !.fails = n]
                = [current_test_idx |-> rs.current_test_idx,
                   current_suite |-> rs.current_suite, suites |-> rs.suites,
                   passes |-> rs.passes, fails |-> n, skips |-> rs.skips]
  BY DEF RunStates
<1>3. \A n : [rs EXCEPT !.skips = n]
                = [current_test_idx |-> rs.current_test_idx,
                   current_suite |-> rs.current_suite, suites |-> rs.suites,
                   passes |-> rs.passes, fails |-> rs.fails, skips |-> n]
  BY DEF RunStates
<1>4. ASSUME NEW i, NEW s, NEW n
      PROVE  [rs EXCEPT !.current_test_idx = i, !.current_suite = s, !.suites = n]
                = [current_test_idx |-> i, current_suite |-> s, suites |-> n,
                   passes |-> rs.passes, fails |-> rs.fails, skips |-> rs.skips]
  <2>. DEFINE d == [rs EXCEPT !.current_test_idx = i]
              e == [d EXCEPT !.current_suite = s]
  <2>1. d = [current_test_idx |-> i, current_suite |-> rs.current_suite,
             suites |-> rs.suites, passes |-> rs.passes, fails |-> rs.fails,
             skips |-> rs.skips]
    BY DEF RunStates
  <2>2. e = [current_test_idx |-> i, current_suite |-> s, suites |-> rs.suites,
             passes |-> rs.passes, fails |-> rs.fails, skips |-> rs.skips]
    <3>. HIDE DEF d
    <3>. QED  BY <2>1
  <2>3. [rs EXCEPT !.current_test_idx = i, !.current_suite = s, !.suites = n]
           = [e EXCEPT !.suites = n]
    BY Zenon
  <2>4. [e EXCEPT !.suites = n]
           = [current_test_idx |-> i, current_suite |-> s, suites |-> n,
              passes |-> rs.passes, fails |-> rs.fails, skips |-> rs.skips]
    <3>. HIDE DEF e
    <3>. QED  BY <2>2
  <2>. QED  BY <2>3, <2>4
<1>. QED  BY <1>1, <1>2, <1>3, <1>4, Zenon

-----------------------------------------------------------------------------
(* The insertion sort *)

\* A set of numbers has a least one.
LEMMA NatsHaveLeast ==
    ASSUME NEW S \in SUBSET Nat, S # {}
    PROVE  \E m \in S : \A n \in S : m <= n
<1>. DEFINE R == {ss \in Nat \X Nat : ss[1] < ss[2]}
<1>1. IsWellFoundedOn(R, Nat)  BY NatLessThanWellFounded DEF OpToRel
<1>2. PICK m \in S : \A n \in S : <<n, m>> \notin R
  <2>. HIDE DEF R
  <2>. QED  BY <1>1, WFMin
<1>3. \A n \in S : ~(n < m)  BY <1>2
<1>. QED  BY <1>3

\* A set of numbers up to n that holds 0 has a greatest one, which Max is.
LEMMA MaxIsGreatest ==
    ASSUME NEW n \in Nat, NEW S \in SUBSET (0..n), 0 \in S
    PROVE  Max(S) \in S /\ \A k \in S : k <= Max(S)
<1>. DEFINE gaps == {n - k : k \in S}
<1>2. gaps \in SUBSET Nat /\ gaps # {}  OBVIOUS
<1>3. PICK g \in gaps : \A m \in gaps : g <= m
  <2>. HIDE DEF gaps
  <2>. QED  BY <1>2, NatsHaveLeast
<1>4. \A m \in gaps : ~(m < g)  BY <1>2, <1>3
<1>5. PICK x \in S : g = n - x  BY <1>3
<1>6. \A k \in S : x >= k
  <2>. SUFFICES ASSUME NEW k \in S PROVE x >= k  OBVIOUS
  <2>1. n - k \in gaps  OBVIOUS
  <2>2. ~(n - k < n - x)  BY <2>1, <1>4, <1>5
  <2>3. k \in Nat /\ x \in Nat  BY <1>5
  <2>. QED  BY <2>2, <2>3
<1>7. Max(S) \in S /\ \A k \in S : Max(S) >= k
  <2>. DEFINE P(y) == \A k \in S : y >= k
              m == CHOOSE y \in S : P(y)
  <2>1. Max(S) = m  BY DEF Max
  <2>2. \E y \in S : P(y)  BY <1>5, <1>6
  <2>3. m \in S /\ P(m)
    <3>. HIDE DEF P
    <3>. QED  BY <2>2
  <2>. QED  BY <2>1, <2>3
<1>. QED  BY <1>7

\* _test_case_cmp orders tests by suite and then by name.
LEMMA CmpIsOrder ==
    ASSUME NEW x \in Entries, NEW y \in Entries, NEW z \in Entries
    PROVE  /\ Cmp(x, y) => ~Cmp(y, x)
           /\ ~Cmp(y, x) /\ ~Cmp(z, y) => ~Cmp(z, x)
           /\ ~Cmp(y, x) => x.case.suite <= y.case.suite
<1>1. \A e \in Entries : e.case.suite \in Nat /\ e.case.name \in Nat
  BY TestAssumption DEF Entries
<1>. QED  BY <1>1 DEF Cmp

\* r is s with x put in at place p.
PutIn(r, s, x, p) ==
    /\ r \in Seq(Entries) /\ Len(r) = Len(s) + 1
    /\ \A k \in 1..(Len(s) + 1) : r[k] = IF k < p THEN s[k]
                                         ELSE IF k = p THEN x ELSE s[k - 1]

LEMMA InsertAtPutsIn ==
    ASSUME NEW s \in Seq(Entries), NEW x \in Entries, NEW p \in 1..(Len(s) + 1)
    PROVE  PutIn(InsertAt(s, p, x), s, x, p)
<1>. DEFINE n == Len(s)
            a == SubSeq(s, 1, p - 1)
            b == SubSeq(s, p, n)
            c == a \o <<x>>
            r == c \o b
<1>0. n \in Nat /\ p \in Nat  OBVIOUS
<1>1. a \in Seq(Entries) /\ Len(a) = p - 1 /\ \A k \in 1..(p - 1) : a[k] = s[k]
  OBVIOUS
<1>2. b \in Seq(Entries) /\ Len(b) = n + 1 - p /\ \A k \in 1..(n + 1 - p) : b[k] = s[p + k - 1]
  OBVIOUS
<1>3. c \in Seq(Entries) /\ Len(c) = p /\ (\A k \in 1..(p - 1) : c[k] = s[k]) /\ c[p] = x
  <2>. HIDE DEF a
  <2>1. <<x>> \in Seq(Entries) /\ Len(<<x>>) = 1 /\ <<x>>[1] = x  OBVIOUS
  <2>2. c \in Seq(Entries) /\ Len(c) = Len(a) + 1  BY <1>1, <2>1
  <2>3. \A k \in 1..Len(c) : c[k] = IF k <= Len(a) THEN a[k] ELSE <<x>>[k - Len(a)]
    BY <1>1, <2>1, ConcatProperties
  <2>. DEFINE w == <<x>>
  <2>4. w[1] = x  BY <2>1
  <2>5. Len(a) = p - 1 /\ Len(a) + 1 = p  BY <1>0, <1>1
  <2>6. Len(c) = p  BY <2>2, <2>5
  <2>7. \A k \in 1..p : c[k] = IF k <= p - 1 THEN a[k] ELSE w[k - (p - 1)]
    BY <2>3, <2>5, <2>6
  <2>. HIDE DEF c, a, w
  <2>8. \A k \in 1..(p - 1) : c[k] = s[k]
    <3>. SUFFICES ASSUME NEW k \in 1..(p - 1) PROVE c[k] = s[k]  OBVIOUS
    <3>1. k \in 1..p /\ k <= p - 1  BY <1>0
    <3>. QED  BY <3>1, <2>7, <1>1
  <2>9. c[p] = x
    <3>1. p \in 1..p /\ ~(p <= p - 1) /\ p - (p - 1) = 1  BY <1>0
    <3>. QED  BY <3>1, <2>7, <2>4
  <2>. QED  BY <2>2, <2>6, <2>8, <2>9
<1>4. r \in Seq(Entries) /\ Len(r) = p + (n + 1 - p)
  <2>. HIDE DEF c, b
  <2>1. r \in Seq(Entries) /\ Len(r) = Len(c) + Len(b)  BY <1>2, <1>3, ConcatProperties
  <2>. QED  BY <2>1, <1>2, <1>3
<1>5. \A k \in 1..Len(r) : r[k] = IF k <= p THEN c[k] ELSE b[k - p]
  <2>1. \A k \in 1..Len(r) : r[k] = IF k <= Len(c) THEN c[k] ELSE b[k - Len(c)]
    <3>. HIDE DEF c, b
    <3>. QED  BY <1>2, <1>3, ConcatProperties
  <2>. HIDE DEF c, b, r
  <2>. QED  BY <2>1, <1>3
<1>6. ASSUME NEW k \in 1..(n + 1)
      PROVE  r[k] = IF k < p THEN s[k] ELSE IF k = p THEN x ELSE s[k - 1]
  <2>. HIDE DEF r, c, b, n
  <2>1. r[k] = IF k <= p THEN c[k] ELSE b[k - p]  BY <1>0, <1>4, <1>5
  <2>2. k > p => k - p \in 1..(n + 1 - p) /\ p + (k - p) - 1 = k - 1  BY <1>0
  <2>3. k > p => b[k - p] = s[k - 1]  BY <2>2, <1>2
  <2>4. k < p => k \in 1..(p - 1)  BY <1>0
  <2>. QED  BY <1>0, <1>3, <2>1, <2>3, <2>4
<1>7. InsertAt(s, p, x) = r  BY DEF InsertAt
<1>8. Len(r) = n + 1
  <2>. HIDE DEF r, n
  <2>. QED  BY <1>0, <1>4
<1>. HIDE DEF r
<1>. QED  BY <1>4, <1>6, <1>7, <1>8 DEF PutIn

\* No test is followed by one that goes before it.
InOrder(s) == \A j, k \in 1..Len(s) : j < k => ~Cmp(s[k], s[j])

\* No test is there twice.
Distinct(s) == \A j, k \in 1..Len(s) : j # k => s[j].case # s[k].case

\* Where the inner loop of the sort puts a test.
LEMMA InsertedPutsIn ==
    ASSUME NEW s \in Seq(Entries), NEW x \in Entries
    PROVE  \E p \in 1..(Len(s) + 1) :
              /\ PutIn(Inserted(s, x), s, x, p)
              /\ p > 1 => ~Cmp(x, s[p - 1])
              /\ \A k \in 1..Len(s) : k >= p => Cmp(x, s[k])
<1>. DEFINE n == Len(s)
            S == {0} \cup {k \in DOMAIN s : ~Cmp(x, s[k])}
            m == Max(S)
            p == 1 + m
<1>1. n \in Nat /\ DOMAIN s = 1..n  OBVIOUS
<1>2. S \in SUBSET (0..n) /\ 0 \in S
  <2>. HIDE DEF n
  <2>. QED  BY <1>1
<1>3. m \in S /\ \A k \in S : k <= m
  <2>. HIDE DEF S, n
  <2>. QED  BY <1>1, <1>2, MaxIsGreatest
<1>4. m \in 0..n  BY <1>2, <1>3
<1>5. p \in 1..(n + 1)
  <2>. HIDE DEF m, n
  <2>. QED  BY <1>1, <1>4
<1>6. Inserted(s, x) = InsertAt(s, p, x)  BY DEF Inserted
<1>7. PutIn(Inserted(s, x), s, x, p)
  <2>. HIDE DEF p
  <2>. QED  BY <1>5, <1>6, InsertAtPutsIn
<1>8. p > 1 => ~Cmp(x, s[p - 1])
  <2>1. m # 0 => ~Cmp(x, s[m])  BY <1>3
  <2>2. p > 1 => m # 0 /\ p - 1 = m
    <3>. HIDE DEF m, n
    <3>. QED  BY <1>1, <1>4
  <2>. HIDE DEF m
  <2>. QED  BY <2>1, <2>2
<1>9. \A k \in 1..n : k >= p => Cmp(x, s[k])
  <2>. SUFFICES ASSUME NEW k \in 1..n, k >= p, ~Cmp(x, s[k]) PROVE FALSE
    BY DEF Cmp
  <2>1. k \in S  BY <1>1
  <2>2. k <= m  BY <2>1, <1>3
  <2>. HIDE DEF m, n
  <2>. QED  BY <2>2, <1>1, <1>4
<1>. HIDE DEF p
<1>. QED  BY <1>5, <1>7, <1>8, <1>9

\* A test put in where the inner loop stops leaves the tests in order.
LEMMA InsertedKeepsOrder ==
    ASSUME NEW s \in Seq(Entries), NEW x \in Entries, InOrder(s), NEW r, r = Inserted(s, x)
    PROVE  /\ r \in Seq(Entries) /\ Len(r) = Len(s) + 1
           /\ InOrder(r)
           /\ \A k \in 1..Len(r) : r[k] = x \/ \E j \in 1..Len(s) : r[k] = s[j]
           /\ Distinct(s) /\ (\A k \in 1..Len(s) : s[k].case # x.case) => Distinct(r)
<1>. DEFINE n == Len(s)
<1>1. PICK p \in 1..(n + 1) :
          /\ PutIn(r, s, x, p)
          /\ p > 1 => ~Cmp(x, s[p - 1])
          /\ \A k \in 1..n : k >= p => Cmp(x, s[k])
  BY InsertedPutsIn
<1>2. n \in Nat  OBVIOUS
<1>3. r \in Seq(Entries) /\ Len(r) = n + 1  BY <1>1 DEF PutIn
<1>4. \A k \in 1..(n + 1) : r[k] = IF k < p THEN s[k] ELSE IF k = p THEN x ELSE s[k - 1]
  BY <1>1 DEF PutIn
<1>. DEFINE From(k) == IF k < p THEN k ELSE k - 1
<1>5. \A k \in 1..(n + 1) : k # p => From(k) \in 1..n /\ r[k] = s[From(k)]
  <2>. HIDE DEF n
  <2>. QED  BY <1>2, <1>4
<1>6. \A j, k \in 1..(n + 1) : j # p /\ k # p /\ j < k => From(j) < From(k)
  <2>. HIDE DEF n
  <2>. QED  BY <1>2
<1>7. r[p] = x  BY <1>4
<1>8. \A k \in 1..n : s[k] \in Entries  OBVIOUS
<1>9. \A k \in 1..n : k < p => ~Cmp(x, s[k])
  <2>. SUFFICES ASSUME NEW k \in 1..n, k < p PROVE ~Cmp(x, s[k])  BY Zenon
  <2>1. p - 1 \in 1..n /\ p > 1 /\ (k = p - 1 \/ k < p - 1)
    <3>. HIDE DEF n
    <3>. QED  BY <1>2
  <2>2. ~Cmp(x, s[p - 1])  BY <2>1, <1>1
  <2>3. CASE k = p - 1  BY <2>2, <2>3
  <2>4. CASE k < p - 1
    <3>1. ~Cmp(s[p - 1], s[k])  BY <2>1, <2>4 DEF InOrder
    <3>2. s[k] \in Entries /\ s[p - 1] \in Entries  BY <2>1, <1>8
    <3>. QED  BY <2>2, <3>1, <3>2, CmpIsOrder
  <2>. QED  BY <2>1, <2>3, <2>4
<1>10. \A k \in 1..n : k >= p => ~Cmp(s[k], x)
  BY <1>1, <1>8, CmpIsOrder
<1>11. ASSUME NEW j \in 1..(n + 1), NEW k \in 1..(n + 1), j < k PROVE ~Cmp(r[k], r[j])
  <2>1. CASE j # p /\ k # p
    <3>1. From(j) < From(k) /\ From(j) \in 1..n /\ From(k) \in 1..n
      <4>. HIDE DEF From, n
      <4>. QED  BY <2>1, <1>5, <1>6, <1>11
    <3>2. ~Cmp(s[From(k)], s[From(j)])
      <4>. HIDE DEF From
      <4>. QED  BY <3>1 DEF InOrder
    <3>. HIDE DEF From, n
    <3>. QED  BY <2>1, <3>2, <1>5
  <2>2. CASE j = p
    <3>1. k # p /\ From(k) >= p /\ From(k) \in 1..n
      <4>. HIDE DEF n
      <4>. QED  BY <2>2, <1>2, <1>11
    <3>. HIDE DEF From, n
    <3>. QED  BY <2>2, <3>1, <1>5, <1>7, <1>10
  <2>3. CASE k = p
    <3>1. j # p /\ From(j) < p /\ From(j) \in 1..n
      <4>. HIDE DEF n
      <4>. QED  BY <2>3, <1>2, <1>11
    <3>. HIDE DEF From, n
    <3>. QED  BY <2>3, <3>1, <1>5, <1>7, <1>9
  <2>. QED  BY <2>1, <2>2, <2>3
<1>12. InOrder(r)
  <2>. HIDE DEF n
  <2>. QED  BY <1>3, <1>11, Zenon DEF InOrder
<1>13. ASSUME NEW k \in 1..Len(r) PROVE r[k] = x \/ \E j \in 1..n : r[k] = s[j]
  <2>1. k \in 1..(n + 1)  BY <1>3
  <2>. HIDE DEF From, n
  <2>. QED  BY <2>1, <1>5, <1>7
<1>14. ASSUME Distinct(s), \A k \in 1..n : s[k].case # x.case PROVE Distinct(r)
  <2>. SUFFICES ASSUME NEW j \in 1..(n + 1), NEW k \in 1..(n + 1), j # k
                PROVE  r[j].case # r[k].case
    BY <1>3 DEF Distinct
  <2>1. CASE j # p /\ k # p
    <3>1. From(j) # From(k)
      <4>. HIDE DEF n
      <4>. QED  BY <2>1, <1>2
    <3>2. From(j) \in 1..n /\ From(k) \in 1..n /\ r[j] = s[From(j)] /\ r[k] = s[From(k)]
      <4>. HIDE DEF From, n
      <4>. QED  BY <2>1, <1>5
    <3>. HIDE DEF From
    <3>. QED  BY <3>1, <3>2, <1>14 DEF Distinct
  <2>2. CASE j = p \/ k = p
    <3>. HIDE DEF From, n
    <3>. QED  BY <2>2, <1>5, <1>7, <1>14
  <2>. QED  BY <2>1, <2>2
<1>. QED  BY <1>3, <1>12, <1>13, <1>14

\* f maps each n up to m to the first n tests sorted.
Sorting(f, m) == f = [n \in 0..m |-> IF n = 0 THEN <<>> ELSE Inserted(f[n - 1], vf_tests[n])]

LEMMA SortsOneMore ==
    ASSUME NEW m \in Nat, m # 0, NEW g, Sorting(g, m - 1)
    PROVE  \E f : Sorting(f, m)
<1>. DEFINE E(s, n) == Inserted(s, vf_tests[n])
            f == [n \in 0..m |-> IF n = m THEN E(g[m - 1], m) ELSE g[n]]
<1>1. g = [n \in 0..(m - 1) |-> IF n = 0 THEN <<>> ELSE E(g[n - 1], n)]  BY DEF Sorting
<1>. HIDE DEF E
<1>2. ASSUME NEW n \in 0..m PROVE f[n] = IF n = 0 THEN <<>> ELSE E(f[n - 1], n)
  <2>1. CASE n = m
    <3>1. n - 1 \in 0..m /\ n - 1 # m /\ n # 0  BY <2>1
    <3>2. f[n - 1] = g[n - 1]  BY <3>1
    <3>. QED  BY <2>1, <3>1, <3>2
  <2>2. CASE n # m /\ n = 0
    <3>1. n \in 0..(m - 1)  BY <2>2
    <3>. QED  BY <1>1, <2>2, <3>1
  <2>3. CASE n # m /\ n # 0
    <3>1. n \in 0..(m - 1) /\ n - 1 \in 0..m /\ n - 1 # m  BY <2>3
    <3>2. f[n] = g[n] /\ f[n - 1] = g[n - 1]  BY <2>3, <3>1
    <3>3. g[n] = E(g[n - 1], n)  BY <1>1, <2>3, <3>1
    <3>. QED  BY <2>3, <3>2, <3>3
  <2>. QED  BY <2>1, <2>2, <2>3
<1>3. DOMAIN f = 0..m  OBVIOUS
<1>4. f = [n \in 0..m |-> f[n]]  OBVIOUS
<1>5. f = [n \in 0..m |-> IF n = 0 THEN <<>> ELSE E(f[n - 1], n)]
  <2>. HIDE DEF f
  <2>. QED  BY <1>2, <1>3, <1>4
<1>. HIDE DEF f
<1>. QED  BY <1>5 DEF Sorting, E

\* The recursive function of _test_sort exists.
LEMMA SortingExists ==
    ASSUME NEW m \in Nat
    PROVE  \E f : Sorting(f, m)
<1>. DEFINE S == {n \in Nat : ~ \E f : Sorting(f, n)}
<1>1. S = {}
  <2>. SUFFICES ASSUME S # {} PROVE FALSE  OBVIOUS
  <2>1. PICK n \in S : \A k \in S : n <= k  BY NatsHaveLeast
  <2>2. n \in Nat /\ ~ \E f : Sorting(f, n)  BY <2>1
  <2>3. CASE n = 0
    <3>1. Sorting([k \in 0..0 |-> <<>>], 0)  BY DEF Sorting
    <3>. QED  BY <2>2, <2>3, <3>1
  <2>4. CASE n # 0
    <3>1. n - 1 \in Nat /\ ~(n <= n - 1)  BY <2>2, <2>4
    <3>2. n - 1 \notin S  BY <2>1, <3>1
    <3>3. PICK g : Sorting(g, n - 1)  BY <3>1, <3>2
    <3>. QED  BY <2>2, <2>4, <3>3, SortsOneMore
  <2>. QED  BY <2>3, <2>4
<1>. QED  BY <1>1

\* What the first n rounds of the sort have made of the first n tests.
SortedSoFar(r, n) ==
    /\ r \in Seq(Entries) /\ Len(r) = n
    /\ InOrder(r)
    /\ \A k \in 1..n : \E j \in 1..n : r[k] = vf_tests[j]
    /\ Distinct(vf_tests) => Distinct(r)

LEMMA RoundSorts ==
    ASSUME vf_tests \in Seq(Entries), NEW n \in 1..Len(vf_tests), NEW s,
           SortedSoFar(s, n - 1)
    PROVE  SortedSoFar(Inserted(s, vf_tests[n]), n)
<1>. DEFINE x == vf_tests[n]
            r == Inserted(s, x)
<1>1. n \in Nat /\ n >= 1 /\ Len(vf_tests) \in Nat  OBVIOUS
<1>2. x \in Entries  OBVIOUS
<1>3. s \in Seq(Entries) /\ Len(s) = n - 1 /\ InOrder(s)  BY DEF SortedSoFar
<1>. HIDE DEF x
<1>4. /\ r \in Seq(Entries) /\ Len(r) = Len(s) + 1
      /\ InOrder(r)
      /\ \A k \in 1..Len(r) : r[k] = x \/ \E j \in 1..Len(s) : r[k] = s[j]
      /\ Distinct(s) /\ (\A k \in 1..Len(s) : s[k].case # x.case) => Distinct(r)
  BY <1>2, <1>3, InsertedKeepsOrder
<1>. HIDE DEF r
<1>5. Len(r) = n  BY <1>1, <1>3, <1>4
<1>6. \A j \in 1..(n - 1) : \E i \in 1..(n - 1) : s[j] = vf_tests[i]  BY DEF SortedSoFar
<1>7. n \in 1..n /\ \A i \in 1..(n - 1) : i \in 1..n /\ i # n  BY <1>1
<1>8. \A k \in 1..n : \E j \in 1..n : r[k] = vf_tests[j]
  <2>1. x = vf_tests[n]  BY DEF x
  <2>2. \A k \in 1..n : r[k] = x \/ \E j \in 1..(n - 1) : r[k] = s[j]  BY <1>3, <1>4, <1>5
  <2>. QED  BY <2>1, <2>2, <1>6, <1>7
<1>9. Distinct(vf_tests) => Distinct(r)
  <2>. SUFFICES ASSUME Distinct(vf_tests) PROVE Distinct(r)  OBVIOUS
  <2>1. Distinct(s)  BY DEF SortedSoFar
  <2>2. \A i \in 1..(n - 1) : vf_tests[i].case # vf_tests[n].case
    <3>1. \A i \in 1..(n - 1) : i \in 1..Len(vf_tests) /\ i # n  BY <1>1
    <3>. QED  BY <3>1, Zenon DEF Distinct
  <2>3. \A k \in 1..Len(s) : s[k].case # x.case
    <3>1. x = vf_tests[n]  BY DEF x
    <3>. QED  BY <3>1, <2>2, <1>3, <1>6
  <2>. QED  BY <2>1, <2>3, <1>4
<1>10. SortedSoFar(r, n)  BY <1>4, <1>5, <1>8, <1>9 DEF SortedSoFar
<1>. QED  BY <1>10 DEF r, x

\* _test_sort has every test once, in order.
LEMMA SortIsRight ==
    ASSUME vf_tests \in Seq(Entries)
    PROVE  SortedSoFar(_test_sort, Len(vf_tests))
<1>. DEFINE n == Len(vf_tests)
            F(f) == Sorting(f, n)
            f == CHOOSE g : F(g)
            S == {m \in 0..n : ~SortedSoFar(f[m], m)}
<1>0. n \in Nat  OBVIOUS
<1>1. Sorting(f, n)  BY <1>0, SortingExists
<1>2. _test_sort = f[n]  BY DEF _test_sort, Sorting
<1>. HIDE DEF f
<1>3. f = [m \in 0..n |-> IF m = 0 THEN <<>> ELSE Inserted(f[m - 1], vf_tests[m])]
  BY <1>1 DEF Sorting
<1>4. S = {}
  <2>. SUFFICES ASSUME S # {} PROVE FALSE  OBVIOUS
  <2>0. S \in SUBSET Nat  OBVIOUS
  <2>1. PICK m \in S : \A k \in S : m <= k
    <3>. HIDE DEF S
    <3>. QED  BY <2>0, NatsHaveLeast
  <2>2. m \in 0..n /\ ~SortedSoFar(f[m], m)  BY <2>1
  <2>3. CASE m = 0
    <3>1. f[m] = <<>>  BY <1>3, <2>2, <2>3
    <3>2. SortedSoFar(<<>>, 0)  BY DEF SortedSoFar, InOrder, Distinct
    <3>. QED  BY <2>2, <2>3, <3>1, <3>2
  <2>4. CASE m # 0
    <3>1. m \in 1..n /\ m - 1 \in 0..n /\ ~(m <= m - 1)
      <4>. HIDE DEF n
      <4>. QED  BY <1>0, <2>2, <2>4
    <3>2. SortedSoFar(f[m - 1], m - 1)
      <4>1. m - 1 \notin S  BY <2>1, <3>1
      <4>. QED  BY <3>1, <4>1
    <3>3. f[m] = Inserted(f[m - 1], vf_tests[m])
      <4>. HIDE DEF n
      <4>. QED  BY <1>3, <2>2, <2>4
    <3>. QED  BY <2>2, <3>1, <3>2, <3>3, RoundSorts
  <2>. QED  BY <2>3, <2>4
<1>5. SortedSoFar(f[n], n)
  <2>1. n \in 0..n
    <3>. HIDE DEF n
    <3>. QED  BY <1>0
  <2>. QED  BY <1>4, <2>1
<1>. HIDE DEF n
<1>6. SortedSoFar(_test_sort, n)  BY <1>2, <1>5
<1>. QED  BY <1>6 DEF n

-----------------------------------------------------------------------------
(* Shape is inductive. *)

LEMMA ShapeInit == TestInit => Shape
<1>. SUFFICES ASSUME TestInit PROVE Shape  OBVIOUS
<1>1. <<>> \in Seq(Entries) /\ Len(<<>>) = 0  OBVIOUS
<1>2. vf_test_rs \in RunStates /\ Current = 0  BY DEF TestInit, RunStates, Current
<1>3. test_inside \in [Recorders -> {"out", "claim", "mark"}] /\ test_seen \in [Recorders -> Nat]
  BY DEF TestInit
<1>4. TestTypes
  <2>1. vf_tests \in Seq(Entries) /\ Len(vf_tests) = 0  BY <1>1 DEF TestInit
  <2>2. VF_TEST_MAX_TESTS \in Nat  BY TestAssumption
  <2>3. 0 <= VF_TEST_MAX_TESTS /\ Current <= 0 /\ 0 \in 0..Current  BY <1>2, <2>2
  <2>4. vf_test_failure_count = 0 /\ test_loaded = {} /\ test_pc = "load" /\ test_helper = 0
        /\ test_checks = 0 /\ test_failed = {} /\ test_skipped = {}
        /\ test_together = FALSE /\ test_outlived = FALSE
    BY DEF TestInit
  <2>. QED  BY <1>2, <1>3, <2>1, <2>3, <2>4 DEF TestTypes
<1>5. Positions  BY <1>2 DEF TestInit, Positions, Running, Recorders
<1>. QED  BY <1>4, <1>5 DEF Shape

\* A test has been appended, or there was no room for it.
LEMMA RegisterDoes ==
    ASSUME Shape, NEW c \in TestCases, vf_test_register_one(c)
    PROVE  \/ /\ Len(vf_tests) >= VF_TEST_MAX_TESTS
              /\ vf_tests' = vf_tests
           \/ /\ Len(vf_tests) < VF_TEST_MAX_TESTS
              /\ vf_tests' \in Seq(Entries) /\ Len(vf_tests') = Len(vf_tests) + 1
              /\ \A k \in 1..Len(vf_tests) : vf_tests'[k] = vf_tests[k]
              /\ vf_tests'[Len(vf_tests) + 1].case = c
<1>. DEFINE e == [case |-> c, result |-> "NONE"]
            n == Len(vf_tests)
<1>1. vf_tests \in Seq(Entries) /\ n \in Nat /\ VF_TEST_MAX_TESTS \in Nat
  BY TestAssumption DEF Shape, TestTypes
<1>2. e \in Entries /\ e.case = c  BY DEF Entries, Results
<1>3. CASE n < VF_TEST_MAX_TESTS
  <2>1. vf_tests' = Append(vf_tests, e)  BY <1>3 DEF vf_test_register_one
  <2>. HIDE DEF e
  <2>2. vf_tests' \in Seq(Entries) /\ Len(vf_tests') = n + 1
    BY <1>1, <1>2, <2>1
  <2>3. \A k \in 1..n : vf_tests'[k] = vf_tests[k]  BY <1>1, <1>2, <2>1
  <2>4. vf_tests'[n + 1] = e  BY <1>1, <1>2, <2>1
  <2>. QED  BY <1>2, <1>3, <2>2, <2>3, <2>4
<1>4. CASE ~(n < VF_TEST_MAX_TESTS)
  <2>1. vf_tests' = vf_tests  BY <1>4 DEF vf_test_register_one
  <2>2. n >= VF_TEST_MAX_TESTS
    <3>. HIDE DEF n
    <3>. QED  BY <1>1, <1>4
  <2>. QED  BY <2>1, <2>2
<1>. QED  BY <1>3, <1>4

LEMMA RegisterKeepsShape ==
    ASSUME Shape, NEW c \in TestCases, vf_test_register_one(c)
    PROVE  Shape'
<1>. USE DEF vf_test_register_one, test_threads, test_histories
<1>1. Current' = Current /\ vf_test_rs' = vf_test_rs  BY DEF Current
<1>2. /\ vf_tests' \in Seq(Entries) /\ Len(vf_tests') <= VF_TEST_MAX_TESTS
      /\ Current <= Len(vf_tests')
  <2>0. VF_TEST_MAX_TESTS \in Nat  BY TestAssumption
  <2>1. Len(vf_tests) \in Nat /\ Current \in Nat  BY DEF Shape, TestTypes, RunStates, Current
  <2>. DEFINE n == Len(vf_tests)
  <2>2. n <= VF_TEST_MAX_TESTS /\ Current <= n /\ vf_tests \in Seq(Entries)
    BY DEF Shape, TestTypes
  <2>3. CASE vf_tests' = vf_tests  BY <2>2, <2>3
  <2>4. CASE /\ n < VF_TEST_MAX_TESTS
             /\ vf_tests' \in Seq(Entries) /\ Len(vf_tests') = n + 1
    <3>. HIDE DEF n
    <3>. QED  BY <2>0, <2>1, <2>2, <2>4 DEF n
  <2>. QED  BY <2>3, <2>4, RegisterDoes
<1>3. TestTypes'  BY <1>1, <1>2 DEF Shape, TestTypes
<1>4. Positions'  BY <1>1 DEF Shape, Positions, Running
<1>. QED  BY <1>3, <1>4 DEF Shape

LEMMA SortKeepsShape ==
    ASSUME Shape, TestRunSorts
    PROVE  Shape'
<1>. USE DEF TestRunSorts, test_threads, test_histories
<1>1. Current' = Current /\ vf_test_rs' = vf_test_rs  BY DEF Current
<1>2. vf_tests' \in Seq(Entries) /\ Len(vf_tests') = Len(vf_tests)
  BY SortIsRight DEF SortedSoFar, Shape, TestTypes
<1>3. TestTypes'  BY <1>1, <1>2 DEF Shape, TestTypes
<1>4. Positions'  BY <1>1 DEF Shape, Positions, Running
<1>. QED  BY <1>3, <1>4 DEF Shape

LEMMA CheckFailsKeepsShape ==
    ASSUME Shape, NEW t \in Recorders, CheckFails(t)
    PROVE  Shape'
<1>. USE DEF CheckFails
<1>1. Current' = Current /\ vf_test_rs' = vf_test_rs  BY DEF Current
<1>2. \E step \in {"claim", "mark"} : test_inside' = [test_inside EXCEPT ![t] = step]
  OBVIOUS
<1>3. test_inside \in [Recorders -> {"out", "claim", "mark"}] /\ test_seen \in [Recorders -> Nat]
  BY DEF Shape, TestTypes
<1>4. test_inside' \in [Recorders -> {"out", "claim", "mark"}]  BY <1>2, <1>3
<1>5. test_seen' \in [Recorders -> Nat]  BY <1>3 DEF Shape, TestTypes
<1>6. test_together' \in BOOLEAN  BY DEF Shape, TestTypes
<1>7. TestTypes'  BY <1>1, <1>4, <1>5, <1>6 DEF Shape, TestTypes
<1>8. \A u \in Recorders : u # t => test_inside'[u] = test_inside[u]  BY <1>2, <1>3
<1>9. Positions'
  <2>1. t = "main" => test_pc = "body"  OBVIOUS
  <2>2. t # "main" => test_helper # 0  OBVIOUS
  <2>3. (test_inside["main"] # "out" => test_pc = "body")'
    BY <1>8, <2>1 DEF Shape, Positions, Recorders
  <2>4. (test_inside["helper"] # "out" => test_helper # 0)'
    BY <1>8, <2>2 DEF Shape, Positions, Recorders
  <2>. QED  BY <1>1, <2>3, <2>4 DEF Shape, Positions, Running
<1>. QED  BY <1>7, <1>9 DEF Shape

LEMMA ClaimSlotKeepsShape ==
    ASSUME Shape, NEW t \in Recorders, ClaimSlot(t)
    PROVE  Shape'
<1>. USE DEF ClaimSlot, test_histories
<1>1. Current' = Current /\ vf_test_rs' = vf_test_rs  BY DEF Current
<1>2. test_inside \in [Recorders -> {"out", "claim", "mark"}] /\ test_seen \in [Recorders -> Nat]
  BY DEF Shape, TestTypes
<1>3. test_inside' \in [Recorders -> {"out", "claim", "mark"}]  BY <1>2
<1>4. test_seen' \in [Recorders -> Nat]  BY <1>2
<1>5. vf_test_failure_count' \in Nat
  <2>1. test_seen[t] \in Nat /\ vf_test_failure_count \in Nat  BY <1>2 DEF Shape, TestTypes
  <2>. QED  BY <2>1
<1>6. TestTypes'  BY <1>1, <1>3, <1>4, <1>5 DEF Shape, TestTypes
<1>7. \A u \in Recorders : test_inside'[u] # "out" => test_inside[u] # "out"  BY <1>2
<1>8. Positions'
  <2>1. (test_inside["main"] # "out" => test_pc = "body")'
    BY <1>7 DEF Shape, Positions, Recorders
  <2>2. (test_inside["helper"] # "out" => test_helper # 0)'
    BY <1>7 DEF Shape, Positions, Recorders
  <2>. QED  BY <1>1, <2>1, <2>2 DEF Shape, Positions, Running
<1>. QED  BY <1>6, <1>8 DEF Shape

\* A thread that records a failure does so while some test is or was run.
LEMMA MarkFailDoes ==
    ASSUME Shape, NEW t \in Recorders, MarkFail(t)
    PROVE  /\ Current \in 1..Len(vf_tests)
           /\ ResultSet(Current, "FAIL")
<1>1. TestTypes /\ Positions /\ Current \in Nat
  BY DEF Shape, TestTypes, RunStates, Current
<1>2. Current # 0
  <2>1. CASE t = "main"  BY <1>1, <2>1 DEF MarkFail, Positions, Running
  <2>2. CASE t = "helper"  BY <1>1, <2>2 DEF MarkFail, Positions, TestTypes
  <2>. QED  BY <2>1, <2>2 DEF Recorders
<1>3. Current \in 1..Len(vf_tests)  BY <1>1, <1>2 DEF TestTypes
<1>4. ResultSet(Current, "FAIL")
  <2>1. "FAIL" \in Results  BY DEF Results
  <2>. QED  BY <1>1, <2>1, ResultIsSet, Zenon DEF MarkFail, Marked
<1>. QED  BY <1>3, <1>4

LEMMA MarkFailKeepsShape ==
    ASSUME Shape, NEW t \in Recorders, MarkFail(t)
    PROVE  Shape'
<1>. USE DEF MarkFail
<1>1. Current' = Current /\ vf_test_rs' = vf_test_rs  BY DEF Current
<1>2. test_inside \in [Recorders -> {"out", "claim", "mark"}]  BY DEF Shape, TestTypes
<1>3. test_inside' \in [Recorders -> {"out", "claim", "mark"}]  BY <1>2
<1>4. vf_tests' \in Seq(Entries) /\ Len(vf_tests') = Len(vf_tests) /\ Current \in 1..Current
  <2>1. Current \in 1..Len(vf_tests) /\ ResultSet(Current, "FAIL")  BY MarkFailDoes
  <2>2. \A n : Current \in 1..n => Current \in 1..Current  OBVIOUS
  <2>3. Current \in 1..Current  BY <2>1, <2>2
  <2>. QED  BY <2>1, <2>3 DEF ResultSet
<1>5. test_failed' \in SUBSET (1..Current)  BY <1>4 DEF Shape, TestTypes
<1>6. test_checks' \in Nat  BY DEF Shape, TestTypes
<1>7. TestTypes'  BY <1>1, <1>3, <1>4, <1>5, <1>6 DEF Shape, TestTypes
<1>8. \A u \in Recorders : test_inside'[u] # "out" => test_inside[u] # "out"  BY <1>2
<1>9. Positions'
  <2>1. (test_inside["main"] # "out" => test_pc = "body")'
    BY <1>8 DEF Shape, Positions, Recorders
  <2>2. (test_inside["helper"] # "out" => test_helper # 0)'
    BY <1>8 DEF Shape, Positions, Recorders
  <2>3. (test_pc = "done" => Current = Len(vf_tests))'
    BY <1>1, <1>4 DEF Shape, Positions
  <2>. QED  BY <1>1, <2>1, <2>2, <2>3 DEF Shape, Positions, Running
<1>. QED  BY <1>7, <1>9 DEF Shape

LEMMA SkipDoes ==
    ASSUME Shape, vf_test_record_skip
    PROVE  /\ Current \in 1..Len(vf_tests)
           /\ ResultSet(Current, "SKIP")
<1>1. TestTypes /\ Positions /\ Current \in Nat
  BY DEF Shape, TestTypes, RunStates, Current
<1>2. Current # 0  BY <1>1 DEF vf_test_record_skip, MainInBody, Positions, Running
<1>3. Current \in 1..Len(vf_tests)  BY <1>1, <1>2 DEF TestTypes
<1>4. "SKIP" \in Results  BY DEF Results
<1>. QED  BY <1>1, <1>3, <1>4, ResultIsSet, Zenon DEF vf_test_record_skip, Marked

LEMMA SkipKeepsShape ==
    ASSUME Shape, vf_test_record_skip
    PROVE  Shape'
<1>. USE DEF vf_test_record_skip, MainInBody, test_threads
<1>1. Current' = Current /\ vf_test_rs' = vf_test_rs  BY DEF Current
<1>2. vf_tests' \in Seq(Entries) /\ Len(vf_tests') = Len(vf_tests) /\ Current \in 1..Current
  <2>1. Current \in 1..Len(vf_tests) /\ ResultSet(Current, "SKIP")  BY SkipDoes
  <2>2. \A n : Current \in 1..n => Current \in 1..Current  OBVIOUS
  <2>3. Current \in 1..Current  BY <2>1, <2>2
  <2>. QED  BY <2>1, <2>3 DEF ResultSet
<1>3. test_skipped' \in SUBSET (1..Current)  BY <1>2 DEF Shape, TestTypes
<1>4. test_outlived' \in BOOLEAN  BY DEF Shape, TestTypes
<1>5. TestTypes'  BY <1>1, <1>2, <1>3, <1>4 DEF Shape, TestTypes
<1>6. Positions'  BY <1>1, <1>2 DEF Shape, Positions, Running
<1>. QED  BY <1>5, <1>6 DEF Shape

LEMMA HelperKeepsShape ==
    ASSUME Shape, HelperStarts \/ HelperEnds
    PROVE  Shape'
<1>1. CASE HelperStarts
  <2>. USE <1>1 DEF HelperStarts, MainInBody, test_histories
  <2>1. Current' = Current /\ vf_test_rs' = vf_test_rs /\ Current \in 0..Current
    BY DEF Shape, TestTypes, RunStates, Current
  <2>2. Current # 0  BY DEF Shape, Positions, Running
  <2>3. TestTypes'  BY <2>1 DEF Shape, TestTypes
  <2>4. Positions'  BY <2>1, <2>2 DEF Shape, Positions, Running
  <2>. QED  BY <2>3, <2>4 DEF Shape
<1>2. CASE HelperEnds
  <2>. USE <1>2 DEF HelperEnds, test_histories
  <2>1. Current' = Current /\ vf_test_rs' = vf_test_rs /\ 0 \in 0..Current
    BY DEF Shape, TestTypes, RunStates, Current
  <2>3. TestTypes'  BY <2>1 DEF Shape, TestTypes
  <2>4. Positions'  BY <2>1 DEF Shape, Positions, Running
  <2>. QED  BY <2>3, <2>4 DEF Shape
<1>. QED  BY <1>1, <1>2

LEMMA TestReturnsKeepsShape ==
    ASSUME Shape, TestReturns
    PROVE  Shape'
<1>. USE DEF TestReturns, MainInBody, test_threads
<1>1. Current' = Current /\ vf_test_rs' = vf_test_rs  BY DEF Current
<1>2. TestTypes'  BY <1>1 DEF Shape, TestTypes
<1>3. Positions'  BY <1>1 DEF Shape, Positions, Running
<1>. QED  BY <1>2, <1>3 DEF Shape

\* A round of the runner's loop begins: the next test has no result yet.
LEMMA TestStartsDoes ==
    ASSUME Shape, TestStarts
    PROVE  /\ Current' = Current + 1 /\ Current' \in 1..Len(vf_tests)
           /\ ResultSet(Current + 1, "NONE")
           /\ vf_test_rs'.current_suite = vf_tests[Current + 1].case.suite
           /\ vf_test_rs'.suites = IF vf_test_rs.current_suite # vf_test_rs'.current_suite
                                   THEN vf_test_rs.suites + 1 ELSE vf_test_rs.suites
           /\ vf_test_rs'.passes = vf_test_rs.passes
           /\ vf_test_rs'.fails = vf_test_rs.fails
           /\ vf_test_rs'.skips = vf_test_rs.skips
           /\ vf_test_rs' \in RunStates
<1>. DEFINE c == Current + 1
            s == vf_tests[c].case.suite
            n == IF vf_test_rs.current_suite # s THEN vf_test_rs.suites + 1
                                                ELSE vf_test_rs.suites
<1>1. vf_test_rs \in RunStates /\ TestTypes  BY DEF Shape, TestTypes
<1>2. Current \in Nat /\ vf_test_rs.suites \in Nat /\ Len(vf_tests) \in Nat
      /\ vf_tests \in Seq(Entries)
  BY <1>1 DEF RunStates, Current, TestTypes
<1>3. Current < Len(vf_tests)  BY DEF TestStarts
<1>4. c \in 1..Len(vf_tests)  BY <1>2, <1>3
<1>5. s \in Nat
  <2>1. vf_tests[c] \in Entries  BY <1>2, <1>4
  <2>. QED  BY <2>1, TestAssumption DEF Entries
<1>6. vf_test_rs' = [vf_test_rs EXCEPT !.current_test_idx = c, !.current_suite = s,
                                       !.suites = n]
  BY Zenon DEF TestStarts, Current
<1>. HIDE DEF c, s, n
<1>7. vf_test_rs' = [current_test_idx |-> c, current_suite |-> s, suites |-> n,
                     passes |-> vf_test_rs.passes, fails |-> vf_test_rs.fails,
                     skips |-> vf_test_rs.skips]
  <2>1. \A i, x, m : [vf_test_rs EXCEPT !.current_test_idx = i, !.current_suite = x,
                                         !.suites = m]
            = [current_test_idx |-> i, current_suite |-> x, suites |-> m,
               passes |-> vf_test_rs.passes, fails |-> vf_test_rs.fails,
               skips |-> vf_test_rs.skips]
    BY <1>1, RunStateUpdates, Zenon
  <2>2. [vf_test_rs EXCEPT !.current_test_idx = c, !.current_suite = s, !.suites = n]
            = [current_test_idx |-> c, current_suite |-> s, suites |-> n,
               passes |-> vf_test_rs.passes, fails |-> vf_test_rs.fails,
               skips |-> vf_test_rs.skips]
    BY <2>1, Zenon
  <2>. QED  BY <1>6, <2>2, Zenon
<1>8. n \in Nat /\ c \in Nat  BY <1>2 DEF n, c
<1>9. vf_test_rs' \in RunStates  BY <1>1, <1>5, <1>7, <1>8 DEF RunStates
<1>10. Current' = c  BY <1>7 DEF Current
<1>11. ResultSet(c, "NONE")
  <2>1. vf_tests' = [vf_tests EXCEPT ![c].result = "NONE"]  BY DEF TestStarts, c
  <2>2. "NONE" \in Results  BY DEF Results
  <2>. QED  BY <1>1, <1>8, <2>1, <2>2, ResultIsSet
<1>12. /\ vf_test_rs'.current_suite = s /\ vf_test_rs'.suites = n
       /\ vf_test_rs'.passes = vf_test_rs.passes
       /\ vf_test_rs'.fails = vf_test_rs.fails
       /\ vf_test_rs'.skips = vf_test_rs.skips
  BY <1>7
<1>. QED  BY <1>4, <1>9, <1>10, <1>11, <1>12 DEF c, s, n

LEMMA TestStartsKeepsShape ==
    ASSUME Shape, TestStarts
    PROVE  Shape'
<1>. USE DEF TestStarts, test_threads
<1>1. /\ Current' = Current + 1 /\ Current' \in 1..Len(vf_tests)
      /\ vf_tests' \in Seq(Entries) /\ Len(vf_tests') = Len(vf_tests)
      /\ vf_test_rs' \in RunStates
  BY TestStartsDoes DEF ResultSet
<1>2. Current \in Nat /\ Len(vf_tests) \in Nat  BY DEF Shape, TestTypes, RunStates, Current
<1>3. test_helper' \in 0..Current'
  BY <1>1, <1>2 DEF Shape, TestTypes
<1>4. 1..Current \subseteq 1..Current'  BY <1>1, <1>2
<1>5. test_failed' \in SUBSET (1..Current') /\ test_skipped' \in SUBSET (1..Current')
  BY <1>4 DEF Shape, TestTypes
<1>6. Len(vf_tests') <= VF_TEST_MAX_TESTS /\ Current' <= Len(vf_tests') /\ Current' # 0
  BY <1>1, <1>2 DEF Shape, TestTypes
<1>7. vf_test_failure_count' \in Nat /\ test_checks' \in Nat  BY DEF FailuresAtStart
<1>8. TestTypes'  BY <1>1, <1>3, <1>5, <1>6, <1>7 DEF Shape, TestTypes
<1>9. Positions'  BY <1>6 DEF Shape, Positions, Running
<1>. QED  BY <1>8, <1>9 DEF Shape

LEMMA ResultComparedKeepsShape ==
    ASSUME Shape, ResultCompared
    PROVE  Shape'
<1>. USE DEF ResultCompared, Finds, test_threads, test_histories
<1>1. Current' = Current  BY DEF Current
<1>2. TestTypes'  BY <1>1 DEF Shape, TestTypes
<1>3. Positions'  BY <1>1 DEF Shape, Positions, Running
<1>. QED  BY <1>2, <1>3 DEF Shape

LEMMA ResultPassesDoes ==
    ASSUME Shape, ResultPasses
    PROVE  /\ Current \in 1..Len(vf_tests)
           /\ ResultSet(Current, "PASS")
<1>1. TestTypes /\ Positions /\ Current \in Nat
  BY DEF Shape, TestTypes, RunStates, Current
<1>2. Current # 0  BY <1>1 DEF ResultPasses, Positions, Running
<1>3. Current \in 1..Len(vf_tests)  BY <1>1, <1>2 DEF TestTypes
<1>4. "PASS" \in Results  BY DEF Results
<1>. QED  BY <1>1, <1>3, <1>4, ResultIsSet, Zenon DEF ResultPasses, Marked

LEMMA ResultPassesKeepsShape ==
    ASSUME Shape, ResultPasses
    PROVE  Shape'
<1>. USE DEF ResultPasses, Finds, test_threads, test_histories
<1>1. Current' = Current /\ vf_test_rs' = vf_test_rs  BY DEF Current
<1>2. vf_tests' \in Seq(Entries) /\ Len(vf_tests') = Len(vf_tests)
  BY ResultPassesDoes DEF ResultSet
<1>3. TestTypes'  BY <1>1, <1>2 DEF Shape, TestTypes
<1>4. Positions'  BY <1>1 DEF Shape, Positions, Running
<1>. QED  BY <1>3, <1>4 DEF Shape

\* The test that was run is counted by its result, once.
LEMMA ResultCountedDoes ==
    ASSUME Shape, ResultCounted
    PROVE  /\ Current' = Current /\ vf_test_rs' \in RunStates
           /\ vf_test_rs'.current_suite = vf_test_rs.current_suite
           /\ vf_test_rs'.suites = vf_test_rs.suites
           /\ test_pc' = "next"
           /\ LET r == vf_tests[Current].result
                  Counted(n, result) == IF r = result THEN n + 1 ELSE n
              IN  /\ r \in {"SKIP", "FAIL", "PASS"}
                  /\ vf_test_rs'.skips = Counted(vf_test_rs.skips, "SKIP")
                  /\ vf_test_rs'.fails = Counted(vf_test_rs.fails, "FAIL")
                  /\ vf_test_rs'.passes = Counted(vf_test_rs.passes, "PASS")
<1>. DEFINE r == vf_tests[Current].result
            rs == vf_test_rs
<1>1. rs \in RunStates  BY DEF Shape, TestTypes
<1>2. rs.skips + 1 \in Nat /\ rs.fails + 1 \in Nat /\ rs.passes + 1 \in Nat
  BY <1>1 DEF RunStates
<1>3. CASE r = "SKIP"
  <2>1. vf_test_rs' = [rs EXCEPT !.skips = rs.skips + 1] /\ test_pc' = "next"
    BY <1>3 DEF ResultCounted, Finds
  <2>2. vf_test_rs' = [current_test_idx |-> rs.current_test_idx,
                       current_suite |-> rs.current_suite, suites |-> rs.suites,
                       passes |-> rs.passes, fails |-> rs.fails, skips |-> rs.skips + 1]
    BY <1>1, <2>1, RunStateUpdates, Zenon
  <2>3. vf_test_rs' \in RunStates  BY <1>1, <1>2, <2>2 DEF RunStates
  <2>. QED  BY <1>3, <2>1, <2>2, <2>3 DEF Current
<1>4. CASE r = "FAIL"
  <2>1. vf_test_rs' = [rs EXCEPT !.fails = rs.fails + 1] /\ test_pc' = "next"
    BY <1>4 DEF ResultCounted, Finds
  <2>2. vf_test_rs' = [current_test_idx |-> rs.current_test_idx,
                       current_suite |-> rs.current_suite, suites |-> rs.suites,
                       passes |-> rs.passes, fails |-> rs.fails + 1, skips |-> rs.skips]
    BY <1>1, <2>1, RunStateUpdates, Zenon
  <2>3. vf_test_rs' \in RunStates  BY <1>1, <1>2, <2>2 DEF RunStates
  <2>. QED  BY <1>4, <2>1, <2>2, <2>3 DEF Current
<1>5. CASE r = "PASS"
  <2>1. vf_test_rs' = [rs EXCEPT !.passes = rs.passes + 1] /\ test_pc' = "next"
    BY <1>5 DEF ResultCounted, Finds
  <2>2. vf_test_rs' = [current_test_idx |-> rs.current_test_idx,
                       current_suite |-> rs.current_suite, suites |-> rs.suites,
                       passes |-> rs.passes + 1, fails |-> rs.fails, skips |-> rs.skips]
    BY <1>1, <2>1, RunStateUpdates, Zenon
  <2>3. vf_test_rs' \in RunStates  BY <1>1, <1>2, <2>2 DEF RunStates
  <2>. QED  BY <1>5, <2>1, <2>2, <2>3 DEF Current
<1>6. r = "SKIP" \/ r = "FAIL" \/ r = "PASS"  BY DEF ResultCounted, Finds
<1>. QED  BY <1>3, <1>4, <1>5, <1>6

LEMMA ResultCountedKeepsShape ==
    ASSUME Shape, ResultCounted
    PROVE  Shape'
<1>. USE DEF ResultCounted, Finds, test_threads, test_histories
<1>1. Current' = Current /\ vf_test_rs' \in RunStates /\ test_pc' = "next"
  BY ResultCountedDoes
<1>2. TestTypes'  BY <1>1 DEF Shape, TestTypes
<1>3. Positions'  BY <1>1 DEF Shape, Positions, Running
<1>. QED  BY <1>2, <1>3 DEF Shape

LEMMA TestRunReturnsKeepsShape ==
    ASSUME Shape, TestRunReturns
    PROVE  Shape'
<1>. USE DEF TestRunReturns, test_threads, test_histories
<1>1. Current' = Current  BY DEF Current
<1>2. TestTypes'  BY <1>1 DEF Shape, TestTypes
<1>3. Positions'  BY <1>1 DEF Shape, Positions, Running
<1>. QED  BY <1>2, <1>3 DEF Shape

LEMMA ShapeStep ==
    ASSUME Shape, TestNext
    PROVE  Shape'
<1>1. ASSUME NEW c \in TestCases, vf_test_register_one(c) PROVE Shape'
  BY <1>1, RegisterKeepsShape
<1>2. ASSUME NEW t \in Recorders, vf_test_record_failure(t) PROVE Shape'
  BY <1>2, CheckFailsKeepsShape, ClaimSlotKeepsShape, MarkFailKeepsShape
     DEF vf_test_record_failure
<1>3. CASE vf_test_record_skip \/ HelperStarts \/ HelperEnds \/ TestReturns
  BY <1>3, SkipKeepsShape, HelperKeepsShape, TestReturnsKeepsShape
<1>4. CASE vf_test_run
  BY <1>4, SortKeepsShape, TestStartsKeepsShape, ResultComparedKeepsShape,
     ResultPassesKeepsShape, ResultCountedKeepsShape, TestRunReturnsKeepsShape
     DEF vf_test_run
<1>. QED  BY <1>1, <1>2, <1>3, <1>4 DEF TestNext

LEMMA ShapeStutter ==
    ASSUME Shape, UNCHANGED test_vars
    PROVE  Shape'
BY DEF Shape, TestTypes, Positions, Running, Current, test_vars, test_threads, test_histories

-----------------------------------------------------------------------------
(* The list of failures *)

\* As many as fit
Fitting(n) == IF n < FailureSlots THEN n ELSE FailureSlots

\* As long as it was never two, one thread at most records a failure.
OneRecorder == ~test_together =>
    \A t, u \in Recorders : test_inside[t] # "out" /\ test_inside[u] # "out" => t = u

\* Then the list has room for the slot that the thread is about to claim, also
\* if the next test has emptied it in between.
ListInBounds == ~test_together =>
    /\ vf_test_failure_count <= FailureSlots
    /\ \A t \in Recorders : test_inside[t] = "claim" =>
          test_seen[t] < FailureSlots /\ vf_test_failure_count < FailureSlots

\* As long as no test returned before its helper, the helper is the current test's.
HelperInTime == ~test_outlived /\ test_helper # 0 =>
    test_helper = Current /\ test_pc = "body"

\* How far the list is behind the failures of the test, thread by thread.
ListExact == Running /\ ~test_together /\ ~test_outlived =>
    /\ (\A t \in Recorders : test_inside[t] = "out") =>
          vf_test_failure_count = Fitting(test_checks)
    /\ \A t \in Recorders :
          /\ test_inside[t] = "claim" => /\ vf_test_failure_count = Fitting(test_checks)
                                         /\ test_seen[t] = vf_test_failure_count
          /\ test_inside[t] = "mark" => vf_test_failure_count = Fitting(test_checks + 1)

FailuresKnown == OneRecorder /\ ListInBounds /\ HelperInTime /\ ListExact

LEMMA FailuresInit == TestInit => FailuresKnown
<1>. SUFFICES ASSUME TestInit PROVE FailuresKnown  OBVIOUS
<1>1. \A t \in Recorders : test_inside[t] = "out"  BY DEF TestInit
<1>2. 0 <= FailureSlots  BY TestAssumption
<1>3. ~Running /\ test_helper = 0 /\ vf_test_failure_count = 0  BY DEF TestInit, Running
<1>. QED  BY <1>1, <1>2, <1>3 DEF FailuresKnown, OneRecorder, ListInBounds, HelperInTime, ListExact

\* A step that leaves the threads and the list alone, and begins no test.
LEMMA FailuresUnchanged ==
    ASSUME FailuresKnown, Current' = Current, Running' => Running,
           test_pc = "body" => test_pc' = "body" \/ test_outlived' \/ test_helper = 0,
           UNCHANGED <<vf_test_failure_count, test_threads, test_checks, test_together>>,
           ~test_outlived' => ~test_outlived
    PROVE  FailuresKnown'
<1>. USE DEF test_threads
<1>1. OneRecorder'  BY DEF FailuresKnown, OneRecorder
<1>2. ListInBounds'  BY DEF FailuresKnown, ListInBounds
<1>3. HelperInTime'  BY DEF FailuresKnown, HelperInTime
<1>4. ListExact'
  <2>. SUFFICES ASSUME Running', ~test_together', ~test_outlived' PROVE ListExact'
    BY DEF ListExact
  <2>1. Running /\ ~test_together /\ ~test_outlived  OBVIOUS
  <2>. QED  BY <2>1 DEF FailuresKnown, ListExact, Fitting
<1>. QED  BY <1>1, <1>2, <1>3, <1>4 DEF FailuresKnown

LEMMA CheckFailsKeepsFailures ==
    ASSUME Shape, FailuresKnown, NEW t \in Recorders, CheckFails(t)
    PROVE  FailuresKnown'
<1>. USE DEF CheckFails
<1>1. Current' = Current /\ Running' = Running  BY DEF Current, Running
<1>2. FailureSlots \in Nat /\ vf_test_failure_count \in Nat /\ test_checks \in Nat
  BY TestAssumption DEF Shape, TestTypes
<1>3. test_inside \in [Recorders -> {"out", "claim", "mark"}] /\ test_seen \in [Recorders -> Nat]
  BY DEF Shape, TestTypes
<1>4. ASSUME ~test_together'
      PROVE  ~test_together /\ \A u \in Recorders : test_inside[u] = "out"
  BY <1>4
<1>5. \A u \in Recorders : u # t => test_inside'[u] = test_inside[u]  BY <1>3
<1>6. \/ /\ test_inside'[t] = "claim" /\ test_seen'[t] = vf_test_failure_count
         /\ vf_test_failure_count < FailureSlots
      \/ /\ test_inside'[t] = "mark"
         /\ vf_test_failure_count >= FailureSlots
  BY <1>3
<1>7. OneRecorder'  BY <1>4, <1>5 DEF OneRecorder
<1>8. ListInBounds'
  <2>. SUFFICES ASSUME ~test_together' PROVE ListInBounds'  BY DEF ListInBounds
  <2>1. vf_test_failure_count <= FailureSlots  BY <1>4 DEF FailuresKnown, ListInBounds
  <2>2. \A u \in Recorders : test_inside'[u] = "claim" => u = t  BY <1>4, <1>5
  <2>. QED  BY <1>6, <2>1, <2>2 DEF ListInBounds
<1>9. HelperInTime'  BY <1>1 DEF FailuresKnown, HelperInTime
<1>10. ListExact'
  <2>. SUFFICES ASSUME Running', ~test_together', ~test_outlived' PROVE ListExact'
    BY DEF ListExact
  <2>1. vf_test_failure_count = Fitting(test_checks)
    BY <1>1, <1>4 DEF FailuresKnown, ListExact
  <2>2. vf_test_failure_count >= FailureSlots => vf_test_failure_count = Fitting(test_checks + 1)
    BY <1>2, <2>1 DEF Fitting
  <2>3. \A u \in Recorders : test_inside'[u] # "out" => u = t  BY <1>4, <1>5
  <2>4. test_inside'[t] # "out"  BY <1>6
  <2>5. test_inside'[t] = "claim" =>
            vf_test_failure_count' = Fitting(test_checks)' /\ test_seen'[t] = vf_test_failure_count'
    BY <1>6, <2>1 DEF Fitting
  <2>6. test_inside'[t] = "mark" => vf_test_failure_count' = Fitting(test_checks + 1)'
    BY <1>6, <2>2 DEF Fitting
  <2>. QED  BY <2>3, <2>4, <2>5, <2>6 DEF ListExact
<1>. QED  BY <1>7, <1>8, <1>9, <1>10 DEF FailuresKnown

LEMMA ClaimSlotKeepsFailures ==
    ASSUME Shape, FailuresKnown, NEW t \in Recorders, ClaimSlot(t)
    PROVE  FailuresKnown'
<1>. USE DEF ClaimSlot, test_histories
<1>1. Current' = Current /\ Running' = Running  BY DEF Current, Running
<1>2. FailureSlots \in Nat /\ vf_test_failure_count \in Nat /\ test_checks \in Nat
  BY TestAssumption DEF Shape, TestTypes
<1>3. test_inside \in [Recorders -> {"out", "claim", "mark"}] /\ test_seen \in [Recorders -> Nat]
  BY DEF Shape, TestTypes
<1>4. \A u \in Recorders : u # t => test_inside'[u] = test_inside[u]  BY <1>3
<1>5. test_inside'[t] = "mark"  BY <1>3
<1>6. OneRecorder'  BY <1>4, <1>5 DEF FailuresKnown, OneRecorder
<1>7. ASSUME ~test_together PROVE \A u \in Recorders : u # t => test_inside'[u] = "out"
  BY <1>4, <1>7 DEF FailuresKnown, OneRecorder
<1>8. ListInBounds'
  <2>. SUFFICES ASSUME ~test_together PROVE ListInBounds'  BY DEF ListInBounds
  <2>1. test_seen[t] < FailureSlots /\ vf_test_failure_count < FailureSlots
    BY DEF FailuresKnown, ListInBounds
  <2>2. test_seen[t] \in Nat  BY <1>3
  <2>3. vf_test_failure_count' <= FailureSlots  BY <1>2, <2>1, <2>2
  <2>4. \A u \in Recorders : test_inside'[u] # "claim"  BY <1>5, <1>7
  <2>. QED  BY <2>3, <2>4 DEF ListInBounds
<1>9. HelperInTime'  BY <1>1 DEF FailuresKnown, HelperInTime
<1>10. ListExact'
  <2>. SUFFICES ASSUME Running, ~test_together, ~test_outlived PROVE ListExact'
    BY <1>1 DEF ListExact
  <2>1. vf_test_failure_count = Fitting(test_checks) /\ test_seen[t] = vf_test_failure_count
    BY DEF FailuresKnown, ListExact
  <2>2. vf_test_failure_count < FailureSlots  BY DEF FailuresKnown, ListInBounds
  <2>3. vf_test_failure_count' = vf_test_failure_count + 1  BY <2>1
  <2>4. vf_test_failure_count' = Fitting(test_checks + 1)
    BY <1>2, <2>1, <2>2, <2>3 DEF Fitting
  <2>5. \A u \in Recorders : test_inside'[u] # "claim" /\ ~(\A v \in Recorders : test_inside'[v] = "out")
    BY <1>5, <1>7
  <2>. QED  BY <2>4, <2>5 DEF ListExact, Fitting
<1>. QED  BY <1>6, <1>8, <1>9, <1>10 DEF FailuresKnown

LEMMA MarkFailKeepsFailures ==
    ASSUME Shape, FailuresKnown, NEW t \in Recorders, MarkFail(t)
    PROVE  FailuresKnown'
<1>. USE DEF MarkFail
<1>1. Current' = Current /\ Running' = Running  BY DEF Current, Running
<1>3. test_inside \in [Recorders -> {"out", "claim", "mark"}]
  BY DEF Shape, TestTypes
<1>4. \A u \in Recorders : u # t => test_inside'[u] = test_inside[u]  BY <1>3
<1>5. test_inside'[t] = "out"  BY <1>3
<1>6. OneRecorder'  BY <1>4, <1>5 DEF FailuresKnown, OneRecorder
<1>7. ASSUME ~test_together PROVE \A u \in Recorders : test_inside'[u] = "out"
  BY <1>4, <1>5, <1>7 DEF FailuresKnown, OneRecorder
<1>8. ListInBounds'  BY <1>7 DEF FailuresKnown, ListInBounds
<1>9. HelperInTime'  BY <1>1 DEF FailuresKnown, HelperInTime
<1>10. ListExact'
  <2>. SUFFICES ASSUME Running, ~test_together, ~test_outlived PROVE ListExact'
    BY <1>1 DEF ListExact
  <2>1. vf_test_failure_count = Fitting(test_checks + 1)  BY DEF FailuresKnown, ListExact
  <2>2. InTime(t)
    <3>1. CASE t = "main"  BY <3>1 DEF InTime
    <3>2. CASE t = "helper"
      <4>1. test_helper # 0  BY <3>2 DEF Shape, Positions
      <4>. QED  BY <4>1 DEF FailuresKnown, HelperInTime, InTime
    <3>. QED  BY <3>1, <3>2 DEF Recorders
  <2>3. test_checks' = test_checks + 1  BY <2>2
  <2>. QED  BY <1>7, <2>1, <2>3 DEF ListExact, Fitting
<1>. QED  BY <1>6, <1>8, <1>9, <1>10 DEF FailuresKnown

LEMMA TestStartsKeepsFailures ==
    ASSUME Shape, FailuresKnown, TestStarts
    PROVE  FailuresKnown'
<1>. USE DEF TestStarts, test_threads, FailuresAtStart
<1>1. FailureSlots \in Nat /\ 0 < FailureSlots  BY TestAssumption
<1>2. OneRecorder'  BY DEF FailuresKnown, OneRecorder
<1>3. ListInBounds'  BY <1>1 DEF FailuresKnown, ListInBounds
<1>4. ~test_outlived => test_helper = 0  BY DEF FailuresKnown, HelperInTime
<1>5. HelperInTime'  BY <1>4 DEF HelperInTime
<1>6. ~test_outlived => \A t \in Recorders : test_inside[t] = "out"
  BY <1>4 DEF Shape, Positions, Recorders
<1>7. ListExact'  BY <1>1, <1>6 DEF ListExact, Fitting
<1>. QED  BY <1>2, <1>3, <1>5, <1>7 DEF FailuresKnown

LEMMA FailuresStep ==
    ASSUME Shape, FailuresKnown, TestNext
    PROVE  FailuresKnown'
<1>1. ASSUME NEW c \in TestCases, vf_test_register_one(c) PROVE FailuresKnown'
  BY <1>1, FailuresUnchanged DEF vf_test_register_one, test_threads, test_histories, Current, Running
<1>2. ASSUME NEW t \in Recorders, vf_test_record_failure(t) PROVE FailuresKnown'
  BY <1>2, CheckFailsKeepsFailures, ClaimSlotKeepsFailures, MarkFailKeepsFailures
     DEF vf_test_record_failure
<1>3. CASE vf_test_record_skip
  BY <1>3, FailuresUnchanged DEF vf_test_record_skip, MainInBody, Current, Running, Shape, TestTypes
<1>4. CASE HelperStarts
  <2>. USE <1>4 DEF HelperStarts, MainInBody, test_histories
  <2>1. Current' = Current /\ Running' = Running /\ Fitting(test_checks)' = Fitting(test_checks)
        /\ Fitting(test_checks + 1)' = Fitting(test_checks + 1)
    BY DEF Current, Running, Fitting
  <2>. QED  BY <2>1 DEF FailuresKnown, OneRecorder, ListInBounds, HelperInTime, ListExact
<1>5. CASE HelperEnds
  <2>. USE <1>5 DEF HelperEnds, test_histories
  <2>1. Current' = Current /\ Running' = Running /\ Fitting(test_checks)' = Fitting(test_checks)
        /\ Fitting(test_checks + 1)' = Fitting(test_checks + 1)
    BY DEF Current, Running, Fitting
  <2>. QED  BY <2>1 DEF FailuresKnown, OneRecorder, ListInBounds, HelperInTime, ListExact
<1>6. CASE TestReturns
  BY <1>6, FailuresUnchanged DEF TestReturns, MainInBody, Current, Running, Shape, TestTypes
<1>7. CASE TestRunSorts
  BY <1>7, FailuresUnchanged DEF TestRunSorts, test_threads, test_histories, Current, Running
<1>8. CASE TestStarts  BY <1>8, TestStartsKeepsFailures
<1>9. CASE ResultCompared
  BY <1>9, FailuresUnchanged DEF ResultCompared, Finds, test_threads, test_histories, Current, Running
<1>10. CASE ResultPasses
  BY <1>10, FailuresUnchanged DEF ResultPasses, Finds, test_threads, test_histories, Current, Running
<1>11. CASE ResultCounted
  <2>1. Current' = Current  BY <1>11, ResultCountedDoes
  <2>. QED  BY <1>11, <2>1, FailuresUnchanged
            DEF ResultCounted, Finds, test_threads, test_histories, Running
<1>12. CASE TestRunReturns
  BY <1>12, FailuresUnchanged DEF TestRunReturns, test_threads, test_histories, Current, Running
<1>. QED  BY <1>1, <1>2, <1>3, <1>4, <1>5, <1>6, <1>7, <1>8, <1>9, <1>10, <1>11, <1>12
          DEF TestNext, vf_test_run

LEMMA FailuresStutter ==
    ASSUME FailuresKnown, UNCHANGED test_vars
    PROVE  FailuresKnown'
BY FailuresUnchanged DEF test_vars, test_threads, test_histories, Current, Running

-----------------------------------------------------------------------------
(* Which tests there are, and in which order *)

\* The tests that were registered and had room, each once; after the sort, in order.
RegisteredOnce ==
    /\ IsFiniteSet(test_loaded)
    /\ Len(vf_tests) = IF Cardinality(test_loaded) < VF_TEST_MAX_TESTS
                       THEN Cardinality(test_loaded) ELSE VF_TEST_MAX_TESTS
    /\ Distinct(vf_tests)
    /\ \A k \in 1..Len(vf_tests) : vf_tests[k].case \in test_loaded
    /\ test_pc # "load" => InOrder(vf_tests)

\* The tests are the same, whatever their results.
SameTests == /\ Len(vf_tests') = Len(vf_tests)
             /\ \A k \in 1..Len(vf_tests) : vf_tests'[k].case = vf_tests[k].case

LEMMA ResultSetSameTests ==
    ASSUME NEW c, NEW r, ResultSet(c, r)
    PROVE  SameTests
<1>. SUFFICES ASSUME NEW k \in 1..Len(vf_tests)
              PROVE  vf_tests'[k].case = vf_tests[k].case
  BY DEF ResultSet, SameTests
<1>1. CASE k = c
  <2>1. vf_tests'[k] = [case |-> vf_tests[k].case, result |-> r]  BY <1>1 DEF ResultSet
  <2>. QED  BY <2>1
<1>2. CASE k # c  BY <1>2 DEF ResultSet
<1>. QED  BY <1>1, <1>2

LEMMA RegisteredInit == TestInit => RegisteredOnce
<1>. SUFFICES ASSUME TestInit PROVE RegisteredOnce  OBVIOUS
<1>1. IsFiniteSet({}) /\ Cardinality({}) = 0  BY FS_EmptySet
<1>2. test_loaded = {} /\ vf_tests = <<>> /\ test_pc = "load"  BY DEF TestInit
<1>3. Len(vf_tests) = 0  BY <1>2
<1>4. 0 < VF_TEST_MAX_TESTS  BY TestAssumption
<1>. QED  BY <1>1, <1>2, <1>3, <1>4 DEF RegisteredOnce, Distinct

LEMMA SameTestsKeepRegistered ==
    ASSUME RegisteredOnce, SameTests, test_loaded' = test_loaded, test_pc # "load"
    PROVE  RegisteredOnce'
<1>1. Distinct(vf_tests)'  BY DEF RegisteredOnce, SameTests, Distinct
<1>2. InOrder(vf_tests)'  BY DEF RegisteredOnce, SameTests, InOrder, Cmp
<1>. QED  BY <1>1, <1>2 DEF RegisteredOnce, SameTests

LEMMA RegisterKeepsRegistered ==
    ASSUME Shape, RegisteredOnce, NEW c \in TestCases, vf_test_register_one(c)
    PROVE  RegisteredOnce'
<1>. DEFINE n == Len(vf_tests)
            m == Cardinality(test_loaded)
            max == VF_TEST_MAX_TESTS
<1>1. test_loaded' = test_loaded \cup {c} /\ c \notin test_loaded /\ test_pc' = "load"
  BY DEF vf_test_register_one
<1>2. IsFiniteSet(test_loaded) /\ m \in Nat /\ n \in Nat /\ max \in Nat
  BY FS_CardinalityType, TestAssumption DEF RegisteredOnce, Shape, TestTypes
<1>3. IsFiniteSet(test_loaded') /\ Cardinality(test_loaded') = m + 1
  BY <1>1, <1>2, FS_AddElement
<1>4. n = IF m < max THEN m ELSE max  BY DEF RegisteredOnce
<1>. HIDE DEF m, max
<1>5. \A k \in 1..n : vf_tests[k].case \in test_loaded  BY DEF RegisteredOnce
<1>6. CASE n >= max /\ vf_tests' = vf_tests
  <2>1. Distinct(vf_tests)'  BY <1>6 DEF RegisteredOnce
  <2>2. \A k \in 1..n : vf_tests[k].case \in test_loaded'  BY <1>1, <1>5
  <2>3. n = IF m + 1 < max THEN m + 1 ELSE max
    <3>. HIDE DEF n
    <3>. QED  BY <1>2, <1>4, <1>6
  <2>. QED  BY <1>1, <1>3, <1>6, <2>1, <2>2, <2>3 DEF RegisteredOnce, max
<1>7. CASE /\ n < max
           /\ vf_tests' \in Seq(Entries) /\ Len(vf_tests') = n + 1
           /\ \A k \in 1..n : vf_tests'[k] = vf_tests[k]
           /\ vf_tests'[n + 1].case = c
  <2>1. \A k \in 1..(n + 1) : k = n + 1 \/ k \in 1..n
    <3>. HIDE DEF n
    <3>. QED  BY <1>2
  <2>2. \A k \in 1..n : vf_tests'[k].case \in test_loaded /\ vf_tests'[k].case = vf_tests[k].case
    BY <1>5, <1>7
  <2>3. \A k \in 1..(n + 1) : vf_tests'[k].case \in test_loaded'
    <3>. HIDE DEF n
    <3>. QED  BY <1>1, <1>7, <2>1, <2>2
  <2>4. \A j, k \in 1..(n + 1) : j # k => vf_tests'[j].case # vf_tests'[k].case
    <3>1. \A j, k \in 1..n : j # k => vf_tests[j].case # vf_tests[k].case
      BY DEF RegisteredOnce, Distinct
    <3>. HIDE DEF n
    <3>. QED  BY <1>1, <1>7, <2>1, <2>2, <3>1
  <2>5. n + 1 = IF m + 1 < max THEN m + 1 ELSE max
    <3>. HIDE DEF n
    <3>. QED  BY <1>2, <1>4, <1>7
  <2>6. Len(vf_tests') = n + 1  BY <1>7
  <2>. HIDE DEF n
  <2>7. Distinct(vf_tests)'  BY <2>4, <2>6 DEF Distinct
  <2>. QED  BY <1>1, <1>3, <2>3, <2>5, <2>6, <2>7 DEF RegisteredOnce, max
<1>. HIDE DEF n
<1>. QED  BY <1>6, <1>7, RegisterDoes DEF n, max

LEMMA SortKeepsRegistered ==
    ASSUME Shape, RegisteredOnce, TestRunSorts
    PROVE  RegisteredOnce'
<1>1. vf_tests' = _test_sort /\ test_loaded' = test_loaded  BY DEF TestRunSorts
<1>2. SortedSoFar(vf_tests', Len(vf_tests))  BY <1>1, SortIsRight DEF Shape, TestTypes
<1>3. Len(vf_tests') = Len(vf_tests) /\ InOrder(vf_tests') /\ Distinct(vf_tests')
  BY <1>2 DEF SortedSoFar, RegisteredOnce
<1>4. \A k \in 1..Len(vf_tests) : vf_tests'[k].case \in test_loaded
  BY <1>2 DEF SortedSoFar, RegisteredOnce
<1>5. Distinct(vf_tests)' /\ InOrder(vf_tests)'  BY <1>3 DEF Distinct, InOrder
<1>. QED  BY <1>1, <1>3, <1>4, <1>5 DEF RegisteredOnce

\* Every step but the registration and the sort leaves the tests what they are.
LEMMA OtherStepsSameTests ==
    ASSUME Shape, TestNext,
           \A c \in TestCases : ~vf_test_register_one(c),
           ~TestRunSorts
    PROVE  SameTests /\ test_loaded' = test_loaded /\ test_pc # "load"
<1>1. ASSUME NEW t \in Recorders, CheckFails(t) \/ ClaimSlot(t) PROVE UNCHANGED <<vf_tests, test_loaded>>
  BY <1>1 DEF CheckFails, ClaimSlot
<1>2. ASSUME NEW t \in Recorders, CheckFails(t) \/ ClaimSlot(t) \/ MarkFail(t) PROVE test_pc # "load"
  <2>1. CASE CheckFails(t) /\ test_inside[t] = "out"
    BY <2>1 DEF CheckFails, Shape, Positions, TestTypes
  <2>2. CASE test_inside[t] # "out" /\ t = "main"  BY <2>2 DEF Shape, Positions
  <2>3. CASE test_inside[t] # "out" /\ t = "helper"  BY <2>3 DEF Shape, Positions, TestTypes
  <2>. QED  BY <1>2, <2>1, <2>2, <2>3 DEF CheckFails, ClaimSlot, MarkFail, Recorders
<1>3. ASSUME NEW t \in Recorders, MarkFail(t) PROVE SameTests /\ test_loaded' = test_loaded
  BY <1>3, MarkFailDoes, ResultSetSameTests DEF MarkFail
<1>4. ASSUME vf_tests' = vf_tests PROVE SameTests
  BY <1>4 DEF SameTests
<1>5. CASE vf_test_record_skip
  BY <1>5, SkipDoes, ResultSetSameTests DEF vf_test_record_skip, MainInBody
<1>6. CASE HelperStarts  BY <1>6, <1>4 DEF HelperStarts, MainInBody
<1>7. CASE HelperEnds
  BY <1>7, <1>4 DEF HelperEnds, Shape, Positions, TestTypes
<1>8. CASE TestReturns  BY <1>8, <1>4 DEF TestReturns, MainInBody
<1>9. CASE TestStarts
  BY <1>9, TestStartsDoes, ResultSetSameTests DEF TestStarts
<1>10. CASE ResultCompared  BY <1>10, <1>4 DEF ResultCompared, Finds
<1>11. CASE ResultPasses
  BY <1>11, ResultPassesDoes, ResultSetSameTests DEF ResultPasses, Finds
<1>12. CASE ResultCounted  BY <1>12, <1>4 DEF ResultCounted, Finds
<1>13. CASE TestRunReturns  BY <1>13, <1>4 DEF TestRunReturns
<1>14. ASSUME NEW t \in Recorders, vf_test_record_failure(t)
       PROVE  SameTests /\ test_loaded' = test_loaded /\ test_pc # "load"
  BY <1>14, <1>1, <1>2, <1>3, <1>4 DEF vf_test_record_failure
<1>. QED  BY <1>5, <1>6, <1>7, <1>8, <1>9, <1>10, <1>11, <1>12, <1>13, <1>14
          DEF TestNext, vf_test_run

LEMMA RegisteredStep ==
    ASSUME Shape, RegisteredOnce, TestNext
    PROVE  RegisteredOnce'
<1>1. CASE \E c \in TestCases : vf_test_register_one(c)  BY <1>1, RegisterKeepsRegistered
<1>2. CASE TestRunSorts  BY <1>2, SortKeepsRegistered
<1>. QED  BY <1>1, <1>2, OtherStepsSameTests, SameTestsKeepRegistered

LEMMA RegisteredStutter ==
    ASSUME RegisteredOnce, UNCHANGED test_vars
    PROVE  RegisteredOnce'
BY DEF RegisteredOnce, Distinct, InOrder, test_vars

-----------------------------------------------------------------------------
(* The suites *)

Suites(n) == {vf_tests[k].case.suite : k \in 1..n}

\* The runner has counted the suites of the tests it has begun.
SuitesCounted ==
    /\ IsFiniteSet(Suites(Current))
    /\ vf_test_rs.suites = Cardinality(Suites(Current))
    /\ vf_test_rs.current_suite = IF Current = 0 THEN 0 ELSE vf_tests[Current].case.suite

LEMMA SuitesInit == TestInit => SuitesCounted
<1>. SUFFICES ASSUME TestInit PROVE SuitesCounted  OBVIOUS
<1>1. Current = 0 /\ vf_test_rs.suites = 0 /\ vf_test_rs.current_suite = 0
  BY DEF TestInit, Current
<1>2. Suites(Current) = {}  BY <1>1 DEF Suites
<1>. QED  BY <1>1, <1>2, FS_EmptySet DEF SuitesCounted

\* A step that begins no test and leaves those begun what they are.
LEMMA SuitesUnchanged ==
    ASSUME Shape, SuitesCounted, Current' = Current,
           vf_test_rs'.suites = vf_test_rs.suites,
           vf_test_rs'.current_suite = vf_test_rs.current_suite,
           \A k \in 1..Current : vf_tests'[k].case = vf_tests[k].case
    PROVE  SuitesCounted'
<1>1. Suites(Current)' = Suites(Current)  BY DEF Suites
<1>2. Current # 0 => Current \in 1..Current  BY DEF Shape, TestTypes, RunStates, Current
<1>. QED  BY <1>1, <1>2 DEF SuitesCounted

\* In order, the suites of the tests up to one are none that come after it.
LEMMA TestStartsKeepsSuites ==
    ASSUME Shape, RegisteredOnce, SuitesCounted, TestStarts
    PROVE  SuitesCounted'
<1>. DEFINE n == Current
            s == vf_tests[n + 1].case.suite
<1>1. n \in Nat /\ Len(vf_tests) \in Nat /\ vf_tests \in Seq(Entries)
  BY DEF Shape, TestTypes, RunStates, Current
<1>2. /\ Current' = n + 1 /\ n + 1 \in 1..Len(vf_tests)
      /\ SameTests
      /\ vf_test_rs'.current_suite = s
      /\ vf_test_rs'.suites = IF vf_test_rs.current_suite # s
                              THEN vf_test_rs.suites + 1 ELSE vf_test_rs.suites
  BY TestStartsDoes, ResultSetSameTests
<1>3. \A k \in 1..(n + 1) : k \in 1..Len(vf_tests)  BY <1>1, <1>2
<1>4. \A k \in 1..(n + 1) : vf_tests[k] \in Entries /\ vf_tests[k].case.suite \in Nat \ {0}
  <2>1. \A k \in 1..(n + 1) : vf_tests[k] \in Entries  BY <1>1, <1>3
  <2>. QED  BY <2>1, TestAssumption DEF Entries
<1>5. \A k \in 1..(n + 1) : vf_tests'[k].case = vf_tests[k].case
  BY <1>3, <1>2 DEF SameTests
<1>. HIDE DEF n
<1>6. n + 1 \in 1..(n + 1) /\ \A k \in 1..n : k \in 1..(n + 1) /\ k < n + 1
  BY <1>1
<1>7. \A k \in 1..(n + 1) : k = n + 1 \/ k \in 1..n  BY <1>1
<1>8. Suites(Current)' = Suites(n) \cup {s}
  <2>1. Suites(Current)' = {vf_tests'[k].case.suite : k \in 1..(n + 1)}
    BY <1>2 DEF Suites
  <2>2. {vf_tests'[k].case.suite : k \in 1..(n + 1)} = {vf_tests[k].case.suite : k \in 1..(n + 1)}
    BY <1>5
  <2>3. {vf_tests[k].case.suite : k \in 1..(n + 1)} = Suites(n) \cup {s}
    BY <1>6, <1>7 DEF Suites
  <2>. QED  BY <2>1, <2>2, <2>3
<1>9. IsFiniteSet(Suites(n)) /\ vf_test_rs.suites = Cardinality(Suites(n))
  BY DEF SuitesCounted, n
<1>10. CASE vf_test_rs.current_suite # s
  <2>1. s \notin Suites(n)
    <3>. SUFFICES ASSUME NEW k \in 1..n, vf_tests[k].case.suite = s PROVE FALSE
      BY DEF Suites
    <3>1. n # 0 /\ n \in 1..n /\ n \in 1..(n + 1) /\ n < n + 1  BY <1>1
    <3>2. vf_test_rs.current_suite = vf_tests[n].case.suite  BY <3>1 DEF SuitesCounted, n
    <3>3. InOrder(vf_tests)  BY DEF RegisteredOnce, TestStarts
    <3>4. ~Cmp(vf_tests[n + 1], vf_tests[n])  BY <3>1, <3>3, <1>3, <1>6 DEF InOrder
    <3>5. k = n \/ k < n  BY <1>1
    <3>6. k < n => ~Cmp(vf_tests[n], vf_tests[k])  BY <3>1, <3>3, <1>3, <1>6 DEF InOrder
    <3>7. vf_tests[n].case.suite <= s  BY <3>1, <3>4, <1>4, <1>6, CmpIsOrder
    <3>8. k < n => vf_tests[k].case.suite <= vf_tests[n].case.suite
      BY <3>1, <3>6, <1>4, <1>6, CmpIsOrder
    <3>9. vf_tests[n].case.suite \in Nat /\ vf_tests[k].case.suite \in Nat /\ s \in Nat
      BY <3>1, <1>4, <1>6
    <3>10. vf_tests[n].case.suite # s  BY <1>10, <3>2
    <3>. HIDE DEF s
    <3>. QED  BY <3>5, <3>7, <3>8, <3>9, <3>10
  <2>2. IsFiniteSet(Suites(n) \cup {s}) /\ Cardinality(Suites(n) \cup {s}) = Cardinality(Suites(n)) + 1
    BY <2>1, <1>9, FS_AddElement
  <2>3. vf_test_rs'.suites = Cardinality(Suites(Current)')  BY <2>2, <1>2, <1>8, <1>9, <1>10
  <2>4. IsFiniteSet(Suites(Current)')  BY <2>2, <1>8
  <2>5. Current' # 0 /\ vf_tests'[Current'].case.suite = s  BY <1>1, <1>2, <1>5, <1>6
  <2>. QED  BY <2>3, <2>4, <2>5, <1>2 DEF SuitesCounted
<1>11. CASE vf_test_rs.current_suite = s
  <2>1. s # 0  BY <1>4, <1>6
  <2>2. n # 0 /\ s = vf_tests[n].case.suite  BY <2>1, <1>11 DEF SuitesCounted, n
  <2>3. n \in 1..n  BY <1>1, <2>2
  <2>4. s \in Suites(n)  BY <2>2, <2>3 DEF Suites
  <2>5. Suites(Current)' = Suites(n)  BY <2>4, <1>8
  <2>6. Current' # 0 /\ vf_tests'[Current'].case.suite = s  BY <1>1, <1>2, <1>5, <1>6
  <2>. QED  BY <2>5, <2>6, <1>2, <1>9, <1>11 DEF SuitesCounted
<1>. QED  BY <1>10, <1>11

LEMMA SuitesStep ==
    ASSUME Shape, RegisteredOnce, SuitesCounted, TestNext
    PROVE  SuitesCounted'
<1>0. Current <= Len(vf_tests) /\ Current \in Nat /\ Len(vf_tests) \in Nat
  BY DEF Shape, TestTypes, RunStates, Current
<1>1. SameTests => \A k \in 1..Current : vf_tests'[k].case = vf_tests[k].case
  <2>1. \A k \in 1..Current : k \in 1..Len(vf_tests)  BY <1>0
  <2>. QED  BY <2>1 DEF SameTests
<1>2. ASSUME NEW c \in TestCases, vf_test_register_one(c) PROVE SuitesCounted'
  <2>1. Current = 0 /\ vf_test_rs' = vf_test_rs
    BY <1>2 DEF vf_test_register_one, Shape, Positions
  <2>2. \A k \in 1..Current : vf_tests'[k].case = vf_tests[k].case  BY <2>1
  <2>3. Current' = Current  BY <2>1 DEF Current
  <2>. QED  BY <2>1, <2>2, <2>3, SuitesUnchanged
<1>3. CASE TestRunSorts
  <2>1. Current = 0 /\ vf_test_rs' = vf_test_rs
    BY <1>3 DEF TestRunSorts, Shape, Positions
  <2>2. \A k \in 1..Current : vf_tests'[k].case = vf_tests[k].case  BY <2>1
  <2>3. Current' = Current  BY <2>1 DEF Current
  <2>. QED  BY <2>1, <2>2, <2>3, SuitesUnchanged
<1>4. CASE TestStarts  BY <1>4, TestStartsKeepsSuites
<1>5. CASE ResultCounted
  <2>1. SameTests  BY <1>5 DEF ResultCounted, SameTests
  <2>. QED  BY <2>1, <1>1, <1>5, ResultCountedDoes, SuitesUnchanged
<1>6. ASSUME \A c \in TestCases : ~vf_test_register_one(c), ~TestRunSorts, ~TestStarts, ~ResultCounted
      PROVE  SuitesCounted'
  <2>1. SameTests  BY <1>6, OtherStepsSameTests
  <2>2. vf_test_rs' = vf_test_rs
    <3>1. ASSUME NEW t \in Recorders, vf_test_record_failure(t) PROVE vf_test_rs' = vf_test_rs
      BY <3>1 DEF vf_test_record_failure, CheckFails, ClaimSlot, MarkFail
    <3>2. CASE vf_test_record_skip \/ HelperStarts \/ HelperEnds \/ TestReturns
      BY <3>2 DEF vf_test_record_skip, HelperStarts, HelperEnds, TestReturns
    <3>3. CASE ResultCompared \/ ResultPasses \/ TestRunReturns
      BY <3>3 DEF ResultCompared, ResultPasses, TestRunReturns
    <3>. QED  BY <1>6, <3>1, <3>2, <3>3 DEF TestNext, vf_test_run
  <2>3. Current' = Current  BY <2>2 DEF Current
  <2>. QED  BY <2>1, <2>2, <2>3, <1>1, SuitesUnchanged
<1>. QED  BY <1>2, <1>3, <1>4, <1>5, <1>6

LEMMA SuitesStutter ==
    ASSUME Shape, SuitesCounted, UNCHANGED test_vars
    PROVE  SuitesCounted'
BY SuitesUnchanged DEF test_vars, Current

-----------------------------------------------------------------------------
(* The results *)

\* The tests whose results have been counted are the first ones.
Finished == IF Running THEN Current - 1 ELSE Current

\* Tests that recorded a failure in time, and did not skip themselves afterwards
Broken == test_failed \ test_skipped

\* The counters of the runner against the finished tests
ResultsCounted ==
    /\ vf_test_rs.passes + vf_test_rs.fails + vf_test_rs.skips = Finished
    /\ vf_test_rs.fails >= Cardinality(Broken \cap (1..Finished))
    /\ ~test_outlived => /\ vf_test_rs.fails = Cardinality(Broken \cap (1..Finished))
                         /\ vf_test_rs.skips = Cardinality(test_skipped \cap (1..Finished))

CurrentResult == vf_tests[Current].result

\* The result of the test being run against what happened in it.  A helper that
\* outlived its test can make it FAIL, but nothing loses a failure in time.
ResultIsKnown ==
    /\ test_pc = "body" => Current \notin test_skipped /\ CurrentResult # "SKIP"
    /\ test_pc \in {"body", "returned", "count"} /\ Current \in Broken => CurrentResult = "FAIL"
    /\ test_pc = "pass" => Current \notin Broken
    /\ ~test_outlived =>
          /\ test_pc \in {"body", "returned", "count"} /\ CurrentResult = "FAIL" => Current \in Broken
          /\ test_pc \in {"returned", "count"} => (CurrentResult = "SKIP" <=> Current \in test_skipped)
          /\ test_pc = "pass" => CurrentResult = "NONE" /\ Current \notin test_skipped

ResultsKnown == ResultsCounted /\ ResultIsKnown

LEMMA ResultsInit == TestInit => ResultsKnown
<1>. SUFFICES ASSUME TestInit PROVE ResultsKnown  OBVIOUS
<1>1. Current = 0 /\ ~Running /\ vf_test_rs.passes = 0 /\ vf_test_rs.fails = 0 /\ vf_test_rs.skips = 0
  BY DEF TestInit, Current, Running
<1>2. Finished = 0  BY <1>1 DEF Finished
<1>3. Broken \cap (1..Finished) = {} /\ test_skipped \cap (1..Finished) = {}
  BY DEF TestInit, Broken
<1>4. ResultsCounted  BY <1>1, <1>2, <1>3, FS_EmptySet DEF ResultsCounted
<1>5. ResultIsKnown  BY DEF TestInit, ResultIsKnown
<1>. QED  BY <1>4, <1>5 DEF ResultsKnown

\* A step that counts no test, and whose failures and skips are the current test's.
LEMMA CountersUnchanged ==
    ASSUME ResultsCounted, Finished' = Finished,
           vf_test_rs'.passes = vf_test_rs.passes,
           vf_test_rs'.fails = vf_test_rs.fails,
           vf_test_rs'.skips = vf_test_rs.skips,
           Broken' \cap (1..Finished) = Broken \cap (1..Finished),
           test_skipped' \cap (1..Finished) = test_skipped \cap (1..Finished),
           ~test_outlived' => ~test_outlived
    PROVE  ResultsCounted'
BY DEF ResultsCounted

LEMMA MarkFailKeepsResults ==
    ASSUME Shape, FailuresKnown, ResultsKnown, NEW t \in Recorders, MarkFail(t)
    PROVE  ResultsKnown'
<1>. USE DEF MarkFail
<1>1. Current' = Current /\ Running' = Running /\ Finished' = Finished
  BY DEF Current, Running, Finished
<1>2. Current \in 1..Len(vf_tests) /\ ResultSet(Current, "FAIL")  BY MarkFailDoes
<1>3. CurrentResult' = "FAIL"
  <2>1. vf_tests'[Current] = [case |-> vf_tests[Current].case, result |-> "FAIL"]
    BY <1>2 DEF ResultSet
  <2>. QED  BY <1>1, <2>1 DEF CurrentResult
<1>4. Current \in Nat  BY DEF Shape, TestTypes, RunStates, Current
<1>5. InTime(t) => test_pc = "body"  BY DEF InTime, Shape, Positions
<1>6. ~test_outlived => InTime(t)
  <2>1. CASE t = "main"  BY <2>1 DEF InTime
  <2>2. CASE t = "helper"
    <3>1. test_helper # 0  BY <2>2 DEF Shape, Positions
    <3>. QED  BY <3>1 DEF FailuresKnown, HelperInTime, InTime
  <2>. QED  BY <2>1, <2>2 DEF Recorders
<1>7. test_failed' = IF InTime(t) THEN test_failed \cup {Current} ELSE test_failed
  OBVIOUS
<1>8. Broken' = IF InTime(t) THEN Broken \cup {Current} ELSE Broken
  <2>1. InTime(t) => Current \notin test_skipped  BY <1>5 DEF ResultsKnown, ResultIsKnown
  <2>. QED  BY <1>7, <2>1 DEF Broken
<1>9. ResultsCounted'
  <2>1. InTime(t) => Current \notin 1..Finished  BY <1>4, <1>5 DEF Finished, Running
  <2>2. Broken' \cap (1..Finished) = Broken \cap (1..Finished)  BY <1>8, <2>1
  <2>. QED  BY <1>1, <2>2, CountersUnchanged DEF ResultsKnown
<1>10. ResultIsKnown'
  <2>. USE DEF ResultsKnown, ResultIsKnown
  <2>1. (test_pc = "body" => Current \notin test_skipped /\ CurrentResult # "SKIP")'
    BY <1>1, <1>3
  <2>2. (test_pc \in {"body", "returned", "count"} /\ Current \in Broken => CurrentResult = "FAIL")'
    BY <1>3
  <2>3. (test_pc = "pass" => Current \notin Broken)'  BY <1>1, <1>5, <1>8
  <2>4. ASSUME ~test_outlived'
        PROVE  test_pc = "body" /\ Current \in Broken'
    BY <2>4, <1>5, <1>6, <1>8
  <2>. QED  BY <1>1, <2>1, <2>2, <2>3, <2>4
<1>. QED  BY <1>9, <1>10 DEF ResultsKnown

LEMMA SkipKeepsResults ==
    ASSUME Shape, FailuresKnown, ResultsKnown, vf_test_record_skip
    PROVE  ResultsKnown'
<1>. USE DEF vf_test_record_skip, MainInBody
<1>1. Current' = Current /\ Running' = Running /\ Finished' = Finished
  BY DEF Current, Running, Finished
<1>2. Current \in 1..Len(vf_tests) /\ ResultSet(Current, "SKIP")  BY SkipDoes
<1>3. CurrentResult' = "SKIP"
  <2>1. vf_tests'[Current] = [case |-> vf_tests[Current].case, result |-> "SKIP"]
    BY <1>2 DEF ResultSet
  <2>. QED  BY <1>1, <2>1 DEF CurrentResult
<1>4. Current \in Nat  BY DEF Shape, TestTypes, RunStates, Current
<1>5. Current \notin 1..Finished  BY <1>4 DEF Finished, Running
<1>6. Broken' = Broken \ {Current}  BY DEF Broken
<1>7. ResultsCounted'
  <2>1. Broken' \cap (1..Finished) = Broken \cap (1..Finished)  BY <1>5, <1>6
  <2>2. test_skipped' \cap (1..Finished) = test_skipped \cap (1..Finished)  BY <1>5
  <2>. QED  BY <1>1, <2>1, <2>2, CountersUnchanged DEF ResultsKnown, Shape, TestTypes
<1>8. ResultIsKnown'
  <2>1. Current' \notin Broken' /\ Current' \in test_skipped' /\ test_pc' = "returned"
    BY <1>1, <1>6
  <2>. QED  BY <1>3, <2>1 DEF ResultIsKnown
<1>. QED  BY <1>7, <1>8 DEF ResultsKnown

LEMMA TestStartsKeepsResults ==
    ASSUME Shape, FailuresKnown, ResultsKnown, TestStarts
    PROVE  ResultsKnown'
<1>. USE DEF TestStarts, test_threads
<1>1. /\ Current' = Current + 1 /\ Current' \in 1..Len(vf_tests)
      /\ ResultSet(Current + 1, "NONE")
      /\ vf_test_rs'.passes = vf_test_rs.passes
      /\ vf_test_rs'.fails = vf_test_rs.fails
      /\ vf_test_rs'.skips = vf_test_rs.skips
  BY TestStartsDoes
<1>2. Current \in Nat  BY DEF Shape, TestTypes, RunStates, Current
<1>3. Finished' = Finished  BY <1>1, <1>2 DEF Finished, Running
<1>4. Broken' = Broken  BY DEF Broken
<1>5. ResultsCounted'  BY <1>1, <1>3, <1>4, CountersUnchanged DEF ResultsKnown
<1>6. CurrentResult' = "NONE"
  <2>1. vf_tests'[Current + 1] = [case |-> vf_tests[Current + 1].case, result |-> "NONE"]
    BY <1>1 DEF ResultSet
  <2>. QED  BY <1>1, <2>1 DEF CurrentResult
<1>7. Current' \notin Broken' /\ Current' \notin test_skipped'
  <2>1. Current' \notin 1..Current  BY <1>1, <1>2
  <2>. QED  BY <2>1 DEF Broken, Shape, TestTypes
<1>8. ResultIsKnown'  BY <1>6, <1>7 DEF ResultIsKnown
<1>. QED  BY <1>5, <1>8 DEF ResultsKnown

LEMMA ResultPassesKeepsResults ==
    ASSUME Shape, FailuresKnown, ResultsKnown, ResultPasses
    PROVE  ResultsKnown'
<1>. USE DEF ResultPasses, Finds, test_threads, test_histories
<1>1. Current' = Current /\ Running' = Running /\ Finished' = Finished /\ Broken' = Broken
  BY DEF Current, Running, Finished, Broken
<1>2. Current \in 1..Len(vf_tests) /\ ResultSet(Current, "PASS")  BY ResultPassesDoes
<1>3. CurrentResult' = "PASS"
  <2>1. vf_tests'[Current] = [case |-> vf_tests[Current].case, result |-> "PASS"]
    BY <1>2 DEF ResultSet
  <2>. QED  BY <1>1, <2>1 DEF CurrentResult
<1>4. ResultsCounted'  BY <1>1, CountersUnchanged DEF ResultsKnown
<1>5. Current \notin Broken /\ (~test_outlived => Current \notin test_skipped)
  BY DEF ResultsKnown, ResultIsKnown
<1>6. ResultIsKnown'  BY <1>1, <1>3, <1>5 DEF ResultIsKnown
<1>. QED  BY <1>4, <1>6 DEF ResultsKnown

\* The counters grow by the test that has finished.
LEMMA ResultCountedKeepsResults ==
    ASSUME Shape, FailuresKnown, ResultsKnown, ResultCounted
    PROVE  ResultsKnown'
<1>. DEFINE c == Current
            d == Current - 1
            r == CurrentResult
<1>1. Current' = c /\ test_pc' = "next" /\ test_pc = "count"
  BY ResultCountedDoes DEF ResultCounted
<1>2. /\ r \in {"SKIP", "FAIL", "PASS"}
      /\ vf_test_rs'.skips = IF r = "SKIP" THEN vf_test_rs.skips + 1 ELSE vf_test_rs.skips
      /\ vf_test_rs'.fails = IF r = "FAIL" THEN vf_test_rs.fails + 1 ELSE vf_test_rs.fails
      /\ vf_test_rs'.passes = IF r = "PASS" THEN vf_test_rs.passes + 1 ELSE vf_test_rs.passes
  BY ResultCountedDoes DEF CurrentResult
<1>3. UNCHANGED <<test_failed, test_skipped, test_outlived, vf_tests>> /\ Broken' = Broken
  BY DEF ResultCounted, Finds, test_histories, Broken
<1>4. c \in Nat \ {0} /\ vf_test_rs \in RunStates
  BY <1>1 DEF Shape, TestTypes, RunStates, Current, Positions, Running
<1>5. Finished = d /\ Finished' = c  BY <1>1 DEF Finished, Running
<1>6. c \notin 1..d /\ 1..c = (1..d) \cup {c} /\ IsFiniteSet(1..d)
  <2>1. d \in Int /\ 1 \in Int  BY <1>4
  <2>2. IsFiniteSet(1..d)
    <3>. HIDE DEF d
    <3>. QED  BY <2>1, FS_Interval
  <2>3. c \notin 1..d /\ 1..c = (1..d) \cup {c}  BY <1>4
  <2>. QED  BY <2>2, <2>3
<1>. HIDE DEF c, d, r
<1>7. ASSUME NEW S
      PROVE  /\ Cardinality(S \cap (1..d)) \in Nat
             /\ Cardinality(S \cap (1..c)) = IF c \in S THEN Cardinality(S \cap (1..d)) + 1
                                                       ELSE Cardinality(S \cap (1..d))
  <2>1. IsFiniteSet(S \cap (1..d))
    <3>1. S \cap (1..d) \subseteq 1..d  OBVIOUS
    <3>. QED  BY <3>1, <1>6, FS_Subset
  <2>2. Cardinality(S \cap (1..d)) \in Nat  BY <2>1, FS_CardinalityType
  <2>3. CASE c \in S
    <3>1. S \cap (1..c) = (S \cap (1..d)) \cup {c}  BY <2>3, <1>6
    <3>2. c \notin S \cap (1..d)  BY <1>6
    <3>. QED  BY <2>1, <2>2, <2>3, <3>1, <3>2, FS_AddElement
  <2>4. CASE c \notin S
    <3>1. S \cap (1..c) = S \cap (1..d)  BY <2>4, <1>6
    <3>. QED  BY <2>2, <2>4, <3>1
  <2>. QED  BY <2>3, <2>4
<1>8. vf_test_rs.passes \in Nat /\ vf_test_rs.fails \in Nat /\ vf_test_rs.skips \in Nat
  BY <1>4 DEF RunStates
<1>9. /\ vf_test_rs.passes + vf_test_rs.fails + vf_test_rs.skips = d
      /\ vf_test_rs.fails >= Cardinality(Broken \cap (1..d))
      /\ ~test_outlived => /\ vf_test_rs.fails = Cardinality(Broken \cap (1..d))
                           /\ vf_test_rs.skips = Cardinality(test_skipped \cap (1..d))
  BY <1>5 DEF ResultsKnown, ResultsCounted
<1>10. /\ c \in Broken => r = "FAIL"
       /\ ~test_outlived => (r = "FAIL" => c \in Broken) /\ (r = "SKIP" <=> c \in test_skipped)
  BY <1>1 DEF ResultsKnown, ResultIsKnown, c, r
<1>11. c = d + 1  BY <1>4 DEF c, d
<1>12. vf_test_rs'.passes + vf_test_rs'.fails + vf_test_rs'.skips = c
  BY <1>2, <1>4, <1>8, <1>9, <1>11
<1>13. vf_test_rs'.fails >= Cardinality(Broken \cap (1..c))
  <2>1. Cardinality(Broken \cap (1..d)) \in Nat  BY <1>7
  <2>. QED  BY <2>1, <1>2, <1>7, <1>8, <1>9, <1>10
<1>14. ASSUME ~test_outlived
       PROVE  /\ vf_test_rs'.fails = Cardinality(Broken \cap (1..c))
              /\ vf_test_rs'.skips = Cardinality(test_skipped \cap (1..c))
  BY <1>14, <1>2, <1>7, <1>9, <1>10
<1>15. ResultsCounted'  BY <1>3, <1>5, <1>12, <1>13, <1>14 DEF ResultsCounted
<1>16. ResultIsKnown'  BY <1>1 DEF ResultIsKnown
<1>. QED  BY <1>15, <1>16 DEF ResultsKnown

LEMMA ResultsStep ==
    ASSUME Shape, FailuresKnown, ResultsKnown, TestNext
    PROVE  ResultsKnown'
<1>1. ASSUME UNCHANGED <<vf_tests, vf_test_rs, test_pc, test_failed, test_skipped, test_outlived>>
      PROVE  ResultsKnown'
  BY <1>1 DEF ResultsKnown, ResultsCounted, ResultIsKnown, CurrentResult, Broken, Finished,
              Running, Current
<1>2. ASSUME UNCHANGED <<vf_test_rs, test_failed, test_skipped, test_outlived>>,
             test_pc \in {"load", "next"}, test_pc' \in {"load", "next", "done"}
      PROVE  ResultsKnown'
  <2>1. Current' = Current /\ Finished' = Finished /\ Broken' = Broken
    BY <1>2 DEF Current, Finished, Running, Broken
  <2>2. ResultsCounted'  BY <1>2, <2>1, CountersUnchanged DEF ResultsKnown
  <2>3. ResultIsKnown'  BY <1>2 DEF ResultIsKnown
  <2>. QED  BY <2>2, <2>3 DEF ResultsKnown
<1>3. ASSUME NEW c \in TestCases, vf_test_register_one(c) PROVE ResultsKnown'
  BY <1>3, <1>2 DEF vf_test_register_one, test_threads, test_histories
<1>4. ASSUME NEW t \in Recorders, vf_test_record_failure(t) PROVE ResultsKnown'
  <2>1. CASE CheckFails(t)  BY <2>1, <1>1 DEF CheckFails
  <2>2. CASE ClaimSlot(t)  BY <2>2, <1>1 DEF ClaimSlot, test_histories
  <2>3. CASE MarkFail(t)  BY <2>3, MarkFailKeepsResults
  <2>. QED  BY <1>4, <2>1, <2>2, <2>3 DEF vf_test_record_failure
<1>5. CASE vf_test_record_skip  BY <1>5, SkipKeepsResults
<1>6. CASE HelperStarts  BY <1>6, <1>1 DEF HelperStarts, MainInBody, test_histories
<1>7. CASE HelperEnds  BY <1>7, <1>1 DEF HelperEnds, test_histories
<1>8. CASE TestReturns
  <2>. USE <1>8 DEF TestReturns, MainInBody
  <2>1. Current' = Current /\ Finished' = Finished /\ Broken' = Broken
        /\ CurrentResult' = CurrentResult
    BY DEF Current, Finished, Running, Broken, CurrentResult
  <2>2. ~test_outlived' => ~test_outlived  OBVIOUS
  <2>3. ResultsCounted'  BY <2>1, <2>2, CountersUnchanged DEF ResultsKnown
  <2>4. ResultIsKnown'  BY <2>1, <2>2 DEF ResultsKnown, ResultIsKnown
  <2>. QED  BY <2>3, <2>4 DEF ResultsKnown
<1>9. CASE TestRunSorts  BY <1>9, <1>2 DEF TestRunSorts, test_threads, test_histories
<1>10. CASE TestStarts  BY <1>10, TestStartsKeepsResults
<1>11. CASE ResultCompared
  <2>. USE <1>11 DEF ResultCompared, Finds, test_threads, test_histories
  <2>1. Current' = Current /\ Finished' = Finished /\ Broken' = Broken
        /\ CurrentResult' = CurrentResult
    BY DEF Current, Finished, Running, Broken, CurrentResult
  <2>2. ResultsCounted'  BY <2>1, CountersUnchanged DEF ResultsKnown
  <2>3. /\ test_pc = "returned"
        /\ test_skipped' = test_skipped /\ test_outlived' = test_outlived
        /\ \/ CurrentResult = "NONE" /\ test_pc' = "pass"
           \/ test_pc' = "count"
    BY DEF CurrentResult
  <2>4. ResultIsKnown  BY DEF ResultsKnown
  <2>5. ResultIsKnown'
    <3>1. CASE CurrentResult = "NONE" /\ test_pc' = "pass"
      <4>1. Current \notin Broken  BY <2>3, <2>4, <3>1 DEF ResultIsKnown
      <4>2. ~test_outlived => Current \notin test_skipped
        BY <2>3, <2>4, <3>1 DEF ResultIsKnown
      <4>. QED  BY <2>1, <2>3, <3>1, <4>1, <4>2, Zenon DEF ResultIsKnown
    <3>2. CASE test_pc' = "count"
      <4>1. Current \in Broken => CurrentResult = "FAIL"  BY <2>3, <2>4 DEF ResultIsKnown
      <4>2. ~test_outlived => /\ CurrentResult = "FAIL" => Current \in Broken
                              /\ CurrentResult = "SKIP" <=> Current \in test_skipped
        BY <2>3, <2>4 DEF ResultIsKnown
      <4>. QED  BY <2>1, <2>3, <3>2, <4>1, <4>2 DEF ResultIsKnown
    <3>. QED  BY <2>3, <3>1, <3>2
  <2>. QED  BY <2>2, <2>5 DEF ResultsKnown
<1>12. CASE ResultPasses  BY <1>12, ResultPassesKeepsResults
<1>13. CASE ResultCounted  BY <1>13, ResultCountedKeepsResults
<1>14. CASE TestRunReturns
  BY <1>14, <1>2 DEF TestRunReturns, test_threads, test_histories
<1>. QED  BY <1>3, <1>4, <1>5, <1>6, <1>7, <1>8, <1>9, <1>10, <1>11, <1>12, <1>13, <1>14
          DEF TestNext, vf_test_run

LEMMA ResultsStutter ==
    ASSUME ResultsKnown, UNCHANGED test_vars
    PROVE  ResultsKnown'
BY DEF ResultsKnown, ResultsCounted, ResultIsKnown, CurrentResult, Broken, Finished, Running,
       Current, test_vars, test_histories

-----------------------------------------------------------------------------
(* Theorems *)

TestInv == Shape /\ FailuresKnown /\ RegisteredOnce /\ SuitesCounted /\ ResultsKnown

\* The inductive invariant of the test runner.
THEOREM TestInvHolds == TestSpec => []TestInv
<1>1. TestInit => TestInv
  BY ShapeInit, FailuresInit, RegisteredInit, SuitesInit, ResultsInit DEF TestInv
<1>2. TestInv /\ [TestNext]_test_vars => TestInv'
  <2>. SUFFICES ASSUME TestInv, [TestNext]_test_vars PROVE TestInv'  OBVIOUS
  <2>. USE DEF TestInv
  <2>1. CASE TestNext
    BY <2>1, ShapeStep, FailuresStep, RegisteredStep, SuitesStep, ResultsStep
  <2>2. CASE UNCHANGED test_vars
    BY <2>2, ShapeStutter, FailuresStutter, RegisteredStutter, SuitesStutter, ResultsStutter
  <2>. QED  BY <2>1, <2>2
<1>. QED  BY <1>1, <1>2, PTL DEF TestSpec

\* vf_test_record_failure takes no lock: it reads the count, and writes behind
\* it later.  The list has exactly the failures of the running test, and no slot
\* behind its end is written, unless two threads recorded at once or a helper
\* outlived its test.
THEOREM FailureListCorrect == TestSpec => []FailureListIsExact
<1>1. TestInv => FailureListIsExact
  <2>. SUFFICES ASSUME TestInv PROVE FailureListIsExact  OBVIOUS
  <2>1. vf_test_failure_count \in Nat /\ FailureSlots \in Nat
    BY TestAssumption DEF TestInv, Shape, TestTypes
  <2>2. ~test_together => vf_test_failure_count <= FailureSlots
    BY DEF TestInv, FailuresKnown, ListInBounds
  <2>3. ASSUME Running, \A t \in Recorders : test_inside[t] = "out",
               ~test_together, ~test_outlived
        PROVE  vf_test_failure_count = Fitting(test_checks)
    BY <2>3 DEF TestInv, FailuresKnown, ListExact
  <2>. QED  BY <2>1, <2>2, <2>3 DEF FailureListIsExact, Running, Fitting
<1>. QED  BY <1>1, TestInvHolds, PTL

\* The inductive invariant has the types.
LEMMA TestInvTypes == TestInv => TestTypeOK
<1>. SUFFICES ASSUME TestInv PROVE TestTypeOK  OBVIOUS
<1>1. TestTypes  BY DEF TestInv, Shape
<1>2. /\ vf_tests \in Seq(Entries) /\ Len(vf_tests) \in Nat
      /\ DOMAIN vf_tests = 1..Len(vf_tests)
      /\ Current \in Nat /\ Current <= Len(vf_tests)
  BY <1>1 DEF TestTypes, RunStates, Current
<1>3. \A k \in DOMAIN vf_tests : /\ vf_tests[k].case \in TestCases
                                 /\ vf_tests[k].result \in {"NONE", "PASS", "FAIL", "SKIP"}
  <2>1. \A k \in DOMAIN vf_tests : vf_tests[k] \in Entries  BY <1>2
  <2>. QED  BY <2>1 DEF Entries, Results
<1>4. Current \in 0..Len(vf_tests)  BY <1>2
<1>5. test_helper \in 0..Len(vf_tests)  BY <1>1, <1>2 DEF TestTypes
<1>6. test_failed \cup test_skipped \subseteq DOMAIN vf_tests
  <2>1. 1..Current \subseteq DOMAIN vf_tests  BY <1>2
  <2>. QED  BY <1>1, <2>1 DEF TestTypes
<1>. QED  BY <1>1, <1>3, <1>4, <1>5, <1>6 DEF TestTypeOK, TestTypes

\* vf_test_run: whatever the order in which constructors registered them, every
\* test there is room for is run once, every suite is counted once, passes,
\* failures and skips add up to the tests, and no test that failed in time is
\* lost; also when a helper outlives its test, which can only add failures.
THEOREM SummaryCorrect == TestSpec => []TestSummaryIsRight
<1>1. TestInv => TestSummaryIsRight
  <2>. SUFFICES ASSUME TestInv PROVE TestSummaryIsRight  OBVIOUS
  <2>. DEFINE n == Len(vf_tests)
  <2>1. TestTypeOK  BY TestInvTypes
  <2>2. TestTypes /\ Positions  BY DEF TestInv, Shape
  <2>3. n \in Nat /\ DOMAIN vf_tests = 1..n  BY <2>2 DEF TestTypes
  <2>4. ASSUME test_pc = "done"
        PROVE  /\ n = IF Cardinality(TestCases) < VF_TEST_MAX_TESTS
                      THEN Cardinality(TestCases) ELSE VF_TEST_MAX_TESTS
               /\ \A j, k \in DOMAIN vf_tests : j # k => vf_tests[j].case # vf_tests[k].case
               /\ vf_test_rs.suites = Cardinality({vf_tests[k].case.suite : k \in DOMAIN vf_tests})
               /\ vf_test_rs.passes + vf_test_rs.fails + vf_test_rs.skips = n
               /\ vf_test_rs.fails >= Cardinality(test_failed \ test_skipped)
               /\ ~test_outlived => /\ vf_test_rs.fails = Cardinality(test_failed \ test_skipped)
                                    /\ vf_test_rs.skips = Cardinality(test_skipped)
    <3>1. Current = n /\ test_loaded = TestCases /\ Finished = n
      BY <2>2, <2>4 DEF Positions, Finished, Running
    <3>2. n = IF Cardinality(TestCases) < VF_TEST_MAX_TESTS
              THEN Cardinality(TestCases) ELSE VF_TEST_MAX_TESTS
      BY <3>1 DEF TestInv, RegisteredOnce
    <3>3. \A j, k \in DOMAIN vf_tests : j # k => vf_tests[j].case # vf_tests[k].case
      BY <2>3 DEF TestInv, RegisteredOnce, Distinct
    <3>4. Suites(Current) = {vf_tests[k].case.suite : k \in DOMAIN vf_tests}
      BY <2>3, <3>1 DEF Suites
    <3>5. vf_test_rs.suites = Cardinality({vf_tests[k].case.suite : k \in DOMAIN vf_tests})
      BY <3>4 DEF TestInv, SuitesCounted
    <3>6. Broken \cap (1..n) = test_failed \ test_skipped /\ test_skipped \cap (1..n) = test_skipped
      BY <2>2, <3>1 DEF TestTypes, Broken
    <3>. HIDE DEF n
    <3>. QED  BY <3>1, <3>2, <3>3, <3>5, <3>6 DEF TestInv, ResultsKnown, ResultsCounted
  <2>. QED  BY <2>1, <2>4 DEF TestSummaryIsRight
<1>. QED  BY <1>1, TestInvHolds, PTL
=============================================================================
