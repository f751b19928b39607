----------------------- MODULE InspectorThreadsProofs -----------------------
(***************************************************************************)
(* Proofs about the two threads of the clock inspector: the reporter never *)
(* clones a trend in the middle of kllineartrend_add, and never touches a  *)
(* trend after trendReportFree, whatever the options, the input and the   *)
(* number of buffers.                                                      *)
(***************************************************************************)
EXTENDS InspectorThreads, TLAPS

\* The inductive invariant.  The trend lock is held by the main thread
\* exactly while it is inside kllineartrend_add, and by the reporter exactly
\* while it clones; the count lags the stored samples only inside the add;
\* trendThreadComplete is set only by a reporter that has left its loop,
\* and the main thread gets past its wait, and so to the free, only once it
\* is set.
ThreadsIInv ==
    /\ TypeOK
    /\ lock = "main" <=> mpc \in {"store", "count"}
    /\ lock = "reporter" <=> rpc = "clone"
    /\ written = IF mpc = "count" THEN count + 1 ELSE count
    /\ CloneConsistent
    /\ complete => rpc = "done"
    /\ mpc \in {"final", "done"} => complete
    /\ freed => complete

\* The unlocked state is neither holder.
LEMMA NobodyDistinct == Nobody # "main" /\ Nobody # "reporter"
BY DEF Nobody

\* The invariant holds initially.
LEMMA ThreadsInit == Init => ThreadsIInv
<1> SUFFICES ASSUME Init PROVE ThreadsIInv
    OBVIOUS
<1>1. lock \in {Nobody, "main", "reporter"} BY DEF Init
<1>2. left \in 0..MaxReads BY ThreadsAssumption DEF Init
<1>3. clone \in [count : Nat, written : Nat] BY DEF Init
<1>4. mpc \in MainPcs /\ rpc \in ReporterPcs BY DEF Init, MainPcs, ReporterPcs
<1>5. TypeOK BY <1>1, <1>2, <1>3, <1>4 DEF Init, TypeOK
<1>6. lock = "main" <=> mpc \in {"store", "count"} BY NobodyDistinct DEF Init
<1>7. lock = "reporter" <=> rpc = "clone" BY NobodyDistinct DEF Init
<1>8. QED BY <1>5, <1>6, <1>7 DEF Init, ThreadsIInv, CloneConsistent

\* Every step keeps the variables in their types.
LEMMA ThreadsTypeStep == TypeOK /\ [Next]_vars => TypeOK'
<1> SUFFICES ASSUME TypeOK, [Next]_vars PROVE TypeOK'
    OBVIOUS
<1> USE ThreadsAssumption DEF TypeOK, MainPcs, ReporterPcs
<1>1. CASE Top BY <1>1 DEF Top
<1>2. CASE Read
  <2>1. CASE left > 0 /\ left' = left - 1 /\ mpc' = "lock" /\ UNCHANGED ended
        BY <1>2, <2>1 DEF Read
  <2>2. CASE Live /\ mpc' = "top" /\ UNCHANGED <<left, ended>>
        BY <1>2, <2>2 DEF Read
  <2>3. CASE left = 0 /\ ended' = TRUE /\ mpc' = "wait" /\ UNCHANGED left
        BY <1>2, <2>3 DEF Read
  <2>4. QED BY <1>2, <2>1, <2>2, <2>3 DEF Read
<1>3. CASE IngestLock BY <1>3 DEF IngestLock
<1>4. CASE Store BY <1>4 DEF Store
<1>5. CASE CountUnlock BY <1>5 DEF CountUnlock
<1>6. CASE WaitReporter BY <1>6 DEF WaitReporter
<1>7. CASE Final BY <1>7 DEF Final
<1>8. CASE Detach BY <1>8 DEF Detach
<1>9. CASE ReporterLoop BY <1>9 DEF ReporterLoop
<1>10. CASE Sleep BY <1>10 DEF Sleep
<1>11. CASE ReporterLock BY <1>11 DEF ReporterLock
<1>12. CASE Clone BY <1>12 DEF Clone
<1>13. CASE Sigint BY <1>13 DEF Sigint
<1>14. CASE Expire BY <1>14 DEF Expire
<1>15. CASE UNCHANGED vars BY <1>15 DEF vars
<1>16. QED
    BY <1>1, <1>2, <1>3, <1>4, <1>5, <1>6, <1>7, <1>8, <1>9, <1>10, <1>11,
       <1>12, <1>13, <1>14, <1>15 DEF Next, Main, Reporter

\* Every step of either thread, a signal or the timer keeps the rest of it.
LEMMA ThreadsStep == ThreadsIInv /\ [Next]_vars => ThreadsIInv'
<1> SUFFICES ASSUME ThreadsIInv, [Next]_vars PROVE ThreadsIInv'
    OBVIOUS
<1>0. TypeOK' BY ThreadsTypeStep DEF ThreadsIInv
<1> USE <1>0, NobodyDistinct DEF ThreadsIInv, CloneConsistent
<1>1. CASE Top BY <1>1 DEF Top
<1>2. CASE Read BY <1>2 DEF Read
<1>3. CASE IngestLock BY <1>3 DEF IngestLock
<1>4. CASE Store BY <1>4 DEF Store
<1>5. CASE CountUnlock BY <1>5 DEF CountUnlock
<1>6. CASE WaitReporter BY <1>6 DEF WaitReporter
<1>7. CASE Final BY <1>7 DEF Final
<1>8. CASE Detach BY <1>8 DEF Detach
<1>9. CASE ReporterLoop BY <1>9 DEF ReporterLoop
<1>10. CASE Sleep BY <1>10 DEF Sleep
<1>11. CASE ReporterLock BY <1>11 DEF ReporterLock
<1>12. CASE Clone BY <1>12 DEF Clone
<1>13. CASE Sigint BY <1>13 DEF Sigint
<1>14. CASE Expire BY <1>14 DEF Expire
<1>15. CASE UNCHANGED vars BY <1>15 DEF vars
<1>16. QED
    BY <1>1, <1>2, <1>3, <1>4, <1>5, <1>6, <1>7, <1>8, <1>9, <1>10, <1>11,
       <1>12, <1>13, <1>14, <1>15 DEF Next, Main, Reporter

\* The invariant gives the two safety properties the runs check.
LEMMA ThreadsIInvSafe == ThreadsIInv => CloneConsistent /\ NoReportAfterFree
BY DEF ThreadsIInv, CloneConsistent, NoReportAfterFree

\* Every clone the reporter takes holds whole samples, and the reporter
\* neither runs nor holds the trend lock once the trends are freed.
THEOREM ThreadsSafety == Spec => [](CloneConsistent /\ NoReportAfterFree)
<1>1. Init => ThreadsIInv BY ThreadsInit
<1>2. ThreadsIInv /\ [Next]_vars => ThreadsIInv' BY ThreadsStep
<1>3. ThreadsIInv => CloneConsistent /\ NoReportAfterFree BY ThreadsIInvSafe
<1>4. QED BY <1>1, <1>2, <1>3, PTL DEF Spec

\* Every variable of the two threads keeps the shape the code gives it (the
\* lock holder, both program counters, the read budget and the clone),
\* whatever the options and the input.
THEOREM ThreadsTypeCorrect == Spec => []TypeOK
<1>1. Init => TypeOK BY ThreadsInit DEF ThreadsIInv
<1>2. TypeOK /\ [Next]_vars => TypeOK' BY ThreadsTypeStep
<1>3. QED BY <1>1, <1>2, PTL DEF Spec

\* trendReportFree (line 1638) never frees a trend the reporter thread may
\* still clone: the free follows the reporter's exit from its loop.
THEOREM FreeAfterReporter == Spec => []NoReportAfterFree
BY ThreadsSafety, PTL
=============================================================================
