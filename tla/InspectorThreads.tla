-------------------------- MODULE InspectorThreads --------------------------
(***************************************************************************)
(* The two threads of the clock inspector (src/src/slicer.c) and how they  *)
(* stop.  The main thread runs the ingest loop of clock_inspector (lines   *)
(* 1570-1624): it checks the -t stop time, reads a buffer with avio_read,  *)
(* retries on EAGAIN, leaves the loop on a negative return (end of file or *)
(* error) and otherwise pushes the packets through the process* stages,    *)
(* which add samples to a PTS trend under its mutex (lines 929-931).  On   *)
(* leaving the loop it waits for trendThreadComplete (1626-1628), prints   *)
(* the final trend report and frees the trends (1636-1639).  The reporter  *)
(* thread (trend_report_thread, 789-807) loops while -L is set and         *)
(* gRunning is 1, and every report period clones each trend under its      *)
(* mutex (printTrend, 708-717); when the loop ends it sets                 *)
(* trendThreadComplete.  SIGINT, and the -t timer, clear gRunning          *)
(* (signal_handler, 626-629).                                              *)
(*                                                                         *)
(* One trend stands for all of them, and a buffer read stands for the      *)
(* packets in it; what the per-packet stages compute is the Inspector     *)
(* module.  kllineartrend_add is two steps, the sample store and the count *)
(* increment, so that a clone taken in between would be seen.             *)
(***************************************************************************)
EXTENDS Naturals

CONSTANTS
    EnableTrendReport, \* ctx->enableTrendReport > 0 (-L)
    StopSeconds,       \* stopSeconds > 0 (-t)
    Live,              \* the input may return EAGAIN (a network stream)
    MaxReads           \* bound: buffers the input delivers before it ends

ASSUME ThreadsAssumption ==
    /\ EnableTrendReport \in BOOLEAN
    /\ StopSeconds \in BOOLEAN
    /\ Live \in BOOLEAN
    /\ MaxReads \in Nat

VARIABLES
    gRunning,   \* the global flag cleared by signal_handler
    complete,   \* ctx->trendThreadComplete
    expired,    \* time(NULL) > stopTime
    left,       \* buffers the input still holds
    ended,      \* avio_read has returned a negative value
    mpc,        \* where the main thread is
    rpc,        \* where the reporter thread is
    lock,       \* the holder of the trend's trendLock
    written,    \* samples stored in the trend
    count,      \* the trend's sample count
    clone,      \* the reporter's last kllineartrend_clone
    freed       \* trendReportFree has run

vars == <<gRunning, complete, expired, left, ended, mpc, rpc, lock,
          written, count, clone, freed>>

Nobody == "nobody"

MainPcs == {"top", "read", "lock", "store", "count", "wait", "final", "done"}
ReporterPcs == {"detach", "loop", "sleep", "lock", "clone", "done"}

Init ==
    /\ gRunning = TRUE
    /\ complete = FALSE
    /\ expired = FALSE
    /\ left = MaxReads
    /\ ended = FALSE
    /\ mpc = "top"
    /\ rpc = "detach"
    /\ lock = Nobody
    /\ written = 0
    /\ count = 0
    /\ clone = [count |-> 0, written |-> 0]
    /\ freed = FALSE

-----------------------------------------------------------------------------
(* The main thread.                                                        *)

\* while (gRunning) { if (stopSeconds && now > stopTime) signal_handler(1);
\* the flag is tested once per iteration, before the stop check.
Top ==
    /\ mpc = "top"
    /\ IF gRunning
          THEN /\ mpc' = "read"
               /\ gRunning' = ~(StopSeconds /\ expired)
          ELSE /\ mpc' = "wait"
               /\ UNCHANGED gRunning
    /\ UNCHANGED <<complete, expired, left, ended, rpc, lock, written, count,
                   clone, freed>>

\* rlen = avio_read(): a buffer of packets, EAGAIN (continue), or a negative
\* value at the end of the input (break out of the loop).
Read ==
    /\ mpc = "read"
    /\ \/ /\ left > 0
          /\ left' = left - 1
          /\ mpc' = "lock"
          /\ UNCHANGED ended
       \/ /\ Live
          /\ mpc' = "top"
          /\ UNCHANGED <<left, ended>>
       \/ /\ left = 0
          /\ ended' = TRUE
          /\ mpc' = "wait"
          /\ UNCHANGED left
    /\ UNCHANGED <<gRunning, complete, expired, rpc, lock, written, count,
                   clone, freed>>

\* processPESHeader: pthread_mutex_lock(&p->trend_pts.trendLock).
IngestLock ==
    /\ mpc = "lock"
    /\ lock = Nobody
    /\ lock' = "main"
    /\ mpc' = "store"
    /\ UNCHANGED <<gRunning, complete, expired, left, ended, rpc, written,
                   count, clone, freed>>

\* kllineartrend_add, first half: the sample is stored.
Store ==
    /\ mpc = "store"
    /\ written' = written + 1
    /\ mpc' = "count"
    /\ UNCHANGED <<gRunning, complete, expired, left, ended, rpc, lock, count,
                   clone, freed>>

\* kllineartrend_add, second half, and pthread_mutex_unlock; back to the
\* loop test.
CountUnlock ==
    /\ mpc = "count"
    /\ count' = count + 1
    /\ lock' = Nobody
    /\ mpc' = "top"
    /\ UNCHANGED <<gRunning, complete, expired, left, ended, rpc, written,
                   clone, freed>>

\* Mutant: the main thread does not wait for the reporter.
WaitReporterNoWait ==
    /\ mpc = "wait"
    /\ mpc' = "final"
    /\ UNCHANGED <<gRunning, complete, expired, left, ended, rpc, lock,
                   written, count, clone, freed>>

\* while (ctx->trendThreadComplete != 1) usleep(50 * 1000);
WaitReporter ==
    /\ mpc = "wait"
    /\ complete
    /\ mpc' = "final"
    /\ UNCHANGED <<gRunning, complete, expired, left, ended, rpc, lock,
                   written, count, clone, freed>>

\* if (ctx->enableTrendReport) { trendReport(ctx); trendReportFree(ctx); }
Final ==
    /\ mpc = "final"
    /\ freed' = EnableTrendReport
    /\ mpc' = "done"
    /\ UNCHANGED <<gRunning, complete, expired, left, ended, rpc, lock,
                   written, count, clone>>

-----------------------------------------------------------------------------
(* The reporter thread.                                                    *)

\* pthread_detach(ctx->trendThreadId); next = time(NULL) + reportPeriod.
Detach ==
    /\ rpc = "detach"
    /\ rpc' = "loop"
    /\ UNCHANGED <<gRunning, complete, expired, left, ended, mpc, lock,
                   written, count, clone, freed>>

\* Mutant: the reporter loop does not test gRunning.
ReporterLoopNoFlag ==
    /\ rpc = "loop"
    /\ IF EnableTrendReport
          THEN /\ rpc' = "sleep"
               /\ UNCHANGED complete
          ELSE /\ rpc' = "done"
               /\ complete' = TRUE
    /\ UNCHANGED <<gRunning, expired, left, ended, mpc, lock, written, count,
                   clone, freed>>

\* while (ctx->enableTrendReport && gRunning) ...; ctx->trendThreadComplete = 1.
ReporterLoop ==
    /\ rpc = "loop"
    /\ IF EnableTrendReport /\ gRunning
          THEN /\ rpc' = "sleep"
               /\ UNCHANGED complete
          ELSE /\ rpc' = "done"
               /\ complete' = TRUE
    /\ UNCHANGED <<gRunning, expired, left, ended, mpc, lock, written, count,
                   clone, freed>>

\* usleep(250 ms); if (time(NULL) < next) continue; otherwise report.
Sleep ==
    /\ rpc = "sleep"
    /\ rpc' \in {"loop", "lock"}
    /\ UNCHANGED <<gRunning, complete, expired, left, ended, mpc, lock,
                   written, count, clone, freed>>

\* Mutant: the reporter clones without taking the lock.
ReporterLockNoWait ==
    /\ rpc = "lock"
    /\ lock' = "reporter"
    /\ rpc' = "clone"
    /\ UNCHANGED <<gRunning, complete, expired, left, ended, mpc, written,
                   count, clone, freed>>

\* printTrend: pthread_mutex_lock(mutex).
ReporterLock ==
    /\ rpc = "lock"
    /\ lock = Nobody
    /\ lock' = "reporter"
    /\ rpc' = "clone"
    /\ UNCHANGED <<gRunning, complete, expired, left, ended, mpc, written,
                   count, clone, freed>>

\* trendDup = kllineartrend_clone(trend); pthread_mutex_unlock(mutex); the
\* slope is computed on the copy.
Clone ==
    /\ rpc = "clone"
    /\ clone' = [count |-> count, written |-> written]
    /\ lock' = Nobody
    /\ rpc' = "loop"
    /\ UNCHANGED <<gRunning, complete, expired, left, ended, mpc, written,
                   count, freed>>

-----------------------------------------------------------------------------
(* The environment.                                                        *)

\* SIGINT runs signal_handler, installed before the loop (line 1566).
Sigint ==
    /\ gRunning
    /\ mpc # "done"
    /\ gRunning' = FALSE
    /\ UNCHANGED <<complete, expired, left, ended, mpc, rpc, lock, written,
                   count, clone, freed>>

\* The wall clock passes stopTime.
Expire ==
    /\ StopSeconds
    /\ ~expired
    /\ expired' = TRUE
    /\ UNCHANGED <<gRunning, complete, left, ended, mpc, rpc, lock, written,
                   count, clone, freed>>

Main == Top \/ Read \/ IngestLock \/ Store \/ CountUnlock \/ WaitReporter \/ Final
Reporter == Detach \/ ReporterLoop \/ Sleep \/ ReporterLock \/ Clone

Next == Main \/ Reporter \/ Sigint \/ Expire

\* Both threads are scheduled by the kernel, so each makes progress when it
\* can.  A mutex is taken by a thread that keeps asking for it: the other
\* holds it only for one add or one clone and then sleeps.  Time passes.
Fairness ==
    /\ WF_vars(Top) /\ WF_vars(Read) /\ WF_vars(Store) /\ WF_vars(CountUnlock)
    /\ WF_vars(WaitReporter) /\ WF_vars(Final)
    /\ WF_vars(Detach) /\ WF_vars(ReporterLoop) /\ WF_vars(Sleep)
    /\ WF_vars(Clone)
    /\ SF_vars(IngestLock) /\ SF_vars(ReporterLock)
    /\ WF_vars(Expire)

Spec == Init /\ [][Next]_vars /\ Fairness
-----------------------------------------------------------------------------
(* Properties.                                                             *)

\* Every variable has the shape the code gives it.
TypeOK ==
    /\ gRunning \in BOOLEAN /\ complete \in BOOLEAN /\ expired \in BOOLEAN
    /\ left \in 0..MaxReads /\ ended \in BOOLEAN
    /\ mpc \in MainPcs /\ rpc \in ReporterPcs
    /\ lock \in {Nobody, "main", "reporter"}
    /\ written \in Nat /\ count \in Nat
    /\ clone \in [count : Nat, written : Nat]
    /\ freed \in BOOLEAN

\* printTrend clones the trend under trendLock, and processPESHeader holds
\* the same lock around kllineartrend_add: every clone the reporter takes
\* holds whole samples only, never a sample stored but not yet counted.
CloneConsistent == clone.count = clone.written

\* trendReportFree runs only once the reporter thread has left its loop and
\* holds no trend lock: the wait on trendThreadComplete (1626-1628) keeps
\* the reporter from cloning a freed trend.
NoReportAfterFree == freed => rpc = "done" /\ lock # "reporter"

\* Ctrl-C (or the -t timer) stops the tool: once gRunning is cleared both
\* threads leave their loops and the main thread reaches the final report.
StopTerminates == ~gRunning ~> mpc = "done"

\* The tool exits when its input ends: once avio_read has returned a
\* negative value (end of file or a read error) the main thread reaches
\* the final report.
EofTerminates == ended ~> mpc = "done"
=============================================================================
