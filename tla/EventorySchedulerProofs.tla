----------------------- MODULE EventorySchedulerProofs -----------------------
(***************************************************************************)
(* The safety properties of EventoryScheduler, for any number of requests, *)
(* ticker goroutines, workers and intervals.  IInv is inductive; it is     *)
(* proved conjunct by conjunct, each in a lemma with one step per action   *)
(* that can disturb it.                                                    *)
(***************************************************************************)
EXTENDS EventoryScheduler, FiniteSetTheorems, TLAPS

USE SchedulerAssumption

(* The parts of the initial condition and of the type invariant. *)
LEMMA InitIInv == Init => IInv
<1> SUFFICES ASSUME Init PROVE IInv
  OBVIOUS
<1>1. TypeOK
  BY DEF Init, TypeOK, PcOf, ResetPc, StopPc, Resetters, Stored
<1>2. Live = {} /\ Counted = {} /\ Claims = {}
  BY DEF Init, Live, Counted, Claims, InFlight
<1>3. CountInv
  BY <1>2, FS_EmptySet DEF Init, CountInv
<1>4. QED
  BY <1>1, <1>2, <1>3 DEF Init, IInv, LockInv, FlagInv, TickerInv, OneTicker,
     StopInv, ResetPc, StopPc, Resetters

(* Finiteness and typing of the sets that the two WaitGroups count. *)
LEMMA CountedFinite ==
  /\ IsFiniteSet(Live) /\ Cardinality(Live) \in Nat
  /\ IsFiniteSet(Counted) /\ Cardinality(Counted) \in Nat
<1>1. IsFiniteSet(Syncers)
  BY FS_Union DEF Syncers
<1>2. IsFiniteSet(Live) /\ IsFiniteSet(Counted)
  BY <1>1, FS_Subset DEF Live, Counted
<1>3. QED
  BY <1>2, FS_CardinalityType

(* The WaitGroup counters stay equal to the number of goroutines they      *)
(* count, so a Wait that returns has seen those goroutines gone.           *)
LEMMA CountStep == IInv /\ Step => CountInv'
<1> SUFFICES ASSUME IInv, Step PROVE CountInv'
  OBVIOUS
<1> USE DEF IInv, CountInv, TypeOK, muVars, runVars, tickVars, cfgVars
<1>1. ASSUME NEW p \in Resetters, ResetStart(p) PROVE CountInv'
  <2>1. Counted' = Counted
    BY <1>1 DEF ResetStart, Counted
  <2>2. CASE seen \notin Intervals
    BY <1>1, <2>1, <2>2 DEF ResetStart, Live
  <2>3. CASE seen \in Intervals
    <3>1. PICK t \in Tickers : tick[t] = "none"
                               /\ tick' = [tick EXCEPT ![t] = "select"]
      BY <1>1, <2>3 DEF ResetStart
    <3>2. Live' = Live \cup {t} /\ t \notin Live
      BY <3>1 DEF Live
    <3>3. Cardinality(Live') = Cardinality(Live) + 1
      BY <3>2, CountedFinite, FS_AddElement
    <3>4. QED
      BY <1>1, <2>1, <2>3, <3>3 DEF ResetStart
  <2>4. QED
    BY <2>2, <2>3
<1>2. ASSUME NEW t \in Tickers, TickAcquire(t) PROVE CountInv'
  BY <1>2 DEF TickAcquire, Live, Counted
<1>3. ASSUME NEW t \in Tickers, TickLaunch(t) PROVE CountInv'
  <2>1. PICK w \in Workers : sync[w] = "none"
                             /\ sync' = [sync EXCEPT ![w] = "run"]
    BY <1>3 DEF TickLaunch
  <2>2. Live' = Live
    BY <1>3 DEF TickLaunch, Live
  <2>3. Counted' = Counted \cup {w} /\ w \notin Counted
    BY <2>1 DEF Counted, Syncers
  <2>4. Cardinality(Counted') = Cardinality(Counted) + 1
    BY <2>3, CountedFinite, FS_AddElement
  <2>5. QED
    BY <1>3, <2>2, <2>4 DEF TickLaunch
<1>4. ASSUME NEW t \in Tickers, TickExit(t) PROVE CountInv'
  <2>1. Live' = Live \ {t} /\ t \in Live
    BY <1>4 DEF TickExit, Live
  <2>2. Cardinality(Live') = Cardinality(Live) - 1
    BY <2>1, CountedFinite, FS_RemoveElement
  <2>3. Counted' = Counted
    BY <1>4 DEF TickExit, Counted
  <2>4. QED
    BY <1>4, <2>2, <2>3 DEF TickExit
<1>5. ASSUME NEW m \in Manuals, TryAcquireSync(m) PROVE CountInv'
  <2>1. Counted' = Counted \cup {m} /\ m \notin Counted
    BY <1>5 DEF TryAcquireSync, Counted, Syncers
  <2>2. Cardinality(Counted') = Cardinality(Counted) + 1
    BY <2>1, CountedFinite, FS_AddElement
  <2>3. Live' = Live
    BY <1>5 DEF TryAcquireSync, Live
  <2>4. QED
    BY <1>5, <2>2, <2>3 DEF TryAcquireSync
<1>6. ASSUME NEW s \in Syncers, ReleaseFlag(s) PROVE CountInv'
  BY <1>6 DEF ReleaseFlag, Live, Counted
<1>7. ASSUME NEW s \in Syncers, ReleaseDone(s) PROVE CountInv'
  <2>1. Counted' = Counted \ {s} /\ s \in Counted
    BY <1>7 DEF ReleaseDone, Counted
  <2>2. Cardinality(Counted') = Cardinality(Counted) - 1
    BY <2>1, CountedFinite, FS_RemoveElement
  <2>3. Live' = Live
    BY <1>7 DEF ReleaseDone, Live
  <2>4. QED
    BY <1>7, <2>2, <2>3 DEF ReleaseDone
<1>8. ASSUME UNCHANGED <<tick, tickerWg, sync, wg>> PROVE CountInv'
  BY <1>8 DEF Live, Counted
<1>9. QED
  BY <1>1, <1>2, <1>3, <1>4, <1>5, <1>6, <1>7, <1>8
     DEF Step, Save, Reset, ResetLock, ResetSignal, ResetWait, ResetRelock,
         ResetRead, Signal, Stop, StopSignal, StopTicker, StopSync,
         CloseDatabase, Exit

(* Every variable keeps its type; the counters because of CountStep. *)
LEMMA TypeStep == IInv /\ Step => TypeOK'
<1> SUFFICES ASSUME IInv, Step PROVE TypeOK'
  OBVIOUS
<1>0. tickerWg' \in Nat /\ wg' \in Nat
  <2>1. IsFiniteSet(Live)' /\ IsFiniteSet(Counted)'
    <3>1. IsFiniteSet(Syncers)
      BY FS_Union DEF Syncers
    <3>2. QED
      BY <3>1, FS_Subset DEF Live, Counted
  <2>2. QED
    BY <2>1, CountStep, FS_CardinalityType DEF CountInv
<1> USE DEF IInv, TypeOK, muVars, runVars, tickVars, cfgVars, Goto, PcOf,
        ResetPc, StopPc, Resetters, Stored
<1>1. ASSUME NEW e \in Editors, Save(e) PROVE TypeOK'
  BY <1>1 DEF Save
<1>2. ASSUME NEW p \in Resetters, ResetLock(p) PROVE TypeOK'
  BY <1>2 DEF ResetLock
<1>3. ASSUME NEW p \in Resetters, ResetSignal(p) PROVE TypeOK'
  BY <1>3 DEF ResetSignal, CloseStopCh
<1>4. ASSUME NEW p \in Resetters, ResetWait(p) PROVE TypeOK'
  BY <1>4 DEF ResetWait
<1>5. ASSUME NEW p \in Resetters, ResetRelock(p) PROVE TypeOK'
  BY <1>5 DEF ResetRelock
<1>6. ASSUME NEW p \in Resetters, ResetRead(p) PROVE TypeOK'
  BY <1>6 DEF ResetRead
<1>7. ASSUME NEW p \in Resetters, ResetStart(p) PROVE TypeOK'
  BY <1>0, <1>7 DEF ResetStart
<1>8. ASSUME NEW t \in Tickers, TickAcquire(t) PROVE TypeOK'
  BY <1>8 DEF TickAcquire
<1>9. ASSUME NEW t \in Tickers, TickLaunch(t) PROVE TypeOK'
  BY <1>0, <1>9 DEF TickLaunch, Syncers
<1>10. ASSUME NEW t \in Tickers, TickExit(t) PROVE TypeOK'
  BY <1>0, <1>10 DEF TickExit
<1>11. ASSUME NEW m \in Manuals, TryAcquireSync(m) PROVE TypeOK'
  BY <1>0, <1>11 DEF TryAcquireSync
<1>12. ASSUME NEW s \in Syncers, ReleaseFlag(s) PROVE TypeOK'
  BY <1>12 DEF ReleaseFlag
<1>13. ASSUME NEW s \in Syncers, ReleaseDone(s) PROVE TypeOK'
  BY <1>0, <1>13 DEF ReleaseDone
<1>14. ASSUME Signal PROVE TypeOK'
  BY <1>14 DEF Signal
<1>15. ASSUME StopSignal PROVE TypeOK'
  BY <1>15 DEF StopSignal, CloseStopCh
<1>16. ASSUME StopTicker \/ StopSync PROVE TypeOK'
  BY <1>16 DEF StopTicker, StopSync
<1>17. ASSUME CloseDatabase \/ Exit PROVE TypeOK'
  <2>1. CASE CloseDatabase
    BY <2>1, ZenonT(60) DEF CloseDatabase
  <2>2. CASE Exit
    BY <2>2 DEF Exit
  <2>3. QED
    BY <1>17, <2>1, <2>2
<1>18. QED
  BY <1>1, <1>2, <1>3, <1>4, <1>5, <1>6, <1>7, <1>8, <1>9, <1>10, <1>11,
     <1>12, <1>13, <1>14, <1>15, <1>16, <1>17 DEF Step, Reset, Stop

(* The mutexes are taken when free and released on every path of Reset,    *)
(* the two early returns included.                                         *)
LEMMA LockStep == IInv /\ Step => LockInv'
<1> SUFFICES ASSUME IInv, Step PROVE LockInv'
  OBVIOUS
<1> USE DEF IInv, TypeOK, LockInv, muVars, runVars, tickVars, cfgVars, Goto,
        PcOf, ResetPc, StopPc, Resetters
<1>1. ASSUME NEW e \in Editors, Save(e) PROVE LockInv'
  BY <1>1 DEF Save
<1>2. ASSUME NEW p \in Resetters, ResetLock(p) PROVE LockInv'
  BY <1>2 DEF ResetLock
<1>3. ASSUME NEW p \in Resetters, ResetSignal(p) PROVE LockInv'
  BY <1>3 DEF ResetSignal
<1>4. ASSUME NEW p \in Resetters, ResetWait(p) PROVE LockInv'
  BY <1>4 DEF ResetWait
<1>5. ASSUME NEW p \in Resetters, ResetRelock(p) PROVE LockInv'
  BY <1>5 DEF ResetRelock
<1>6. ASSUME NEW p \in Resetters, ResetRead(p) PROVE LockInv'
  BY <1>6 DEF ResetRead
<1>7. ASSUME NEW p \in Resetters, ResetStart(p) PROVE LockInv'
  BY <1>7 DEF ResetStart
<1>8. ASSUME Signal PROVE LockInv'
  BY <1>8 DEF Signal
<1>9. ASSUME StopSignal PROVE LockInv'
  BY <1>9 DEF StopSignal
<1>10. ASSUME StopTicker \/ StopSync PROVE LockInv'
  BY <1>10 DEF StopTicker, StopSync
<1>11. ASSUME CloseDatabase \/ Exit PROVE LockInv'
  BY <1>11 DEF CloseDatabase, Exit
<1>12. ASSUME UNCHANGED <<pc, mu, resetMu>> PROVE LockInv'
  BY <1>12
<1>13. QED
  BY <1>1, <1>2, <1>3, <1>4, <1>5, <1>6, <1>7, <1>8, <1>9, <1>10, <1>11,
     <1>12 DEF Step, Reset, Stop, TickAcquire, TickLaunch, TickExit,
     TryAcquireSync, ReleaseFlag, ReleaseDone

(* The flag is claimed only when it is 0, a claim is handed from a ticker  *)
(* to the worker it launches, and it ends when the flag is cleared.        *)
LEMMA FlagStep == IInv /\ Step => FlagInv'
<1> SUFFICES ASSUME IInv, Step PROVE FlagInv'
  OBVIOUS
<1> USE DEF IInv, TypeOK, FlagInv, muVars, runVars, tickVars, cfgVars,
        Claims, InFlight, Syncers
<1>1. ASSUME NEW p \in Resetters, ResetStart(p) PROVE FlagInv'
  <2>1. Claims' = Claims /\ running' = running
    BY <1>1 DEF ResetStart
  <2>2. QED
    BY <2>1
<1>2. ASSUME NEW t \in Tickers, TickAcquire(t) PROVE FlagInv'
  <2>1. Claims = {} /\ Claims' = {t} /\ running' = 1
    BY <1>2 DEF TickAcquire
  <2>2. QED
    BY <2>1
<1>3. ASSUME NEW t \in Tickers, TickLaunch(t) PROVE FlagInv'
  <2>1. PICK w \in Workers : sync' = [sync EXCEPT ![w] = "run"]
    BY <1>3 DEF TickLaunch
  <2>2. Claims = {t} /\ Claims' = {w} /\ running' = running
    BY <1>3, <2>1 DEF TickLaunch
  <2>3. QED
    BY <2>2
<1>4. ASSUME NEW t \in Tickers, TickExit(t) PROVE FlagInv'
  <2>1. Claims' = Claims /\ running' = running
    BY <1>4 DEF TickExit
  <2>2. QED
    BY <2>1
<1>5. ASSUME NEW m \in Manuals, TryAcquireSync(m) PROVE FlagInv'
  <2>1. Claims = {} /\ Claims' = {m} /\ running' = 1
    BY <1>5 DEF TryAcquireSync
  <2>2. QED
    BY <2>1
<1>6. ASSUME NEW s \in Syncers, ReleaseFlag(s) PROVE FlagInv'
  <2>1. Claims = {s} /\ Claims' = {}
    BY <1>6 DEF ReleaseFlag
  <2>2. QED
    BY <2>1
<1>7. ASSUME NEW s \in Syncers, ReleaseDone(s) PROVE FlagInv'
  <2>1. Claims' = Claims /\ running' = running
    BY <1>7 DEF ReleaseDone
  <2>2. QED
    BY <2>1
<1>8. ASSUME UNCHANGED <<tick, sync, running>> PROVE FlagInv'
  BY <1>8
<1>9. QED
  BY <1>1, <1>2, <1>3, <1>4, <1>5, <1>6, <1>7, <1>8
     DEF Step, Save, Reset, ResetLock, ResetSignal, ResetWait, ResetRelock,
         ResetRead, Signal, Stop, StopSignal, StopTicker, StopSync,
         CloseDatabase, Exit

(* A Wait on tickerWg that returns has seen every ticker goroutine exit. *)
LEMMA TickersGone == IInv /\ tickerWg = 0 => Live = {}
  BY CountedFinite, FS_EmptySet DEF IInv, CountInv

(* Likewise for a Wait on wg and the syncs. *)
LEMMA SyncsGone == IInv /\ wg = 0 => Counted = {}
  BY CountedFinite, FS_EmptySet DEF IInv, CountInv

(* A ticker is started only after the previous one has exited, and only    *)
(* its own exit or a closed channel separates it from s.stopCh.            *)
LEMMA TickerStep == IInv /\ Step => TickerInv'
<1> SUFFICES ASSUME IInv, Step PROVE TickerInv'
  OBVIOUS
<1> USE DEF IInv, TypeOK, LockInv, TickerInv, OneTicker, Live, muVars,
        runVars, tickVars, cfgVars, Goto, PcOf, ResetPc, StopPc, Resetters
<1>1. ASSUME NEW e \in Editors, Save(e) PROVE TickerInv'
  BY <1>1 DEF Save
<1>2. ASSUME NEW p \in Resetters, ResetLock(p) PROVE TickerInv'
  BY <1>2 DEF ResetLock
<1>3. ASSUME NEW p \in Resetters, ResetSignal(p) PROVE TickerInv'
  BY <1>3 DEF ResetSignal, CloseStopCh
<1>4. ASSUME NEW p \in Resetters, ResetWait(p) PROVE TickerInv'
  <2>1. Live = {}
    BY <1>4, TickersGone DEF ResetWait
  <2>2. QED
    BY <1>4, <2>1 DEF ResetWait
<1>5. ASSUME NEW p \in Resetters, ResetRelock(p) PROVE TickerInv'
  BY <1>5 DEF ResetRelock
<1>6. ASSUME NEW p \in Resetters, ResetRead(p) PROVE TickerInv'
  BY <1>6 DEF ResetRead
<1>7. ASSUME NEW p \in Resetters, ResetStart(p) PROVE TickerInv'
  <2>1. Live = {}
    BY <1>7 DEF ResetStart
  <2>2. \A q \in Resetters : pc'[q] \notin {"relock", "reading", "starting"}
    BY <1>7 DEF ResetStart
  <2>3. QED
    BY <1>7, <2>1, <2>2 DEF ResetStart
<1>8. ASSUME NEW t \in Tickers,
             TickAcquire(t) \/ TickLaunch(t) \/ TickExit(t)
      PROVE TickerInv'
  BY <1>8 DEF TickAcquire, TickLaunch, TickExit
<1>9. ASSUME Signal PROVE TickerInv'
  BY <1>9 DEF Signal
<1>10. ASSUME StopSignal PROVE TickerInv'
  BY <1>10 DEF StopSignal, CloseStopCh
<1>11. ASSUME StopTicker \/ StopSync PROVE TickerInv'
  BY <1>11 DEF StopTicker, StopSync
<1>12. ASSUME CloseDatabase \/ Exit PROVE TickerInv'
  BY <1>12 DEF CloseDatabase, Exit
<1>13. ASSUME UNCHANGED <<pc, stopCh, closed, tick>> PROVE TickerInv'
  BY <1>13
<1>14. QED
  BY <1>1, <1>2, <1>3, <1>4, <1>5, <1>6, <1>7, <1>8, <1>9, <1>10, <1>11,
     <1>12, <1>13 DEF Step, Reset, Stop, TryAcquireSync, ReleaseFlag,
     ReleaseDone

(* Once stopped is set no Reset can be between its check of stopped and    *)
(* the start of a ticker, so what Stop waited for does not come back.      *)
LEMMA StopStep == IInv /\ Step => StopInv'
<1> SUFFICES ASSUME IInv, Step PROVE StopInv'
  OBVIOUS
<1> USE DEF IInv, TypeOK, LockInv, StopInv, muVars, runVars, tickVars,
        cfgVars, Goto, PcOf, ResetPc, StopPc, Resetters
<1>1. ASSUME NEW e \in Editors, Save(e) PROVE StopInv'
  BY <1>1 DEF Save, Live, Counted
<1>2. ASSUME NEW p \in Resetters, ResetLock(p) PROVE StopInv'
  BY <1>2 DEF ResetLock, Live, Counted
<1>3. ASSUME NEW p \in Resetters, ResetSignal(p) PROVE StopInv'
  BY <1>3 DEF ResetSignal, Live, Counted
<1>4. ASSUME NEW p \in Resetters, ResetWait(p) PROVE StopInv'
  BY <1>4 DEF ResetWait, Live, Counted
<1>5. ASSUME NEW p \in Resetters, ResetRelock(p) PROVE StopInv'
  BY <1>5 DEF ResetRelock, Live, Counted
<1>6. ASSUME NEW p \in Resetters, ResetRead(p) PROVE StopInv'
  BY <1>6 DEF ResetRead, Live, Counted
<1>7. ASSUME NEW p \in Resetters, ResetStart(p) PROVE StopInv'
  BY <1>7 DEF ResetStart
<1>8. ASSUME NEW t \in Tickers, TickAcquire(t) PROVE StopInv'
  BY <1>8 DEF TickAcquire, Live, Counted
<1>9. ASSUME NEW t \in Tickers, TickLaunch(t) PROVE StopInv'
  BY <1>9 DEF TickLaunch, Live
<1>10. ASSUME NEW t \in Tickers, TickExit(t) PROVE StopInv'
  BY <1>10 DEF TickExit, Live, Counted
<1>11. ASSUME NEW m \in Manuals, TryAcquireSync(m) PROVE StopInv'
  BY <1>11 DEF TryAcquireSync
<1>12. ASSUME NEW s \in Syncers, ReleaseFlag(s) \/ ReleaseDone(s) PROVE StopInv'
  BY <1>12 DEF ReleaseFlag, ReleaseDone, Live, Counted
<1>13. ASSUME Signal PROVE StopInv'
  BY <1>13 DEF Signal
<1>14. ASSUME StopSignal PROVE StopInv'
  BY <1>14 DEF StopSignal
<1>15. ASSUME StopTicker PROVE StopInv'
  BY <1>15, TickersGone DEF StopTicker, Live, Counted
<1>16. ASSUME StopSync PROVE StopInv'
  BY <1>16, SyncsGone DEF StopSync, Live, Counted
<1>17. ASSUME CloseDatabase \/ Exit PROVE StopInv'
  BY <1>17 DEF CloseDatabase, Exit, Live, Counted
<1>18. QED
  BY <1>1, <1>2, <1>3, <1>4, <1>5, <1>6, <1>7, <1>8, <1>9, <1>10, <1>11,
     <1>12, <1>13, <1>14, <1>15, <1>16, <1>17 DEF Step, Reset, Stop

(* IInv is inductive. *)
LEMMA IInvStep == IInv /\ [Next]_vars => IInv'
<1>1. IInv /\ Step => IInv'
  BY TypeStep, LockStep, CountStep, FlagStep, TickerStep, StopStep DEF IInv
<1>2. IInv /\ UNCHANGED vars => IInv'
  BY DEF IInv, TypeOK, LockInv, CountInv, FlagInv, TickerInv, OneTicker,
     StopInv, Live, Counted, Claims, InFlight, PcOf, vars, muVars, runVars,
     tickVars, cfgVars
<1>3. QED
  BY <1>1, <1>2 DEF Next, Exited

THEOREM Invariance == Spec => []IInv
  BY InitIInv, IInvStep, PTL DEF Spec

(* Every variable of the scheduler keeps its type. *)
THEOREM TypeCorrect == Spec => []TypeOK
<1>1. IInv => TypeOK
  BY DEF IInv
<1>2. QED
  BY <1>1, Invariance, PTL

(* Syncs never overlap, however many requests and ticks ask for one. *)
THEOREM SyncsNeverOverlap == Spec => []NoOverlap
<1>1. IInv => NoOverlap
  BY DEF IInv, FlagInv, NoOverlap, Claims
<1>2. QED
  BY <1>1, Invariance, PTL

(* There is at most one ticker goroutine and it can always be stopped. *)
THEOREM AtMostOneTicker == Spec => []OneTicker
<1>1. IInv => OneTicker
  BY DEF IInv, TickerInv
<1>2. QED
  BY <1>1, Invariance, PTL

(* Stop returns only when nothing of the scheduler is left, for good. *)
THEOREM StopLeavesNothing == Spec => []StopIsFinal
<1>1. IInv => StopIsFinal
  <2>1. ASSUME IInv, pc[Main] \in {"closing", "closed", "exited"}
        PROVE Live = {} /\ Claims = {} /\ wg = 0
    <3>1. Live = {} /\ Counted = {}
      BY <2>1 DEF IInv, StopInv
    <3>2. Claims = {}
      BY <3>1 DEF Live, Counted, Claims, InFlight
    <3>3. wg = 0
      BY <2>1, <3>1, FS_EmptySet DEF IInv, CountInv
    <3>4. QED
      BY <3>1, <3>2, <3>3
  <2>2. ASSUME IInv, InFlight # {} PROVE dbOpen
    BY <2>2 DEF IInv, StopInv, TypeOK, InFlight, Counted
  <2>3. QED
    BY <2>1, <2>2 DEF StopIsFinal
<1>2. QED
  BY <1>1, Invariance, PTL

-----------------------------------------------------------------------------
(* The WaitGroups are used as their contract asks: an Add from zero would  *)
(* need a Reset past its wait, or a claim on the flag, while Stop or       *)
(* another Reset waits; the mutexes and stopped rule that out.             *)
THEOREM WaitGroupContract == Spec => NoAddDuringWait
<1>1. ASSUME IInv, IInv', Next PROVE WaitGroupUse
  <2>0. tickerWg \in Nat /\ wg \in Nat /\ tickerWg' \in Nat /\ wg' \in Nat
    BY <1>1 DEF IInv, TypeOK
  <2>1. ASSUME tickerWg = 0, tickerWg' > 0
        PROVE \A p \in Resetters : pc[p] \notin {"waiting", "waitTicker"}
    <3>1. PICK q \in Resetters : ResetStart(q)
      BY <1>1, <2>0, <2>1, SMTT(30) DEF Next, Step, Exited, Save, Reset, ResetLock,
         ResetSignal, ResetWait, ResetRelock, ResetRead, TickAcquire,
         TickLaunch, TickExit, TryAcquireSync, ReleaseFlag, ReleaseDone,
         Signal, Stop, StopSignal, StopTicker, StopSync, CloseDatabase, Exit,
         vars, muVars, runVars, tickVars, cfgVars
    <3>2. pc[q] = "starting" /\ resetMu = q /\ mu = q /\ ~stopped
      BY <1>1, <3>1 DEF ResetStart, IInv, LockInv, StopInv, ResetPc, TypeOK, Resetters
    <3>3. ASSUME NEW p \in Resetters, pc[p] = "waiting" PROVE FALSE
      BY <1>1, <3>2, <3>3 DEF IInv, LockInv, ResetPc
    <3>4. ASSUME NEW p \in Resetters, pc[p] = "waitTicker" PROVE FALSE
      BY <1>1, <3>2, <3>4 DEF IInv, TypeOK, PcOf, ResetPc, StopInv, StopPc
    <3>5. QED
      BY <3>3, <3>4
  <2>2. ASSUME wg = 0, wg' > 0 PROVE pc[Main] # "waitSync"
    <3>1. \/ \E t \in Tickers : TickLaunch(t)
          \/ \E m \in Manuals : TryAcquireSync(m)
      BY <1>1, <2>0, <2>2, SMTT(30) DEF Next, Step, Exited, Save, Reset, ResetLock,
         ResetSignal, ResetWait, ResetRelock, ResetRead, ResetStart,
         TickAcquire, TickExit, ReleaseFlag, ReleaseDone, Signal, Stop,
         StopSignal, StopTicker, StopSync, CloseDatabase, Exit, vars, muVars,
         runVars, tickVars, cfgVars
    <3>2. QED
      BY <1>1, <3>1 DEF TickLaunch, TryAcquireSync, IInv, StopInv, StopPc, Live
  <2>3. QED
    BY <2>0, <2>1, <2>2 DEF WaitGroupUse
<1>2. ASSUME IInv, UNCHANGED vars PROVE WaitGroupUse
  BY <1>2 DEF vars, runVars, tickVars, WaitGroupUse, IInv, TypeOK
<1>3. IInv /\ IInv' /\ [Next]_vars => [WaitGroupUse]_vars
  BY <1>1, <1>2
<1>4. QED
  BY <1>3, Invariance, PTL DEF Spec, NoAddDuringWait

-----------------------------------------------------------------------------
(* The interval of the running ticker follows the stored one. *)
LEMMA ConfigStep == IInv /\ ConfigInv /\ Step => ConfigInv'
<1> SUFFICES ASSUME IInv, ConfigInv, Step PROVE ConfigInv'
  OBVIOUS
<1> USE DEF IInv, TypeOK, LockInv, ConfigInv, Resetting, Live, muVars,
        runVars, tickVars, cfgVars, Goto, PcOf, ResetPc, StopPc, Resetters
<1>1. ASSUME NEW e \in Editors, Save(e) PROVE ConfigInv'
  BY <1>1 DEF Save
<1>2. ASSUME NEW p \in Resetters, ResetLock(p) PROVE ConfigInv'
  BY <1>2 DEF ResetLock
<1>3. ASSUME NEW p \in Resetters, ResetSignal(p) PROVE ConfigInv'
  BY <1>3 DEF ResetSignal, CloseStopCh, TickerInv, OneTicker
<1>4. ASSUME NEW p \in Resetters, ResetWait(p) PROVE ConfigInv'
  BY <1>4 DEF ResetWait
<1>5. ASSUME NEW p \in Resetters, ResetRelock(p) PROVE ConfigInv'
  BY <1>5 DEF ResetRelock
<1>6. ASSUME NEW p \in Resetters, ResetRead(p) PROVE ConfigInv'
  BY <1>6 DEF ResetRead
<1>7. ASSUME NEW p \in Resetters, ResetStart(p) PROVE ConfigInv'
  <2>1. Live = {}
    BY <1>7 DEF ResetStart, TickerInv
  <2>2. QED
    BY <1>7, <2>1 DEF ResetStart
<1>8. ASSUME NEW t \in Tickers,
             TickAcquire(t) \/ TickLaunch(t) \/ TickExit(t)
      PROVE ConfigInv'
  BY <1>8 DEF TickAcquire, TickLaunch, TickExit
<1>9. ASSUME Signal PROVE ConfigInv'
  BY <1>9 DEF Signal
<1>10. ASSUME StopSignal PROVE ConfigInv'
  BY <1>10 DEF StopSignal, CloseStopCh, TickerInv, OneTicker
<1>11. ASSUME StopTicker \/ StopSync PROVE ConfigInv'
  BY <1>11 DEF StopTicker, StopSync
<1>12. ASSUME CloseDatabase \/ Exit PROVE ConfigInv'
  BY <1>12 DEF CloseDatabase, Exit
<1>13. ASSUME UNCHANGED <<pc, stopped, closed, tick, every, config, seen>>
       PROVE ConfigInv'
  BY <1>13
<1>14. QED
  BY <1>1, <1>2, <1>3, <1>4, <1>5, <1>6, <1>7, <1>8, <1>9, <1>10, <1>11,
     <1>12, <1>13 DEF Step, Reset, Stop, TryAcquireSync, ReleaseFlag,
     ReleaseDone

(* Between settings requests the ticker runs at the stored interval. *)
THEOREM TickerFollowsConfig == Spec => []TickerMatchesConfig
<1>1. Init => ConfigInv
  BY DEF Init, ConfigInv, Resetting, Live, ResetPc, Resetters
<1>2. IInv /\ ConfigInv /\ UNCHANGED vars => ConfigInv'
  BY DEF ConfigInv, Resetting, Live, vars, muVars, runVars, tickVars, cfgVars
<1>3. IInv /\ ConfigInv /\ [Next]_vars => ConfigInv'
  BY ConfigStep, <1>2 DEF Next, Exited
<1>4. IInv /\ ConfigInv => TickerMatchesConfig
  <2> SUFFICES ASSUME IInv, ConfigInv, Quiescent
               PROVE /\ seen \in {config, ReadError}
                     /\ \A t \in Live \ closed : every[t] = config
                     /\ (Live \subseteq closed) <=> (seen \notin Intervals)
    BY DEF TickerMatchesConfig
  <2>1. ~stopped
    BY DEF IInv, StopInv, StopPc, Quiescent, Resetters
  <2>2. /\ seen \in {config, ReadError}
        /\ \A t \in Live \ closed : every[t] = seen
        /\ (Live \subseteq closed) <=> (seen \notin Intervals)
    BY <2>1 DEF ConfigInv, Quiescent, Resetting, ResetPc
  <2>3. QED
    BY <2>2
<1>5. QED
  BY <1>1, <1>3, <1>4, Invariance, PTL DEF Spec

-----------------------------------------------------------------------------
(* The scheduler implements SyncGate. *)

(* A step that leaves the claims and the phase of the shutdown alone is a  *)
(* stuttering step of the gate.                                            *)
LEMMA GateStutter ==
  ASSUME Claims' = Claims, stopped' = stopped, phaseBar' = phaseBar
  PROVE  UNCHANGED Gate!gateVars
  BY DEF Gate!gateVars, busyBar, ScheduledClaim

LEMMA GateStep == IInv /\ IInv' /\ Step => [Gate!GateNext]_(Gate!gateVars)
<1> SUFFICES ASSUME IInv, IInv', Step PROVE [Gate!GateNext]_(Gate!gateVars)
  OBVIOUS
<1> USE DEF IInv, TypeOK, muVars, runVars, tickVars, cfgVars, Goto
<1>1. ASSUME NEW e \in Editors, Save(e) PROVE UNCHANGED Gate!gateVars
  BY <1>1, GateStutter DEF Save, Claims, InFlight, phaseBar, Resetters
<1>2. ASSUME NEW p \in Resetters, Reset(p) PROVE UNCHANGED Gate!gateVars
  <2>1. /\ stopped' = stopped /\ sync' = sync
        /\ pc[p] \in ResetPc
        /\ \E l \in {"idle"} \cup ResetPc : pc' = [pc EXCEPT ![p] = l]
    BY <1>2 DEF Reset, ResetLock, ResetSignal, ResetWait, ResetRelock,
       ResetRead, ResetStart, ResetPc
  <2>2. phaseBar' = phaseBar
    BY <2>1 DEF phaseBar, ResetPc, Resetters
  <2>3. Claims' = Claims
    BY <1>2 DEF Reset, ResetLock, ResetSignal, ResetWait, ResetRelock,
       ResetRead, ResetStart, Claims, InFlight
  <2>4. QED
    BY <2>1, <2>2, <2>3, GateStutter
<1>3. ASSUME NEW t \in Tickers, TickAcquire(t) PROVE Gate!Begin("scheduled")
  <2>1. Claims = {} /\ Claims' = {t}
    BY <1>3 DEF TickAcquire, FlagInv, Claims, InFlight
  <2>2. phaseBar' = phaseBar /\ phaseBar \in {"open", "draining"}
    BY <1>3 DEF TickAcquire, phaseBar, StopInv, Live
  <2>3. QED
    BY <2>1, <2>2 DEF Gate!Begin, busyBar, ScheduledClaim
<1>4. ASSUME NEW t \in Tickers, TickLaunch(t) PROVE UNCHANGED Gate!gateVars
  <2>1. PICK w \in Workers : sync' = [sync EXCEPT ![w] = "run"]
    BY <1>4 DEF TickLaunch
  <2>2. Claims = {t} /\ Claims' = {w}
    BY <1>4, <2>1 DEF TickLaunch, FlagInv, Claims, InFlight, Syncers
  <2>3. phaseBar' = phaseBar
    BY <1>4 DEF TickLaunch, phaseBar
  <2>4. QED
    BY <2>2, <2>3 DEF Gate!gateVars, busyBar, ScheduledClaim
<1>5. ASSUME NEW t \in Tickers, TickExit(t) PROVE UNCHANGED Gate!gateVars
  BY <1>5, GateStutter DEF TickExit, Claims, InFlight, phaseBar
<1>6. ASSUME NEW m \in Manuals, TryAcquireSync(m) PROVE Gate!Begin("manual")
  <2>1. Claims = {} /\ Claims' = {m}
    BY <1>6 DEF TryAcquireSync, FlagInv, Claims, InFlight, Syncers
  <2>2. phaseBar' = phaseBar /\ phaseBar = "open"
    BY <1>6 DEF TryAcquireSync, phaseBar, StopInv, StopPc
  <2>3. QED
    BY <2>1, <2>2 DEF Gate!Begin, busyBar, ScheduledClaim
<1>7. ASSUME NEW s \in Syncers, ReleaseFlag(s) PROVE Gate!End
  <2>1. Claims = {s} /\ Claims' = {}
    BY <1>7 DEF ReleaseFlag, FlagInv, Claims, InFlight, Syncers
  <2>2. phaseBar' = phaseBar
    BY <1>7 DEF ReleaseFlag, phaseBar
  <2>3. QED
    BY <2>1, <2>2 DEF Gate!End, busyBar
<1>8. ASSUME NEW s \in Syncers, ReleaseDone(s) PROVE UNCHANGED Gate!gateVars
  BY <1>8, GateStutter DEF ReleaseDone, Claims, InFlight, phaseBar
<1>9. ASSUME Signal \/ StopTicker \/ CloseDatabase \/ Exit
      PROVE UNCHANGED Gate!gateVars
  BY <1>9, GateStutter DEF Signal, StopTicker, CloseDatabase, Exit, Claims,
     InFlight, phaseBar, Resetters
<1>10. ASSUME StopSignal PROVE Gate!Drain
  <2>1. Claims' = Claims
    BY <1>10 DEF StopSignal, Claims, InFlight
  <2>2. phaseBar = "open" /\ phaseBar' = "draining"
    BY <1>10 DEF StopSignal, StopInv, StopPc, phaseBar, Resetters
  <2>3. QED
    BY <2>1, <2>2 DEF Gate!Drain, busyBar, ScheduledClaim
<1>11. ASSUME StopSync PROVE Gate!Close
  <2>1. Claims = {} /\ Claims' = Claims
    BY <1>11, SyncsGone DEF StopSync, StopInv, Claims, InFlight, Live, Counted
  <2>2. phaseBar = "draining" /\ phaseBar' = "closed"
    BY <1>11 DEF StopSync, StopInv, StopPc, phaseBar, Resetters
  <2>3. QED
    BY <2>1, <2>2 DEF Gate!Close, busyBar
<1>12. QED
  BY <1>1, <1>2, <1>3, <1>4, <1>5, <1>6, <1>7, <1>8, <1>9, <1>10, <1>11
     DEF Step, Stop, Gate!GateNext

(* Every behaviour of the scheduler is, seen through the claims on the     *)
(* flag and the progress of Stop, a behaviour of the gate.                 *)
THEOREM SchedulerImplementsGate == Spec => ImplementsGate
<1>1. Init => Gate!GateInit
  <2> SUFFICES ASSUME Init PROVE Gate!GateInit
    OBVIOUS
  <2>1. Claims = {}
    BY DEF Init, Claims, InFlight
  <2>2. pc[Main] = "reset" /\ ~stopped
    BY DEF Init, Resetters
  <2>3. QED
    BY <2>1, <2>2 DEF Gate!GateInit, busyBar, phaseBar
<1>2. IInv /\ UNCHANGED vars => UNCHANGED Gate!gateVars
  BY DEF vars, muVars, runVars, tickVars, cfgVars, Gate!gateVars, busyBar,
     phaseBar, ScheduledClaim, Claims, InFlight
<1>3. IInv /\ IInv' /\ [Next]_vars => [Gate!GateNext]_(Gate!gateVars)
  BY GateStep, <1>2 DEF Next, Exited
<1>4. QED
  BY <1>1, <1>3, Invariance, PTL DEF Spec, ImplementsGate, Gate!GateSpec
=============================================================================
