-------------------------- MODULE DeviceScanProofs --------------------------
(* Proofs about DeviceScan, for every set of scans, devices, jobs, zones   *)
(* and requests.  One lemma per action shows that it preserves IInv.       *)
EXTENDS DeviceScan, TLAPS

USE ScanAssumption DEF Goto, Begun, Work, Ending, Final, InTx, Is, Moving, Moves, Returns

\* A step that keeps the committed scans, their movements and the zones.
LEMMA ReplayKept ==
  ASSUME ReplayMatchesZone, committed' = committed, assigned' = assigned,
         \A d \in Devices : device'[d].zone = device[d].zone,
         \A s \in committed : req'[s] = req[s] /\ stamp'[s] = stamp[s]
  PROVE  ReplayMatchesZone'
  <1>1. \A d \in Devices : Moves(d)' = Moves(d)
    OBVIOUS
  <1> QED BY <1>1 DEF ReplayMatchesZone, ZoneOf

LEMMA BeginStep == ASSUME IInv, NEW s \in Scans, Begin(s) PROVE IInv'
  <1> USE DEF IInv, TypeOK, Begin, scanVars, dbVars, logVars, editVars
  <1>1. TypeOK'
    BY DEF Row
  <1>2. LockInv'
    BY DEF LockInv, PathInv
  <1>3. PathInv'
    BY DEF PathInv
  <1>4. CommitInv'
    BY DEF CommitInv, LockInv, PathInv
  <1>5. StampInv'
    BY DEF StampInv, LockInv, CommitInv
  <1>6. EffectsLogged'
    BY DEF EffectsLogged, CommitInv
  <1>7. ReplayMatchesZone'
    BY ReplayKept DEF CommitInv, Row
  <1>8. JobListsItsDevices'
    BY DEF JobListsItsDevices, CommitInv, PathInv
  <1> QED BY <1>1, <1>2, <1>3, <1>4, <1>5, <1>6, <1>7, <1>8

LEMMA FindDeviceStep == ASSUME IInv, NEW s \in Scans, FindDevice(s) PROVE IInv'
  <1> USE DEF IInv, TypeOK, FindDevice, Branch, Out, scanVars, dbVars, logVars, editVars
  <1>1. TypeOK'
    BY DEF Row
  <1>2. LockInv'
    BY DEF LockInv, PathInv
  <1>3. PathInv'
    BY DEF PathInv
  <1>4. CommitInv'
    BY DEF CommitInv, LockInv, PathInv
  <1>5. StampInv'
    BY DEF StampInv, LockInv, CommitInv
  <1>6. EffectsLogged'
    BY DEF EffectsLogged, CommitInv
  <1>7. ReplayMatchesZone'
    BY ReplayKept DEF CommitInv, Row
  <1>8. JobListsItsDevices'
    BY DEF JobListsItsDevices, CommitInv, PathInv
  <1> QED BY <1>1, <1>2, <1>3, <1>4, <1>5, <1>6, <1>7, <1>8

LEMMA FindJobStep == ASSUME IInv, NEW s \in Scans, FindJob(s) PROVE IInv'
  <1> USE DEF IInv, TypeOK, FindJob, Branch, JobsOf, scanVars, dbVars, logVars, editVars
  <1>1. TypeOK'
    BY DEF Row
  <1>2. LockInv'
    BY DEF LockInv, PathInv
  <1>3. PathInv'
    BY DEF PathInv
  <1>4. CommitInv'
    BY DEF CommitInv, LockInv, PathInv
  <1>5. StampInv'
    BY DEF StampInv, LockInv, CommitInv
  <1>6. EffectsLogged'
    BY DEF EffectsLogged, CommitInv
  <1>7. ReplayMatchesZone'
    BY ReplayKept DEF CommitInv, Row
  <1>8. JobListsItsDevices'
    BY DEF JobListsItsDevices, CommitInv, PathInv
  <1> QED BY <1>1, <1>2, <1>3, <1>4, <1>5, <1>6, <1>7, <1>8

LEMMA ResetPackStep == ASSUME IInv, NEW s \in Scans, ResetPack(s) PROVE IInv'
  <1> USE DEF IInv, TypeOK, ResetPack, scanVars, dbVars, logVars, editVars
  <1>1. TypeOK'
    BY ZenonT(60) DEF Row
  <1>2. LockInv'
    BY DEF LockInv, PathInv
  <1>3. PathInv'
    BY DEF PathInv
  <1>4. CommitInv'
    BY DEF CommitInv, LockInv, PathInv
  <1>5. StampInv'
    BY DEF StampInv, LockInv, CommitInv
  <1>6. EffectsLogged'
    BY DEF EffectsLogged, CommitInv
  <1>7. ReplayMatchesZone'
    BY ReplayKept DEF CommitInv, Row
  <1>8. JobListsItsDevices'
    BY DEF JobListsItsDevices, CommitInv, PathInv
  <1> QED BY <1>1, <1>2, <1>3, <1>4, <1>5, <1>6, <1>7, <1>8

LEMMA UpdateDeviceStep == ASSUME IInv, NEW s \in Scans, UpdateDevice(s) PROVE IInv'
  <1> USE DEF IInv, TypeOK, UpdateDevice, scanVars, dbVars, logVars, editVars
  <1>1. TypeOK'
    BY DEF Row
  <1>2. LockInv'
    BY DEF LockInv, PathInv
  <1>3. PathInv'
    BY DEF PathInv
  <1>4. CommitInv'
    BY DEF CommitInv, LockInv, PathInv
  <1>5. StampInv'
    BY DEF StampInv, LockInv, CommitInv
  <1>6. EffectsLogged'
    BY DEF EffectsLogged, CommitInv
  <1>7. ReplayMatchesZone'
    BY ReplayKept DEF CommitInv, Row
  <1>8. JobListsItsDevices'
    BY DEF JobListsItsDevices, CommitInv, PathInv
  <1> QED BY <1>1, <1>2, <1>3, <1>4, <1>5, <1>6, <1>7, <1>8

LEMMA ConnectStep == ASSUME IInv, NEW s \in Scans, Connect(s) PROVE IInv'
  <1> USE DEF IInv, TypeOK, Connect, scanVars, dbVars, logVars, editVars
  <1>1. TypeOK'
    BY DEF Row
  <1>2. LockInv'
    BY DEF LockInv, PathInv
  <1>3. PathInv'
    BY DEF PathInv
  <1>4. CommitInv'
    BY DEF CommitInv, LockInv, PathInv
  <1>5. StampInv'
    BY DEF StampInv, LockInv, CommitInv
  <1>6. EffectsLogged'
    BY DEF EffectsLogged, CommitInv
  <1>7. ReplayMatchesZone'
    BY ReplayKept DEF CommitInv, Row
  <1>8. JobListsItsDevices'
    BY DEF JobListsItsDevices, CommitInv, PathInv
  <1> QED BY <1>1, <1>2, <1>3, <1>4, <1>5, <1>6, <1>7, <1>8

LEMMA UpsertStep == ASSUME IInv, NEW s \in Scans, Upsert(s) PROVE IInv'
  <1> USE DEF IInv, TypeOK, Upsert, scanVars, dbVars, logVars, editVars
  <1>1. TypeOK'
    BY DEF Row
  <1>2. LockInv'
    BY DEF LockInv, PathInv
  <1>3. PathInv'
    BY DEF PathInv
  <1>4. CommitInv'
    BY DEF CommitInv, LockInv, PathInv
  <1>5. StampInv'
    BY DEF StampInv, LockInv, CommitInv
  <1>6. EffectsLogged'
    BY DEF EffectsLogged, CommitInv
  <1>7. ReplayMatchesZone'
    BY ReplayKept DEF CommitInv, Row
  <1>8. JobListsItsDevices'
    BY DEF JobListsItsDevices, CommitInv, PathInv
  <1> QED BY <1>1, <1>2, <1>3, <1>4, <1>5, <1>6, <1>7, <1>8

LEMMA StampStep == ASSUME IInv, NEW s \in Scans, Stamp(s) PROVE IInv'
  <1> USE DEF IInv, TypeOK, Stamp, scanVars, dbVars, logVars, editVars
  <1>1. TypeOK'
    BY DEF Row
  <1>2. LockInv'
    BY DEF LockInv, PathInv
  <1>3. PathInv'
    BY DEF PathInv
  <1>4. CommitInv'
    BY DEF CommitInv, LockInv, PathInv
  <1>5. StampInv'
    BY DEF StampInv, LockInv, CommitInv
  <1>6. EffectsLogged'
    BY DEF EffectsLogged, CommitInv
  <1>7. ReplayMatchesZone'
    BY ReplayKept DEF CommitInv, Row
  <1>8. JobListsItsDevices'
    BY DEF JobListsItsDevices, CommitInv, PathInv
  <1> QED BY <1>1, <1>2, <1>3, <1>4, <1>5, <1>6, <1>7, <1>8

LEMMA FailStep == ASSUME IInv, NEW s \in Scans, Fail(s) PROVE IInv'
  <1> USE DEF IInv, TypeOK, Fail, scanVars, dbVars, logVars, editVars
  <1>1. TypeOK'
    BY DEF Row
  <1>2. LockInv'
    BY DEF LockInv, PathInv
  <1>3. PathInv'
    BY DEF PathInv
  <1>4. CommitInv'
    BY DEF CommitInv, LockInv, PathInv
  <1>5. StampInv'
    BY DEF StampInv, LockInv, CommitInv
  <1>6. EffectsLogged'
    BY DEF EffectsLogged, CommitInv
  <1>7. ReplayMatchesZone'
    BY ReplayKept DEF CommitInv, Row
  <1>8. JobListsItsDevices'
    BY DEF JobListsItsDevices, CommitInv, PathInv
  <1> QED BY <1>1, <1>2, <1>3, <1>4, <1>5, <1>6, <1>7, <1>8

LEMMA LogStep == ASSUME IInv, NEW s \in Scans, Log(s) PROVE IInv'
  <1> USE DEF IInv, TypeOK, Log, scanVars, dbVars, logVars, editVars
  <1>1. TypeOK'
    BY DEF Row
  <1>2. LockInv'
    BY DEF LockInv, PathInv
  <1>3. PathInv'
    BY DEF PathInv
  <1>4. CommitInv'
    BY DEF CommitInv, LockInv, PathInv
  <1>5. StampInv'
    BY DEF StampInv, LockInv, CommitInv
  <1>6. EffectsLogged'
    BY DEF EffectsLogged, CommitInv
  <1>7. ReplayMatchesZone'
    BY ReplayKept DEF CommitInv, Row
  <1>8. JobListsItsDevices'
    BY DEF JobListsItsDevices, CommitInv, PathInv
  <1> QED BY <1>1, <1>2, <1>3, <1>4, <1>5, <1>6, <1>7, <1>8

LEMMA CommitStep == ASSUME IInv, NEW s \in Scans, Commit(s) PROVE IInv'
  <1> USE DEF IInv, TypeOK, Commit, Unlock, Written, scanVars, dbVars, logVars, editVars
  <1>a. ASSUME NEW d \in Devices, devLock[d] = s
        PROVE  Written(s) \in Row /\ Moving(s) /\ req[s].dev = d /\ Written(s).zone = ZoneOf(s)
    <2>1. Moving(s) /\ req[s] \in Requests /\ req[s].dev = d
      BY <1>a DEF LockInv
    <2>2. req[s].zone \in Zones \cup {Nil} /\ device[d] \in Row
      BY <2>1
    <2> QED BY <2>1, <2>2 DEF Row, ZoneOf
  <1>b. device' \in [Devices -> Row]
    BY <1>a
  <1>c. pack' \in [Devices -> [Jobs -> {"none", "pending", "issued"}]]
    OBVIOUS
  <1>d. devLock' \in [Devices -> Scans \cup {Nil}] /\ packLock' \in [Devices -> [Jobs -> Scans \cup {Nil}]]
    OBVIOUS
  <1>1. TypeOK'
    BY <1>b, <1>c, <1>d
  <1>2. LockInv'
    BY DEF LockInv, PathInv
  <1>3. PathInv'
    BY DEF PathInv
  <1>4. CommitInv'
    BY DEF CommitInv, LockInv, PathInv
  <1>5. StampInv'
    BY DEF StampInv, LockInv, CommitInv
  <1>6. EffectsLogged'
    BY DEF EffectsLogged, CommitInv
  <1>7. ReplayMatchesZone'
    <2> SUFFICES ASSUME NEW d \in Devices \ assigned', NEW t \in Moves(d)',
                        \A u \in Moves(d)' : stamp[u] <= stamp[t]
                 PROVE  device'[d].zone = ZoneOf(t)
      <3>1. \A u \in Scans : ZoneOf(u)' = ZoneOf(u) /\ stamp'[u] = stamp[u]
        BY DEF ZoneOf
      <3>2. \A e \in Devices : Moves(e)' \subseteq Scans
        OBVIOUS
      <3> HIDE DEF Commit, Moves
      <3> QED BY <3>1, <3>2, SMTT(60) DEF ReplayMatchesZone
    <2>1. CASE devLock[d] = s
      <3>1. s \in Moves(d)' /\ \A u \in Moves(d) : stamp[u] < stamp[s]
        BY <2>1, <1>a DEF StampInv
      <3>2. t = s
        BY <3>1
      <3> QED BY <2>1, <3>2, <1>a
    <2>2. CASE devLock[d] # s
      <3>1. Moves(d)' = Moves(d)
        BY <2>2 DEF LockInv
      <3>2. d \in Devices /\ d \notin assigned
        BY <2>2
      <3>3. device'[d] = device[d]
        BY <2>2, <3>2
      <3>4. t \in Moves(d) /\ \A u \in Moves(d) : stamp[u] <= stamp[t]
        BY <3>1
      <3>5. device[d].zone = ZoneOf(t)
        BY <3>2, <3>4 DEF ReplayMatchesZone
      <3> QED BY <3>3, <3>5
    <2> QED BY <2>1, <2>2
  <1>8. JobListsItsDevices'
    BY DEF JobListsItsDevices, CommitInv, PathInv
  <1> QED BY <1>1, <1>2, <1>3, <1>4, <1>5, <1>6, <1>7, <1>8

LEMMA RollbackStep == ASSUME IInv, NEW s \in Scans, Rollback(s) PROVE IInv'
  <1> USE DEF IInv, TypeOK, Rollback, Unlock, Forget, scanVars, dbVars, logVars, editVars
  <1>a. devLock' \in [Devices -> Scans \cup {Nil}] /\ packLock' \in [Devices -> [Jobs -> Scans \cup {Nil}]]
    OBVIOUS
  <1>b. req' \in [Scans -> Requests \cup {Nil}] /\ curJob' \in [Scans -> Jobs \cup {Nil}]
    OBVIOUS
  <1>c. stamp' \in [Scans -> Nat] /\ \A t \in Scans : stamp'[t] < clock
    BY SMTT(20)
  <1>d. pc' \in [Scans -> {"idle"} \cup Begun \cup Final] /\ \A t \in InTx' \cup committed : req'[t] # Nil
    <2>1. pc' \in [Scans -> {"idle"} \cup Begun \cup Final]
      OBVIOUS
    <2>2. s \notin committed /\ s \notin InTx' /\ InTx' \subseteq InTx
      BY DEF CommitInv
    <2>3. \A t \in Scans \ {s} : req'[t] = req[t]
      OBVIOUS
    <2>4. \A t \in InTx \cup committed : req[t] # Nil /\ t \in Scans
      OBVIOUS
    <2> HIDE DEF IInv, Rollback, InTx
    <2> QED BY <2>1, <2>2, <2>3, <2>4
  <1>1. TypeOK'
    BY <1>a, <1>b, <1>c, <1>d
  <1>2. LockInv'
    BY DEF LockInv, PathInv
  <1>3. PathInv'
    BY DEF PathInv
  <1>4. CommitInv'
    BY DEF CommitInv, LockInv, PathInv
  <1>5. StampInv'
    BY DEF StampInv, LockInv, CommitInv
  <1>6. EffectsLogged'
    BY DEF EffectsLogged, CommitInv
  <1>7. ReplayMatchesZone'
    BY ReplayKept DEF CommitInv, Row
  <1>8. JobListsItsDevices'
    BY DEF JobListsItsDevices, CommitInv, PathInv
  <1> QED BY <1>1, <1>2, <1>3, <1>4, <1>5, <1>6, <1>7, <1>8

LEMMA BeginEditStep == ASSUME IInv, NEW e \in Edits, BeginEdit(e) PROVE IInv'
  <1> USE DEF IInv, TypeOK, BeginEdit, scanVars, dbVars, logVars
  <1>1. TypeOK'
    BY DEF Row
  <1>2. LockInv'
    BY DEF LockInv
  <1>3. PathInv'
    BY DEF PathInv
  <1>4. CommitInv'
    BY DEF CommitInv
  <1>5. StampInv'
    BY DEF StampInv
  <1>6. EffectsLogged'
    BY DEF EffectsLogged
  <1>7. ReplayMatchesZone'
    BY ReplayKept DEF Row
  <1>8. JobListsItsDevices'
    BY DEF JobListsItsDevices
  <1> QED BY <1>1, <1>2, <1>3, <1>4, <1>5, <1>6, <1>7, <1>8

LEMMA UpdateDeviceStatusStep == ASSUME IInv, NEW e \in Edits, UpdateDeviceStatus(e) PROVE IInv'
  <1> USE DEF IInv, TypeOK, UpdateDeviceStatus, EndEdit, scanVars, dbVars, logVars
  <1>z. PICK d \in Devices : d = edit[e]
    OBVIOUS
  <1>a. PICK st \in Statuses : device' = [device EXCEPT ![d].status = st]
    BY <1>z
  <1>b. [device[d] EXCEPT !.status = st] \in Row
    <2>1. device[d] \in [status: Statuses, zone: Zones \cup {Nil}]
      BY DEF Row
    <2> HIDE DEF IInv, UpdateDeviceStatus, EndEdit
    <2> QED BY <2>1 DEF Row
  <1>c. device' = [device EXCEPT ![d] = [device[d] EXCEPT !.status = st]]
    BY <1>a
  <1>d. device' \in [Devices -> Row]
    BY <1>b, <1>c
  <1>1. TypeOK'
    BY <1>d
  <1>2. LockInv'
    BY DEF LockInv, PathInv
  <1>3. PathInv'
    BY DEF PathInv
  <1>4. CommitInv'
    BY DEF CommitInv, LockInv, PathInv
  <1>5. StampInv'
    BY DEF StampInv, LockInv, CommitInv
  <1>6. EffectsLogged'
    BY DEF EffectsLogged, CommitInv
  <1>7. ReplayMatchesZone'
    BY ReplayKept DEF CommitInv, Row
  <1>8. JobListsItsDevices'
    BY DEF JobListsItsDevices, CommitInv, PathInv
  <1> QED BY <1>1, <1>2, <1>3, <1>4, <1>5, <1>6, <1>7, <1>8

LEMMA AssignDeviceStep == ASSUME IInv, NEW e \in Edits, AssignDevice(e) PROVE IInv'
  <1> USE DEF IInv, TypeOK, AssignDevice, EndEdit, Out, scanVars, dbVars, logVars
  <1>z. PICK d \in Devices : d = edit[e]
    OBVIOUS
  <1>1. TypeOK'
    BY <1>z DEF Row
  <1>2. LockInv'
    BY DEF LockInv, PathInv
  <1>3. PathInv'
    BY DEF PathInv
  <1>4. CommitInv'
    BY DEF CommitInv, LockInv, PathInv
  <1>5. StampInv'
    BY DEF StampInv, LockInv, CommitInv
  <1>6. EffectsLogged'
    BY DEF EffectsLogged, CommitInv
  <1>7. ReplayMatchesZone'
    <2>1. \A c \in Devices : Moves(c)' = Moves(c)
      OBVIOUS
    <2>2. \A c \in Devices \ assigned' : c \notin assigned /\ device'[c] = device[c]
      BY <1>z
    <2>3. \A t \in Scans : stamp'[t] = stamp[t] /\ ZoneOf(t)' = ZoneOf(t)
      BY DEF ZoneOf
    <2>4. ReplayMatchesZone /\ \A c : Moves(c) \subseteq Scans
      OBVIOUS
    <2> HIDE DEF AssignDevice, Moves
    <2>5. QED
      BY <2>1, <2>2, <2>3, <2>4, SMTT(60) DEF ReplayMatchesZone
  <1>8. JobListsItsDevices'
    BY DEF JobListsItsDevices, CommitInv, PathInv
  <1> QED BY <1>1, <1>2, <1>3, <1>4, <1>5, <1>6, <1>7, <1>8

LEMMA CrashStep == ASSUME IInv, Crash PROVE IInv'
  <1> USE DEF IInv, TypeOK, Crash, Unlock, Forget, scanVars, dbVars, logVars, editVars
  <1>a. devLock' \in [Devices -> Scans \cup {Nil}] /\ packLock' \in [Devices -> [Jobs -> Scans \cup {Nil}]]
    OBVIOUS
  <1>b. req' \in [Scans -> Requests \cup {Nil}] /\ curJob' \in [Scans -> Jobs \cup {Nil}]
    OBVIOUS
  <1>c. stamp' \in [Scans -> Nat] /\ \A t \in Scans : stamp'[t] < clock
    BY SMTT(20)
  <1>d. pc' \in [Scans -> {"idle"} \cup Begun \cup Final] /\ \A t \in InTx' \cup committed : req'[t] # Nil
    BY DEF CommitInv
  <1>1. TypeOK'
    BY <1>a, <1>b, <1>c, <1>d
  <1>2. LockInv'
    BY DEF LockInv, PathInv
  <1>3. PathInv'
    BY DEF PathInv
  <1>4. CommitInv'
    BY DEF CommitInv, LockInv, PathInv
  <1>5. StampInv'
    BY DEF StampInv, LockInv, CommitInv
  <1>6. EffectsLogged'
    BY DEF EffectsLogged, CommitInv
  <1>7. ReplayMatchesZone'
    BY ReplayKept, SMTT(60) DEF CommitInv, Row
  <1>8. JobListsItsDevices'
    BY DEF JobListsItsDevices, CommitInv, PathInv
  <1> QED BY <1>1, <1>2, <1>3, <1>4, <1>5, <1>6, <1>7, <1>8

-----------------------------------------------------------------------------
(* The invariant holds, and with it the properties of the run.             *)

LEMMA InitInv == ASSUME Init PROVE IInv
  <1>1. TypeOK
    BY DEF Init, TypeOK, Row
  <1>2. LockInv /\ PathInv /\ CommitInv /\ StampInv
    BY DEF Init, LockInv, PathInv, CommitInv, StampInv
  <1>3. EffectsLogged /\ ReplayMatchesZone /\ JobListsItsDevices
    BY DEF Init, EffectsLogged, ReplayMatchesZone, JobListsItsDevices
  <1> QED BY <1>1, <1>2, <1>3 DEF IInv

LEMMA StutterInv == ASSUME IInv, UNCHANGED vars PROVE IInv'
  <1> USE DEF vars, scanVars, dbVars, logVars, editVars
  <1>1. TypeOK' /\ LockInv' /\ PathInv' /\ CommitInv' /\ StampInv'
    BY DEF IInv, TypeOK, LockInv, PathInv, CommitInv, StampInv
  <1>2. EffectsLogged' /\ ReplayMatchesZone' /\ JobListsItsDevices'
    BY DEF IInv, EffectsLogged, ReplayMatchesZone, JobListsItsDevices, ZoneOf
  <1> QED BY <1>1, <1>2 DEF IInv

\* IInv is an invariant of ProcessScan and the handlers beside it.
THEOREM Invariance == Spec => []IInv
  <1>1. IInv /\ [Next]_vars => IInv'
    <2> SUFFICES ASSUME IInv, [Next]_vars PROVE IInv'
      OBVIOUS
    <2>1. ASSUME NEW s \in Scans, Begin(s) \/ Scan(s) \/ Fail(s) PROVE IInv'
      BY <2>1, BeginStep, FindDeviceStep, FindJobStep, ResetPackStep, UpdateDeviceStep,
         ConnectStep, UpsertStep, StampStep, LogStep, CommitStep, RollbackStep, FailStep
      DEF Scan
    <2>2. ASSUME NEW e \in Edits, BeginEdit(e) \/ Edit(e) PROVE IInv'
      BY <2>2, BeginEditStep, UpdateDeviceStatusStep, AssignDeviceStep DEF Edit
    <2>3. ASSUME Crash PROVE IInv'
      BY <2>3, CrashStep
    <2>4. ASSUME UNCHANGED vars PROVE IInv'
      BY <2>4, StutterInv
    <2> QED BY <2>1, <2>2, <2>3, <2>4 DEF Next
  <1> QED BY <1>1, InitInv, PTL DEF Spec

\* The tables, locks and requests keep their types (TypeOK).
THEOREM TypeCorrect == Spec => []TypeOK
  <1>1. IInv => TypeOK
    BY DEF IInv
  <1> QED BY <1>1, Invariance, PTL

\* What is committed was logged before, and the jobdevices row of a scan that the
\* server survives is logged in the end (EffectsLogged; the order of upsert,
\* logScanEvent and Commit).
THEOREM EffectsAreLogged == Spec => []EffectsLogged
  <1>1. IInv => EffectsLogged
    BY DEF IInv
  <1> QED BY <1>1, Invariance, PTL

\* The last committed movement that is no intake leads to the zone of the device
\* row, whichever intakes are in the history (ReplayMatchesZone).
THEOREM HistoryMatchesZone == Spec => []ReplayMatchesZone
  <1>1. IInv => ReplayMatchesZone
    BY DEF IInv
  <1> QED BY <1>1, Invariance, PTL

\* A device taken out for a job is in that job's list (JobListsItsDevices).
THEOREM OuttakeIsListed == Spec => []JobListsItsDevices
  <1>1. IInv => JobListsItsDevices
    BY DEF IInv
  <1> QED BY <1>1, Invariance, PTL

-----------------------------------------------------------------------------
(* The scans implement MovementLog. *)

\* A history is that of the committed scans.
LEMMA HistoryKept ==
  ASSUME committed' = committed,
         \A s \in committed : req'[s] = req[s] /\ stamp'[s] = stamp[s]
  PROVE  historyBar' = historyBar
  <1>1. \A d \in Devices : Moves(d)' = Moves(d) /\ Returns(d)' = Returns(d)
    OBVIOUS
  <1>2. \A s \in committed : Entry(s)' = Entry(s)
    BY DEF Entry, ZoneOf
  <1>3. ASSUME NEW d \in Devices
        PROVE  {Entry(s) : s \in Moves(d) \cup Returns(d)}' = {Entry(s) : s \in Moves(d) \cup Returns(d)}
    <2>1. /\ (Moves(d) \cup Returns(d))' = Moves(d) \cup Returns(d)
          /\ Moves(d) \cup Returns(d) \subseteq committed
      BY <1>1
    <2> HIDE DEF Moves, Returns
    <2> QED BY <2>1, <1>2
  <1> HIDE DEF Moves, Returns
  <1> QED BY <1>3 DEF historyBar

\* An open transaction and a scan that is rolled back are in no history.
LEMMA OthersLeaveTheHistory ==
  ASSUME IInv, NEW s \in Scans,
         Begin(s) \/ (Scan(s) /\ ~Commit(s)) \/ Fail(s) \/ Crash
  PROVE  UNCHANGED <<zoneBar, historyBar>>
  <1> USE DEF IInv, TypeOK, CommitInv
  <1>1. CASE Begin(s) \/ Fail(s)
    BY <1>1, HistoryKept DEF Begin, Fail, dbVars, logVars, zoneBar
  <1>2. CASE FindDevice(s) \/ FindJob(s) \/ ResetPack(s) \/ UpdateDevice(s) \/ Connect(s)
    BY <1>2, HistoryKept
    DEF FindDevice, FindJob, ResetPack, UpdateDevice, Connect, dbVars, logVars, zoneBar
  <1>3. CASE Upsert(s) \/ Stamp(s) \/ Log(s)
    BY <1>3, HistoryKept DEF Upsert, Stamp, Log, dbVars, logVars, zoneBar
  <1>4. CASE Rollback(s)
    BY <1>4, HistoryKept DEF Rollback, Forget, zoneBar
  <1>5. CASE Crash
    BY <1>5, HistoryKept DEF Crash, Forget, zoneBar
  <1> QED BY <1>1, <1>2, <1>3, <1>4, <1>5 DEF Scan

\* The commit of a scan enters its movement, if it has one, into the history of its
\* device and into no other.
LEMMA CommitEnters ==
  ASSUME IInv, NEW s \in Scans, Commit(s), Moving(s) \/ Is(s, "intake")
  PROVE  /\ historyBar' = [historyBar EXCEPT ![req[s].dev] = @ \cup {Entry(s)}]
         /\ Entry(s) \in historyBar'[req[s].dev]
  <1> DEFINE Hist(d) == Moves(d) \cup Returns(d)
  <1>1. PICK d \in Devices : d = req[s].dev /\ req[s] \in Requests
    BY DEF IInv, TypeOK
  <1>2. Hist(d)' = Hist(d) \cup {s} /\ \A e \in Devices \ {d} : Hist(e)' = Hist(e)
    BY <1>1 DEF Commit
  <1>3. \A t \in Scans : Entry(t)' = Entry(t)
    BY DEF Commit, Entry, ZoneOf
  <1>4. \A e \in Devices : Hist(e) \subseteq Scans
    BY DEF IInv, TypeOK
  <1> HIDE DEF Moves, Returns
  <1>5. historyBar'[d] = historyBar[d] \cup {Entry(s)}
    <2>1. {Entry(t) : t \in Hist(d)}' = {Entry(t) : t \in Hist(d) \cup {s}}
      <3> HIDE DEF Hist
      <3> QED BY <1>2, <1>3, <1>4
    <2> QED BY <2>1 DEF historyBar
  <1>6. \A e \in Devices \ {d} : historyBar'[e] = historyBar[e]
    BY <1>2, <1>3, <1>4 DEF historyBar
  <1>7. historyBar' = [historyBar EXCEPT ![d] = @ \cup {Entry(s)}]
    BY <1>1, <1>5, <1>6 DEF historyBar
  <1> QED BY <1>1, <1>5, <1>7

\* A scan that is neither outtake nor transfer holds no row lock: its commit changes
\* no zone, and what an intake enters into the history is no move.
LEMMA CommitReturns ==
  ASSUME IInv, NEW s \in Scans, Commit(s), ~Moving(s)
  PROVE  UNCHANGED <<zoneBar, historyBar>> \/ (req[s].dev \in Devices /\ Movements!Return(req[s].dev))
  <1>1. device' = device
    <2>1. \A d \in Devices : devLock[d] # s
      BY DEF IInv, LockInv
    <2> QED BY <2>1 DEF IInv, TypeOK, Commit
  <1>2. zoneBar' = zoneBar
    BY <1>1 DEF zoneBar
  <1>3. CASE Is(s, "intake")
    <2>1. req[s] \in Requests /\ req[s].dev \in Devices
      BY <1>3 DEF IInv, TypeOK
    <2>2. ~Entry(s).moves /\ Entry(s).place \in Zones \cup {Nil}
      BY <1>3, <2>1 DEF Entry, ZoneOf
    <2> QED BY <1>2, <1>3, <2>1, <2>2, CommitEnters DEF Movements!Return, Movements!Enter
  <1>4. CASE ~Is(s, "intake")
    <2>1. \A d \in Devices : Moves(d)' = Moves(d) /\ Returns(d)' = Returns(d)
      BY <1>4 DEF Commit
    <2>2. \A t \in Scans : Entry(t)' = Entry(t)
      BY DEF Commit, Entry, ZoneOf
    <2>3. ASSUME NEW d \in Devices
          PROVE  {Entry(t) : t \in Moves(d) \cup Returns(d)}' = {Entry(t) : t \in Moves(d) \cup Returns(d)}
      <3>1. /\ (Moves(d) \cup Returns(d))' = Moves(d) \cup Returns(d)
            /\ Moves(d) \cup Returns(d) \subseteq Scans
        BY <2>1 DEF IInv, TypeOK
      <3> HIDE DEF Moves, Returns
      <3> QED BY <3>1, <2>2
    <2> HIDE DEF Moves, Returns
    <2> QED BY <1>2, <2>3 DEF historyBar
  <1> QED BY <1>3, <1>4

\* An outtake or a transfer is, at its commit, the newest move of its device:
\* its time was taken under the row lock that it still holds.
LEMMA CommitMoves ==
  ASSUME IInv, NEW s \in Scans, Commit(s), Moving(s)
  PROVE  Movements!Move(req[s].dev)
  <1>1. PICK d \in Devices : d = req[s].dev /\ req[s] \in Requests
    BY DEF IInv, TypeOK
  <1>2. \A e \in Devices : devLock[e] = s <=> e = d
    BY <1>1 DEF IInv, LockInv, Commit
  <1>3. Written(s).zone = ZoneOf(s)
    <2>1. device[d] \in [status: Statuses, zone: Zones \cup {Nil}]
      BY <1>1 DEF IInv, TypeOK, Row
    <2> QED BY <1>1, <2>1 DEF Written, ZoneOf
  <1>4. zoneBar' = [zoneBar EXCEPT ![d] = ZoneOf(s)]
    <2>1. \A e \in Devices : device'[e] = IF e = d THEN Written(s) ELSE device[e]
      BY <1>2 DEF Commit
    <2> QED BY <1>1, <1>3, <2>1 DEF zoneBar
  <1>5. Entry(s).moves /\ Entry(s).place \in Zones \cup {Nil} /\ Entry(s).place = ZoneOf(s)
    BY <1>1 DEF Entry, ZoneOf
  <1>6. \A past \in historyBar[d] : past.moves => past.time < Entry(s).time
    <2>1. \A t \in Moves(d) : Entry(t).time < Entry(s).time
      BY <1>1 DEF IInv, StampInv, Commit, Entry
    <2>2. \A t \in Returns(d) : ~Entry(t).moves
      BY DEF Entry
    <2>3. historyBar[d] = {Entry(t) : t \in Moves(d) \cup Returns(d)}
      BY DEF historyBar
    <2> HIDE DEF Moves, Returns
    <2> QED BY <2>1, <2>2, <2>3
  <1>7. /\ historyBar' = [historyBar EXCEPT ![d] = @ \cup {Entry(s)}]
        /\ Entry(s) \in historyBar'[d]
    BY <1>1, CommitEnters
  <1> QED BY <1>1, <1>4, <1>5, <1>6, <1>7 DEF Movements!Move, Movements!Enter

\* An operator who assigns a zone puts a device there; one who sets a status does not.
LEMMA OperatorsPut ==
  ASSUME IInv, NEW e \in Edits, BeginEdit(e) \/ Edit(e)
  PROVE  UNCHANGED <<zoneBar, historyBar>> \/ \E d \in Devices : Movements!Put(d)
  <1> USE DEF IInv, TypeOK, Edit, zoneBar
  <1>1. historyBar' = historyBar
    BY HistoryKept DEF BeginEdit, UpdateDeviceStatus, AssignDevice, scanVars, logVars
  <1>2. CASE BeginEdit(e)
    BY <1>1, <1>2 DEF BeginEdit, dbVars
  <1>3. CASE UpdateDeviceStatus(e)
    <2>1. \A d \in Devices : device'[d].zone = device[d].zone
      BY <1>3 DEF UpdateDeviceStatus, EndEdit, Row
    <2> QED BY <1>1, <2>1
  <1>4. CASE AssignDevice(e)
    <2>1. PICK d \in Devices : d = edit[e]
      BY <1>4 DEF AssignDevice, EndEdit
    <2>2. PICK z \in Zones, st \in {device[d].status, "in_storage"} :
            device' = [device EXCEPT ![d] = [status |-> st, zone |-> z]]
      BY <1>4, <2>1 DEF AssignDevice
    <2>3. zoneBar' = [zoneBar EXCEPT ![d] = z]
      BY <2>2
    <2> QED BY <1>1, <2>3 DEF Movements!Put
  <1> QED BY <1>2, <1>3, <1>4

\* Each device was brought to its zone by the moves in its history, one after the
\* other, or put there, and an intake entered its history and moved nothing
\* (ImplementsMovements; Commit, and Stamp under the lock).
THEOREM ScansImplementMovements == Spec => ImplementsMovements
  <1>1. Init => Movements!LogInit
    <2> SUFFICES ASSUME Init PROVE Movements!LogInit
      OBVIOUS
    <2>1. \A d \in Devices : device[d].zone = Nil /\ Moves(d) \cup Returns(d) = {}
      BY DEF Init
    <2> HIDE DEF Moves, Returns
    <2> QED BY <2>1 DEF Movements!LogInit, zoneBar, historyBar
  <1>2. IInv /\ [Next]_vars => [Movements!LogNext]_(Movements!logVars)
    <2> SUFFICES ASSUME IInv, [Next]_vars
                 PROVE  [Movements!LogNext]_(Movements!logVars)
      OBVIOUS
    <2>1. ASSUME UNCHANGED <<zoneBar, historyBar>>
          PROVE  [Movements!LogNext]_(Movements!logVars)
      BY <2>1 DEF Movements!logVars
    <2>2. ASSUME NEW s \in Scans, Commit(s)
          PROVE  [Movements!LogNext]_(Movements!logVars)
      <3>1. CASE ~Moving(s)
        BY <2>1, <2>2, <3>1, CommitReturns DEF Movements!LogNext
      <3>2. CASE Moving(s)
        <4>1. req[s].dev \in Devices
          BY <3>2 DEF IInv, TypeOK
        <4> QED BY <2>2, <3>2, <4>1, CommitMoves DEF Movements!LogNext
      <3> QED BY <3>1, <3>2
    <2>3. ASSUME NEW s \in Scans, Begin(s) \/ (Scan(s) /\ ~Commit(s)) \/ Fail(s)
          PROVE  [Movements!LogNext]_(Movements!logVars)
      BY <2>1, <2>3, OthersLeaveTheHistory
    <2>4. ASSUME NEW e \in Edits, BeginEdit(e) \/ Edit(e)
          PROVE  [Movements!LogNext]_(Movements!logVars)
      BY <2>1, <2>4, OperatorsPut DEF Movements!LogNext
    <2>5. ASSUME Crash PROVE [Movements!LogNext]_(Movements!logVars)
      <3>1. PICK s \in Scans : TRUE
        BY <2>5 DEF Crash
      <3> QED BY <2>1, <2>5, <3>1, OthersLeaveTheHistory
    <2>6. ASSUME UNCHANGED vars PROVE [Movements!LogNext]_(Movements!logVars)
      <3>1. historyBar' = historyBar
        BY <2>6, HistoryKept DEF vars, scanVars, logVars
      <3> QED BY <2>1, <2>6, <3>1 DEF vars, dbVars, zoneBar
    <2> QED BY <2>2, <2>3, <2>4, <2>5, <2>6 DEF Next
  <1> QED BY <1>1, <1>2, Invariance, PTL DEF Spec, ImplementsMovements, Movements!LogSpec
=============================================================================
