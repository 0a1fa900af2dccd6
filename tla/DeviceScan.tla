----------------------------- MODULE DeviceScan -----------------------------
(***************************************************************************)
(* ScanService.ProcessScan for devices (internal/services/scan_service.go) *)
(* and the handlers that change a device beside it.                        *)
(*                                                                         *)
(* A scan is one request.  It opens a transaction, which keeps a pooled    *)
(* connection, and then takes further connections from the same pool for   *)
(* its lookups, for the jobdevices upsert and for the audit log.  The      *)
(* database is PostgreSQL at READ COMMITTED: a statement sees what is      *)
(* committed, a row written by an open transaction is locked until its     *)
(* end, and writes outside the transaction are visible at once.  A handler *)
(* beside the scans holds a connection too while it waits for a row.       *)
(*                                                                         *)
(* Scan codes that name no device belong to ConsumableStock; the LED       *)
(* refresh after an outtake changes nothing here.                          *)
(***************************************************************************)
EXTENDS Integers, FiniteSets

CONSTANTS
  Scans,      \* scan requests, each served once
  Edits,      \* the requests of operators that are served at a time
  Devices,
  Jobs,
  Zones,
  Statuses,   \* device statuses that occur
  Requests,   \* scan requests that are made
  MaxConns,   \* SetMaxOpenConns
  Nil         \* SQL NULL, an absent field, a free lock

ASSUME ScanAssumption ==
  /\ IsFiniteSet(Scans) /\ IsFiniteSet(Edits)
  /\ {"in_storage", "on_job"} \subseteq Statuses
  /\ MaxConns \in Nat \ {0}
  /\ Nil \notin Scans \cup Jobs \cup Zones \cup Devices
  /\ Requests \subseteq
       [dev: Devices, action: {"intake", "outtake", "check", "transfer", "other"},
        job: Jobs \cup {Nil}, zone: Zones \cup {Nil}]
  /\ Nil \notin Requests

VARIABLES
  pc,         \* where each scan is
  req,        \* its request, forgotten when it is rolled back
  curJob,     \* the device's current job, as findDeviceByScan returned it
  device,     \* the devices table
  pack,       \* jobdevices: pack_status of (device, job), "none" without a row
  devLock,    \* the scan whose transaction has written the devices row
  packLock,   \* the scan whose transaction has written the jobdevices row
  stamp,      \* created_at of a scan's device_movements row, 0 if none
  clock,      \* the next value of time.Now()
  committed,  \* scans whose transaction has committed
  event,      \* a scan's row in scan_events
  listed,     \* scans that have written a jobdevices row (a history variable)
  assigned,   \* devices whose zone was last written by AssignDevicesToZone
  edit        \* the device whose row an operator's request waits for, or Nil

dbVars   == <<device, pack, devLock, packLock>>
logVars  == <<stamp, clock, committed, event, listed>>
scanVars == <<pc, req, curJob>>
editVars == <<assigned, edit>>
vars == <<scanVars, dbVars, logVars, editVars>>

Row == [status: Statuses, zone: Zones \cup {Nil}]

Work   == {"reset", "update", "connect", "upsert", "stamp"}
Ending == {"logOk", "logFail", "logDup", "commit", "tellFail", "tellDup"}
Begun  == {"find", "findJob"} \cup Work \cup Ending
Final  == {"ok", "duplicate", "failed", "dead"}

\* Connections in use: one per open transaction, one more per pending upsert,
\* one per request of an operator that waits for its row.
InTx      == {s \in Scans : pc[s] \in Begun}
Upserting == {s \in Scans : pc[s] = "upsert"}
Editing   == {e \in Edits : edit[e] # Nil}
InUse     == Cardinality(InTx) + Cardinality(Upserting) + Cardinality(Editing)
FreeConn  == InUse < MaxConns

Out(st) == st \in {"on_job", "rented"}
JobsOf(d) == {j \in Jobs : pack[d][j] # "none"}

Init ==
  /\ pc = [s \in Scans |-> "idle"]
  /\ req = [s \in Scans |-> Nil]
  /\ curJob = [s \in Scans |-> Nil]
  /\ pack \in [Devices -> [Jobs -> {"none", "pending", "issued"}]]
  /\ \A d \in Devices : \A i, j \in Jobs : pack[d][i] = "issued" /\ pack[d][j] = "issued" => i = j
  /\ device = [d \in Devices |-> [zone |-> Nil, status |->
       IF \E j \in Jobs : pack[d][j] = "issued" THEN "on_job" ELSE "in_storage"]]
  /\ devLock = [d \in Devices |-> Nil]
  /\ packLock = [d \in Devices |-> [j \in Jobs |-> Nil]]
  /\ stamp = [s \in Scans |-> 0] /\ clock = 1
  /\ committed = {}
  /\ event = [s \in Scans |-> "none"]
  /\ listed = {} /\ assigned = {}
  /\ edit = [e \in Edits |-> Nil]

Goto(s, l) == pc' = [pc EXCEPT ![s] = l]

-----------------------------------------------------------------------------
(* Lookup.                                                                 *)

Begin(s) ==
  /\ pc[s] = "idle" /\ FreeConn
  /\ \E r \in Requests : req' = [req EXCEPT ![s] = r]
  /\ Goto(s, "find")
  /\ UNCHANGED <<curJob, dbVars, logVars, editVars>>

\* What ProcessScan does with a request once the current job is known.
Branch(r, job) ==
  IF r.job # Nil /\ r.job = job THEN "logDup"
  ELSE CASE r.action = "intake"   -> IF job # Nil THEN "reset" ELSE "stamp"
         [] r.action = "outtake"  -> IF r.job = Nil THEN "logFail" ELSE "update"
         [] r.action = "transfer" -> IF r.zone = Nil THEN "logFail" ELSE "update"
         [] r.action = "check"    -> "logOk"
         [] r.action = "other"    -> "logFail"

FindDevice(s) ==
  /\ pc[s] = "find" /\ FreeConn
  /\ Goto(s, IF Out(device[req[s].dev].status) THEN "findJob" ELSE Branch(req[s], Nil))
  /\ UNCHANGED <<req, curJob, dbVars, logVars, editVars>>

\* SELECT jobID FROM jobdevices WHERE deviceID = $1 LIMIT 1: any row.
FindJob(s) ==
  /\ pc[s] = "findJob" /\ FreeConn
  /\ \E job \in IF JobsOf(req[s].dev) = {} THEN {Nil} ELSE JobsOf(req[s].dev) :
       /\ curJob' = [curJob EXCEPT ![s] = job]
       /\ Goto(s, Branch(req[s], job))
  /\ UNCHANGED <<req, dbVars, logVars, editVars>>

-----------------------------------------------------------------------------
(* The statements of the action.                                           *)

\* The devices row a committed scan leaves behind.
Written(s) ==
  CASE req[s].action = "outtake"  -> [status |-> "on_job", zone |-> Nil]
    [] req[s].action = "transfer" -> [device[req[s].dev] EXCEPT !.zone = req[s].zone]

\* processIntake: pack_status back to 'pending', visible at the commit.
ResetPack(s) ==
  /\ pc[s] = "reset"
  /\ packLock[req[s].dev][curJob[s]] = Nil
  /\ packLock' = [packLock EXCEPT ![req[s].dev][curJob[s]] = s]
  /\ Goto(s, "stamp")
  /\ UNCHANGED <<req, curJob, device, pack, devLock, logVars, editVars>>

\* Mutant: the devices row is written outside the transaction.
UpdateOutsideTx(s) ==
  /\ pc[s] = "update"
  /\ devLock[req[s].dev] = Nil
  /\ device' = [device EXCEPT ![req[s].dev] = Written(s)]
  /\ Goto(s, IF req[s].action = "outtake" THEN "connect" ELSE "stamp")
  /\ UNCHANGED <<req, curJob, pack, devLock, packLock, logVars, editVars>>

\* processOuttake and processTransfer: the devices row, visible at the commit.
UpdateDevice(s) ==
  /\ pc[s] = "update"
  /\ devLock[req[s].dev] = Nil
  /\ devLock' = [devLock EXCEPT ![req[s].dev] = s]
  /\ Goto(s, IF req[s].action = "outtake" THEN "connect" ELSE "stamp")
  /\ UNCHANGED <<req, curJob, device, pack, packLock, logVars, editVars>>

\* The upsert of jobdevices runs on a connection of its own ...
Connect(s) ==
  /\ pc[s] = "connect" /\ FreeConn
  /\ Goto(s, "upsert")
  /\ UNCHANGED <<req, curJob, dbVars, logVars, editVars>>

\* Mutant: the upsert matches no row and inserts none.
UpsertNothing(s) ==
  /\ pc[s] = "upsert"
  /\ packLock[req[s].dev][req[s].job] = Nil
  /\ pack' = [pack EXCEPT ![req[s].dev][req[s].job] =
                IF @ = "none" THEN "none" ELSE "issued"]
  /\ listed' = listed \cup {s}
  /\ Goto(s, "stamp")
  /\ UNCHANGED <<req, curJob, device, devLock, packLock, stamp, clock, committed, event, editVars>>

\* ... waits there for the row, and is visible at once.
Upsert(s) ==
  /\ pc[s] = "upsert"
  /\ packLock[req[s].dev][req[s].job] = Nil
  /\ pack' = [pack EXCEPT ![req[s].dev][req[s].job] = "issued"]
  /\ listed' = listed \cup {s}
  /\ Goto(s, "stamp")
  /\ UNCHANGED <<req, curJob, device, devLock, packLock, stamp, clock, committed, event, editVars>>

\* Mutant: two movements can carry the same time.
StampSameTime(s) ==
  /\ pc[s] = "stamp"
  /\ stamp' = [stamp EXCEPT ![s] = clock]
  /\ UNCHANGED clock
  /\ Goto(s, "logOk")
  /\ UNCHANGED <<req, curJob, dbVars, committed, event, listed, editVars>>

\* Mutant: an error of the INSERT is ignored, and the scan goes on without the row.
StampIgnored(s) ==
  /\ pc[s] = "stamp"
  /\ \/ stamp' = [stamp EXCEPT ![s] = clock] /\ clock' = clock + 1
     \/ UNCHANGED <<stamp, clock>>
  /\ Goto(s, "logOk")
  /\ UNCHANGED <<req, curJob, dbVars, committed, event, listed, editVars>>

\* INSERT INTO device_movements with time.Now().
Stamp(s) ==
  /\ pc[s] = "stamp"
  /\ stamp' = [stamp EXCEPT ![s] = clock]
  /\ clock' = clock + 1
  /\ Goto(s, "logOk")
  /\ UNCHANGED <<req, curJob, dbVars, committed, event, listed, editVars>>

\* A statement of the action fails; its transaction can only be rolled back.
Fail(s) ==
  /\ pc[s] \in Work
  /\ Goto(s, "logFail")
  /\ UNCHANGED <<req, curJob, dbVars, logVars, editVars>>

-----------------------------------------------------------------------------
(* Audit log and end of the transaction.                                   *)

\* logScanEvent uses a connection of its own; an error is only printed.
Log(s) ==
  /\ pc[s] \in {"logOk", "logFail", "logDup"} /\ FreeConn
  /\ event' = [event EXCEPT ![s] = IF pc[s] = "logFail" THEN "failure" ELSE "success"]
     \/ event' = [event EXCEPT ![s] = "lost"]
  /\ Goto(s, CASE pc[s] = "logOk" -> "commit"
               [] pc[s] = "logFail" -> "tellFail"
               [] pc[s] = "logDup" -> "tellDup")
  /\ UNCHANGED <<req, curJob, dbVars, stamp, clock, committed, listed, editVars>>

\* The locks that are left when the transactions of the scans in S have ended.
Unlock(S) ==
  /\ devLock' = [d \in Devices |-> IF devLock[d] \in S THEN Nil ELSE devLock[d]]
  /\ packLock' = [d \in Devices |-> [j \in Jobs |->
                    IF packLock[d][j] \in S THEN Nil ELSE packLock[d][j]]]

\* A scan that has left no trace but its log entry is forgotten.
Forget(S) ==
  /\ req' = [s \in Scans |-> IF s \in S THEN Nil ELSE req[s]]
  /\ curJob' = [s \in Scans |-> IF s \in S THEN Nil ELSE curJob[s]]

\* Mutant: the scan is committed before it is logged.
CommitBeforeLog(s) ==
  /\ pc[s] \in {"logOk", "commit"}
  /\ IF s \in committed THEN UNCHANGED <<committed, device, pack>>
     ELSE /\ committed' = committed \cup {s}
          /\ device' = [d \in Devices |-> IF devLock[d] = s THEN Written(s) ELSE device[d]]
          /\ pack' = [d \in Devices |-> [j \in Jobs |->
                        IF packLock[d][j] = s THEN "pending" ELSE pack[d][j]]]
  /\ assigned' = {d \in assigned : devLock[d] # s}
  /\ Unlock({s})
  /\ Goto(s, IF pc[s] = "commit" THEN "ok" ELSE "logOk")
  /\ UNCHANGED <<req, curJob, stamp, clock, event, listed, edit>>

Commit(s) ==
  /\ pc[s] = "commit"
  /\ committed' = committed \cup {s}
  /\ device' = [d \in Devices |-> IF devLock[d] = s THEN Written(s) ELSE device[d]]
  /\ pack' = [d \in Devices |-> [j \in Jobs |->
                IF packLock[d][j] = s THEN "pending" ELSE pack[d][j]]]
  /\ assigned' = {d \in assigned : devLock[d] # s}
  /\ Unlock({s})
  /\ Goto(s, "ok")
  /\ curJob' = [curJob EXCEPT ![s] = Nil]
  /\ UNCHANGED <<req, stamp, clock, event, listed, edit>>

\* Mutant: the transaction of a failed scan is not ended.
NoRollback(s) ==
  /\ \/ pc[s] = "commit" /\ Goto(s, "failed")
     \/ pc[s] = "tellFail" /\ FreeConn /\ Goto(s, "failed")
     \/ pc[s] = "tellDup" /\ FreeConn /\ Goto(s, "duplicate")
  /\ UNCHANGED <<req, curJob, dbVars, logVars, editVars>>

\* The deferred Rollback: after a failed or duplicate scan, which first reads
\* the device for its answer, or when the commit itself fails.
Rollback(s) ==
  /\ \/ pc[s] = "commit" /\ Goto(s, "failed")
     \/ pc[s] = "tellFail" /\ FreeConn /\ Goto(s, "failed")
     \/ pc[s] = "tellDup" /\ FreeConn /\ Goto(s, "duplicate")
  /\ stamp' = [stamp EXCEPT ![s] = 0]
  /\ Unlock({s}) /\ Forget({s})
  /\ UNCHANGED <<device, pack, clock, committed, event, listed, editVars>>

\* The server dies: PostgreSQL rolls back every open transaction.
Crash ==
  /\ InTx # {}
  /\ pc' = [s \in Scans |-> IF s \in InTx THEN "dead" ELSE pc[s]]
  /\ stamp' = [s \in Scans |-> IF s \in InTx THEN 0 ELSE stamp[s]]
  /\ edit' = [e \in Edits |-> Nil]
  /\ Unlock(InTx) /\ Forget(InTx)
  /\ UNCHANGED <<device, pack, clock, committed, event, listed, assigned>>

-----------------------------------------------------------------------------
(* The handlers beside ProcessScan: a single statement, which takes a      *)
(* connection and keeps it while it waits for the row of its device.       *)

BeginEdit(e) ==
  /\ edit[e] = Nil /\ FreeConn
  /\ \E d \in Devices : edit' = [edit EXCEPT ![e] = d]
  /\ UNCHANGED <<scanVars, dbVars, logVars, assigned>>

EndEdit(e) ==
  /\ edit[e] # Nil /\ devLock[edit[e]] = Nil
  /\ edit' = [edit EXCEPT ![e] = Nil]

\* UpdateDeviceStatus: any status, asked for by an operator.
UpdateDeviceStatus(e) ==
  /\ EndEdit(e)
  /\ \E st \in Statuses : device' = [device EXCEPT ![edit[e]].status = st]
  /\ UNCHANGED <<scanVars, pack, devLock, packLock, logVars, assigned>>

\* AssignDevicesToZone, for one of its devices.  Its INSERT of a movement names a
\* column that no other statement on that table knows, and its error is ignored.
AssignDevice(e) ==
  /\ EndEdit(e)
  /\ \E z \in Zones :
       device' = [device EXCEPT ![edit[e]] =
         [status |-> IF Out(@.status) THEN @.status ELSE "in_storage", zone |-> z]]
  /\ assigned' = assigned \cup {edit[e]}
  /\ UNCHANGED <<scanVars, pack, devLock, packLock, logVars>>

-----------------------------------------------------------------------------
Scan(s) ==
  \/ FindDevice(s) \/ FindJob(s)
  \/ ResetPack(s) \/ UpdateDevice(s) \/ Connect(s) \/ Upsert(s) \/ Stamp(s)
  \/ Log(s) \/ Commit(s) \/ Rollback(s)

Edit(e) == UpdateDeviceStatus(e) \/ AssignDevice(e)

Next ==
  \/ \E s \in Scans : Begin(s) \/ Scan(s) \/ Fail(s)
  \/ \E e \in Edits : BeginEdit(e) \/ Edit(e)
  \/ Crash

Spec == Init /\ [][Next]_vars

(***************************************************************************)
(* A begun request runs on; PostgreSQL and database/sql queue the waiters  *)
(* of a row lock and of the pool in order, so none is passed over forever. *)
(***************************************************************************)
FairSpec ==
  /\ Spec
  /\ \A s \in Scans : SF_vars(Scan(s))
  /\ \A e \in Edits : SF_vars(Edit(e))

-----------------------------------------------------------------------------
(* Properties.                                                             *)

TypeOK ==
  /\ pc \in [Scans -> {"idle"} \cup Begun \cup Final]
  /\ req \in [Scans -> Requests \cup {Nil}]
  /\ \A s \in InTx \cup committed : req[s] # Nil
  /\ curJob \in [Scans -> Jobs \cup {Nil}]
  /\ device \in [Devices -> Row]
  /\ pack \in [Devices -> [Jobs -> {"none", "pending", "issued"}]]
  /\ devLock \in [Devices -> Scans \cup {Nil}]
  /\ packLock \in [Devices -> [Jobs -> Scans \cup {Nil}]]
  /\ clock \in Nat /\ stamp \in [Scans -> Nat]
  /\ \A s \in Scans : stamp[s] < clock
  /\ committed \in SUBSET Scans
  /\ event \in [Scans -> {"none", "success", "failure", "lost"}]
  /\ listed \in SUBSET Scans
  /\ assigned \in SUBSET Devices
  /\ edit \in [Edits -> Devices \cup {Nil}]

Is(s, a)    == req[s] # Nil /\ req[s].action = a
Moving(s)   == Is(s, "outtake") \/ Is(s, "transfer")
Moves(d)    == {s \in committed : Moving(s) /\ req[s].dev = d}
Returns(d)  == {s \in committed : Is(s, "intake") /\ req[s].dev = d}
ZoneOf(s)   == IF Is(s, "outtake") THEN Nil ELSE req[s].zone

(* "Every movement and scan logged": what a scan commits was put into      *)
(* scan_events before, as a success, whatever else fails; only an error of *)
(* the log insert itself loses it.  The jobdevices row of an outtake is    *)
(* seen before that, and stays when the scan is rolled back; it too has an *)
(* entry in the end, unless the server dies between the row and the entry. *)
EffectsLogged ==
  /\ \A s \in committed : event[s] \in {"success", "lost"}
  /\ \A s \in listed : event[s] # "none" \/ pc[s] \in {"stamp", "logOk", "logFail", "dead"}

(* Of the movements of a device, intakes, outtakes and transfers, the last *)
(* one by created_at that is no intake leads to the zone the device row    *)
(* shows, however the scans of the device overlap, fail or are cut off:    *)
(* time.Now() is called under the row lock.  An intake enters a movement   *)
(* to the zone that was scanned, at any time, and leaves the row as it is. *)
(* A device whose zone was set since by AssignDevicesToZone is excepted.   *)
ReplayMatchesZone ==
  \A d \in Devices \ assigned : \A s \in Moves(d) :
    (\A t \in Moves(d) : stamp[t] <= stamp[s]) => device[d].zone = ZoneOf(s)

(* Seen through what is committed, scans are steps of MovementLog.  An     *)
(* outtake or a transfer sets the zone and enters the history at one       *)
(* instant, and is the newest of its kind; an intake enters the history    *)
(* and moves nothing; and what is in the history stays, while other scans  *)
(* fail, are answered as duplicates or die with the server.                *)
zoneBar == [d \in Devices |-> device[d].zone]
Entry(s) == [time |-> stamp[s], moves |-> Moving(s), place |-> ZoneOf(s)]
historyBar == [d \in Devices |-> {Entry(s) : s \in Moves(d) \cup Returns(d)}]
Movements ==
  INSTANCE MovementLog WITH
    Things <- Devices, Places <- Zones, Nowhere <- Nil,
    place <- zoneBar, history <- historyBar
ImplementsMovements == Movements!LogSpec

(* A device that an outtake has put on a job is in that job's device list, *)
(* although the list is written outside the transaction: GetJobSummary and *)
(* the next scan's lookup of the current job start from that list.         *)
JobListsItsDevices ==
  \A s \in committed : Is(s, "outtake") => pack[req[s].dev][req[s].job] # "none"

(* With two connections for every scan and one for every request of an     *)
(* operator, all of them are answered (or the server dies): nobody waits   *)
(* for a row lock or for the pool in a circle.                             *)
Answered ==
  /\ \A s \in Scans : (pc[s] = "find") ~> (pc[s] \in Final)
  /\ \A e \in Edits : (edit[e] # Nil) ~> (edit[e] = Nil)

Succeeds(s, a) == pc[s] = "commit" /\ pc'[s] = "ok" /\ Is(s, a)

(* The answer to an intake says new_status "in_storage", and "devices      *)
(* returned to storage (in_storage status) no longer show as scanned"; and *)
(* with the zone's barcode the "device [is] stored at specific location".  *)
IntakeStores ==
  [][\A s \in Scans : Succeeds(s, "intake") /\ curJob[s] # Nil =>
       LET row == device'[req[s].dev]
       IN  row.status = "in_storage" /\ (req[s].zone # Nil => row.zone = req[s].zone)]_vars

(* "Duplicate scan detection": a device is not taken out a second time for *)
(* the job it is still out on.                                             *)
StillOutOn(d, j) ==
  /\ Out(device[d].status)
  /\ \E s \in committed :
       /\ Is(s, "outtake") /\ req[s].dev = d /\ req[s].job = j
       /\ \A t \in committed : req[t].dev = d => stamp[t] <= stamp[s]
DuplicateDetected ==
  [][\A s \in Scans : Succeeds(s, "outtake") => ~StillOutOn(req[s].dev, req[s].job)]_vars

(* "Use a separate DB execution (not the provided tx) to ensure logging    *)
(* still works": a scan that has begun is logged, however many others run. *)
ScanLogged ==
  \A s \in Scans : (pc[s] = "find") ~> (event[s] # "none" \/ pc[s] = "dead")

-----------------------------------------------------------------------------
(* The inductive invariant: what the three safety properties rest on.      *)

\* From its UPDATE to the end of its transaction a scan keeps the row lock,
\* and only such a scan has one.
LockInv ==
  /\ \A d \in Devices : devLock[d] # Nil =>
        devLock[d] \in InTx /\ Moving(devLock[d]) /\ req[devLock[d]].dev = d
  /\ \A s \in Scans : Moving(s) /\ pc[s] \in {"connect", "upsert", "stamp", "logOk", "commit"} =>
        devLock[req[s].dev] = s

\* The statements a scan runs are those of its action, and an outtake that
\* has got as far as its UPDATE names a job.
PathInv ==
  \A s \in Scans :
    /\ pc[s] = "reset" => Is(s, "intake")
    /\ pc[s] = "update" => Moving(s)
    /\ Is(s, "outtake") /\ pc[s] \in {"update", "connect", "upsert", "stamp", "logOk", "commit", "ok"}
         => req[s].job \in Jobs

\* A scan is committed when it has ended well; it was logged on the way, and
\* an outtake has entered its job's list before.
CommitInv ==
  /\ \A s \in committed : pc[s] = "ok"
  /\ \A s \in Scans : pc[s] = "commit" => event[s] \in {"success", "lost"}
  /\ \A s \in Scans : pc[s] \in {"tellFail", "tellDup"} => event[s] # "none"
  /\ \A s \in Scans : Is(s, "outtake") /\ pc[s] \in {"stamp", "logOk", "commit"} =>
        pack[req[s].dev][req[s].job] # "none"

\* The movement written under the row lock is later than the committed ones.
StampInv ==
  /\ \A s \in Scans : Moving(s) /\ pc[s] \in {"logOk", "commit"} =>
        stamp[s] > 0 /\ \A t \in Moves(req[s].dev) : stamp[t] < stamp[s]

IInv ==
  /\ TypeOK /\ LockInv /\ PathInv /\ CommitInv /\ StampInv
  /\ EffectsLogged /\ ReplayMatchesZone /\ JobListsItsDevices
=============================================================================
