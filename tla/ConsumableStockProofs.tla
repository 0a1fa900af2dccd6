----------------------- MODULE ConsumableStockProofs -----------------------
(***************************************************************************)
(* Proofs about ConsumableStock, for any number of scans, corrections and  *)
(* zones and any stocks to start from.  What is known of sums is in         *)
(* SumProofs.                                                              *)
(***************************************************************************)
EXTENDS ConsumableStock, SumProofs

-----------------------------------------------------------------------------
(* The inductive invariant.                                                *)

\* What a request is decides the steps it takes, and which of them know their
\* location.
KindInv ==
  /\ \A s \in Scans :
       /\ pc[s] \notin {"compare", "locate"}
       /\ pc[s] # "idle" => req[s].action \in {"intake", "outtake"}
       /\ pc[s] \in {"check", "write", "total", "store", "commit"} => loc[s] \in Locs
  /\ \A e \in Edits :
       /\ pc[e] \notin {"select", "check", "write"}
       /\ pc[e] # "idle" => req[e].action = "edit"
       /\ pc[e] \in {"idle", "compare", "locate"} => loc[e] = "none"
       /\ pc[e] \in {"compare", "locate"} \/ loc[e] # "none" => req[e].q # Nil

\* A location is locked by the one transaction that is going to change it, from
\* its write to its end.  A correction holds the products row all the time, and
\* a transaction that is about to commit holds it as well.
LockInv ==
  /\ \A l \in Locs, t \in Txs :
       locLock[l] = t => pc[t] \in {"total", "store", "commit"} /\ loc[t] = l
  /\ \A t \in Txs :
       pc[t] \in {"total", "store", "commit"} /\ loc[t] \in Locs => locLock[loc[t]] = t
  /\ \A t \in Txs : pc[t] = "commit" => prodLock = t
  /\ \A e \in Edits : pc[e] \in Steps => prodLock = e

DoneInv ==
  /\ IsFiniteSet(done)
  /\ \A t \in Txs : t \in done <=> pc[t] = "ok"

\* The total that a transaction is going to store is still right: always for a
\* correction, for a scan as long as no other location has a row.
SumInv ==
  \A t \in Txs :
    pc[t] \in {"store", "commit"} /\ (t \in Edits \/ Rows \subseteq {loc[t]})
      => sum[t] = Total(View(t))

IInv ==
  /\ TypeOK /\ KindInv /\ LockInv /\ DoneInv
  /\ NoMovementLost /\ SumInv /\ SyncInOnePlace

-----------------------------------------------------------------------------
(* The invariant at first.                                                 *)

USE StockAssumption

\* There are finitely many locations,
LEMMA LocsFinite == IsFiniteSet(Locs)
BY FS_AddElement DEF Locs

\* so that a total of quantities is a number.
LEMMA TotalType ==
  ASSUME NEW f, f \in [Locs -> Int \cup {Nil}]
  PROVE  Total(f) \in Int
<1> DEFINE g == [l \in Locs |-> Amount(f[l])]
<1>1. \A l \in Locs : g[l] \in Int
  BY DEF Amount
<1> HIDE DEF g
<1>2. SumOf(g, Locs) \in Int
  BY <1>1, LocsFinite, SumType
<1>3. QED
  BY <1>2 DEF Total, g

\* A request that has come to a location moves an amount there.
LEMMA DeltaType ==
  ASSUME TypeOK, KindInv, NEW t \in Txs, pc[t] # "idle", loc[t] \in Locs
  PROVE  Delta(t) \in Int
<1>1. req[t] \in Request
  BY DEF TypeOK
<1>2. CASE t \in Scans
  <2>1. req[t].action \in {"intake", "outtake"}
    BY <1>2 DEF KindInv
  <2>2. req[t].q \in Int
    BY <1>1, <2>1 DEF Request
  <2>3. QED
    BY <2>1, <2>2 DEF Delta
<1>3. CASE t \in Edits
  <2>1. req[t].action = "edit" /\ req[t].q # Nil
    BY <1>3 DEF KindInv
  <2>2. req[t].q \in Int
    BY <1>1, <2>1 DEF Request
  <2>3. QED
    BY <2>1, <2>2 DEF Delta
<1>4. QED
  BY <1>2, <1>3 DEF Txs

\* What a transaction sees are quantities, and rows where there are rows.
LEMMA ViewType ==
  ASSUME TypeOK, KindInv, LockInv, NEW t \in Txs
  PROVE  /\ View(t) \in [Locs -> Int \cup {Nil}]
         /\ \A l \in Locs : locLock[l] = t => View(t)[l] = Amount(qty[l]) + Delta(t)
         /\ \A l \in Locs : locLock[l] # t => View(t)[l] = qty[l]
         /\ \A l \in Locs : locLock[l] = t \/ l \in Rows => View(t)[l] \in Int
<1>1. ASSUME NEW l \in Locs, locLock[l] = t PROVE Amount(qty[l]) + Delta(t) \in Int
  <2>1. Delta(t) \in Int
    BY <1>1, DeltaType DEF LockInv
  <2>2. QED
    BY <2>1 DEF TypeOK, Amount
<1>2. QED
  BY <1>1 DEF View, TypeOK, Rows

\* The invariant holds at first.
LEMMA InitIInv == Init => IInv
<1> SUFFICES ASSUME Init PROVE IInv
  OBVIOUS
<1>1. qty \in [Locs -> Int \cup {Nil}] /\ stock \in Int
  BY DEF Init
<1>2. TypeOK
  BY <1>1 DEF Init, TypeOK, Txs
<1>3. KindInv /\ LockInv /\ SumInv
  BY DEF Init, KindInv, LockInv, SumInv, Txs, Steps
<1>4. DoneInv
  BY FS_EmptySet DEF Init, DoneInv
<1>5. NoMovementLost
  <2>1. SUFFICES ASSUME NEW l \in Locs
        PROVE Amount(qty[l]) = Amount(start[l])
                + SumOf([t \in done |-> Delta(t)], {t \in done : loc[t] = l})
    BY DEF NoMovementLost
  <2>2. {t \in done : loc[t] = l} = {}
    BY DEF Init
  <2>3. SumOf([t \in done |-> Delta(t)], {}) = 0
    BY FS_EmptySet, SumFirst
  <2>4. Amount(qty[l]) \in Int
    BY <1>1 DEF Amount
  <2>5. QED
    BY <2>2, <2>3, <2>4 DEF Init
<1>6. SyncInOnePlace
  BY DEF Init, SyncInOnePlace
<1>7. QED
  BY <1>2, <1>3, <1>4, <1>5, <1>6 DEF IInv

-----------------------------------------------------------------------------
(* Types.                                                                  *)

\* What a scan asks for.
LEMMA BeginScan ==
  ASSUME NEW s \in Scans, Begin(s), TypeOK
  PROVE  \E r \in Request :
           /\ r.action \in {"intake", "outtake"} /\ r.q \in 1 .. MaxQty
           /\ r.action = "intake" => r.zone # Nil
           /\ req' = [req EXCEPT ![s] = r]
           /\ \/ /\ r.zone \in Locs \ {Nil} /\ loc' = [loc EXCEPT ![s] = r.zone]
                 /\ pc' \in {[pc EXCEPT ![s] = "write"], [pc EXCEPT ![s] = "check"]}
              \/ /\ r.zone = Nil /\ loc' = [loc EXCEPT ![s] = "none"]
                 /\ pc' = [pc EXCEPT ![s] = "select"]
<1>1. PICK r \in Request :
        /\ r.action \in {"intake", "outtake"}
        /\ r.action = "intake" => r.zone # Nil
        /\ req' = [req EXCEPT ![s] = r]
        /\ loc' = [loc EXCEPT ![s] = IF r.zone = Nil THEN "none" ELSE r.zone]
        /\ Goto(s, CASE r.action = "intake" -> "write"
                     [] r.action = "outtake" /\ r.zone = Nil -> "select"
                     [] OTHER -> "check")
  BY DEF Begin
<1>2. r.q \in 1 .. MaxQty /\ r.zone \in Locs
  BY <1>1 DEF Request
<1>3. CASE r.action = "intake"
  BY <1>1, <1>2, <1>3 DEF Goto
<1>4. CASE r.action = "outtake" /\ r.zone = Nil
  BY <1>1, <1>2, <1>4 DEF Goto
<1>5. CASE r.action = "outtake" /\ r.zone # Nil
  BY <1>1, <1>2, <1>5 DEF Goto
<1>6. QED
  BY <1>1, <1>3, <1>4, <1>5

\* Every step keeps the types; that a scan about to store still has its lock is
\* the part that concerns others than the one who steps.
LEMMA TypeStep == IInv /\ [Next]_vars => TypeOK'
<1> SUFFICES ASSUME IInv, [Next]_vars PROVE TypeOK'
  OBVIOUS
<1> USE DEF IInv, dbVars, reqVars, Goto, Steps, Final
<1>1. ASSUME NEW t \in Txs, Begin(t) PROVE TypeOK'
  <2>1. t \in Scans
    BY <1>1 DEF Begin
  <2>2. PICK r \in Request :
           /\ req' = [req EXCEPT ![t] = r]
           /\ \/ /\ r.zone \in Locs \ {Nil} /\ loc' = [loc EXCEPT ![t] = r.zone]
                 /\ pc' \in {[pc EXCEPT ![t] = "write"], [pc EXCEPT ![t] = "check"]}
              \/ /\ r.zone = Nil /\ loc' = [loc EXCEPT ![t] = "none"]
                 /\ pc' = [pc EXCEPT ![t] = "select"]
    BY <1>1, <2>1, BeginScan
  <2>3. UNCHANGED <<read, dbVars>>
    BY <1>1 DEF Begin
  <2>4. r # Nil
    OBVIOUS
  <2>5. QED
    BY <2>1, <2>2, <2>3, <2>4 DEF TypeOK
<1>2. ASSUME NEW t \in Txs, BeginEdit(t) PROVE TypeOK'
  <2>1. PICK r \in Request : req' = [req EXCEPT ![t] = r]
    BY <1>2 DEF BeginEdit
  <2>2. pc' \in {[pc EXCEPT ![t] = "total"], [pc EXCEPT ![t] = "compare"]}
    BY <1>2 DEF BeginEdit
  <2>3. QED
    BY <1>2, <2>1, <2>2 DEF BeginEdit, TypeOK, Txs
<1>3. ASSUME NEW t \in Txs, SelectZone(t) PROVE TypeOK'
  <2>1. CASE Refuse(t) /\ UNCHANGED <<loc, read>>
    BY <1>3, <2>1 DEF SelectZone, Refuse, TypeOK
  <2>2. CASE ~ (Refuse(t) /\ UNCHANGED <<loc, read>>)
    <3>1. PICK l \in Rows : /\ loc' = [loc EXCEPT ![t] = l]
                            /\ read' = [read EXCEPT ![t] = qty[l]]
                            /\ pc' = [pc EXCEPT ![t] = "write"]
      BY <1>3, <2>2 DEF SelectZone
    <3>2. l \in Locs /\ qty[l] \in Int
      BY DEF Rows, TypeOK
    <3>3. pc[t] = "select" /\ UNCHANGED <<req, dbVars>>
      BY <1>3 DEF SelectZone
    <3>4. QED
      BY <3>1, <3>2, <3>3 DEF TypeOK
  <2>3. QED
    BY <2>1, <2>2
<1>4. ASSUME NEW t \in Txs, CheckZone(t) PROVE TypeOK'
  <2>1. loc[t] \in Locs
    BY <1>4 DEF CheckZone, KindInv, Txs
  <2>2. Amount(qty[loc[t]]) \in Int
    BY <2>1 DEF Amount, TypeOK
  <2>3. pc' \in {[pc EXCEPT ![t] = "refused"], [pc EXCEPT ![t] = "write"]}
    BY <1>4 DEF CheckZone, Refuse
  <2>4. QED
    BY <1>4, <2>2, <2>3 DEF CheckZone, TypeOK
<1>5. ASSUME NEW t \in Txs, WriteLocation(t) PROVE TypeOK'
  <2>1. pc[t] = "write" /\ t \in Scans /\ loc[t] \in Locs /\ locLock[loc[t]] = Nil
    BY <1>5 DEF WriteLocation, KindInv, Txs
  <2>2. CASE pc' = [pc EXCEPT ![t] = "refused"] /\ UNCHANGED locLock
    BY <1>5, <2>1, <2>2 DEF WriteLocation, TypeOK
  <2>3. CASE /\ pc' = [pc EXCEPT ![t] = "total"]
             /\ locLock' = [locLock EXCEPT ![loc[t]] = t]
    <3>1. ASSUME NEW u \in Scans, pc'[u] \in {"store", "commit"}
          PROVE  locLock'[loc'[u]] = u
      <4>1. u # t /\ pc[u] \in {"store", "commit"} /\ u \in Txs
        BY <2>3, <3>1 DEF TypeOK, Txs
      <4>2. loc'[u] = loc[u] /\ locLock[loc[u]] = u /\ u # Nil
        BY <1>5, <4>1 DEF WriteLocation, TypeOK, Txs
      <4>3. QED
        BY <2>1, <2>3, <4>2
    <3>2. QED
      BY <1>5, <2>1, <2>3, <3>1 DEF WriteLocation, TypeOK
  <2>4. QED
    BY <1>5, <2>2, <2>3 DEF WriteLocation, Refuse
<1>6. ASSUME NEW t \in Txs, Compare(t) PROVE TypeOK'
  <2>1. Total(qty) \in Int
    BY TotalType DEF TypeOK
  <2>2. pc' \in {[pc EXCEPT ![t] = "total"], [pc EXCEPT ![t] = "locate"]}
    BY <1>6 DEF Compare
  <2>3. QED
    BY <1>6, <2>1, <2>2 DEF Compare, TypeOK
<1>7. ASSUME NEW t \in Txs, Locate(t) PROVE TypeOK'
  <2>1. Nil \in Locs
    BY DEF Locs
  <2>2. CASE Rows # {}
    BY <1>7, <2>2 DEF Locate, TypeOK
  <2>3. CASE Rows = {}
    <3>1. /\ pc[t] = "locate" /\ locLock[Nil] = Nil
          /\ locLock' = [locLock EXCEPT ![Nil] = t]
          /\ loc' = [loc EXCEPT ![t] = Nil]
          /\ pc' = [pc EXCEPT ![t] = "total"]
          /\ UNCHANGED <<start, req, read, qty, stock, prodLock, sum, done>>
      BY <1>7, <2>3 DEF Locate
    <3>2. ASSUME NEW u \in Scans, pc'[u] \in {"store", "commit"}
          PROVE  locLock'[loc'[u]] = u
      <4>1. u # t /\ pc[u] \in {"store", "commit"} /\ u \in Txs
        BY <3>1, <3>2 DEF TypeOK, Txs
      <4>2. loc'[u] = loc[u] /\ locLock[loc[u]] = u /\ u # Nil
        BY <3>1, <4>1 DEF TypeOK, Txs
      <4>3. QED
        BY <3>1, <4>2
    <3>3. QED
      BY <2>1, <3>1, <3>2 DEF TypeOK
  <2>4. QED
    BY <2>2, <2>3
<1>8. ASSUME NEW t \in Txs, ReadTotal(t) PROVE TypeOK'
  <2>1. Total(View(t)) \in Int
    BY ViewType, TotalType
  <2>2. t \in Scans => locLock[loc[t]] = t
    BY <1>8 DEF ReadTotal, KindInv, LockInv
  <2>3. QED
    BY <1>8, <2>1, <2>2 DEF ReadTotal, TypeOK
<1>9. ASSUME NEW t \in Txs, StoreTotal(t) PROVE TypeOK'
  BY <1>9 DEF StoreTotal, TypeOK
<1>10. ASSUME NEW t \in Txs, Commit(t) PROVE TypeOK'
  <2>1. View(t) \in [Locs -> Int \cup {Nil}]
    BY ViewType
  <2>2. ASSUME NEW u \in Scans, pc'[u] \in {"store", "commit"}
        PROVE  locLock'[loc'[u]] = u
    <3>1. u \in Txs /\ u # t /\ pc[u] \in {"store", "commit"} /\ loc'[u] = loc[u]
      BY <1>10, <2>2 DEF Commit, TypeOK, Txs
    <3>2. locLock[loc[u]] = u /\ loc[u] \in Locs
      BY <3>1 DEF TypeOK, KindInv
    <3>3. QED
      BY <1>10, <3>1, <3>2 DEF Commit, Unlock
  <2>3. QED
    BY <1>10, <2>1, <2>2 DEF Commit, Unlock, TypeOK
<1>11. ASSUME NEW t \in Txs, Abort(t) PROVE TypeOK'
  <2>1. ASSUME NEW u \in Scans, pc'[u] \in {"store", "commit"}
        PROVE  locLock'[loc'[u]] = u
    <3>1. u \in Txs /\ u # t /\ pc[u] \in {"store", "commit"} /\ loc'[u] = loc[u]
      BY <1>11, <2>1 DEF Abort, TypeOK, Txs
    <3>2. locLock[loc[u]] = u /\ loc[u] \in Locs
      BY <3>1 DEF TypeOK, KindInv
    <3>3. QED
      BY <1>11, <3>1, <3>2 DEF Abort, Unlock
  <2>2. QED
    BY <1>11, <2>1 DEF Abort, Unlock, TypeOK
<1>12. CASE UNCHANGED vars
  BY <1>12 DEF vars, TypeOK
<1>13. QED
  BY <1>1, <1>2, <1>3, <1>4, <1>5, <1>6, <1>7, <1>8, <1>9, <1>10, <1>11, <1>12
     DEF Next, Run

-----------------------------------------------------------------------------
(* Kinds and locks.                                                        *)

Step(t) == Begin(t) \/ BeginEdit(t) \/ Run(t) \/ Abort(t)

\* The requests that take no part in a step keep what they have.
LEMMA Others ==
  ASSUME IInv, NEW t \in Txs, Step(t), NEW u \in Txs, u # t
  PROVE  /\ pc'[u] = pc[u] /\ req'[u] = req[u] /\ loc'[u] = loc[u] /\ sum'[u] = sum[u]
         /\ \A l \in Locs : locLock'[l] = u <=> locLock[l] = u
         /\ prodLock = u => prodLock' = u
<1> DEFINE Kept == /\ pc'[u] = pc[u] /\ req'[u] = req[u] /\ loc'[u] = loc[u]
                   /\ sum'[u] = sum[u]
                   /\ \A l \in Locs : locLock'[l] = u <=> locLock[l] = u
                   /\ prodLock = u => prodLock' = u
<1> USE DEF IInv, TypeOK, dbVars, reqVars, Goto
<1>0. u # Nil /\ t # Nil
  BY DEF Txs
<1>1. ASSUME Begin(t) PROVE Kept
  <2>1. t \in Scans
    BY <1>1 DEF Begin
  <2>2. \E r : /\ req' = [req EXCEPT ![t] = r]
               /\ loc'[u] = loc[u] /\ pc'[u] = pc[u]
    BY <1>1, <2>1, BeginScan
  <2>3. QED
    BY <1>1, <2>2 DEF Begin
<1>2. ASSUME BeginEdit(t) PROVE Kept
  <2>1. \E r : req' = [req EXCEPT ![t] = r]
    BY <1>2 DEF BeginEdit
  <2>2. pc'[u] = pc[u]
    BY <1>2 DEF BeginEdit
  <2>3. QED
    BY <1>0, <1>2, <2>1, <2>2 DEF BeginEdit
<1>3. ASSUME SelectZone(t) PROVE Kept
  <2>1. pc'[u] = pc[u] /\ loc'[u] = loc[u]
    BY <1>3 DEF SelectZone, Refuse
  <2>2. QED
    BY <1>3, <2>1 DEF SelectZone
<1>4. ASSUME CheckZone(t) PROVE Kept
  <2>1. pc'[u] = pc[u]
    BY <1>4 DEF CheckZone, Refuse
  <2>2. QED
    BY <1>4, <2>1 DEF CheckZone
<1>5. ASSUME WriteLocation(t) PROVE Kept
  <2>1. loc[t] \in Locs /\ locLock[loc[t]] = Nil
    BY <1>5 DEF WriteLocation, KindInv, Txs
  <2>2. QED
    BY <1>0, <1>5, <2>1 DEF WriteLocation, Refuse
<1>6. ASSUME Compare(t) PROVE Kept
  <2>1. pc'[u] = pc[u]
    BY <1>6 DEF Compare
  <2>2. QED
    BY <1>6, <2>1 DEF Compare
<1>7. ASSUME Locate(t) PROVE Kept
  <2>1. Nil \in Locs /\ pc[t] = "locate"
    BY <1>7 DEF Locs, Locate
  <2>2. prodLock = t
    BY <2>1 DEF LockInv, KindInv, Steps, Txs
  <2>3. QED
    BY <1>0, <1>7, <2>1, <2>2 DEF Locate
<1>8. ASSUME ReadTotal(t) PROVE Kept
  BY <1>8 DEF ReadTotal
<1>9. ASSUME StoreTotal(t) PROVE Kept
  BY <1>0, <1>9 DEF StoreTotal
<1>10. ASSUME Commit(t) PROVE Kept
  BY <1>0, <1>10 DEF Commit, Unlock
<1>11. ASSUME Abort(t) PROVE Kept
  BY <1>0, <1>11 DEF Abort, Unlock
<1>12. QED
  BY <1>1, <1>2, <1>3, <1>4, <1>5, <1>6, <1>7, <1>8, <1>9, <1>10, <1>11
     DEF Step, Run

\* A request that is done stays as it is, and done.
LEMMA DoneKept ==
  ASSUME IInv, NEW t \in Txs, Step(t)
  PROVE  pc[t] # "ok" /\ t \notin done
BY DEF IInv, DoneInv, Step, Run, Begin, BeginEdit, SelectZone, CheckZone,
   WriteLocation, Compare, Locate, ReadTotal, StoreTotal, Commit, Abort, Final

\* A step is a step of one request, or nothing changes.
LEMMA NextSteps == [Next]_vars => UNCHANGED vars \/ \E t \in Txs : Step(t)
BY DEF Next, Step

\* Requests stay on the path of their kind.
LEMMA KindStep == IInv /\ [Next]_vars => KindInv'
<1> SUFFICES ASSUME IInv, NEW t \in Txs, Step(t) PROVE KindInv'
  <2>1. UNCHANGED vars /\ IInv => KindInv'
    BY DEF IInv, KindInv, vars, reqVars
  <2>2. QED
    BY <2>1, NextSteps
<1> DEFINE ScanKind(s) ==
             /\ pc[s] \notin {"compare", "locate"}
             /\ pc[s] # "idle" => req[s].action \in {"intake", "outtake"}
             /\ pc[s] \in {"check", "write", "total", "store", "commit"}
                  => loc[s] \in Locs
           EditKind(e) ==
             /\ pc[e] \notin {"select", "check", "write"}
             /\ pc[e] # "idle" => req[e].action = "edit"
             /\ pc[e] \in {"idle", "compare", "locate"} => loc[e] = "none"
             /\ pc[e] \in {"compare", "locate"} \/ loc[e] # "none" => req[e].q # Nil
<1>1. ASSUME NEW u \in Txs, u # t
      PROVE  (u \in Scans => ScanKind(u)') /\ (u \in Edits => EditKind(u)')
  BY <1>1, Others DEF IInv, KindInv
<1>2. ASSUME t \in Scans PROVE ScanKind(t)'
  <2> USE <1>2 DEF IInv, TypeOK, dbVars, reqVars, Goto, Txs
  <2>1. ScanKind(t) /\ t \notin Edits
    BY DEF KindInv
  <2>2. CASE Begin(t)
    <3>1. PICK r \in Request :
             /\ r.action \in {"intake", "outtake"}
             /\ req' = [req EXCEPT ![t] = r]
             /\ \/ /\ r.zone \in Locs /\ loc' = [loc EXCEPT ![t] = r.zone]
                   /\ pc' \in {[pc EXCEPT ![t] = "write"], [pc EXCEPT ![t] = "check"]}
                \/ pc' = [pc EXCEPT ![t] = "select"]
      BY <2>2, BeginScan
    <3>2. QED
      BY <3>1
  <2>3. CASE SelectZone(t)
    BY <2>1, <2>3 DEF SelectZone, Refuse, Rows
  <2>4. CASE CheckZone(t) \/ WriteLocation(t)
    BY <2>1, <2>4 DEF CheckZone, WriteLocation, Refuse
  <2>5. CASE ReadTotal(t) \/ StoreTotal(t)
    BY <2>1, <2>5 DEF ReadTotal, StoreTotal
  <2>6. CASE Commit(t) \/ Abort(t)
    BY <2>1, <2>6 DEF Commit, Abort, Unlock
  <2>7. QED
    BY <2>1, <2>2, <2>3, <2>4, <2>5, <2>6
       DEF Step, Run, BeginEdit, Compare, Locate
<1>3. ASSUME t \in Edits PROVE EditKind(t)'
  <2> USE <1>3 DEF IInv, TypeOK, dbVars, reqVars, Goto, Txs
  <2>1. EditKind(t) /\ t \notin Scans
    BY DEF KindInv
  <2>2. CASE BeginEdit(t)
    <3>1. PICK r \in Request : r.action = "edit" /\ req' = [req EXCEPT ![t] = r]
      BY <2>2 DEF BeginEdit
    <3>2. /\ loc' = loc /\ pc[t] = "idle"
          /\ pc' = [pc EXCEPT ![t] = IF r.q = Nil THEN "total" ELSE "compare"]
      BY <2>2, <3>1 DEF BeginEdit
    <3>3. QED
      BY <2>1, <3>1, <3>2
  <2>3. CASE Compare(t)
    BY <2>1, <2>3 DEF Compare
  <2>4. CASE Locate(t)
    BY <2>1, <2>4 DEF Locate
  <2>5. CASE ReadTotal(t) \/ StoreTotal(t)
    BY <2>1, <2>5 DEF ReadTotal, StoreTotal
  <2>6. CASE Commit(t) \/ Abort(t)
    BY <2>1, <2>6 DEF Commit, Abort, Unlock
  <2>7. QED
    BY <2>1, <2>2, <2>3, <2>4, <2>5, <2>6
       DEF Step, Run, Begin, SelectZone, CheckZone, WriteLocation
<1>4. QED
  BY <1>1, <1>2, <1>3 DEF KindInv, Txs

\* Locks are taken when they are free and given back at the end.
LEMMA LockStep == IInv /\ [Next]_vars => LockInv'
<1> SUFFICES ASSUME IInv, NEW t \in Txs, Step(t) PROVE LockInv'
  <2>1. UNCHANGED vars /\ IInv => LockInv'
    BY DEF IInv, LockInv, vars, reqVars, dbVars
  <2>2. QED
    BY <2>1, NextSteps
<1> DEFINE Locks(u) ==
             /\ \A l \in Locs : locLock[l] = u
                  => pc[u] \in {"total", "store", "commit"} /\ loc[u] = l
             /\ pc[u] \in {"total", "store", "commit"} /\ loc[u] \in Locs
                  => locLock[loc[u]] = u
             /\ pc[u] = "commit" => prodLock = u
             /\ u \in Edits /\ pc[u] \in Steps => prodLock = u
<1>1. ASSUME NEW u \in Txs, u # t PROVE Locks(u)'
  <2>1. Locks(u)
    BY DEF IInv, LockInv
  <2>2. /\ pc'[u] = pc[u] /\ loc'[u] = loc[u]
        /\ \A l \in Locs : locLock'[l] = u <=> locLock[l] = u
        /\ prodLock = u => prodLock' = u
    BY <1>1, Others
  <2>3. QED
    BY <2>1, <2>2
<1>2. Locks(t)'
  <2> USE DEF IInv, TypeOK, dbVars, reqVars, Goto, Steps
  <2>1. Locks(t) /\ t # Nil
    BY DEF LockInv, Txs
  <2>2. CASE Begin(t)
    <3>1. /\ t \in Scans /\ t \notin Edits /\ pc[t] = "idle"
          /\ locLock' = locLock /\ prodLock' = prodLock
      BY <2>2 DEF Begin
    <3>2. pc'[t] \in {"write", "check", "select"}
      BY <2>2, <3>1, BeginScan
    <3>3. QED
      BY <2>1, <3>1, <3>2
  <2>3. CASE BeginEdit(t)
    <3>1. /\ t \in Edits /\ pc[t] = "idle" /\ prodLock' = t
          /\ locLock' = locLock /\ loc' = loc
          /\ pc'[t] \in {"total", "compare"}
      BY <2>3 DEF BeginEdit
    <3>2. loc[t] = "none"
      BY <3>1 DEF KindInv
    <3>3. QED
      BY <2>1, <3>1, <3>2
  <2>4. CASE SelectZone(t)
    BY <2>1, <2>4 DEF SelectZone, Refuse, KindInv
  <2>5. CASE CheckZone(t)
    BY <2>1, <2>5 DEF CheckZone, Refuse
  <2>6. CASE WriteLocation(t)
    <3>1. t \in Scans /\ t \notin Edits /\ loc[t] \in Locs
      BY <2>6 DEF WriteLocation, KindInv, Txs
    <3>2. QED
      BY <2>1, <2>6, <3>1 DEF WriteLocation, Refuse
  <2>7. CASE Compare(t)
    <3>1. loc[t] = "none" /\ pc[t] = "compare" /\ pc'[t] \in {"total", "locate"}
      BY <2>7 DEF Compare, KindInv, Txs
    <3>2. QED
      BY <2>1, <2>7, <3>1 DEF Compare
  <2>8. CASE Locate(t)
    <3>1. pc[t] = "locate" /\ prodLock = t /\ Nil \in Locs
      BY <2>8 DEF Locate, KindInv, LockInv, Txs, Locs
    <3>2. CASE Rows = {}
      BY <2>1, <2>8, <3>1, <3>2 DEF Locate
    <3>3. CASE Rows # {}
      BY <2>1, <2>8, <3>1, <3>3 DEF Locate
    <3>4. QED
      BY <3>2, <3>3
  <2>9. CASE ReadTotal(t)
    BY <2>1, <2>9 DEF ReadTotal
  <2>10. CASE StoreTotal(t)
    BY <2>1, <2>10 DEF StoreTotal
  <2>11. CASE Commit(t)
    BY <2>1, <2>11 DEF Commit, Unlock
  <2>12. CASE Abort(t)
    BY <2>1, <2>12 DEF Abort, Unlock
  <2>13. QED
    BY <2>2, <2>3, <2>4, <2>5, <2>6, <2>7, <2>8, <2>9, <2>10, <2>11, <2>12
       DEF Step, Run
<1>3. QED
  BY <1>1, <1>2 DEF LockInv, Txs

\* Only a commit ends with "ok".
LEMMA DoneStep == IInv /\ [Next]_vars => DoneInv'
<1> SUFFICES ASSUME IInv, NEW t \in Txs, Step(t) PROVE DoneInv'
  <2>1. UNCHANGED vars /\ IInv => DoneInv'
    BY DEF IInv, DoneInv, vars, reqVars, dbVars
  <2>2. QED
    BY <2>1, NextSteps
<1>1. pc[t] # "ok" /\ t \notin done
  BY DoneKept
<1>2. \A u \in Txs : u # t => pc'[u] = pc[u]
  BY Others
<1>3. CASE Commit(t)
  <2>1. done' = done \cup {t} /\ pc'[t] = "ok"
    BY <1>3 DEF Commit, Goto, IInv, TypeOK
  <2>2. QED
    BY <1>2, <2>1, FS_AddElement DEF IInv, DoneInv
<1>4. CASE ~ Commit(t)
  <2>1. done' = done /\ pc'[t] # "ok"
    <3> USE DEF IInv, TypeOK, dbVars, reqVars, Goto
    <3>1. CASE Begin(t)
      <4>1. t \in Scans /\ done' = done
        BY <3>1 DEF Begin
      <4>2. QED
        BY <3>1, <4>1, BeginScan
    <3>2. CASE BeginEdit(t) \/ Abort(t)
      BY <3>2 DEF BeginEdit, Abort
    <3>3. CASE SelectZone(t)
      BY <3>3 DEF SelectZone, Refuse
    <3>4. CASE CheckZone(t) \/ WriteLocation(t)
      BY <3>4 DEF CheckZone, WriteLocation, Refuse
    <3>5. CASE Compare(t) \/ ReadTotal(t) \/ StoreTotal(t)
      BY <3>5 DEF Compare, ReadTotal, StoreTotal
    <3>6. CASE Locate(t)
      BY <3>6 DEF Locate
    <3>7. QED
      BY <1>4, <3>1, <3>2, <3>3, <3>4, <3>5, <3>6 DEF Step, Run
  <2>2. QED
    BY <1>1, <1>2, <2>1 DEF IInv, DoneInv
<1>5. QED
  BY <1>3, <1>4

-----------------------------------------------------------------------------
(* Movements and totals.                                                   *)

\* Only a commit changes what is committed.
LEMMA OnlyCommits ==
  ASSUME NEW t \in Txs, Step(t), ~ Commit(t)
  PROVE  UNCHANGED <<qty, stock, start, done>>
BY DEF Step, Run, Begin, BeginEdit, SelectZone, CheckZone, WriteLocation,
   Compare, Locate, ReadTotal, StoreTotal, Abort, dbVars

\* The amount that a transaction moves to its location, and what it sees, are
\* disturbed by nothing but a commit of another.
LEMMA ViewKept ==
  ASSUME IInv, NEW t \in Txs, Step(t), ~ Commit(t), NEW u \in Txs, u # t
  PROVE  View(u)' = View(u)
<1>1. Delta(u)' = Delta(u)
  BY Others, ZenonT(60) DEF Delta
<1>2. qty' = qty
  BY OnlyCommits
<1>3. \A l \in Locs : locLock'[l] = u <=> locLock[l] = u
  BY Others
<1>4. QED
  BY <1>1, <1>2, <1>3 DEF View

\* What a commit leaves at a location.
LEMMA CommitEffect ==
  ASSUME IInv, NEW t \in Txs, Commit(t)
  PROVE  /\ stock' = sum[t] /\ sum[t] = sum'[t] /\ start' = start
         /\ UNCHANGED <<req, loc, sum>> /\ done' = done \cup {t}
         /\ qty' = View(t)
         /\ \A l \in Locs : l # loc[t] => qty'[l] = qty[l]
         /\ loc[t] \in Locs => /\ Delta(t) \in Int
                               /\ qty'[loc[t]] = Amount(qty[loc[t]]) + Delta(t)
                               /\ loc[t] \in Rows'
         /\ Rows \subseteq Rows'
<1>1. /\ pc[t] = "commit" /\ qty' = View(t) /\ stock' = sum[t] /\ done' = done \cup {t}
      /\ UNCHANGED <<start, req, loc, sum>>
  BY DEF Commit
<1>2. ASSUME NEW l \in Locs, l # loc[t] PROVE qty'[l] = qty[l]
  <2>1. locLock[l] # t
    BY <1>2 DEF IInv, LockInv
  <2>2. QED
    BY <1>1, <2>1, ViewType DEF IInv
<1>3. ASSUME loc[t] \in Locs
      PROVE  /\ Delta(t) \in Int /\ qty'[loc[t]] = Amount(qty[loc[t]]) + Delta(t)
             /\ qty'[loc[t]] \in Int
  <2>1. locLock[loc[t]] = t
    BY <1>1, <1>3 DEF IInv, LockInv
  <2>2. View(t)[loc[t]] = Amount(qty[loc[t]]) + Delta(t) /\ View(t)[loc[t]] \in Int
    BY <1>3, <2>1, ViewType DEF IInv
  <2>3. Delta(t) \in Int
    BY <1>1, <1>3, DeltaType DEF IInv
  <2>4. QED
    BY <1>1, <2>2, <2>3
<1>4. Rows \subseteq Rows'
  BY <1>1, ViewType DEF IInv, Rows
<1>5. loc[t] \in Locs => loc[t] \in Rows'
  BY <1>3 DEF Rows
<1>6. QED
  BY <1>1, <1>2, <1>3, <1>4, <1>5

\* A commit adds its request to the sum of its location; the other sums run
\* over the same requests as before.
LEMMA MoveStep == IInv /\ [Next]_vars => NoMovementLost'
<1> DEFINE Moved(l) == {t \in done : loc[t] = l}
           Moves == [t \in done |-> Delta(t)]
<1> SUFFICES ASSUME IInv, NEW t \in Txs, Step(t), NEW l \in Locs
             PROVE  Amount(qty[l])' = Amount(start[l])' + SumOf(Moves', Moved(l)')
  <2>1. ASSUME UNCHANGED vars, IInv PROVE NoMovementLost'
    <3>1. \A u : Delta(u)' = Delta(u)
      BY <2>1 DEF Delta, vars, reqVars
    <3>2. Moves' = Moves /\ \A l \in Locs : Moved(l)' = Moved(l)
      BY <2>1, <3>1 DEF vars, reqVars, dbVars
    <3>3. QED
      BY <2>1, <3>2 DEF IInv, NoMovementLost, Amount, vars, dbVars
  <2>2. QED
    BY <2>1, NextSteps DEF NoMovementLost
<1>1. /\ Amount(qty[l]) = Amount(start[l]) + SumOf(Moves, Moved(l))
      /\ Amount(qty[l]) \in Int /\ Amount(start[l]) \in Int
  BY DEF IInv, NoMovementLost, TypeOK, Amount
<1>2. IsFiniteSet(Moved(l))
  BY FS_Subset DEF IInv, DoneInv
<1>3. ASSUME NEW u \in done
      PROVE  /\ u \in Txs /\ u # t /\ pc[u] = "ok"
             /\ loc'[u] = loc[u] /\ Delta(u)' = Delta(u)
  <2>1. u \in Txs /\ u # t /\ pc[u] = "ok"
    BY DoneKept DEF IInv, TypeOK, DoneInv
  <2>2. loc'[u] = loc[u] /\ req'[u] = req[u]
    BY <2>1, Others
  <2>3. Delta(u)' = Delta(u)
    BY <2>2 DEF Delta
  <2>4. QED
    BY <2>1, <2>2, <2>3
<1>4. \A u \in Moved(l) : Moves[u] \in Int
  BY <1>3, DeltaType DEF IInv
<1>5. CASE ~ Commit(t)
  <2>1. Moved(l)' = Moved(l)
    BY <1>3, <1>5, OnlyCommits
  <2>2. \A u \in Moved(l) : Moves[u] = Moves'[u]
    BY <1>3, <1>5, OnlyCommits
  <2>3. SumOf(Moves, Moved(l)) = SumOf(Moves', Moved(l))
    <3> HIDE DEF Moves, Moved
    <3>1. QED
      BY <1>2, <2>2, SumAgree
  <2>4. QED
    BY <1>1, <1>5, <2>1, <2>3, OnlyCommits DEF Amount
<1>6. CASE Commit(t)
  <2>1. \A u \in Moved(l) : Moves[u] = Moves'[u]
    BY <1>3, <1>6, CommitEffect
  <2>2. SumOf(Moves, Moved(l)) = SumOf(Moves', Moved(l))
    <3> HIDE DEF Moves, Moved
    <3>1. QED
      BY <1>2, <2>1, SumAgree
  <2>3. CASE loc[t] # l
    <3>1. Moved(l)' = Moved(l)
      BY <1>3, <1>6, <2>3, CommitEffect
    <3>2. QED
      BY <1>1, <1>6, <2>2, <2>3, <3>1, CommitEffect DEF Amount
  <2>4. CASE loc[t] = l
    <3>1. Moved(l)' = Moved(l) \cup {t} /\ t \notin Moved(l)
      BY <1>3, <1>6, <2>4, CommitEffect
    <3>2. Moves'[t] = Delta(t) /\ Delta(t) \in Int
      BY <1>6, <2>4, CommitEffect DEF Delta
    <3>3. \A u \in Moved(l)' : Moves'[u] \in Int
      BY <1>4, <2>1, <3>1, <3>2
    <3>4. IsFiniteSet(Moved(l)') /\ Moved(l)' \ {t} = Moved(l) /\ t \in Moved(l)'
      BY <1>2, <3>1, FS_AddElement
    <3>5. SumOf(Moves', Moved(l)') = Moves'[t] + SumOf(Moves', Moved(l))
      <4> HIDE DEF Moves, Moved
      <4>1. QED
        BY <3>3, <3>4, SumRemove
    <3>6. SumOf(Moves, Moved(l)) \in Int
      <4> HIDE DEF Moves, Moved
      <4>1. QED
        BY <1>2, <1>4, SumType
    <3>7. Amount(qty[l])' = Amount(qty[l]) + Delta(t) /\ start' = start
      <4>1. qty'[l] = Amount(qty[l]) + Delta(t) /\ start' = start /\ l \in Rows'
        BY <1>6, <2>4, CommitEffect
      <4>2. QED
        BY <4>1 DEF Amount, Rows
    <3>8. QED
      BY <1>1, <2>2, <3>2, <3>5, <3>6, <3>7 DEF Amount
  <2>5. QED
    BY <2>3, <2>4
<1>7. QED
  BY <1>5, <1>6

\* The total that a transaction has read stays the total it sees: while a
\* correction is under way nobody commits, and a commit of another scan leaves
\* a row at another location.
LEMMA SumStep == IInv /\ [Next]_vars => SumInv'
<1> SUFFICES ASSUME IInv, NEW t \in Txs, Step(t), NEW u \in Txs,
                    pc'[u] \in {"store", "commit"},
                    u \in Edits \/ Rows' \subseteq {loc'[u]}
             PROVE  sum'[u] = Total(View(u)')
  <2>1. ASSUME UNCHANGED vars, IInv PROVE SumInv'
    <3>1. \A u \in Txs : Delta(u)' = Delta(u)
      BY <2>1 DEF Delta, vars, reqVars
    <3>2. Rows' = Rows /\ \A u \in Txs : View(u)' = View(u)
      BY <2>1, <3>1 DEF View, Rows, vars, dbVars
    <3>3. QED
      BY <2>1, <3>2 DEF IInv, SumInv, vars, reqVars, dbVars, Total
  <2>2. ASSUME \A u \in Txs :
                 pc'[u] \in {"store", "commit"} /\ (u \in Edits \/ Rows' \subseteq {loc'[u]})
                   => sum'[u] = Total(View(u)')
        PROVE  SumInv'
    BY <2>2 DEF SumInv, Total
  <2>3. QED
    BY <2>1, <2>2, NextSteps
<1>1. CASE u = t
  <2> USE <1>1 DEF IInv, TypeOK, Goto, reqVars, dbVars
  <2>1. CASE ReadTotal(t)
    <3>1. sum'[t] = Total(View(t)) /\ UNCHANGED <<req, qty, locLock>>
      BY <2>1 DEF ReadTotal
    <3>2. Delta(t)' = Delta(t)
      BY <3>1 DEF Delta
    <3>3. View(t)' = View(t)
      BY <3>1, <3>2 DEF View
    <3>4. QED
      BY <3>1, <3>3
  <2>2. CASE StoreTotal(t)
    <3>1. /\ pc[t] = "store" /\ UNCHANGED <<req, loc, qty, locLock, sum>>
      BY <2>2 DEF StoreTotal
    <3>2. Delta(t)' = Delta(t)
      BY <3>1 DEF Delta
    <3>3. View(t)' = View(t) /\ Rows' = Rows
      BY <3>1, <3>2 DEF View, Rows
    <3>4. sum[t] = Total(View(t))
      BY <3>1, <3>3 DEF SumInv
    <3>5. QED
      BY <3>1, <3>3, <3>4
  <2>3. CASE ~ ReadTotal(t) /\ ~ StoreTotal(t)
    <3>1. pc'[t] \notin {"store", "commit"}
      <4>1. CASE Begin(t)
        <5>1. t \in Scans
          BY <4>1 DEF Begin
        <5>2. QED
          BY <4>1, <5>1, BeginScan
      <4>2. CASE BeginEdit(t) \/ Abort(t) \/ Compare(t)
        BY <4>2 DEF BeginEdit, Abort, Compare
      <4>3. CASE SelectZone(t) \/ CheckZone(t) \/ WriteLocation(t)
        BY <4>3 DEF SelectZone, CheckZone, WriteLocation, Refuse
      <4>4. CASE Locate(t) \/ Commit(t)
        BY <4>4 DEF Locate, Commit
      <4>5. QED
        BY <2>3, <4>1, <4>2, <4>3, <4>4 DEF Step, Run
    <3>2. QED
      BY <3>1
  <2>4. QED
    BY <2>1, <2>2, <2>3
<1>2. CASE u # t
  <2>1. pc[u] \in {"store", "commit"} /\ loc'[u] = loc[u] /\ sum'[u] = sum[u]
    BY <1>2, Others
  <2>2. CASE ~ Commit(t)
    <3>1. Rows' = Rows
      BY <2>2, OnlyCommits DEF Rows
    <3>2. sum[u] = Total(View(u))
      BY <2>1, <3>1 DEF IInv, SumInv
    <3>3. QED
      BY <1>2, <2>1, <2>2, <3>2, ViewKept
  <2>3. CASE Commit(t)
    <3>1. prodLock = t
      BY <2>3 DEF Commit, IInv, LockInv
    <3>2. u \notin Edits /\ u \in Scans
      BY <1>2, <2>1, <3>1 DEF IInv, LockInv, Steps, Txs
    <3>3. loc[u] \in Locs /\ locLock[loc[u]] = u
      BY <2>1, <3>2 DEF IInv, KindInv, TypeOK
    <3>4. loc[t] # loc[u]
      BY <1>2, <2>3, <3>3 DEF Commit, IInv, LockInv
    <3>5. loc[t] \notin Locs
      BY <2>1, <2>3, <3>2, <3>4, CommitEffect
    <3>6. qty' = qty
      <4>1. \A l \in Locs : qty'[l] = qty[l]
        BY <2>3, <3>5, CommitEffect
      <4>2. qty' \in [Locs -> Int \cup {Nil}] /\ qty \in [Locs -> Int \cup {Nil}]
        BY <2>3, CommitEffect, ViewType DEF IInv, TypeOK
      <4>3. QED
        BY <4>1, <4>2
    <3>7. sum[u] = Total(View(u))
      BY <2>1, <3>2, <3>6 DEF IInv, SumInv, Rows
    <3>8. View(u)' = View(u)
      <4>1. Delta(u)' = Delta(u)
        BY <2>3, CommitEffect DEF Delta
      <4>2. \A l \in Locs : locLock'[l] = u <=> locLock[l] = u
        BY <1>2, Others
      <4>3. QED
        BY <3>6, <4>1, <4>2 DEF View
    <3>9. QED
      BY <2>1, <3>7, <3>8
  <2>4. QED
    BY <2>2, <2>3
<1>3. QED
  BY <1>1, <1>2

\* So a commit that leaves one place leaves the two records equal.
LEMMA SyncStep == IInv /\ [Next]_vars => SyncInOnePlace'
<1> SUFFICES ASSUME IInv, NEW t \in Txs, Step(t), done' # {}, Cardinality(Rows') <= 1
             PROVE  stock' = Total(qty')
  <2>1. UNCHANGED vars /\ IInv => SyncInOnePlace'
    BY DEF IInv, SyncInOnePlace, StockInSync, Rows, Total, vars, dbVars
  <2>2. QED
    BY <2>1, NextSteps DEF SyncInOnePlace, StockInSync, Total
<1>1. CASE ~ Commit(t)
  <2>1. Rows' = Rows /\ qty' = qty /\ stock' = stock /\ done' = done
    BY <1>1, OnlyCommits DEF Rows
  <2>2. QED
    BY <2>1 DEF IInv, SyncInOnePlace, StockInSync
<1>2. CASE Commit(t)
  <2>1. qty' = View(t) /\ stock' = sum[t] /\ pc[t] = "commit"
    BY <1>2, CommitEffect DEF Commit
  <2>2. t \in Edits \/ Rows \subseteq {loc[t]}
    <3>1. SUFFICES ASSUME t \in Scans PROVE Rows \subseteq {loc[t]}
      BY DEF Txs
    <3>2. loc[t] \in Rows' /\ Rows \subseteq Rows'
      BY <1>2, <2>1, <3>1, CommitEffect DEF IInv, KindInv
    <3>3. IsFiniteSet(Rows') /\ Rows' # {}
      BY <3>2, LocsFinite, FS_Subset DEF Rows
    <3>4. Cardinality(Rows') = 1
      <4>1. Cardinality(Rows') \in Nat /\ Cardinality(Rows') # 0
        BY <3>3, FS_CardinalityType, FS_EmptySet
      <4>2. QED
        BY <4>1
    <3>5. \E x : Rows' = {x}
      BY <3>3, <3>4, FS_Singleton
    <3>6. QED
      BY <3>2, <3>5
  <2>3. QED
    BY <2>1, <2>2 DEF IInv, SumInv
<1>3. QED
  BY <1>1, <1>2

-----------------------------------------------------------------------------
(* The theorems.                                                           *)

\* IInv holds at first and in every step.
THEOREM ConsumableInvariant == Spec => []IInv
<1>1. IInv /\ [Next]_vars => IInv'
  BY TypeStep, KindStep, LockStep, DoneStep, MoveStep, SumStep, SyncStep DEF IInv
<1>2. QED
  BY InitIInv, <1>1, PTL DEF Spec

\* Every variable keeps its type, and a scan that has read the total holds the
\* lock of its location (StoreTotal, Commit).
THEOREM ConsumableTypes == Spec => []TypeOK
<1>1. IInv => TypeOK
  BY DEF IInv
<1>2. QED
  BY ConsumableInvariant, <1>1, PTL

\* No movement of stock is lost or counted twice: each location holds what it
\* held at first and what the committed requests moved there (Commit).
THEOREM ConsumableNoMovementLost == Spec => []NoMovementLost
<1>1. IInv => NoMovementLost
  BY DEF IInv
<1>2. QED
  BY ConsumableInvariant, <1>1, PTL

\* Whatever total a product was created with, the first commit makes the two records
\* of the stock agree, and they go on agreeing while the product is kept in one place.
THEOREM ConsumableSyncInOnePlace == Spec => []SyncInOnePlace
<1>1. IInv => SyncInOnePlace
  BY DEF IInv
<1>2. QED
  BY ConsumableInvariant, <1>1, PTL
=============================================================================
