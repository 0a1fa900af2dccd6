--------------------------- MODULE DeviceIdsProofs ---------------------------
(***************************************************************************)
(* The safety properties of DeviceIds, for any number of requests, any     *)
(* prefixes, tables and renames, and any way to write counters as text     *)
(* that can be read back; and that CreateDevices implements NumberRegister.*)
(***************************************************************************)
EXTENDS DeviceIds, SequenceTheorems, TLAPS

USE IdsAssumption DEF Counters

-----------------------------------------------------------------------------
(* IDs as text. *)

LEMMA PrefixText == \A r \in Requests : PrefixOf(r) \in Text
  BY DEF PrefixOf, Asks, Text

LEMMA FormatText ==
  ASSUME NEW p \in Text, NEW n \in Counters
  PROVE  Format(p, n) \in Text /\ TriggerFormat(p, n) \in Text
<1>1. Decimal(n) \in Seq(Chars) /\ Len(Decimal(n)) >= Width
  BY DEF Text
<1>2. SubSeq(Decimal(n), 1, Width) \in Seq(Chars)
  BY <1>1, SubSeqProperties
<1>3. QED
  BY <1>1, <1>2 DEF Format, TriggerFormat, Text

(* The counter can be read back from an ID: this is what the LIKE pattern, *)
(* the SUBSTRING and the CAST are for.                                     *)
LEMMA CounterBack ==
  ASSUME NEW p \in Text, NEW n \in Counters
  PROVE  IsPrefix(p, Format(p, n)) /\ CounterOf(Suffix(p, Format(p, n))) = n
<1>1. /\ p \in Seq(Chars) /\ Decimal(n) \in Seq(Chars)
      /\ Len(p) \in Nat /\ Len(Decimal(n)) \in Nat
  BY DEF Text
<1>2. /\ Len(p \o Decimal(n)) = Len(p) + Len(Decimal(n))
      /\ \A i \in 1..Len(p) : (p \o Decimal(n))[i] = p[i]
      /\ \A i \in 1..Len(Decimal(n)) :
           (p \o Decimal(n))[Len(p) + i] = Decimal(n)[i]
  BY <1>1
<1>3. SubSeq(p, 1, Len(p)) = SubSeq(p \o Decimal(n), 1, Len(p))
  BY <1>1, <1>2
<1>4. SubSeq(p \o Decimal(n), Len(p) + 1, Len(p \o Decimal(n))) = Decimal(n)
  BY <1>1, <1>2
<1>5. Len(p) <= Len(p \o Decimal(n))
  BY <1>1, <1>2
<1>6. IsPrefix(p, p \o Decimal(n))
  BY <1>1, <1>3, <1>5 DEF IsPrefix
<1>7. QED
  BY <1>4, <1>6 DEF Format, Suffix, CounterOf

(* Different counters behind one prefix are different IDs.                 *)
LEMMA FormatInjective ==
  ASSUME NEW p \in Text, NEW n \in Counters, NEW m \in Counters,
         Format(p, n) = Format(p, m)
  PROVE  n = m
  BY CounterBack

-----------------------------------------------------------------------------
LEMMA InitIInv == Init => IInv
<1> SUFFICES ASSUME Init PROVE IInv
  OBVIOUS
<1>1. TypeOK
  <2>1. PICK s \in Starts :
          /\ devices = s.devices
          /\ pc = [r \in Requests |-> IF r \in s.asked THEN "idle" ELSE "done"]
          /\ outcome =
               [r \in Requests |-> IF r \in s.asked THEN "none" ELSE "absent"]
    BY DEF Init
  <2>2. /\ Ids \in SUBSET Text /\ devices \in [Ids -> Products]
        /\ pc \in [Requests -> {"idle", "done"}]
        /\ outcome \in [Requests -> {"none", "absent"}]
    BY <2>1 DEF Ids
  <2>3. /\ left \in [Requests -> Nat] /\ next \in [Requests -> 0..MaxCounter]
        /\ tries \in [Requests -> 1..Attempts]
    BY DEF Init
  <2>4. \A f \in {made, before, used, report} : f \in [Requests -> SUBSET Text]
    BY DEF Init
  <2>5. QED
    BY <2>2, <2>3, <2>4 DEF TypeOK
<1>2. \A r \in Requests : pc[r] \in {"idle", "done"} /\ made[r] = {}
  BY DEF Init
<1>3. PathInv /\ LockInv /\ FreshInv /\ BlockInv
  BY <1>2 DEF PathInv, LockInv, FreshInv, BlockInv, InTx, Locked
<1>4. NewInv /\ NoCollision
  BY DEF Init, NewInv, NoCollision
<1>5. QED
  BY <1>1, <1>3, <1>4 DEF IInv

LEMMA Update ==
  ASSUME NEW S, NEW f \in [Requests -> S], NEW r \in Requests, NEW v \in S
  PROVE  [f EXCEPT ![r] = v] \in [Requests -> S]
  OBVIOUS

(* What an INSERT, a rename or a deletion leaves is a table of devices. *)
Table(t) == DOMAIN t \in SUBSET Text /\ t \in [DOMAIN t -> Products]

LEMMA WithTable ==
  ASSUME NEW ids \in SUBSET Text, NEW product \in Products, TypeOK
  PROVE  /\ Table(With(ids, product))
         /\ DOMAIN With(ids, product) = Ids \cup ids
  BY DEF With, TypeOK, Ids, Table

(* Every variable keeps its type. *)
LEMMA TypeStep == IInv /\ Next => TypeOK'
<1> SUFFICES ASSUME IInv, Next PROVE TypeOK'
  OBVIOUS
<1> USE DEF IInv, TypeOK, local, seen, Goto, End
<1>0. \A r \in Requests : /\ Ask[r].product \in Products
                         /\ Ask[r].quantity \in Nat \ {0}
                         /\ Ask[r].start \in 1..MaxCounter
  BY DEF Asks
<1>a. (devices' = devices \/ Table(devices')) =>
        Ids' \in SUBSET Text /\ devices' \in [Ids' -> Products]
  BY DEF Table, Ids
<1>1. ASSUME NEW r \in Requests, Lock(r) PROVE TypeOK'
  BY <1>1, <1>a DEF Lock
<1>2. ASSUME NEW r \in Requests, Count(r) PROVE TypeOK'
  <2>1. PICK t \in Counters :
          t + Ask[r].quantity < MaxCounter /\ next' = [next EXCEPT ![r] = t + 1]
    BY <1>2 DEF Count
  <2>2. t + 1 \in 0..MaxCounter
    <3>1. t \in Nat /\ MaxCounter \in Nat /\ Ask[r].quantity \in Nat
      BY <1>0, IdsAssumption DEF Counters
    <3>2. t + Ask[r].quantity < MaxCounter /\ Ask[r].quantity # 0
      BY <1>0, <2>1
    <3> HIDE DEF IInv, TypeOK, local, seen, Goto, End
    <3>3. QED
      BY <3>1, <3>2
  <2>3. QED
    BY <1>0, <1>a, <1>2, <2>1, <2>2 DEF Count
<1>3. ASSUME NEW r \in Requests, InsertRow(r) PROVE TypeOK'
  <2> DEFINE id == Format(PrefixOf(r), next[r])
  <2>1. id \in Text
    BY PrefixText, FormatText
  <2> HIDE DEF id
  <2>2. \/ /\ made' = [made EXCEPT ![r] = {}]
           /\ pc' = [pc EXCEPT ![r] = "done"]
           /\ outcome' = [outcome EXCEPT ![r] = "collided"]
           /\ UNCHANGED <<left, next, tries>>
        \/ /\ made' = [made EXCEPT ![r] = made[r] \cup {id}]
           /\ next' = [next EXCEPT ![r] = next[r] + 1]
           /\ left' = [left EXCEPT ![r] = left[r] - 1]
           /\ UNCHANGED <<pc, outcome, tries>>
    BY <1>3 DEF InsertRow, id
  <2>3. UNCHANGED <<devices, before, used, report>> /\ InTx(r) /\ left[r] > 0
    BY <1>3 DEF InsertRow
  <2>4. next[r] + 1 \in 0..MaxCounter
    BY <2>3, SMTT(60) DEF PathInv
  <2>5. made[r] \cup {id} \in SUBSET Text
    BY <2>1
  <2>6. made' \in [Requests -> SUBSET Text]
    <3>1. /\ [made EXCEPT ![r] = made[r] \cup {id}] \in [Requests -> SUBSET Text]
          /\ [made EXCEPT ![r] = {}] \in [Requests -> SUBSET Text]
      BY <2>5, Update
    <3>2. QED
      BY <2>2, <3>1
  <2>7. /\ pc' \in [Requests -> {"idle", "count", "insert", "fetch", "numbered",
                                "done"}]
        /\ outcome' \in [Requests -> {"absent", "none", "ok", "partial",
                                     "failed", "collided"}]
    BY <2>2
  <2>8. next' \in [Requests -> 0..MaxCounter] /\ left' \in [Requests -> Nat]
    <3>1. left[r] - 1 \in Nat
      BY <2>3
    <3>2. /\ next' = next \/ next' = [next EXCEPT ![r] = next[r] + 1]
          /\ left' = left \/ left' = [left EXCEPT ![r] = left[r] - 1]
      BY <2>2
    <3>3. /\ [next EXCEPT ![r] = next[r] + 1] \in [Requests -> 0..MaxCounter]
          /\ [left EXCEPT ![r] = left[r] - 1] \in [Requests -> Nat]
      BY <2>4, <3>1, Update
    <3>4. QED
      BY <3>2, <3>3
  <2>9. QED
    BY <1>a, <2>2, <2>3, <2>6, <2>7, <2>8
<1>4. ASSUME NEW r \in Requests, Commit(r) PROVE TypeOK'
  <2>1. made[r] \in SUBSET Text
    OBVIOUS
  <2>2. Table(devices')
    BY <1>0, <1>4, <2>1, WithTable DEF Commit
  <2>3. QED
    BY <1>a, <1>4, <2>2 DEF Commit
<1>5. ASSUME NEW r \in Requests, Fetch(r) PROVE TypeOK'
  <2>1. report' = report \/ report' = [report EXCEPT ![r] = made[r]]
    BY <1>5 DEF Fetch
  <2>2. report' \in [Requests -> SUBSET Text]
    BY <2>1
  <2>3. /\ pc' = [pc EXCEPT ![r] = "done"]
        /\ \/ outcome' = [outcome EXCEPT ![r] = "ok"]
           \/ outcome' = [outcome EXCEPT ![r] = "failed"]
        /\ UNCHANGED <<devices, made, left, next, tries, before, used>>
    BY <1>5 DEF Fetch
  <2>4. QED
    BY <1>a, <2>2, <2>3
<1>6. ASSUME NEW r \in Requests, ReadBefore(r) PROVE TypeOK'
  <2>1. PICK ids \in SUBSET IdsOf(Ask[r].product) :
          /\ before' = [before EXCEPT ![r] = ids]
          /\ used' = [used EXCEPT ![r] = ids]
    BY <1>6 DEF ReadBefore
  <2>2. ids \in SUBSET Text
    BY DEF IdsOf
  <2>3. /\ before' \in [Requests -> SUBSET Text]
        /\ used' \in [Requests -> SUBSET Text]
    BY <2>1, <2>2, Update
  <2>4. /\ next' = [next EXCEPT ![r] = Ask[r].start]
        /\ left' = [left EXCEPT ![r] = Ask[r].quantity]
        /\ pc' = [pc EXCEPT ![r] = "insert"]
        /\ UNCHANGED <<devices, made, tries, report, outcome>>
    BY <1>6 DEF ReadBefore
  <2>5. /\ next' \in [Requests -> 0..MaxCounter]
        /\ left' \in [Requests -> Nat]
    BY <1>0, <2>4, Update, SMTT(60)
  <2>6. QED
    BY <1>a, <2>3, <2>4, <2>5
<1>7. ASSUME NEW r \in Requests, Attempt(r) PROVE TypeOK'
  <2> DEFINE id == Format(PrefixOf(r), next[r])
  <2>1. id \in Text
    BY PrefixText, FormatText
  <2>2. /\ next' = [next EXCEPT ![r] = next[r] + 1]
        /\ next[r] + 1 \in 0..MaxCounter /\ left[r] - 1 \in Nat
        /\ UNCHANGED <<pc, before, report, outcome>>
    BY <1>7 DEF Attempt
  <2>3. /\ used' = [used EXCEPT ![r] = used[r] \cup {id}] \/ used' = used
        /\ made' = [made EXCEPT ![r] = made[r] \cup {id}] \/ made' = made
    BY <1>7 DEF Attempt, Insert
  <2>4. \/ /\ tries[r] > 1 /\ left' = left
           /\ tries' = [tries EXCEPT ![r] = tries[r] - 1]
        \/ /\ left' = [left EXCEPT ![r] = left[r] - 1]
           /\ tries' = [tries EXCEPT ![r] = Attempts]
    BY <1>7 DEF Attempt, Advance
  <2>5. devices' = With({id}, Ask[r].product) \/ devices' = devices
    BY <1>7 DEF Attempt, Insert
  <2> HIDE DEF id
  <2>6. devices' = devices \/ Table(devices')
    <3>1. {id} \in SUBSET Text /\ Ask[r].product \in Products
      BY <1>0, <2>1
    <3>2. Table(With({id}, Ask[r].product))
      BY ONLY <3>1, WithTable, TypeOK
    <3>3. QED
      BY <2>5, <3>2
  <2>7. /\ made' \in [Requests -> SUBSET Text]
        /\ used' \in [Requests -> SUBSET Text]
    <3>1. made[r] \cup {id} \in SUBSET Text /\ used[r] \cup {id} \in SUBSET Text
      BY <2>1
    <3>2. /\ [made EXCEPT ![r] = made[r] \cup {id}] \in [Requests -> SUBSET Text]
          /\ [used EXCEPT ![r] = used[r] \cup {id}] \in [Requests -> SUBSET Text]
      BY <3>1, Update
    <3>3. QED
      BY <2>3, <3>2
  <2>8. left' \in [Requests -> Nat] /\ tries' \in [Requests -> 1..Attempts]
    <3>1. tries[r] > 1 => tries[r] - 1 \in 1..Attempts
      OBVIOUS
    <3>2. /\ [left EXCEPT ![r] = left[r] - 1] \in [Requests -> Nat]
          /\ [tries EXCEPT ![r] = Attempts] \in [Requests -> 1..Attempts]
      BY <2>2, Update, SMTT(60)
    <3>3. tries[r] > 1 => [tries EXCEPT ![r] = tries[r] - 1]
                            \in [Requests -> 1..Attempts]
      BY <3>1, Update
    <3>4. QED
      BY <2>4, <3>2, <3>3
  <2>9. QED
    BY <1>a, <2>2, <2>6, <2>7, <2>8
<1>8. ASSUME NEW r \in Requests, Trigger(r) PROVE TypeOK'
  BY <1>8, <1>a, SMTT(60) DEF Trigger
<1>9. ASSUME NEW r \in Requests, InsertNumbered(r) PROVE TypeOK'
  <2> DEFINE id == TriggerFormat(PrefixOf(r), next[r])
  <2>1. id \in Text
    BY PrefixText, FormatText
  <2>2. left[r] - 1 \in Nat
    BY <1>9 DEF InsertNumbered, PathInv
  <2>3. made' = [made EXCEPT ![r] = made[r] \cup {id}] \/ made' = made
    BY <1>9 DEF InsertNumbered, Insert
  <2>4. devices' = With({id}, Ask[r].product) \/ devices' = devices
    BY <1>9 DEF InsertNumbered, Insert
  <2> HIDE DEF id
  <2>5. devices' = devices \/ Table(devices')
    <3>1. {id} \in SUBSET Text /\ Ask[r].product \in Products
      BY <1>0, <2>1
    <3>2. Table(With({id}, Ask[r].product))
      BY ONLY <3>1, WithTable, TypeOK
    <3>3. QED
      BY <2>4, <3>2
  <2>6. made' \in [Requests -> SUBSET Text]
    <3>1. made[r] \cup {id} \in SUBSET Text
      BY <2>1
    <3>2. [made EXCEPT ![r] = made[r] \cup {id}] \in [Requests -> SUBSET Text]
      BY <3>1, Update
    <3>3. QED
      BY <2>3, <3>2
  <2>7. /\ left' = [left EXCEPT ![r] = left[r] - 1]
        /\ tries' = [tries EXCEPT ![r] = Attempts]
        /\ pc' = [pc EXCEPT ![r] = "insert"]
        /\ UNCHANGED <<next, before, used, report, outcome>>
    BY <1>9 DEF InsertNumbered, Advance
  <2>8. QED
    BY <1>a, <2>2, <2>5, <2>6, <2>7, SMTT(60)
<1>10. ASSUME NEW r \in Requests, Report(r) PROVE TypeOK'
  <2>1. PICK ids \in SUBSET IdsOf(Ask[r].product) :
          /\ report' = [report EXCEPT ![r] = ids \ before[r]]
          /\ \/ outcome' = [outcome EXCEPT ![r] = "failed"]
             \/ outcome' = [outcome EXCEPT ![r] = "ok"]
             \/ outcome' = [outcome EXCEPT ![r] = "partial"]
    BY <1>10 DEF Report
  <2>2. ids \ before[r] \in SUBSET Text
    BY DEF IdsOf
  <2>3. report' \in [Requests -> SUBSET Text]
    BY <2>1, <2>2, Update
  <2>4. /\ pc' = [pc EXCEPT ![r] = "done"]
        /\ UNCHANGED <<devices, made, left, next, tries, before, used>>
    BY <1>10 DEF Report
  <2>5. QED
    BY <1>a, <2>1, <2>3, <2>4
<1>11. ASSUME NEW r \in Requests, Fail(r) PROVE TypeOK'
  BY <1>a, <1>11 DEF Fail
<1>12. ASSUME NEW id \in Ids, NEW new \in RenameTo, Rename(id, new)
       PROVE TypeOK'
  <2>1. Table(devices')
    BY <1>12 DEF Rename, Table, Ids
  <2>2. QED
    BY <1>a, <1>12, <2>1 DEF Rename
<1>13. ASSUME NEW id \in Ids, Delete(id) PROVE TypeOK'
  <2>1. Table(devices')
    BY <1>13 DEF Delete, Table, Ids
  <2>2. QED
    BY <1>a, <1>13, <2>1 DEF Delete
<1>14. QED
  BY <1>1, <1>2, <1>3, <1>4, <1>5, <1>6, <1>7, <1>8, <1>9, <1>10, <1>11,
     <1>12, <1>13, <1>a DEF Next, Serve, Quiet, vars

-----------------------------------------------------------------------------
(* The steps of the requests, by what they do to the own entries. *)

(* A request's own entries change only in its own steps. *)
LEMMA OwnEntries ==
  ASSUME TypeOK, NEW r \in Requests, Serve(r) \/ Fail(r),
         NEW o \in Requests, o # r
  PROVE  /\ pc'[o] = pc[o] /\ made'[o] = made[o] /\ next'[o] = next[o]
         /\ left'[o] = left[o] /\ before'[o] = before[o] /\ used'[o] = used[o]
         /\ outcome'[o] = outcome[o]
<1> USE DEF TypeOK, local, seen, Goto, End
<1>1. CASE Lock(r) \/ Count(r) \/ Commit(r) \/ Fetch(r)
  BY <1>1 DEF Lock, Count, Commit, Fetch
<1>2. CASE InsertRow(r)
  BY <1>2 DEF InsertRow
<1>3. CASE ReadBefore(r)
  BY <1>3 DEF ReadBefore
<1>4. CASE Attempt(r)
  BY <1>4, ZenonT(60) DEF Attempt, Insert, Advance
<1>5. CASE Trigger(r) \/ Report(r) \/ Fail(r)
  BY <1>5, ZenonT(60) DEF Trigger, Report, Fail
<1>6. CASE InsertNumbered(r)
  BY <1>6 DEF InsertNumbered, Insert, Advance
<1>7. QED
  BY <1>1, <1>2, <1>3, <1>4, <1>5, <1>6 DEF Serve

(* Where a step of a request takes it. *)
LEMMA Moves ==
  ASSUME TypeOK, PathInv, NEW r \in Requests, Serve(r) \/ Fail(r)
  PROVE  /\ pc'[r] = "count" => Lock(r)
         /\ pc'[r] \in {"count", "fetch"} => Service(r)
         /\ pc'[r] = "numbered" => ByTrigger(r) /\ left'[r] > 0
         /\ pc'[r] # "idle"
         /\ pc'[r] = "count" => made'[r] = {} /\ pc[r] = "idle"
<1> USE DEF TypeOK, PathInv, local, seen, Goto, End, Service
<1>1. CASE Lock(r)
  BY <1>1 DEF Lock
<1>2. CASE Count(r) \/ Commit(r) \/ Fetch(r)
  BY <1>2 DEF Count, Commit, Fetch, InTx
<1>3. CASE InsertRow(r)
  BY <1>3 DEF InsertRow, InTx
<1>4. CASE ReadBefore(r)
  BY <1>4 DEF ReadBefore
<1>5. CASE Attempt(r)
  BY <1>5 DEF Attempt
<1>6. CASE Trigger(r) \/ Report(r) \/ Fail(r)
  BY <1>6, SMTT(60) DEF Trigger, Report, Fail
<1>7. CASE InsertNumbered(r)
  BY <1>7 DEF InsertNumbered
<1>8. QED
  BY <1>1, <1>2, <1>3, <1>4, <1>5, <1>6, <1>7 DEF Serve

(* What a transaction has inserted and may still insert. *)
LEMMA InTxStep ==
  ASSUME TypeOK, PathInv, NEW r \in Requests, Serve(r) \/ Fail(r), InTx(r)'
  PROVE  \/ Count(r)
         \/ /\ InTx(r) /\ InsertRow(r) /\ left[r] > 0
            /\ Format(PrefixOf(r), next[r]) \notin Ids
            /\ made' = [made EXCEPT
                          ![r] = made[r] \cup {Format(PrefixOf(r), next[r])}]
            /\ next' = [next EXCEPT ![r] = next[r] + 1]
            /\ left' = [left EXCEPT ![r] = left[r] - 1]
<1> USE DEF TypeOK, PathInv, local, seen, Goto, End, Service, InTx
<1>1. CASE Lock(r) \/ Commit(r) \/ Fetch(r)
  BY <1>1 DEF Lock, Commit, Fetch
<1>2. CASE InsertRow(r)
  BY <1>2 DEF InsertRow
<1>3. CASE ReadBefore(r) \/ Attempt(r) \/ Report(r)
  BY <1>3 DEF ReadBefore, Attempt, Report, Manual
<1>4. CASE Trigger(r) \/ InsertNumbered(r) \/ Fail(r)
  BY <1>4 DEF Trigger, InsertNumbered, Fail, ByTrigger
<1>5. QED
  BY <1>1, <1>2, <1>3, <1>4 DEF Serve

LEMMA PathStep == IInv /\ Next => PathInv'
<1> SUFFICES ASSUME IInv, Next, NEW o \in Requests
    PROVE  /\ pc'[o] \in {"count", "fetch"} => Service(o)
           /\ pc'[o] = "numbered" => ByTrigger(o) /\ left'[o] > 0
           /\ pc'[o] \in {"idle", "count"} => made'[o] = {}
           /\ InTx(o)' => /\ next'[o] + left'[o] <= MaxCounter
                          /\ made'[o] \subseteq Own(PrefixOf(o))
  BY DEF PathInv, InTx, Service
<1> USE DEF IInv
<1>2. CASE UNCHANGED <<pc, left, made, next>>
  BY <1>2 DEF PathInv, InTx
<1>3. ASSUME NEW r \in Requests, r # o, Serve(r) \/ Fail(r)
      PROVE  /\ pc'[o] = pc[o] /\ left'[o] = left[o]
             /\ made'[o] = made[o] /\ next'[o] = next[o]
  BY <1>3, OwnEntries
<1>4. CASE Serve(o) \/ Fail(o)
  <2>1. ASSUME Count(o), InTx(o)'
        PROVE  /\ next'[o] + left'[o] <= MaxCounter
               /\ made'[o] \subseteq Own(PrefixOf(o))
    <3>1. PICK t \in Counters : /\ t + Ask[o].quantity < MaxCounter
                                /\ next' = [next EXCEPT ![o] = t + 1]
      BY <2>1 DEF Count
    <3>2. /\ left' = [left EXCEPT ![o] = Ask[o].quantity]
          /\ made' = made /\ pc[o] = "count"
      BY <2>1 DEF Count
    <3>3. next'[o] = t + 1 /\ left'[o] = Ask[o].quantity
      BY <3>1, <3>2 DEF TypeOK
    <3>4. Ask[o].quantity \in Nat
      BY DEF Asks
    <3>5. made'[o] = {}
      BY <3>2 DEF PathInv
    <3>6. QED
      BY <3>1, <3>3, <3>4, <3>5
  <2>2. ASSUME InTx(o)', ~Count(o)
        PROVE  /\ next'[o] + left'[o] <= MaxCounter
               /\ made'[o] \subseteq Own(PrefixOf(o))
    <3>1. /\ InTx(o) /\ left[o] > 0
          /\ made'[o] = made[o] \cup {Format(PrefixOf(o), next[o])}
          /\ next'[o] = next[o] + 1 /\ left'[o] = left[o] - 1
      BY <1>4, <2>2, InTxStep, SMTT(60) DEF TypeOK
    <3>2. next[o] \in Counters /\ left[o] \in Nat
      BY DEF TypeOK
    <3>3. next[o] + left[o] <= MaxCounter /\ made[o] \subseteq Own(PrefixOf(o))
      BY <3>1 DEF PathInv
    <3>4. QED
      BY <3>1, <3>2, <3>3, SMTT(60) DEF Own
  <2>3. QED
    BY <1>4, <2>1, <2>2, Moves
<1>5. QED
  BY <1>2, <1>3, <1>4
  DEF Next, Rename, Delete, Quiet, vars, local, PathInv, InTx

(* The advisory lock is granted to one request of a prefix at a time. *)
LEMMA LockStep == IInv /\ Next => LockInv'
<1> SUFFICES ASSUME IInv, Next,
             NEW p \in Requests, NEW q \in Requests, p # q,
             Locked(p)', Locked(q)', PrefixOf(p) = PrefixOf(q)
    PROVE  FALSE
  BY DEF LockInv, PrefixOf
<1> USE DEF IInv
<1>1. ASSUME NEW r \in Requests, NEW o \in Requests, r # o,
             Serve(r) \/ Fail(r), Locked(r)', Locked(o)',
             PrefixOf(r) = PrefixOf(o)
      PROVE  FALSE
  <2>1. Locked(o)
    BY <1>1, OwnEntries DEF Locked, Service
  <2>2. CASE Locked(r)
    BY <1>1, <2>1, <2>2 DEF LockInv
  <2>3. CASE ~Locked(r)
    <3>1. Service(r) /\ pc'[r] \in {"count", "insert"}
      BY <1>1 DEF Locked, Service
    <3>2. pc'[r] # "insert"
      BY <1>1, <2>3, <3>1, InTxStep DEF InTx, Locked, Count, Service
    <3>3. Lock(r)
      BY <1>1, <3>1, <3>2, Moves
    <3>4. QED
      BY <1>1, <2>1, <3>3 DEF Lock
  <2>4. QED
    BY <2>2, <2>3
<1>2. ASSUME UNCHANGED pc PROVE FALSE
  BY <1>2 DEF Locked, Service, LockInv
<1>3. ASSUME NEW r \in Requests, Serve(r) \/ Fail(r) PROVE FALSE
  <2>1. CASE r = p
    BY <1>1, <1>3, <2>1
  <2>2. CASE r = q
    BY <1>1, <1>3, <2>2
  <2>3. CASE r # p /\ r # q
    BY <1>3, <2>3, OwnEntries DEF Locked, Service, LockInv
  <2>4. QED
    BY <2>1, <2>2, <2>3
<1>4. QED
  BY <1>2, <1>3 DEF Next, Rename, Delete, Quiet, vars

(* Only a commit of CreateDevices adds an ID under a prefix nobody else    *)
(* makes IDs of: no other step of a request does, no rename, no deletion.  *)
LEMMA OnlyCommits ==
  ASSUME IInv, Next, NEW p, Exclusive(p), NEW n \in Counters,
         Format(p, n) \in Ids', Format(p, n) \notin Ids
  PROVE  \E r \in Requests : Commit(r) /\ PrefixOf(r) = p
<1> DEFINE id == Format(p, n)
<1> USE DEF IInv
<1>0. id \in Own(p)
  BY DEF Own
<1>1. ASSUME NEW r \in Requests, Commit(r) PROVE PrefixOf(r) = p
  <2>1. id \in made[r]
    BY <1>1 DEF Commit, With, Ids
  <2>2. id \in Own(PrefixOf(r))
    BY <1>1, <2>1 DEF Commit, PathInv
  <2>3. QED
    BY <1>0, <2>2 DEF Exclusive, Own
<1>2. ASSUME NEW r \in Requests, Attempt(r) \/ InsertNumbered(r) PROVE FALSE
  <2>1. ~Service(r) /\ next[r] \in Counters
    BY <1>2 DEF Attempt, InsertNumbered, Manual, ByTrigger, PathInv, TypeOK
  <2>2. /\ Format(PrefixOf(r), next[r]) \notin Own(p)
        /\ TriggerFormat(PrefixOf(r), next[r]) \notin Own(p)
    BY <2>1 DEF Exclusive
  <2>3. \/ Ids' = Ids
        \/ Ids' = Ids \cup {Format(PrefixOf(r), next[r])}
        \/ Ids' = Ids \cup {TriggerFormat(PrefixOf(r), next[r])}
    BY <1>2 DEF Attempt, InsertNumbered, Insert, With, Ids
  <2>4. QED
    BY <1>0, <2>2, <2>3
<1>3. ASSUME NEW i \in Ids, NEW new \in RenameTo, Rename(i, new) PROVE FALSE
  <2>1. Ids' = (Ids \ {i}) \cup {new}
    BY <1>3 DEF Rename, Ids
  <2>2. id # new
    BY <1>0 DEF Exclusive
  <2>3. QED
    BY <2>1, <2>2
<1>4. ASSUME NEW i \in Ids, Delete(i) PROVE FALSE
  BY <1>4 DEF Delete, Ids
<1>5. ASSUME UNCHANGED devices PROVE FALSE
  BY <1>5 DEF Ids
<1>6. QED
  BY <1>1, <1>2, <1>3, <1>4, <1>5
  DEF Next, Serve, Quiet, vars, Lock, Count, InsertRow, Fetch, ReadBefore,
      Trigger, Report, Fail

(* While a request has the lock of such a prefix, no step adds an ID to it *)
(* unless the request commits.                                             *)
LEMMA Undisturbed ==
  ASSUME IInv, Next, NEW o \in Requests, InTx(o), InTx(o)',
         Exclusive(PrefixOf(o)), NEW n \in Counters,
         Format(PrefixOf(o), n) \in Ids'
  PROVE  Format(PrefixOf(o), n) \in Ids
<1> SUFFICES ASSUME Format(PrefixOf(o), n) \notin Ids PROVE FALSE
  OBVIOUS
<1>1. PICK r \in Requests : Commit(r) /\ PrefixOf(r) = PrefixOf(o)
  BY OnlyCommits
<1>2. Locked(r) /\ Locked(o)
  BY <1>1 DEF Commit, InTx, Locked
<1>3. r = o
  BY <1>1, <1>2 DEF IInv, LockInv
<1>4. QED
  BY <1>1, <1>3 DEF Commit, Goto, InTx, IInv, TypeOK

(* What is committed under a locked prefix is numbered below the rest. *)
LEMMA FreshStep == IInv /\ Next => FreshInv'
<1> SUFFICES ASSUME IInv, Next, NEW o \in Requests, InTx(o)',
             Exclusive(PrefixOf(o)), NEW n \in Counters,
             Format(PrefixOf(o), n) \in Ids'
    PROVE  /\ n < next'[o]
           /\ \A m \in Counters : Format(PrefixOf(o), m) \in made'[o] => n < m
  BY DEF FreshInv, PrefixOf, Exclusive, Own, Format, TriggerFormat, Service
<1> DEFINE p == PrefixOf(o)
<1> USE DEF IInv
<1>1. p \in Text
  BY PrefixText
<1>2. CASE ~InTx(o)
  <2>1. Serve(o) \/ Fail(o)
    BY <1>2, OwnEntries DEF Next, Rename, Delete, Quiet, vars, InTx, Service
  <2>2. Count(o)
    BY <1>2, <2>1, InTxStep
  <2>3. PICK t \in Counters :
          Highest(p, Ids, t) /\ next' = [next EXCEPT ![o] = t + 1]
    BY <2>2 DEF Count
  <2>4. Format(p, n) \in Ids
    BY <2>2 DEF Count, Ids
  <2>5. n <= t
    BY <1>1, <2>3, <2>4, CounterBack DEF Highest
  <2>6. made'[o] = {}
    BY <2>2 DEF Count, PathInv
  <2>7. QED
    BY <2>3, <2>5, <2>6 DEF TypeOK
<1>3. CASE InTx(o)
  <2>1. Format(p, n) \in Ids
    BY <1>3, Undisturbed
  <2>2. n < next[o] /\ \A m \in Counters : Format(p, m) \in made[o] => n < m
    BY <1>3, <2>1 DEF FreshInv
  <2>3. CASE Serve(o) \/ Fail(o)
    <3>1. next[o] \in Counters
      BY DEF TypeOK
    <3>2. /\ made'[o] = made[o] \cup {Format(p, next[o])}
          /\ next'[o] = next[o] + 1
      <4>1. ~Count(o)
        BY <1>3 DEF Count, InTx
      <4>2. /\ made' = [made EXCEPT ![o] = made[o] \cup {Format(p, next[o])}]
            /\ next' = [next EXCEPT ![o] = next[o] + 1]
        BY <2>3, <4>1, InTxStep
      <4>3. made \in [Requests -> SUBSET Text] /\ next \in [Requests -> 0..MaxCounter]
        BY DEF TypeOK
      <4> HIDE DEF IInv, p
      <4>4. QED
        BY <4>2, <4>3
    <3>3. \A m \in Counters : Format(p, m) = Format(p, next[o]) => m = next[o]
      BY <1>1, <3>1, FormatInjective
    <3>4. n < next'[o]
      BY <2>2, <3>1, <3>2
    <3>5. ASSUME NEW m \in Counters, Format(p, m) \in made'[o] PROVE n < m
      <4>1. CASE Format(p, m) \in made[o]
        BY <2>2, <4>1
      <4>2. CASE Format(p, m) = Format(p, next[o])
        BY <2>2, <3>3, <4>2
      <4>3. QED
        BY <3>2, <3>5, <4>1, <4>2
    <3>6. QED
      BY <3>4, <3>5
  <2>4. CASE next'[o] = next[o] /\ made'[o] = made[o]
    BY <2>2, <2>4
  <2>5. QED
    BY <2>3, <2>4, OwnEntries DEF Next, Rename, Delete, Quiet, vars, local
<1>4. QED
  BY <1>2, <1>3

(* A transaction inserts consecutive numbers. *)
LEMMA BlockStep == IInv /\ Next => BlockInv'
<1> SUFFICES ASSUME IInv, Next, NEW o \in Requests, InTx(o)'
    PROVE  /\ 1 <= First(o)' /\ First(o)' <= next'[o]
           /\ made'[o] =
                {Format(PrefixOf(o), n) : n \in First(o)' .. next'[o] - 1}
  BY DEF BlockInv, PrefixOf, Format
<1> USE DEF IInv
<1>0. /\ First(o) = next[o] + left[o] - Ask[o].quantity
      /\ First(o)' = next'[o] + left'[o] - Ask[o].quantity
      /\ Ask[o].quantity \in Nat /\ next[o] \in Nat /\ left[o] \in Nat
  BY DEF First, Asks, TypeOK
<1>1. CASE Count(o)
  <2>1. PICK t \in Counters : next' = [next EXCEPT ![o] = t + 1]
    BY <1>1 DEF Count
  <2>2. next'[o] = t + 1 /\ left'[o] = Ask[o].quantity /\ made'[o] = {}
    BY <1>1, <2>1 DEF Count, PathInv, TypeOK
  <2>3. First(o)' = t + 1 /\ t \in Nat
    BY <1>0, <2>2
  <2>4. First(o)' .. next'[o] - 1 = {}
    BY <2>2, <2>3
  <2>5. QED
    BY <2>2, <2>3, <2>4
<1>2. CASE (Serve(o) \/ Fail(o)) /\ ~Count(o)
  <2>1. /\ InTx(o) /\ next'[o] = next[o] + 1 /\ left'[o] = left[o] - 1
        /\ made'[o] = made[o] \cup {Format(PrefixOf(o), next[o])}
    BY <1>2, InTxStep, SMTT(60) DEF TypeOK
  <2>2. /\ 1 <= First(o) /\ First(o) <= next[o]
        /\ made[o] = {Format(PrefixOf(o), n) : n \in First(o) .. next[o] - 1}
    BY <2>1 DEF BlockInv
  <2>3. First(o)' = First(o) /\ First(o) \in Int
    BY <1>0, <2>1, SMTT(60)
  <2>4. First(o)' .. next'[o] - 1 = (First(o) .. next[o] - 1) \cup {next[o]}
    BY <1>0, <2>1, <2>2, <2>3, SMTT(60)
  <2>5. QED
    BY <1>0, <2>1, <2>2, <2>3, <2>4, SMTT(60)
<1>3. CASE /\ pc'[o] = pc[o] /\ made'[o] = made[o]
           /\ next'[o] = next[o] /\ left'[o] = left[o]
  BY <1>0, <1>3 DEF BlockInv, InTx
<1>4. QED
  BY <1>1, <1>2, <1>3, OwnEntries
  DEF Next, Rename, Delete, Quiet, vars, local

(* A manual request inserts nothing that its first read has found. *)
LEMMA NewStep == IInv /\ Next => NewInv'
<1> SUFFICES ASSUME IInv, Next, NEW o \in Requests, Manual(o)
    PROVE  before'[o] \subseteq used'[o] /\ made'[o] \cap before'[o] = {}
  BY DEF NewInv, Manual, Service, ByTrigger
<1> USE DEF IInv, NewInv
<1>1. CASE /\ before'[o] = before[o] /\ used'[o] = used[o]
           /\ made'[o] \subseteq made[o]
  BY <1>1
<1>2. CASE ReadBefore(o)
  BY <1>2 DEF ReadBefore, PathInv, TypeOK
<1>3. CASE Attempt(o)
  <2> DEFINE id == Format(PrefixOf(o), next[o])
  <2>1. /\ before' = before
        /\ \/ used'[o] = used[o] \cup {id} /\ made' = made
           \/ used' = used /\ made' = made
           \/ /\ id \notin used[o]
              /\ used'[o] = used[o] \cup {id} /\ made'[o] = made[o] \cup {id}
    BY <1>3 DEF Attempt, Insert, TypeOK
  <2>2. QED
    BY <2>1
<1>4. CASE Serve(o) \/ Fail(o)
  <2>1. ~Service(o) /\ ~ByTrigger(o)
    BY DEF Manual
  <2>2. CASE Fail(o) \/ Report(o)
    BY <1>1, <2>2 DEF Fail, Report, TypeOK, seen
  <2>3. QED
    BY <1>2, <1>3, <1>4, <2>1, <2>2
    DEF Serve, Lock, Count, InsertRow, Commit, Fetch, InTx, Trigger,
        InsertNumbered, PathInv
<1>5. QED
  BY <1>1, <1>4, OwnEntries DEF Next, Rename, Delete, Quiet, vars, seen

LEMMA CollisionStep == IInv /\ Next => NoCollision'
<1> SUFFICES ASSUME IInv, Next, NEW o \in Requests, outcome'[o] = "collided",
             Service(o), Exclusive(PrefixOf(o))
    PROVE  FALSE
  BY DEF NoCollision, PrefixOf, Exclusive, Own, Format, TriggerFormat, Service
<1> USE DEF IInv
<1>1. outcome[o] # "collided"
  BY DEF NoCollision
<1>2. Serve(o) \/ Fail(o)
  BY <1>1, OwnEntries DEF Next, Rename, Delete, Quiet, vars
<1>3. CASE InsertRow(o)
  <2>1. InTx(o) /\ Format(PrefixOf(o), next[o]) \in Ids
    BY <1>1, <1>3 DEF InsertRow
  <2>2. next[o] \in Counters
    BY DEF TypeOK
  <2>3. next[o] < next[o]
    BY <2>1, <2>2 DEF FreshInv
  <2>4. QED
    BY <2>2, <2>3
<1>4. CASE ~InsertRow(o)
  BY <1>1, <1>2, <1>4
  DEF Serve, Lock, Count, Commit, Fetch, ReadBefore, Attempt, Trigger,
      InsertNumbered, Report, Fail, End, TypeOK
<1>5. QED
  BY <1>3, <1>4

LEMMA Stutter == IInv /\ UNCHANGED vars => IInv'
<1> SUFFICES ASSUME IInv, UNCHANGED vars PROVE IInv'
  OBVIOUS
<1> USE DEF IInv, vars, local, seen
<1>1. TypeOK'
  BY DEF TypeOK, Ids
<1>2. PathInv' /\ LockInv' /\ NoCollision'
  BY DEF PathInv, LockInv, NoCollision, InTx, Locked
<1>3. FreshInv' /\ NewInv' /\ BlockInv'
  BY DEF FreshInv, NewInv, BlockInv, First, InTx, Ids
<1>4. QED
  BY <1>1, <1>2, <1>3

LEMMA IInvStep == IInv /\ [Next]_vars => IInv'
  BY TypeStep, PathStep, LockStep, FreshStep, BlockStep, NewStep,
     CollisionStep, Stutter DEF IInv

LEMMA Inductive == Spec => []IInv
  BY InitIInv, IInvStep, PTL DEF Spec

-----------------------------------------------------------------------------
(* Every variable of a run keeps its type; a counter in use fits a BIGINT  *)
(* and no request counts below zero devices left.                          *)
THEOREM TypeCorrect == Spec => []TypeOK
<1>1. IInv => TypeOK
  BY DEF IInv
<1>2. QED
  BY <1>1, Inductive, PTL

(* A CreateDevices whose prefix no other path makes IDs of never fails     *)
(* with a duplicate key, for any number of requests, quantities and        *)
(* renames.                                                                *)
THEOREM NeverCollides == Spec => []NoCollision
<1>1. IInv => NoCollision
  BY DEF IInv
<1>2. QED
  BY <1>1, Inductive, PTL

(* What such a request commits is numbered above all there is.             *)
THEOREM CommitsInOrder == Spec => CommittedInOrder
<1>1. ASSUME IInv, NEW r \in Requests, Commit(r), Exclusive(PrefixOf(r)),
             NEW n \in Counters, NEW m \in Counters,
             Format(PrefixOf(r), n) \in Ids, Format(PrefixOf(r), m) \in made[r]
      PROVE  n < m
  BY <1>1 DEF IInv, FreshInv, Commit
<1>2. IInv /\ [Next]_vars =>
        [\A r \in Requests :
           Commit(r) /\ Exclusive(PrefixOf(r)) =>
             \A n, m \in Counters :
               /\ Format(PrefixOf(r), n) \in Ids
               /\ Format(PrefixOf(r), m) \in made[r]
               => n < m]_vars
  BY <1>1
<1>3. QED
  BY <1>2, Inductive, PTL DEF Spec, CommittedInOrder

(* With manual IDs, a successful answer lists every device the request    *)
(* made that is still there.                                               *)
THEOREM ReportsAll == Spec => ReportComplete
<1>1. ASSUME IInv, Next, NEW r \in Requests, Manual(r), outcome[r] = "none",
             outcome'[r] = "ok"
      PROVE  made[r] \cap IdsOf(Ask[r].product) \subseteq report'[r]
  <2> USE DEF IInv
  <2>1. ~Service(r) /\ (Serve(r) \/ Fail(r))
    BY <1>1, OwnEntries DEF Next, Rename, Delete, Quiet, vars, Manual
  <2>2. Report(r)
    BY <1>1, <2>1
    DEF Serve, Lock, Count, InsertRow, InTx, Commit, Fetch, PathInv, ReadBefore,
        Attempt, Trigger, InsertNumbered, Fail, End, TypeOK, Manual
  <2>3. report'[r] = IdsOf(Ask[r].product) \ before[r]
    BY <1>1, <2>2 DEF Report, End, TypeOK
  <2>4. QED
    BY <1>1, <2>3 DEF NewInv
<1>2. IInv /\ [Next]_vars =>
        [\A r \in Requests :
           Manual(r) /\ outcome[r] = "none" /\ outcome'[r] = "ok" =>
             made[r] \cap IdsOf(Ask[r].product) \subseteq report'[r]]_vars
  BY <1>1
<1>3. QED
  BY <1>2, Inductive, PTL DEF Spec, ReportComplete

-----------------------------------------------------------------------------
(* CreateDevices implements NumberRegister. *)

LEMMA Numbers ==
  ASSUME NEW s \in Series
  PROVE  /\ numbersBar[s] = {n \in Counters : Format(s, n) \in Ids}
         /\ numbersBar'[s] = {n \in Counters : Format(s, n) \in Ids'}
  BY DEF numbersBar, IdOf

LEMMA SeriesExclusive ==
  ASSUME NEW s \in Series
  PROVE  /\ s \in Text /\ Exclusive(s)
         /\ \E r \in Requests : PrefixOf(r) = s
  BY PrefixText DEF Series, Clients

(* The IDs of two series are different.                                    *)
LEMMA SeriesApart ==
  ASSUME NEW s \in Series, NEW t \in Series, NEW n \in Counters,
         NEW m \in Counters, Format(s, n) = Format(t, m)
  PROVE  s = t /\ n = m
<1>1. PICK r \in Requests : PrefixOf(r) = s
  BY SeriesExclusive
<1>2. s # t => Format(s, n) \notin Own(t)
  BY <1>1, SeriesExclusive DEF Exclusive
<1>3. s = t
  BY <1>2 DEF Own
<1>4. QED
  BY <1>3, SeriesExclusive, FormatInjective

(* A client is served when its transaction commits. *)
LEMMA ServedStays ==
  ASSUME IInv, Next, \A r \in Clients : ~Commit(r)
  PROVE  servedBar' = servedBar
<1> USE DEF IInv
<1>1. SUFFICES ASSUME NEW c \in Clients
               PROVE  (~InTx(c) /\ made[c] # {}) <=> (~InTx(c)' /\ made'[c] # {})
  BY DEF servedBar, Clients, Exclusive, Own, PrefixOf, Format, TriggerFormat,
     Service
<1>2. c \in Requests /\ Service(c)
  BY DEF Clients, Exclusive
<1>3. CASE pc'[c] = pc[c] /\ made'[c] = made[c]
  BY <1>3 DEF InTx
<1>4. CASE Serve(c) \/ Fail(c)
  <2> USE <1>2 DEF TypeOK, PathInv, Goto, End, InTx
  <2>1. CASE Lock(c)
    BY <2>1 DEF Lock
  <2>2. CASE Count(c)
    BY <2>2 DEF Count
  <2>3. CASE InsertRow(c)
    <3>1. InTx(c) /\ (pc' = pc \/ made'[c] = {})
      BY <2>3 DEF InsertRow
    <3>2. QED
      BY <3>1
  <2>4. CASE Fetch(c)
    BY <2>4 DEF Fetch
  <2>5. CASE Fail(c)
    <3>1. pc[c] \in {"idle", "count", "insert", "fetch"}
      BY <2>5 DEF Fail, ByTrigger
    <3>2. /\ pc'[c] = "done"
          /\ made'[c] = IF pc[c] = "fetch" THEN made[c] ELSE {}
      BY <2>5 DEF Fail
    <3>3. QED
      BY <3>1, <3>2
  <2>6. QED
    BY <1>4, <2>1, <2>2, <2>3, <2>4, <2>5
    DEF Serve, ReadBefore, Attempt, Trigger, InsertNumbered, Report, Manual,
        ByTrigger
<1>5. QED
  BY <1>2, <1>3, <1>4, OwnEntries DEF Next, Rename, Delete, Quiet, vars

(* The commit of a client puts its block into use. *)
LEMMA CommitIssues ==
  ASSUME IInv, Next, NEW r \in Clients, Commit(r)
  PROVE  Register!Issue(r)
<1> DEFINE p == PrefixOf(r)
           block == First(r) .. First(r) + Ask[r].quantity - 1
<1> USE DEF IInv
<1>1. /\ r \in Requests /\ Exclusive(p) /\ p \in Series /\ p \in Text
      /\ InTx(r) /\ left[r] = 0 /\ Ids' = Ids \cup made[r]
  BY PrefixText DEF Commit, With, Ids, Clients, Series
<1>2. /\ next[r] \in Counters /\ Ask[r].quantity \in Nat \ {0}
      /\ First(r) = next[r] - Ask[r].quantity
  BY <1>1, SMTT(60) DEF First, TypeOK, Asks
<1>3. /\ First(r) \in 1 .. MaxCounter
      /\ made[r] = {Format(p, n) : n \in block} /\ block \subseteq Counters
      /\ First(r) \in block
  <2>1. /\ 1 <= First(r) /\ First(r) <= next[r]
        /\ made[r] = {Format(p, n) : n \in First(r) .. next[r] - 1}
    BY <1>1 DEF BlockInv
  <2>2. First(r) + Ask[r].quantity - 1 = next[r] - 1
    BY <1>2
  <2>3. QED
    BY <1>2, <2>1, <2>2, SMTT(60)
<1> HIDE DEF block
<1>4. \A n \in numbersBar[p] : n < First(r)
  <2>1. Format(p, First(r)) \in made[r] /\ First(r) \in Counters
    BY <1>3
  <2>2. QED
    BY <1>1, <2>1, Numbers DEF FreshInv
<1>5. numbersBar' = [numbersBar EXCEPT ![p] = numbersBar[p] \cup block]
  <2>1. ASSUME NEW s \in Series
        PROVE  numbersBar'[s] = IF s = p THEN numbersBar[p] \cup block
                                ELSE numbersBar[s]
    <3>1. ASSUME NEW n \in Counters
          PROVE  Format(s, n) \in made[r] <=> s = p /\ n \in block
      BY <1>1, <1>3, SeriesApart, SMTT(60)
    <3>2. QED
      BY <1>1, <1>3, <3>1, Numbers
  <2>2. /\ DOMAIN numbersBar = Series /\ DOMAIN numbersBar' = Series
        /\ numbersBar = [s \in Series |-> numbersBar[s]]
        /\ numbersBar' = [s \in Series |-> numbersBar'[s]]
    BY DEF numbersBar
  <2>3. QED
    BY <2>1, <2>2
<1>6. r \notin servedBar /\ servedBar' = servedBar \cup {r}
  <2>1. made' = made /\ pc' = [pc EXCEPT ![r] = "fetch"] /\ made[r] # {}
    BY <1>3 DEF Commit, Goto
  <2>2. r \notin servedBar
    BY <1>1 DEF servedBar
  <2>3. ASSUME NEW c \in Clients
        PROVE  (~InTx(c)' /\ made'[c] # {}) <=> (c \in servedBar \/ c = r)
    BY <1>1, <2>1 DEF InTx, servedBar, TypeOK
  <2>4. servedBar' = {c \in Clients : ~InTx(c)' /\ made'[c] # {}}
    BY DEF servedBar, Clients, Exclusive, Own, PrefixOf, Format, TriggerFormat,
       Service
  <2>5. QED
    BY <2>2, <2>3, <2>4 DEF servedBar
<1>7. QED
  BY <1>1, <1>3, <1>4, <1>5, <1>6 DEF Register!Issue, block

(* A deletion takes at most one number out of use, and so does a rename.   *)
LEMMA Removal ==
  ASSUME IInv, Next, servedBar' = servedBar, NEW i \in Ids, i \notin Ids',
         Ids \ {i} \subseteq Ids',
         \A s \in Series : \A n \in Counters :
           Format(s, n) \in Ids' => Format(s, n) \in Ids
  PROVE  [Register!RegisterNext]_(Register!registerVars)
<1>1. /\ numbersBar = [s \in Series |-> numbersBar[s]]
      /\ numbersBar' = [s \in Series |-> numbersBar'[s]]
  BY DEF numbersBar
<1>2. CASE \E s \in Series : \E n \in Counters : i = Format(s, n)
  <2>1. PICK s \in Series : \E n \in Counters : i = Format(s, n)
    BY <1>2
  <2>2. PICK n \in Counters : i = Format(s, n)
    BY <2>1
  <2>3. n \in numbersBar[s]
    BY <2>2, Numbers
  <2>4. ASSUME NEW t \in Series
        PROVE  numbersBar'[t] = IF t = s THEN numbersBar[s] \ {n}
                                ELSE numbersBar[t]
    <3>1. ASSUME NEW m \in Counters
          PROVE  Format(t, m) = i <=> t = s /\ m = n
      BY <2>2, SeriesApart
    <3>2. ASSUME NEW m \in Counters
          PROVE  Format(t, m) \in Ids' <=>
                   Format(t, m) \in Ids /\ ~(t = s /\ m = n)
      BY <3>1
    <3>3. QED
      BY <3>2, Numbers
  <2>5. numbersBar' = [numbersBar EXCEPT ![s] = numbersBar[s] \ {n}]
    BY <1>1, <2>4
  <2>6. QED
    BY <2>3, <2>5 DEF Register!RegisterNext, Register!Remove
<1>3. CASE \A s \in Series : \A n \in Counters : i # Format(s, n)
  <2>1. ASSUME NEW t \in Series PROVE numbersBar'[t] = numbersBar[t]
    BY <1>3, Numbers
  <2>2. numbersBar' = numbersBar
    BY <1>1, <2>1
  <2>3. QED
    BY <2>2 DEF Register!registerVars
<1>4. QED
  BY <1>2, <1>3

LEMMA RegisterStep ==
  IInv /\ Next => [Register!RegisterNext]_(Register!registerVars)
<1> SUFFICES ASSUME IInv, Next
             PROVE  [Register!RegisterNext]_(Register!registerVars)
  OBVIOUS
<1>1. CASE \E r \in Clients : Commit(r)
  BY <1>1, CommitIssues DEF Register!RegisterNext
<1>2. CASE \A r \in Clients : ~Commit(r)
  <2>1. servedBar' = servedBar
    BY <1>2, ServedStays
  <2>2. \A s \in Series : \A n \in Counters :
          Format(s, n) \in Ids' => Format(s, n) \in Ids
    BY <1>2, SeriesExclusive, OnlyCommits DEF Clients
  <2>3. CASE Ids \subseteq Ids'
    <3>1. \A s \in Series : numbersBar'[s] = numbersBar[s]
      BY <2>2, <2>3, Numbers
    <3>2. /\ numbersBar = [s \in Series |-> numbersBar[s]]
          /\ numbersBar' = [s \in Series |-> numbersBar'[s]]
      BY DEF numbersBar
    <3>3. numbersBar' = numbersBar
      BY <3>1, <3>2
    <3>4. QED
      BY <2>1, <3>3 DEF Register!registerVars
  <2>4. CASE ~(Ids \subseteq Ids')
    <3>1. \E i \in Ids : Delete(i) \/ \E new \in RenameTo : Rename(i, new)
      <4>1. ASSUME NEW r \in Requests, Serve(r) \/ Fail(r)
            PROVE  Ids \subseteq Ids'
        BY <4>1 DEF Serve, Lock, Count, InsertRow, Commit, Fetch, ReadBefore,
           Attempt, Trigger, InsertNumbered, Report, Fail, Insert, With, Ids
      <4>2. UNCHANGED devices => Ids \subseteq Ids'
        BY DEF Ids
      <4>3. QED
        BY <2>4, <4>1, <4>2 DEF Next, Quiet, vars
    <3>2. PICK i \in Ids : /\ Ids \ {i} \subseteq Ids'
      BY <3>1 DEF Delete, Rename, Ids
    <3>3. i \notin Ids'
      BY <2>4, <3>2
    <3>4. QED
      BY <2>1, <2>2, <3>2, <3>3, Removal
  <2>5. QED
    BY <2>3, <2>4
<1>3. QED
  BY <1>1, <1>2

(* Creations, renames and deletions that overlap in any way are, seen      *)
(* through the committed IDs, operations of the register that follow one   *)
(* another: each creation takes effect as a whole, when it commits.        *)
THEOREM CreationImplementsRegister == Spec => ImplementsRegister
<1>1. Init => Register!RegisterInit
  <2> SUFFICES ASSUME Init PROVE Register!RegisterInit
    OBVIOUS
  <2>1. servedBar = {}
    BY DEF Init, servedBar, Clients
  <2>2. numbersBar \in [Series -> SUBSET (0 .. MaxCounter)]
    BY DEF numbersBar
  <2>3. QED
    BY <2>1, <2>2 DEF Register!RegisterInit
<1>2. IInv /\ [Next]_vars => [Register!RegisterNext]_(Register!registerVars)
  <2>1. UNCHANGED vars => UNCHANGED Register!registerVars
    BY DEF vars, Register!registerVars, numbersBar, servedBar, Ids, InTx
  <2>2. QED
    BY <2>1, RegisterStep
<1>3. QED
  BY <1>1, <1>2, Inductive, PTL
  DEF Spec, ImplementsRegister, Register!RegisterSpec
=============================================================================
