-------------------------- MODULE ConsumableStock --------------------------
(***************************************************************************)
(* The stock of one consumable or accessory product: consumable scans      *)
(* (processConsumable... in internal/services/scan_service.go) and the     *)
(* stock correction of UpdateProduct (internal/handlers/                   *)
(* product_handlers.go).  Statements about different products touch        *)
(* different rows, so one product stands for all.                          *)
(*                                                                         *)
(* A location is a product_locations row; its zone may be NULL.  The sum   *)
(* over the locations is kept in products.stock_quantity as well; there    *)
(* CreateProduct stores what it is told, without a location.               *)
(* PostgreSQL runs at READ COMMITTED: a statement reads what is committed  *)
(* when it starts, and its own transaction's writes; the row it updates is *)
(* re-read after a lock wait, a subquery over other rows is not.           *)
(***************************************************************************)
EXTENDS Sums

CONSTANTS
  Scans,      \* consumable scans, each served once
  Edits,      \* UpdateProduct requests for the product, each served once
  Zones,
  MaxQty,     \* largest quantity of a request
  Initial,    \* stocks to start from: [location -> quantity], Nil without a row
  Opening,    \* products.stock_quantity to start from
  Nil         \* NULL, an absent field, a free lock

Locs == Zones \cup {Nil}

Txs == Scans \cup Edits
Request == [action: {"intake", "outtake"}, zone: Locs, q: 1 .. MaxQty]
             \cup [action: {"edit"}, q: (0 .. MaxQty) \cup {Nil}]

\* "none" stands for a location that is not known yet.
ASSUME StockAssumption ==
  /\ IsFiniteSet(Zones)
  /\ Scans \cap Edits = {}
  /\ MaxQty \in Nat \ {0}
  /\ Nil \notin Int \cup Zones \cup Txs \cup Request
  /\ "none" \notin Locs
  /\ Initial \subseteq [Locs -> Nat \cup {Nil}]
  /\ Opening \subseteq Int

VARIABLES
  pc,        \* where each request is
  req,       \* the request
  loc,       \* the location it works on, "none" before it is known
  read,      \* the quantity or total it has read
  qty,       \* committed product_locations
  stock,     \* committed products.stock_quantity
  start,     \* qty at the start; it never changes
  locLock,   \* the transaction that has written the product_locations row
  prodLock,  \* the transaction that has written the products row
  sum,       \* the stock_quantity a transaction has computed or written
  done       \* requests whose transaction has committed

reqVars == <<pc, req, loc, read>>
dbVars  == <<qty, stock, start, locLock, prodLock, sum, done>>
vars == <<reqVars, dbVars>>

Steps == {"select", "check", "write", "compare", "locate", "total", "store", "commit"}
Final == {"ok", "refused", "rejected", "failed"}

Amount(x) == IF x = Nil THEN 0 ELSE x
Total(f)  == SumOf([l \in Locs |-> Amount(f[l])], Locs)
Rows      == {l \in Locs : qty[l] # Nil}

\* What a transaction adds to its location; seen by others once committed.
Delta(t) ==
  CASE req[t].action = "intake"  -> req[t].q
    [] req[t].action = "outtake" -> -req[t].q
    [] req[t].action = "edit"    -> req[t].q

\* product_locations as transaction t sees it.
View(t)  == [l \in Locs |-> IF locLock[l] = t THEN Amount(qty[l]) + Delta(t) ELSE qty[l]]

Init ==
  /\ pc = [t \in Txs |-> "idle"]
  /\ req = [t \in Txs |-> Nil]
  /\ loc = [t \in Txs |-> "none"]
  /\ read = [t \in Txs |-> 0]
  /\ start \in Initial
  /\ qty = start /\ stock \in Opening
  /\ locLock = [l \in Locs |-> Nil]
  /\ prodLock = Nil
  /\ sum = [t \in Txs |-> 0]
  /\ done = {}

Goto(t, p) == pc' = [pc EXCEPT ![t] = p]

-----------------------------------------------------------------------------
(* Consumable scans.                                                       *)

\* A scan without the zone an intake needs, or with an unknown action, is
\* refused before anything is read.
Begin(s) ==
  /\ pc[s] = "idle" /\ s \in Scans
  /\ \E r \in Request :
       /\ r.action \in {"intake", "outtake"}
       /\ r.action = "intake" => r.zone # Nil
       /\ req' = [req EXCEPT ![s] = r]
       /\ loc' = [loc EXCEPT ![s] = IF r.zone = Nil THEN "none" ELSE r.zone]
       /\ Goto(s, CASE r.action = "intake" -> "write"
                    [] r.action = "outtake" /\ r.zone = Nil -> "select"
                    [] OTHER -> "check")
  /\ UNCHANGED <<read, dbVars>>

Refuse(s) == Goto(s, "refused")

\* No zone: the location with the most stock, among those with enough.
SelectZone(s) ==
  LET enough == {l \in Rows : qty[l] >= req[s].q} IN
  /\ pc[s] = "select"
  /\ \/ /\ enough = {} /\ Refuse(s)
        /\ UNCHANGED <<loc, read>>
     \/ /\ \E l \in enough :
             /\ \A k \in enough : qty[l] >= qty[k]
             /\ loc' = [loc EXCEPT ![s] = l]
             /\ read' = [read EXCEPT ![s] = qty[l]]
        /\ Goto(s, "write")
  /\ UNCHANGED <<req, dbVars>>

\* A zone: its quantity, 0 without a row.
CheckZone(s) ==
  /\ pc[s] = "check"
  /\ read' = [read EXCEPT ![s] = Amount(qty[loc[s]])]
  /\ IF read'[s] < req[s].q THEN Refuse(s) ELSE Goto(s, "write")
  /\ UNCHANGED <<req, loc, dbVars>>

\* Mutant: the location is written outside the transaction.
WriteOutsideTx(s) ==
  /\ pc[s] = "write" /\ locLock[loc[s]] = Nil
  /\ qty' = [qty EXCEPT ![loc[s]] = Amount(@) + Delta(s)]
  /\ Goto(s, "total")
  /\ UNCHANGED <<start, req, loc, read, stock, locLock, prodLock, sum, done>>

\* The upsert of an intake, the UPDATE of an outtake: relative to the row as
\* it is under the lock, whatever was read before.
WriteLocation(s) ==
  /\ pc[s] = "write" /\ locLock[loc[s]] = Nil
  /\ IF req[s].action = "outtake" /\ qty[loc[s]] = Nil
     THEN Refuse(s) /\ UNCHANGED locLock
     ELSE Goto(s, "total") /\ locLock' = [locLock EXCEPT ![loc[s]] = s]
  /\ UNCHANGED <<start, req, loc, read, qty, stock, prodLock, sum, done>>

\* Mutant: the total leaves out the transaction's own write.
ReadTotalBefore(s) ==
  /\ pc[s] = "total"
  /\ sum' = [sum EXCEPT ![s] = Total(qty)]
  /\ Goto(s, "store")
  /\ UNCHANGED <<start, req, loc, read, qty, stock, locLock, prodLock, done>>

\* The UPDATE of stock_quantity: its subquery sums what the statement sees ...
ReadTotal(s) ==
  /\ pc[s] = "total"
  /\ sum' = [sum EXCEPT ![s] = Total(View(s))]
  /\ Goto(s, "store")
  /\ UNCHANGED <<start, req, loc, read, qty, stock, locLock, prodLock, done>>

\* ... and the sum is written once the products row is free.
StoreTotal(s) ==
  /\ pc[s] = "store" /\ prodLock \in {Nil, s}
  /\ prodLock' = s
  /\ Goto(s, "commit")
  /\ UNCHANGED <<start, req, loc, read, qty, stock, locLock, sum, done>>

-----------------------------------------------------------------------------
(* UpdateProduct for a consumable.  The row of products is written first.  *)

BeginEdit(e) ==
  /\ pc[e] = "idle" /\ e \in Edits
  /\ prodLock = Nil
  /\ \E r \in Request : r.action = "edit" /\ req' = [req EXCEPT ![e] = r]
  /\ prodLock' = e
  /\ Goto(e, IF req'[e].q = Nil THEN "total" ELSE "compare")
  /\ UNCHANGED <<start, loc, read, qty, stock, locLock, sum, done>>

Compare(e) ==
  /\ pc[e] = "compare"
  /\ read' = [read EXCEPT ![e] = Total(qty)]
  /\ Goto(e, IF read'[e] = req[e].q THEN "total" ELSE "locate")
  /\ UNCHANGED <<req, loc, dbVars>>

\* Mutant: with an operator PostgreSQL knows, the fullest location is updated.
LocateFullest(e) ==
  /\ pc[e] = "locate"
  /\ \E l \in IF Rows = {} THEN {Nil} ELSE Rows :
       /\ \A k \in Rows : qty[l] >= qty[k]
       /\ locLock[l] = Nil
       /\ locLock' = [locLock EXCEPT ![l] = e]
       /\ loc' = [loc EXCEPT ![e] = l]
       /\ req' = [req EXCEPT ![e].q = @ - read[e]]
  /\ Goto(e, "total")
  /\ UNCHANGED <<start, read, qty, stock, prodLock, sum, done>>

\* Without a location the whole quantity goes to one whose zone is NULL.
\* Otherwise the UPDATE compares zone_id with <=>, which PostgreSQL rejects:
\* the transaction is aborted, and its COMMIT answered by a rollback.
Locate(e) ==
  /\ pc[e] = "locate"
  /\ \/ /\ Rows = {} /\ locLock[Nil] = Nil
        /\ locLock' = [locLock EXCEPT ![Nil] = e]
        /\ loc' = [loc EXCEPT ![e] = Nil]
        /\ Goto(e, "total")
        /\ UNCHANGED prodLock
     \/ /\ Rows # {}
        /\ prodLock' = Nil
        /\ Goto(e, "rejected")
        /\ UNCHANGED <<loc, locLock>>
  /\ UNCHANGED <<start, req, read, qty, stock, sum, done>>

-----------------------------------------------------------------------------
(* End of a transaction.                                                   *)

Unlock(t) ==
  /\ locLock' = [l \in Locs |-> IF locLock[l] = t THEN Nil ELSE locLock[l]]
  /\ prodLock' = IF prodLock = t THEN Nil ELSE prodLock

\* Mutant: an outtake writes back the quantity it had read, less its own.
CommitAbsolute(t) ==
  /\ pc[t] = "commit"
  /\ qty' = [l \in Locs |-> IF req[t].action = "outtake" /\ locLock[l] = t
                            THEN read[t] - req[t].q ELSE View(t)[l]]
  /\ stock' = sum[t]
  /\ done' = done \cup {t}
  /\ Unlock(t)
  /\ Goto(t, "ok")
  /\ UNCHANGED <<start, req, loc, read, sum>>

Commit(t) ==
  /\ pc[t] = "commit"
  /\ qty' = View(t)
  /\ stock' = sum[t]
  /\ done' = done \cup {t}
  /\ Unlock(t)
  /\ Goto(t, "ok")
  /\ UNCHANGED <<start, req, loc, read, sum>>

\* A statement or the commit fails, or the server dies.
Abort(t) ==
  /\ pc[t] \notin {"idle"} \cup Final
  /\ Unlock(t)
  /\ Goto(t, "failed")
  /\ UNCHANGED <<start, req, loc, read, qty, stock, sum, done>>

Run(t) ==
  \/ SelectZone(t) \/ CheckZone(t) \/ WriteLocation(t)
  \/ Compare(t) \/ Locate(t)
  \/ ReadTotal(t) \/ StoreTotal(t) \/ Commit(t)

Next ==
  \/ \E t \in Txs : Begin(t) \/ BeginEdit(t) \/ Run(t) \/ Abort(t)
  \/ (\A t \in Txs : pc[t] \in Final) /\ UNCHANGED vars

Spec == Init /\ [][Next]_vars

\* PostgreSQL queues the waiters for a row, so a begun request goes on.
FairSpec == Spec /\ \A t \in Txs : SF_vars(Run(t))

-----------------------------------------------------------------------------
(* Properties.                                                             *)

TypeOK ==
  /\ pc \in [Txs -> {"idle"} \cup Steps \cup Final]
  /\ req \in [Txs -> Request \cup {Nil}]
  /\ \A t \in Txs : pc[t] # "idle" => req[t] # Nil
  /\ loc \in [Txs -> Locs \cup {"none"}]
  /\ read \in [Txs -> Int] /\ sum \in [Txs -> Int]
  /\ qty \in [Locs -> Int \cup {Nil}] /\ start \in Initial /\ stock \in Int
  /\ locLock \in [Locs -> Txs \cup {Nil}] /\ prodLock \in Txs \cup {Nil}
  /\ \A t \in Txs : pc[t] \in {"store", "commit"} /\ t \in Scans => locLock[loc[t]] = t
  /\ done \in SUBSET Txs

(* No movement of stock is lost or counted twice, however requests overlap *)
(* and fail: each location holds what it held at first, plus and minus     *)
(* what the committed requests moved there.                                *)
NoMovementLost ==
  \A l \in Locs :
    Amount(qty[l]) = Amount(start[l])
                       + SumOf([t \in done |-> Delta(t)], {t \in done : loc[t] = l})

(* "Also update products.stock_quantity to keep it in sync (calculated     *)
(* from sum)": the two records of the stock agree.                         *)
StockInSync == stock = Total(qty)

(* What is left of it, whatever CreateProduct has stored: from the first   *)
(* commit of a scan or a correction on, the records agree while the product*)
(* is kept in one place, however its scans, first intakes and corrections  *)
(* overlap and fail.                                                       *)
SyncInOnePlace == done # {} /\ Cardinality(Rows) <= 1 => StockInSync

(* Every begun request ends: scans take the location before the product, a *)
(* correction the product first, and still they never wait in a circle.    *)
RequestsEnd == \A t \in Txs : (pc[t] \in Steps) ~> (pc[t] \in Final)
=============================================================================
