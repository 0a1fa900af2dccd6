------------------------------ MODULE DeviceIds ------------------------------
(***************************************************************************)
(* How devices get their IDs.  Three paths insert them, and they do not    *)
(* exclude one another:                                                    *)
(*                                                                         *)
(*  - CreateDevices (services/device_admin_service.go): one transaction,   *)
(*    an advisory lock on the prefix, MAX + 1 under it;                    *)
(*  - CreateDevicesForProduct (handlers/product_handlers.go) with a manual *)
(*    prefix: single statements, candidates until one is free;             *)
(*  - the same handler without one: INSERTs without an ID, numbered by the *)
(*    trigger of migration 030.                                            *)
(*                                                                         *)
(* Renames and deletions go on beside them.  An ID is a sequence of        *)
(* characters, because whether one prefix begins another decides what      *)
(* LIKE finds.  A request is served once, and only the columns deviceID    *)
(* and productID are kept.                                                 *)
(***************************************************************************)
EXTENDS Integers, SequencesExt

CONSTANTS
  Requests,   \* requests that create devices
  Ask,        \* what each asks for, see Asks
  Products,
  Stem,       \* subcategory abbreviation and pos_in_category; <<>> without one
  Fallback,   \* "P" and the productID
  Starts,     \* which requests arrive, and the devices there are before
  RenameTo,   \* the IDs a rename may ask for
  Chars,
  MaxCounter, \* the largest BIGINT
  Width,      \* digits a counter is padded to, and the trigger looks at
  Attempts,   \* candidates tried for one device
  Decimal(_), \* a counter as text, padded to Width
  Value(_)    \* the counter a text stands for; any other value if none

Text == Seq(Chars)
Asks == [via: {"service", "handler"}, product: Products, prefix: Text,
         quantity: Nat \ {0}, start: 1..MaxCounter]
Counters == 0..MaxCounter

ASSUME IdsAssumption ==
  /\ MaxCounter \in Nat /\ Width \in Nat \ {0} /\ Attempts \in Nat \ {0}
  /\ Ask \in [Requests -> Asks] /\ RenameTo \subseteq Text
  /\ Stem \in [Products -> Text] /\ Fallback \in [Products -> Text]
  /\ \A n \in Counters : /\ Decimal(n) \in Text /\ Len(Decimal(n)) >= Width
                           /\ Value(Decimal(n)) = n
  /\ \A s \in Starts :
       /\ s.asked \subseteq Requests
       /\ DOMAIN s.devices \subseteq Text
       /\ s.devices \in [DOMAIN s.devices -> Products]

VARIABLES
  devices,  \* committed rows: deviceID -> productID
  pc,       \* where a request is
  made,     \* IDs a request has inserted
  left,     \* devices it has yet to insert
  next,     \* nextCounter, nextManualCounter, next_counter
  tries,    \* attempts left for the current device
  before,   \* existingIDsBefore
  used,     \* usedIDs
  report,   \* the devices the answer lists, and that get a label
  outcome   \* how the request ended

local == <<left, next, tries>>
seen  == <<before, used>>
vars  == <<devices, pc, made, local, seen, report, outcome>>

Service(r) == Ask[r].via = "service"

\* DeriveDeviceIDPrefix; the handler comes to the same prefix.
PrefixOf(r) ==
  LET derived == Stem[Ask[r].product]
  IN  IF Ask[r].prefix # <<>> THEN Ask[r].prefix
      ELSE IF derived # <<>> THEN derived
      ELSE Fallback[Ask[r].product]

\* The handler leaves the ID to the trigger: no usable prefix was given and
\* the product has an abbreviation.
ByTrigger(r) ==
  ~Service(r) /\ Ask[r].prefix = <<>> /\ Stem[Ask[r].product] # <<>>
Manual(r) == ~Service(r) /\ ~ByTrigger(r)

\* "%s%03d"
Format(p, n) == p \o Decimal(n)

\* LPAD cuts a longer text off on the right.
TriggerFormat(p, n) == p \o SubSeq(Decimal(n), 1, Width)

\* A text that is no number, or not one of a BIGINT's size, counts as 0.
CounterOf(text) == IF Value(text) \in Counters THEN Value(text) ELSE 0
Suffix(p, id)   == SubSeq(id, Len(p) + 1, Len(id))

\* Mutant: COUNT(*) instead of MAX.
CountRows(p, ids, t) == t = Cardinality({id \in ids : IsPrefix(p, id)})

\* t is the highest counter behind prefix p in ids, 0 if there is none.
Highest(p, ids, t) ==
  /\ \A id \in ids : IsPrefix(p, id) => CounterOf(Suffix(p, id)) <= t
  /\ t = 0 \/ \E id \in ids : IsPrefix(p, id) /\ t = CounterOf(Suffix(p, id))

\* The same for the trigger, which looks at the last Width characters only.
HighestByTrigger(p, ids, t) ==
  LET last(id) == SubSeq(id, IF Len(id) < Width THEN 1 ELSE Len(id) - Width + 1,
                         Len(id))
  IN  /\ \A id \in ids : IsPrefix(p, id) => CounterOf(last(id)) <= t
      /\ t = 0 \/ \E id \in ids : IsPrefix(p, id) /\ t = CounterOf(last(id))

Ids == DOMAIN devices
IdsOf(product) == {id \in Ids : devices[id] = product}
With(ids, product) ==
  [id \in Ids \cup ids |-> IF id \in ids THEN product ELSE devices[id]]

\* Inserted by a transaction that is still open: a statement that inserts the
\* same ID waits for it to end.
InTx(r) == Service(r) /\ pc[r] = "insert"
Held(id) == \E r \in Requests : InTx(r) /\ id \in made[r]

Init ==
  /\ \E s \in Starts :
       /\ devices = s.devices
       /\ pc = [r \in Requests |-> IF r \in s.asked THEN "idle" ELSE "done"]
       /\ outcome =
            [r \in Requests |-> IF r \in s.asked THEN "none" ELSE "absent"]
  /\ made = [r \in Requests |-> {}]
  /\ left = [r \in Requests |-> 0]
  /\ next = [r \in Requests |-> 0]
  /\ tries = [r \in Requests |-> Attempts]
  /\ before = [r \in Requests |-> {}]
  /\ used = [r \in Requests |-> {}]
  /\ report = [r \in Requests |-> {}]

Goto(r, l) == pc' = [pc EXCEPT ![r] = l]
End(r, how) == Goto(r, "done") /\ outcome' = [outcome EXCEPT ![r] = how]

-----------------------------------------------------------------------------
(* CreateDevices.  A request waits its turn for the lock of its prefix;    *)
(* the lock is held to the end of the transaction.                         *)

\* Mutant: the lock is not taken.
NoLock(r) ==
  /\ pc[r] = "idle" /\ Service(r)
  /\ Goto(r, "count")
  /\ UNCHANGED <<devices, made, local, seen, report, outcome>>

\* Mutant: the lock belongs to the session and outlives the transaction.
LockedForever(r) == Service(r) /\ pc[r] # "idle"

Locked(r) == Service(r) /\ pc[r] \in {"count", "insert"}

Lock(r) ==
  /\ pc[r] = "idle" /\ Service(r)
  /\ ~\E o \in Requests \ {r} : Locked(o) /\ PrefixOf(o) = PrefixOf(r)
  /\ Goto(r, "count")
  /\ UNCHANGED <<devices, made, local, seen, report, outcome>>

\* Bound: counters stay below MaxCounter; the code would fail or wrap around.
Count(r) ==
  /\ pc[r] = "count"
  /\ \E t \in Counters :
       /\ Highest(PrefixOf(r), Ids, t)
       /\ t + Ask[r].quantity < MaxCounter
       /\ next' = [next EXCEPT ![r] = t + 1]
  /\ left' = [left EXCEPT ![r] = Ask[r].quantity]
  /\ Goto(r, "insert")
  /\ UNCHANGED <<devices, made, tries, seen, report, outcome>>

\* Mutant: no transaction, every INSERT is committed by itself.
InsertAlone(r) ==
  LET id == Format(PrefixOf(r), next[r])
  IN  /\ InTx(r) /\ left[r] > 0
      /\ ~Held(id) /\ id \notin Ids
      /\ devices' = With({id}, Ask[r].product)
      /\ made' = [made EXCEPT ![r] = @ \cup {id}]
      /\ next' = [next EXCEPT ![r] = @ + 1]
      /\ left' = [left EXCEPT ![r] = @ - 1]
      /\ UNCHANGED <<pc, outcome, tries, seen, report>>

\* One INSERT; a duplicate key aborts the transaction and the request.
InsertRow(r) ==
  LET id == Format(PrefixOf(r), next[r])
  IN  /\ InTx(r) /\ left[r] > 0
      /\ ~Held(id)
      /\ \/ /\ id \in Ids
            /\ made' = [made EXCEPT ![r] = {}]
            /\ End(r, "collided")
            /\ UNCHANGED local
         \/ /\ id \notin Ids
            /\ made' = [made EXCEPT ![r] = @ \cup {id}]
            /\ next' = [next EXCEPT ![r] = @ + 1]
            /\ left' = [left EXCEPT ![r] = @ - 1]
            /\ UNCHANGED <<pc, outcome, tries>>
      /\ UNCHANGED <<devices, seen, report>>

Commit(r) ==
  /\ InTx(r) /\ left[r] = 0
  /\ devices' = With(made[r], Ask[r].product)
  /\ Goto(r, "fetch")
  /\ UNCHANGED <<made, local, seen, report, outcome>>

\* FetchDevice for each: one that is gone by now makes the request fail.
Fetch(r) ==
  /\ pc[r] = "fetch"
  /\ \/ /\ made[r] \subseteq Ids
        /\ report' = [report EXCEPT ![r] = made[r]]
        /\ End(r, "ok")
     \/ /\ ~(made[r] \subseteq Ids)
        /\ End(r, "failed")
        /\ UNCHANGED report
  /\ UNCHANGED <<devices, made, local, seen>>

\* A statement fails, or the client has gone: the transaction is rolled back
\* if it is still open.
Fail(r) ==
  /\ Service(r) \/ pc[r] = "idle"
  /\ pc[r] # "done"
  /\ made' = [made EXCEPT ![r] = IF pc[r] = "fetch" THEN @ ELSE {}]
  /\ End(r, "failed")
  /\ UNCHANGED <<devices, local, seen, report>>

-----------------------------------------------------------------------------
(* CreateDevicesForProduct: no transaction, every INSERT is visible at     *)
(* once.  Its two reads of the product's devices may fail or break off     *)
(* after some rows; the handler takes what it got.                         *)

ReadBefore(r) ==
  /\ pc[r] = "idle" /\ ~Service(r)
  /\ \E ids \in SUBSET IdsOf(Ask[r].product) :
       /\ before' = [before EXCEPT ![r] = ids]
       /\ used' = [used EXCEPT ![r] = ids]
  /\ next' = [next EXCEPT ![r] = Ask[r].start]
  /\ left' = [left EXCEPT ![r] = Ask[r].quantity]
  /\ Goto(r, "insert")
  /\ UNCHANGED <<devices, made, tries, report, outcome>>

\* Mutant: a device that was given up is counted twice.
AdvanceTwice(r) ==
  /\ left' = [left EXCEPT ![r] = @ - 2]
  /\ tries' = [tries EXCEPT ![r] = Attempts]

\* The next device, after this one was inserted or given up.
Advance(r) ==
  /\ left' = [left EXCEPT ![r] = @ - 1]
  /\ tries' = [tries EXCEPT ![r] = Attempts]

Insert(r, id) ==
  /\ devices' = With({id}, Ask[r].product)
  /\ made' = [made EXCEPT ![r] = @ \cup {id}]

\* One attempt of the inner loop: the candidate is known or turns out to be
\* taken, or it is inserted, or the INSERT fails otherwise.
Attempt(r) ==
  LET id == Format(PrefixOf(r), next[r])
      taken == id \in used[r] \cup Ids
  IN  /\ Manual(r) /\ pc[r] = "insert" /\ left[r] > 0
      /\ next[r] < MaxCounter                                       \* bound
      /\ id \in used[r] \/ ~Held(id)
      /\ next' = [next EXCEPT ![r] = @ + 1]
      /\ \/ /\ taken
            /\ used' = [used EXCEPT ![r] = @ \cup {id}]
            /\ \/ /\ tries[r] > 1
                  /\ tries' = [tries EXCEPT ![r] = @ - 1]
                  /\ UNCHANGED left
               \/ tries[r] = 1 /\ Advance(r)
            /\ UNCHANGED <<devices, made>>
         \/ /\ ~taken
            /\ used' = [used EXCEPT ![r] = @ \cup {id}]
            /\ Insert(r, id) /\ Advance(r)
         \/ /\ id \notin used[r]
            /\ Advance(r)
            /\ UNCHANGED <<devices, made, used>>
      /\ UNCHANGED <<pc, before, report, outcome>>

\* The trigger has chosen an ID, which the INSERT has yet to enter.
Trigger(r) ==
  /\ ByTrigger(r) /\ pc[r] = "insert" /\ left[r] > 0
  /\ \E t \in Counters :
       /\ HighestByTrigger(PrefixOf(r), Ids, t) /\ t < MaxCounter
       /\ next' = [next EXCEPT ![r] = t + 1]
  /\ Goto(r, "numbered")
  /\ UNCHANGED <<devices, made, left, tries, seen, report, outcome>>

InsertNumbered(r) ==
  LET id == TriggerFormat(PrefixOf(r), next[r])
  IN  /\ pc[r] = "numbered"
      /\ ~Held(id)
      /\ \/ id \notin Ids /\ Insert(r, id)
         \/ UNCHANGED <<devices, made>>       \* a duplicate, or an error
      /\ Advance(r)
      /\ Goto(r, "insert")
      /\ UNCHANGED <<next, seen, report, outcome>>

\* Mutant: usedIDs is existingIDsBefore itself, not a copy of it.
ReportUnused(r) ==
  /\ ~Service(r) /\ pc[r] = "insert" /\ left[r] = 0
  /\ LET ids == IdsOf(Ask[r].product) \ used[r]
     IN  /\ report' = [report EXCEPT ![r] = ids]
         /\ End(r, IF ids = {} THEN "failed" ELSE "ok")
  /\ UNCHANGED <<devices, made, local, seen>>

\* The devices of the product that were not there before, whoever made them.
\* "partial" is a success whose read broke off, which nobody notices.
Report(r) ==
  /\ ~Service(r) /\ pc[r] = "insert" /\ left[r] = 0
  /\ \E ids \in SUBSET IdsOf(Ask[r].product) :
       /\ report' = [report EXCEPT ![r] = ids \ before[r]]
       /\ End(r, IF ids \subseteq before[r] THEN "failed"
                 ELSE IF ids = IdsOf(Ask[r].product) THEN "ok" ELSE "partial")
  /\ UNCHANGED <<devices, made, local, seen>>

-----------------------------------------------------------------------------
(* UpdateDevice with a new ID and DeleteDevice: a transaction on one row   *)
(* each, which takes no advisory lock.  What they do once every request   *)
(* is answered is of no interest here.                                     *)

Serving == \E r \in Requests : pc[r] # "done"

Rename(id, new) ==
  /\ Serving
  /\ new \notin Ids /\ ~Held(new)
  /\ devices' = [i \in (Ids \ {id}) \cup {new} |->
                   devices[IF i = new THEN id ELSE i]]
  /\ UNCHANGED <<pc, made, local, seen, report, outcome>>

Delete(id) ==
  /\ Serving
  /\ devices' = [i \in Ids \ {id} |-> devices[i]]
  /\ UNCHANGED <<pc, made, local, seen, report, outcome>>

-----------------------------------------------------------------------------
Serve(r) ==
  \/ Lock(r) \/ Count(r) \/ InsertRow(r) \/ Commit(r) \/ Fetch(r)
  \/ ReadBefore(r) \/ Attempt(r) \/ Trigger(r) \/ InsertNumbered(r) \/ Report(r)

Quiet == ~Serving /\ UNCHANGED vars

Next ==
  \/ \E r \in Requests : Serve(r) \/ Fail(r)
  \/ \E id \in Ids : Delete(id) \/ \E new \in RenameTo : Rename(id, new)
  \/ Quiet

Spec == Init /\ [][Next]_vars

\* A waiter of the advisory lock or of a unique key is woken in turn; nothing
\* makes a failure, a rename or a deletion happen.
FairSpec == Spec /\ \A r \in Requests : WF_vars(Serve(r))

-----------------------------------------------------------------------------
(* Properties.                                                             *)

TypeOK ==
  /\ Ids \in SUBSET Text /\ devices \in [Ids -> Products]
  /\ pc \in [Requests -> {"idle", "count", "insert", "fetch", "numbered",
                          "done"}]
  /\ outcome \in [Requests -> {"absent", "none", "ok", "partial", "failed",
                               "collided"}]
  /\ left \in [Requests -> Nat] /\ next \in [Requests -> 0..MaxCounter]
  /\ tries \in [Requests -> 1..Attempts]
  /\ made \in [Requests -> SUBSET Text] /\ before \in [Requests -> SUBSET Text]
  /\ used \in [Requests -> SUBSET Text] /\ report \in [Requests -> SUBSET Text]

\* The IDs of prefix p, and a prefix whose IDs only CreateDevices makes.
Own(p) == {Format(p, n) : n \in Counters}
Exclusive(p) ==
  /\ RenameTo \cap Own(p) = {}
  /\ \A r \in Requests :
       IF PrefixOf(r) = p THEN Service(r)
       ELSE \A n \in Counters : /\ Format(PrefixOf(r), n) \notin Own(p)
                                /\ TriggerFormat(PrefixOf(r), n) \notin Own(p)

(* CreateDevices never runs into a duplicate key while only CreateDevices  *)
(* makes IDs of that prefix, however many requests there are and whatever  *)
(* is renamed or deleted between MAX and the last INSERT.                  *)
NoCollision ==
  \A r \in Requests :
    outcome[r] = "collided" => ~(Service(r) /\ Exclusive(PrefixOf(r)))

(* Its devices are numbered in the order they are committed: a number is   *)
(* above those of all devices there are, so a label in use is never        *)
(* followed by an older number of the same prefix.                         *)
CommittedInOrder ==
  [][\A r \in Requests :
       Commit(r) /\ Exclusive(PrefixOf(r)) =>
         \A n, m \in Counters :
           /\ Format(PrefixOf(r), n) \in Ids
           /\ Format(PrefixOf(r), m) \in made[r]
           => n < m]_vars

(* With manual IDs, every device the request made and that is still there  *)
(* is in a successful answer and gets its label, although the answer is    *)
(* the difference of two reads, the first may have broken off, and other   *)
(* requests insert, rename and delete between them.                        *)
ReportComplete ==
  [][\A r \in Requests :
       Manual(r) /\ outcome[r] = "none" /\ outcome'[r] = "ok" =>
         made[r] \cap IdsOf(Ask[r].product) \subseteq report'[r]]_vars

(* To whoever looks at the table of devices, CreateDevices is a register   *)
(* of numbers: of each prefix that only it makes IDs of, a request puts as *)
(* many numbers into use as it asked for, in one step, without a gap and   *)
(* above all in use; and however requests, renames and deletions overlap,  *)
(* no other step puts one into use.                                        *)
Clients == {r \in Requests : Exclusive(PrefixOf(r))}
Series == {PrefixOf(r) : r \in Clients}
\* Without arguments, so that TLC computes it once.
IdOf == [p \in Series |-> [n \in Counters |-> Format(p, n)]]
numbersBar == [p \in Series |-> {n \in Counters : IdOf[p][n] \in Ids}]
servedBar == {r \in Clients : ~InTx(r) /\ made[r] # {}}
Register ==
  INSTANCE NumberRegister WITH
    SeriesOf <- [r \in Clients |-> PrefixOf(r)],
    Wants <- [r \in Clients |-> Ask[r].quantity],
    MaxNumber <- MaxCounter, numbers <- numbersBar, served <- servedBar
ImplementsRegister == Register!RegisterSpec

(* Every request is answered: none waits forever for the lock of its       *)
(* prefix or for an ID another transaction has inserted, and the search    *)
(* for a free ID ends.                                                     *)
RequestsEnd == <>(\A r \in Requests : pc[r] = "done")

(* "acquires a pg_advisory_xact_lock keyed on a per-namespace FNV-32a hash *)
(* of the prefix to serialize concurrent allocation, then returns the next *)
(* available numeric counter for device IDs that start with prefix"        *)
CreationsNeverCollide ==
  \A r \in Requests : Service(r) => outcome[r] # "collided"

-----------------------------------------------------------------------------
(* What the safety properties rest on.                                     *)

\* Where a request can be, and what it has done there.
PathInv ==
  \A r \in Requests :
    /\ pc[r] \in {"count", "fetch"} => Service(r)
    /\ pc[r] = "numbered" => ByTrigger(r) /\ left[r] > 0
    /\ pc[r] \in {"idle", "count"} => made[r] = {}
    /\ InTx(r) => /\ next[r] + left[r] <= MaxCounter
                  /\ made[r] \subseteq Own(PrefixOf(r))

\* The advisory lock excludes requests of one prefix from each other.
LockInv ==
  \A r, o \in Requests :
    Locked(r) /\ Locked(o) /\ PrefixOf(r) = PrefixOf(o) => r = o

\* While a request holds the lock, whatever is committed under its prefix is
\* numbered below what it has inserted and below what it will insert.
FreshInv ==
  \A r \in Requests : InTx(r) /\ Exclusive(PrefixOf(r)) =>
    \A n \in Counters : Format(PrefixOf(r), n) \in Ids =>
      /\ n < next[r]
      /\ \A m \in Counters : Format(PrefixOf(r), m) \in made[r] => n < m

\* A manual request makes no ID that its first read had found.
NewInv ==
  \A r \in Requests :
    Manual(r) => before[r] \subseteq used[r] /\ made[r] \cap before[r] = {}

\* The first number a transaction inserts; what it has inserted so far are the
\* numbers from there to the next one.
First(r) == next[r] + left[r] - Ask[r].quantity
BlockInv ==
  \A r \in Requests : InTx(r) =>
    /\ 1 <= First(r) /\ First(r) <= next[r]
    /\ made[r] = {Format(PrefixOf(r), n) : n \in First(r) .. next[r] - 1}

IInv ==
  /\ TypeOK /\ PathInv /\ LockInv /\ FreshInv /\ BlockInv /\ NewInv
  /\ NoCollision
=============================================================================
