-------------------------- MODULE WebClientProofs --------------------------
(***************************************************************************)
(* Proofs of what the forms, the selections, the thumbnails and the        *)
(* pictures of the web client promise, for any items and any number of     *)
(* handlers in flight.  Each page has an invariant of its own.  Then, of   *)
(* the pages of cases and the details of a product, what their state is    *)
(* (Ui), what a handler carries (Typed), and that both last (Types); of    *)
(* other pages WebClientWaitProofs has it.                                 *)
(***************************************************************************)
EXTENDS PageProofs

(***************************************************************************)
(* The devices tab: its selection, its form and what it waits for.         *)
(***************************************************************************)
Device == Devices \union {DevicesT!None}

\* The states of the tab.
DevicesFields ==
  ui \in [listed : SUBSET Devices, shown : SUBSET Devices,
          selected : SUBSET Devices, table : BOOLEAN, loading : BOOLEAN,
          refreshing : BOOLEAN, open : BOOLEAN, editing : Device, formOf : Device,
          scanField : BOOLEAN, submitting : BOOLEAN, view : Device,
          bulkOpen : BOOLEAN, sent : BOOLEAN]

\* A handler that this page has begun.
KnownCall(c) ==
  /\ "ask" \in DOMAIN c
  /\ c.ask \in {"list", "bulkDelete", "bulkEdit", "delete", "view", "edit", "save"}
  /\ c.ask = "list" => "from" \in DOMAIN c
  /\ c.ask \in {"view", "edit", "save"} => "of" \in DOMAIN c
  /\ "of" \in DOMAIN c => c.of \in Device
  /\ c.ask = "save" => "form" \in DOMAIN c /\ c.of = c.form

\* What the form would save goes to the device whose values are in it.
FormIsOfOne == ui.open => ui.editing = ui.formOf

\* A flag that is set has a handler that will reset it.
Loads(C) == \E c \in C : c.ask = "list"
Refreshes(C) == \E c \in C : c.ask = "list" /\ c.from = "refresh"
Submits(C) == \E c \in C : c.ask = "save" \/ (c.ask = "list" /\ c.from = "submit")
\* What it waits for is on the way.
DevicesWait ==
  /\ ui.loading => Loads(calls)
  /\ ui.refreshing => Refreshes(calls)
  /\ ui.submitting => Submits(calls)

\* The invariant that the steps of the tab keep.
DevicesInv ==
  /\ DevicesFields
  /\ \A c \in calls : KnownCall(c)
  /\ FormIsOfOne
  /\ DevicesT!SelectionIsShown
  /\ DevicesWait

\* What the tab does to its handlers is what ReactPage says.
LEMMA DevicesSameCount == DevicesT!Cardinality(calls) = Cardinality(calls)
BY DEF DevicesT!Cardinality, Cardinality

LEMMA DevicesSameBegins == \A h : DevicesT!Begins(h) <=> Begins(h)
BY DevicesSameCount
   DEF DevicesT!Begins, Begins, DevicesT!Joins, Joins, DevicesT!Again, Again,
       DevicesT!Busy, Busy

LEMMA DevicesSameEnds == \A h : DevicesT!Ends(h) <=> Ends(h)
BY DEF DevicesT!Ends, Ends, DevicesT!Without, Without, DevicesT!Again, Again

LEMMA DevicesSameGoesOnAs == \A h, next : DevicesT!GoesOnAs(h, next) <=> GoesOnAs(h, next)
BY DEF DevicesT!GoesOnAs, GoesOnAs, DevicesT!Joins, Joins, DevicesT!Without, Without,
       DevicesT!Again, Again

\* One that is like a known handler is known.
LEMMA LikeKnownCall ==
  ASSUME NEW c, NEW h, Like(c, h), KnownCall(h)
  PROVE  KnownCall(c)
BY DEF Like, KnownCall

\* The tab begins with its invariant.
LEMMA DevicesInits == DevicesT!Init => DevicesInv
<1>1. SUFFICES ASSUME DevicesT!Init PROVE DevicesInv
  OBVIOUS
<1>2. CASE ui = DevicesT!Mounted(FALSE) /\ calls = {DevicesT!Load("load")}
  BY <1>2 DEF DevicesInv, DevicesT!Mounted, DevicesT!Load, DevicesFields, Device,
              KnownCall, FormIsOfOne,
              DevicesT!SelectionIsShown, DevicesWait, Loads, Refreshes, Submits
<1>3. CASE \E d \in Devices :
             /\ ui = DevicesT!Mounted(TRUE)
             /\ calls = {DevicesT!Load("load"), [ask |-> "edit", of |-> d]}
  BY <1>3 DEF DevicesInv, DevicesT!Mounted, DevicesT!Load, DevicesFields, Device,
              KnownCall, FormIsOfOne,
              DevicesT!SelectionIsShown, DevicesWait, Loads, Refreshes, Submits
<1>4. QED
  BY <1>1, <1>2, <1>3 DEF DevicesT!Init

(***************************************************************************)
(* The steps.                                                              *)
(***************************************************************************)

\* Beginning a handler resets no flag and forgets no other handler.
LEMMA BeginKnown ==
  ASSUME NEW h, "again" \notin DOMAIN h, DevicesT!Begins(h), KnownCall(h), DevicesInv
  PROVE  /\ \A c \in calls' : KnownCall(c)
         /\ \E c \in calls' : Like(c, h)
         /\ Loads(calls) => Loads(calls')
         /\ Refreshes(calls) => Refreshes(calls')
         /\ Submits(calls) => Submits(calls')
<1>1. \A c \in calls' : KnownCall(c)
  BY DevicesSameBegins, Begun, LikeKnownCall DEF DevicesInv
<1>2. (\E c \in calls' : Like(c, h)) /\ calls \subseteq calls'
  BY DevicesSameBegins, Begun
<1>3. QED
  BY <1>1, <1>2 DEF Loads, Refreshes, Submits

\* What waits for other answers than the one that came is there still.
LEMMA OthersStay ==
  ASSUME NEW h, KnownCall(h), DevicesInv, \A c \in calls \ calls' : Like(c, h)
  PROVE  /\ Loads(calls) /\ h.ask # "list" => Loads(calls')
         /\ Refreshes(calls) /\ ~(h.ask = "list" /\ h.from = "refresh") => Refreshes(calls')
         /\ Submits(calls) /\ h.ask # "save" /\ ~(h.ask = "list" /\ h.from = "submit")
              => Submits(calls')
<1>1. \A c \in calls \ calls' : c.ask = h.ask /\ (h.ask = "list" => c.from = h.from)
  BY DEF Like, KnownCall
<1>2. QED
  BY <1>1 DEF Loads, Refreshes, Submits

\* Those that are left are known, and so is one that goes on.
LEMMA EndKnown ==
  ASSUME NEW h \in calls, "again" \notin DOMAIN h, DevicesT!Ends(h), DevicesInv
  PROVE  /\ \A c \in calls' : KnownCall(c)
         /\ \A c \in calls \ calls' : Like(c, h)
BY DevicesSameEnds, Ended DEF DevicesInv

LEMMA GoOnKnown ==
  ASSUME NEW h \in calls, NEW next, "again" \notin DOMAIN h, "again" \notin DOMAIN next,
         DevicesT!GoesOnAs(h, next), KnownCall(next), DevicesInv
  PROVE  /\ \A c \in calls' : KnownCall(c)
         /\ \E c \in calls' : Like(c, next)
         /\ \A c \in calls \ calls' : Like(c, h)
BY DevicesSameGoesOnAs, WentOn, LikeKnownCall DEF DevicesInv

\* Steps that leave the handlers alone, and the flags they reset.
LEMMA DevicesUserSteps ==
  ASSUME DevicesInv, UNCHANGED calls,
         \/ DevicesT!FilterChanged \/ DevicesT!setViewMode
         \/ DevicesT!toggleSelectAll \/ DevicesT!Deselect
         \/ DevicesT!OpenBulkEdit \/ DevicesT!CloseBulkEdit \/ DevicesT!CloseView
         \/ DevicesT!openCreateModal
         \/ DevicesT!EditDevice \/ DevicesT!ScanField
         \/ (DevicesT!CloseForm /\ ~ui.sent)
         \/ (\E d \in Devices : DevicesT!toggleDeviceSelection(d))
         \/ (DevicesT!handleBulkEditSubmit /\ ui' = [ui EXCEPT !.bulkOpen = FALSE])
  PROVE  DevicesInv'
<1> USE DEF DevicesInv, DevicesT!OnTheList, DevicesT!OnTheTable
<1>1. DevicesFields'
  <2>1. CASE DevicesT!FilterChanged
    BY <2>1 DEF DevicesFields, DevicesT!FilterChanged
  <2>2. CASE DevicesT!setViewMode \/ DevicesT!toggleSelectAll \/ DevicesT!Deselect
    BY <2>2, ZenonT(60) DEF DevicesFields, DevicesT!setViewMode, DevicesT!toggleSelectAll,
                DevicesT!Deselect
  <2>3. CASE \/ DevicesT!OpenBulkEdit \/ DevicesT!CloseBulkEdit
             \/ DevicesT!CloseView \/ DevicesT!openCreateModal
    BY <2>3, ZenonT(60) DEF DevicesFields, DevicesT!OpenBulkEdit, DevicesT!CloseBulkEdit,
                DevicesT!CloseView,
                DevicesT!openCreateModal, Device
  <2>4. CASE DevicesT!EditDevice
    BY <2>4, ZenonT(60) DEF DevicesFields, DevicesT!EditDevice, DevicesT!openEditModal, Device
  <2>5. CASE DevicesT!ScanField \/ (DevicesT!CloseForm /\ ~ui.sent)
    BY <2>5, ZenonT(60) DEF DevicesFields, DevicesT!ScanField, DevicesT!CloseForm
  <2>6. CASE \E d \in Devices : DevicesT!toggleDeviceSelection(d)
    BY <2>6, SMTT(60) DEF DevicesFields, DevicesT!toggleDeviceSelection
  <2>7. CASE DevicesT!handleBulkEditSubmit /\ ui' = [ui EXCEPT !.bulkOpen = FALSE]
    BY <2>7 DEF DevicesFields
  <2>8. QED
    BY <2>1, <2>2, <2>3, <2>4, <2>5, <2>6, <2>7
<1>2. FormIsOfOne'
  BY ZenonT(60) DEF FormIsOfOne, DevicesFields, DevicesT!FilterChanged, DevicesT!setViewMode,
         DevicesT!toggleSelectAll, DevicesT!Deselect, DevicesT!OpenBulkEdit,
         DevicesT!CloseBulkEdit, DevicesT!CloseView, DevicesT!openCreateModal,
         DevicesT!EditDevice, DevicesT!openEditModal, DevicesT!ScanField,
         DevicesT!CloseForm, DevicesT!toggleDeviceSelection
<1>3. DevicesT!SelectionIsShown'
  <2> USE DEF DevicesT!SelectionIsShown, DevicesFields
  <2>1. CASE DevicesT!FilterChanged \/ DevicesT!setViewMode \/ DevicesT!Deselect
    BY <2>1 DEF DevicesT!FilterChanged, DevicesT!setViewMode, DevicesT!Deselect
  <2>2. CASE DevicesT!toggleSelectAll
    BY <2>2 DEF DevicesT!toggleSelectAll
  <2>3. CASE \/ DevicesT!OpenBulkEdit \/ DevicesT!CloseBulkEdit
             \/ DevicesT!CloseView \/ DevicesT!openCreateModal
    BY <2>3 DEF DevicesT!OpenBulkEdit, DevicesT!CloseBulkEdit, DevicesT!CloseView,
                DevicesT!openCreateModal
  <2>4. CASE DevicesT!EditDevice
    BY <2>4 DEF DevicesT!EditDevice, DevicesT!openEditModal
  <2>5. CASE DevicesT!ScanField \/ (DevicesT!CloseForm /\ ~ui.sent)
    BY <2>5 DEF DevicesT!ScanField, DevicesT!CloseForm
  <2>6. CASE \E d \in Devices : DevicesT!toggleDeviceSelection(d)
    BY <2>6 DEF DevicesT!toggleDeviceSelection
  <2>7. CASE DevicesT!handleBulkEditSubmit /\ ui' = [ui EXCEPT !.bulkOpen = FALSE]
    BY <2>7
  <2>8. QED
    BY <2>1, <2>2, <2>3, <2>4, <2>5, <2>6, <2>7
<1>4. /\ ui'.loading = ui.loading
      /\ ui'.refreshing = ui.refreshing
      /\ ui'.submitting = ui.submitting
  BY DEF DevicesFields, DevicesT!FilterChanged, DevicesT!setViewMode,
         DevicesT!toggleSelectAll,
         DevicesT!Deselect, DevicesT!OpenBulkEdit, DevicesT!CloseBulkEdit,
         DevicesT!CloseView, DevicesT!openCreateModal, DevicesT!EditDevice,
         DevicesT!openEditModal, DevicesT!ScanField, DevicesT!CloseForm,
         DevicesT!toggleDeviceSelection
<1>5. QED
  BY <1>1, <1>2, <1>3, <1>4 DEF DevicesWait

\* DevicesSteps that begin a handler.
LEMMA DevicesBegin ==
  ASSUME DevicesInv,
         \/ DevicesT!handleRefresh \/ DevicesT!handleBulkDelete
         \/ DevicesT!handleDelete \/ DevicesT!handleSubmit
         \/ /\ DevicesT!handleBulkEditSubmit
            /\ DevicesT!Begins([ask |-> "bulkEdit"]) /\ UNCHANGED ui
         \/ (\E d \in Devices : DevicesT!handleViewDevice(d))
  PROVE  DevicesInv'
<1>1. CASE DevicesT!handleRefresh
  <2>1. KnownCall(DevicesT!Load("refresh")) /\ "again" \notin DOMAIN DevicesT!Load("refresh")
    BY DEF KnownCall, DevicesT!Load
  <2>2. DevicesT!Begins(DevicesT!Load("refresh"))
    BY <1>1 DEF DevicesT!handleRefresh
  <2>3. \E c \in calls' : c.ask = "list" /\ c.from = "refresh"
    BY <2>1, <2>2, BeginKnown DEF Like, DevicesT!Load
  <2>4. ui' = [ui EXCEPT !.loading = TRUE, !.refreshing = TRUE]
    BY <1>1 DEF DevicesT!handleRefresh
  <2>5. DevicesWait'
    BY <2>1, <2>2, <2>3, <2>4, BeginKnown DEF DevicesInv, DevicesWait, Loads,
                                              Refreshes, DevicesFields
  <2>6. QED
    BY <2>1, <2>2, <2>4, <2>5, BeginKnown
       DEF DevicesInv, DevicesFields, FormIsOfOne, DevicesT!SelectionIsShown
<1>2. CASE DevicesT!handleSubmit
  <2> DEFINE h == [ask |-> "save", of |-> ui.editing, form |-> ui.formOf]
  <2>1. KnownCall(h) /\ "again" \notin DOMAIN h
    BY <1>2 DEF DevicesT!handleSubmit, KnownCall, DevicesInv, FormIsOfOne, DevicesFields
  <2>2. DevicesT!Begins(h) /\ ui' = [ui EXCEPT !.submitting = TRUE]
    BY <1>2 DEF DevicesT!handleSubmit
  <2> HIDE DEF h
  <2>3. \E c \in calls' : c.ask = "save"
    BY <2>1, <2>2, BeginKnown DEF Like, h
  <2>4. DevicesWait'
    BY <2>1, <2>2, <2>3, BeginKnown DEF DevicesInv, DevicesWait, Submits, DevicesFields
  <2>5. QED
    BY <2>1, <2>2, <2>4, BeginKnown
       DEF DevicesInv, DevicesFields, FormIsOfOne, DevicesT!SelectionIsShown
<1>3. CASE /\ UNCHANGED ui
           /\ \E h : DevicesT!Begins(h) /\ KnownCall(h) /\ "again" \notin DOMAIN h
  BY <1>3, BeginKnown DEF DevicesInv, DevicesFields, FormIsOfOne,
                          DevicesT!SelectionIsShown, DevicesWait
<1>4. CASE DevicesT!handleBulkDelete
  <2>1. KnownCall([ask |-> "bulkDelete"]) /\ "again" \notin DOMAIN [ask |-> "bulkDelete"]
    BY DEF KnownCall
  <2>2. QED
    BY <1>3, <1>4, <2>1 DEF DevicesT!handleBulkDelete
<1>5. CASE DevicesT!handleDelete
  <2>1. KnownCall([ask |-> "delete"]) /\ "again" \notin DOMAIN [ask |-> "delete"]
    BY DEF KnownCall
  <2>2. QED
    BY <1>3, <1>5, <2>1 DEF DevicesT!handleDelete
<1>6. CASE DevicesT!handleBulkEditSubmit /\ DevicesT!Begins([ask |-> "bulkEdit"]) /\ UNCHANGED ui
  <2>1. KnownCall([ask |-> "bulkEdit"]) /\ "again" \notin DOMAIN [ask |-> "bulkEdit"]
    BY DEF KnownCall
  <2>2. QED
    BY <1>3, <1>6, <2>1
<1>7. CASE \E d \in Devices : DevicesT!handleViewDevice(d)
  <2>1. PICK d \in Devices : DevicesT!handleViewDevice(d)
    BY <1>7
  <2>2. /\ KnownCall([ask |-> "view", of |-> d])
        /\ "again" \notin DOMAIN [ask |-> "view", of |-> d]
    BY DEF KnownCall, Device
  <2>3. QED
    BY <1>3, <2>1, <2>2 DEF DevicesT!handleViewDevice
<1>8. QED
  BY <1>1, <1>2, <1>4, <1>5, <1>6, <1>7

\* The tab mounted anew has only its first load to wait for.
LEMMA DevicesLeave == DevicesT!Leave => DevicesInv'
BY DEF DevicesT!Leave, DevicesInv, DevicesT!Mounted, DevicesT!Load, DevicesFields,
       Device, KnownCall,
       FormIsOfOne, DevicesT!SelectionIsShown, DevicesWait, Loads, Refreshes, Submits

\* DevicesAnswers.
LEMMA DevicesAnswers ==
  ASSUME DevicesInv, NEW h \in calls, DevicesT!Answer(h)
  PROVE  DevicesInv'
<1> DEFINE load == DevicesT!Load("load")
           submit == DevicesT!Load("submit")
<1>0. /\ KnownCall(h) /\ "again" \notin DOMAIN h
      /\ KnownCall(load) /\ "again" \notin DOMAIN load
      /\ KnownCall(submit) /\ "again" \notin DOMAIN submit
  BY DEF DevicesInv, DevicesT!Answer, DevicesT!Listed, DevicesT!BulkDone,
         DevicesT!Deleted,
         DevicesT!Viewed, DevicesT!SentFor, DevicesT!Saved, DevicesT!Awaits, KnownCall,
         DevicesT!Load
<1>1. CASE DevicesT!Listed(h)
  <2>1. h.ask = "list" /\ DevicesT!Ends(h)
    BY <1>1 DEF DevicesT!Listed, DevicesT!Awaits
  <2>2. /\ Refreshes(calls) /\ h.from # "refresh" => Refreshes(calls')
        /\ Submits(calls) /\ h.from # "submit" => Submits(calls')
    BY <1>0, <2>1, EndKnown, OthersStay
  <2>3. PICK list \in SUBSET Devices : \E some \in SUBSET list :
          LET u == [ui EXCEPT !.listed = list, !.shown = some, !.loading = FALSE,
                              !.selected = @ \intersect some]
          IN  ui' = CASE h.from = "refresh" -> [u EXCEPT !.refreshing = FALSE]
                      [] h.from = "submit" -> [u EXCEPT !.submitting = FALSE]
                      [] OTHER -> u
    BY <1>1 DEF DevicesT!Listed
  <2>4. PICK some \in SUBSET list :
          LET u == [ui EXCEPT !.listed = list, !.shown = some, !.loading = FALSE,
                              !.selected = @ \intersect some]
          IN  ui' = CASE h.from = "refresh" -> [u EXCEPT !.refreshing = FALSE]
                      [] h.from = "submit" -> [u EXCEPT !.submitting = FALSE]
                      [] OTHER -> u
    BY <2>3
  <2>5. CASE h.from = "refresh"
    <3>1. ui' = [[ui EXCEPT !.listed = list, !.shown = some, !.loading = FALSE,
                            !.selected = @ \intersect some] EXCEPT !.refreshing = FALSE]
      BY <2>4, <2>5
    <3>2. QED
      BY <1>0, <2>1, <2>2, <2>5, <3>1, EndKnown
         DEF DevicesInv, DevicesFields, FormIsOfOne, DevicesT!SelectionIsShown,
             DevicesWait
  <2>6. CASE h.from = "submit"
    <3>1. ui' = [[ui EXCEPT !.listed = list, !.shown = some, !.loading = FALSE,
                            !.selected = @ \intersect some] EXCEPT !.submitting = FALSE]
      BY <2>4, <2>6
    <3>2. QED
      BY <1>0, <2>1, <2>2, <2>6, <3>1, EndKnown
         DEF DevicesInv, DevicesFields, FormIsOfOne, DevicesT!SelectionIsShown,
             DevicesWait
  <2>7. CASE h.from \notin {"refresh", "submit"}
    <3>1. ui' = [ui EXCEPT !.listed = list, !.shown = some, !.loading = FALSE,
                           !.selected = @ \intersect some]
      BY <2>4, <2>7
    <3>2. QED
      BY <1>0, <2>1, <2>2, <2>7, <3>1, EndKnown
         DEF DevicesInv, DevicesFields, FormIsOfOne, DevicesT!SelectionIsShown,
             DevicesWait
  <2>8. QED
    BY <2>5, <2>6, <2>7
<1>2. ASSUME DevicesT!Ends(h), h.ask \notin {"list", "save"},
             ui'.loading = ui.loading, ui'.refreshing = ui.refreshing,
             ui'.submitting = ui.submitting
      PROVE  DevicesWait' /\ (\A c \in calls' : KnownCall(c))
  BY <1>0, <1>2, EndKnown, OthersStay DEF DevicesInv, DevicesWait
<1>3. ASSUME DevicesT!GoesOnAs(h, load), h.ask \notin {"list", "save"},
             ui'.refreshing = ui.refreshing, ui'.submitting = ui.submitting
      PROVE  DevicesWait' /\ (\A c \in calls' : KnownCall(c))
  <2>1. Loads(calls')
    BY <1>0, <1>3, GoOnKnown DEF Loads, Like, DevicesT!Load
  <2>2. QED
    BY <1>0, <1>3, <2>1, GoOnKnown, OthersStay DEF DevicesInv, DevicesWait
<1>4. CASE DevicesT!BulkDone(h)
  <2>1. h.ask \in {"bulkDelete", "bulkEdit"}
    BY <1>4 DEF DevicesT!BulkDone, DevicesT!Awaits
  <2>2. CASE DevicesT!Ends(h) /\ UNCHANGED ui
    BY <1>2, <2>1, <2>2 DEF DevicesInv, DevicesFields, FormIsOfOne,
                            DevicesT!SelectionIsShown
  <2>3. CASE /\ DevicesT!GoesOnAs(h, load)
             /\ ui' = [[ui EXCEPT !.selected = {}, !.loading = TRUE] EXCEPT !.bulkOpen = FALSE]
    BY <1>3, <2>1, <2>3 DEF DevicesInv, DevicesFields, FormIsOfOne,
                            DevicesT!SelectionIsShown
  <2>4. CASE DevicesT!GoesOnAs(h, load) /\ ui' = [ui EXCEPT !.selected = {}, !.loading = TRUE]
    BY <1>3, <2>1, <2>4 DEF DevicesInv, DevicesFields, FormIsOfOne,
                            DevicesT!SelectionIsShown
  <2>5. QED
    BY <1>4, <2>2, <2>3, <2>4 DEF DevicesT!BulkDone
<1>5. CASE DevicesT!Deleted(h)
  <2>1. h.ask = "delete"
    BY <1>5 DEF DevicesT!Deleted, DevicesT!Awaits
  <2>2. CASE DevicesT!Ends(h) /\ UNCHANGED ui
    BY <1>2, <2>1, <2>2 DEF DevicesInv, DevicesFields, FormIsOfOne,
                            DevicesT!SelectionIsShown
  <2>3. CASE DevicesT!GoesOnAs(h, load) /\ ui' = [ui EXCEPT !.loading = TRUE]
    BY <1>3, <2>1, <2>3 DEF DevicesInv, DevicesFields, FormIsOfOne,
                            DevicesT!SelectionIsShown
  <2>4. QED
    BY <1>5, <2>2, <2>3 DEF DevicesT!Deleted
<1>6. CASE DevicesT!Viewed(h)
  <2>1. h.ask = "view" /\ h.of \in Device /\ DevicesT!Ends(h) /\ ui' = [ui EXCEPT !.view = h.of]
    BY <1>0, <1>6 DEF DevicesT!Viewed, DevicesT!Awaits, KnownCall
  <2>2. QED
    BY <1>2, <2>1 DEF DevicesInv, DevicesFields, FormIsOfOne, DevicesT!SelectionIsShown
<1>7. CASE DevicesT!SentFor(h)
  <2>1. h.ask = "edit" /\ h.of \in Device /\ DevicesT!Ends(h)
    BY <1>0, <1>7 DEF DevicesT!SentFor, DevicesT!Awaits, KnownCall
  <2>2. CASE UNCHANGED ui
    BY <1>2, <2>1, <2>2 DEF DevicesInv, DevicesFields, FormIsOfOne,
                            DevicesT!SelectionIsShown
  <2>3. CASE ui' = DevicesT!openEditModal(ui, h.of)
    BY <1>2, <2>1, <2>3 DEF DevicesT!openEditModal, DevicesInv, DevicesFields,
                            FormIsOfOne,
                            DevicesT!SelectionIsShown
  <2>4. QED
    BY <1>7, <2>2, <2>3 DEF DevicesT!SentFor
<1>8. CASE DevicesT!Saved(h)
  <2>1. h.ask = "save"
    BY <1>8 DEF DevicesT!Saved, DevicesT!Awaits
  <2>2. CASE DevicesT!Leave
    BY <2>2, DevicesLeave
  <2>3. CASE ui' = [ui EXCEPT !.submitting = FALSE] /\ DevicesT!Ends(h)
    BY <1>0, <2>1, <2>3, EndKnown, OthersStay
       DEF DevicesInv, DevicesFields, FormIsOfOne, DevicesT!SelectionIsShown,
           DevicesWait
  <2>4. CASE /\ ui' = [ui EXCEPT !.open = FALSE, !.scanField = FALSE, !.formOf = DevicesT!None,
                                  !.loading = TRUE]
             /\ DevicesT!GoesOnAs(h, submit)
    <3>1. Loads(calls') /\ Submits(calls')
      BY <1>0, <2>4, GoOnKnown DEF Loads, Submits, Like, DevicesT!Load
    <3>2. Refreshes(calls) => Refreshes(calls')
      BY <1>0, <2>1, <2>4, GoOnKnown, OthersStay, SMTT(60)
    <3>3. QED
      BY <1>0, <2>4, <3>1, <3>2, GoOnKnown
         DEF DevicesInv, DevicesFields, Device, FormIsOfOne, DevicesT!SelectionIsShown,
             DevicesWait
  <2>5. QED
    BY <1>8, <2>2, <2>3, <2>4 DEF DevicesT!Saved
<1>9. QED
  BY <1>1, <1>4, <1>5, <1>6, <1>7, <1>8 DEF DevicesT!Answer

\* Every step of the tab keeps the invariant.
LEMMA DevicesSteps == DevicesInv /\ [DevicesT!Next]_vars => DevicesInv'
<1> SUFFICES ASSUME DevicesInv, [DevicesT!Next]_vars PROVE DevicesInv'
  OBVIOUS
<1>1. CASE UNCHANGED vars
  BY <1>1 DEF vars, DevicesInv, DevicesFields, FormIsOfOne, DevicesT!SelectionIsShown,
              DevicesWait,
              Loads, Refreshes, Submits
<1>2. CASE DevicesT!CloseForm /\ ui.sent
  BY <1>2, DevicesLeave DEF DevicesT!CloseForm
<1>3. CASE /\ UNCHANGED calls
           /\ \/ DevicesT!FilterChanged \/ DevicesT!setViewMode
              \/ DevicesT!toggleSelectAll \/ DevicesT!Deselect
              \/ DevicesT!OpenBulkEdit \/ DevicesT!CloseBulkEdit
              \/ DevicesT!CloseView \/ DevicesT!openCreateModal
              \/ DevicesT!EditDevice \/ DevicesT!ScanField
              \/ (DevicesT!CloseForm /\ ~ui.sent)
              \/ (\E d \in Devices : DevicesT!toggleDeviceSelection(d))
              \/ (DevicesT!handleBulkEditSubmit /\ ui' = [ui EXCEPT !.bulkOpen = FALSE])
  BY <1>3, DevicesUserSteps
<1>4. CASE \/ DevicesT!handleRefresh \/ DevicesT!handleBulkDelete
           \/ DevicesT!handleDelete \/ DevicesT!handleSubmit
           \/ /\ DevicesT!handleBulkEditSubmit
            /\ DevicesT!Begins([ask |-> "bulkEdit"]) /\ UNCHANGED ui
           \/ (\E d \in Devices : DevicesT!handleViewDevice(d))
  BY <1>4, DevicesBegin
<1>5. CASE \E h \in calls : DevicesT!Answer(h)
  BY <1>5, DevicesAnswers
<1>6. QED
  BY <1>1, <1>2, <1>3, <1>4, <1>5
     DEF DevicesT!Next, DevicesT!FilterChanged, DevicesT!setViewMode,
         DevicesT!toggleSelectAll, DevicesT!Deselect, DevicesT!OpenBulkEdit,
         DevicesT!CloseBulkEdit, DevicesT!CloseView, DevicesT!openCreateModal,
         DevicesT!EditDevice, DevicesT!ScanField, DevicesT!CloseForm,
         DevicesT!toggleDeviceSelection, DevicesT!handleBulkEditSubmit

(***************************************************************************)
(* The selection of the products tab.                                      *)
(***************************************************************************)
ProductsInv ==
  {"products", "selected"} \subseteq DOMAIN ui /\ ProductsT!SelectionIsListed

\* The tab begins with nothing selected.
LEMMA ProductsInits == ProductsT!Init => ProductsInv
BY DEF ProductsT!Init, ProductsInv, ProductsT!SelectionIsListed

\* Every step of the tab keeps the selection in the list.
LEMMA ProductsSteps == ProductsInv /\ ProductsT!Next => ProductsInv'
<1> SUFFICES ASSUME ProductsInv, ProductsT!Next PROVE ProductsInv'
  OBVIOUS
<1> USE DEF ProductsInv, ProductsT!SelectionIsListed
<1>1. CASE ui'.selected = ui.selected /\ ui'.products = ui.products /\ DOMAIN ui' = DOMAIN ui
  BY <1>1
<1>2. CASE ui'.selected = {} /\ DOMAIN ui' = DOMAIN ui
  BY <1>2
<1>3. CASE ProductsT!FilterChanged \/ ProductsT!DeselectAll
  BY <1>2, <1>3 DEF ProductsT!FilterChanged, ProductsT!DeselectAll
<1>4. CASE \/ ProductsT!handleRefresh \/ ProductsT!OpenBulkEdit
           \/ ProductsT!handleBulkEditProductsSubmit
           \/ ProductsT!CloseBulkEdit \/ ProductsT!OpenDependencies
           \/ ProductsT!CloseOverlay
           \/ ProductsT!TypeField \/ ProductsT!handleRemoveDevice
           \/ ProductsT!handleSubmit
           \/ \E view \in ProductsT!Views : ProductsT!setViewMode(view)
  BY <1>1, <1>4
     DEF ProductsT!setViewMode, ProductsT!handleRefresh, ProductsT!OpenBulkEdit,
         ProductsT!handleBulkEditProductsSubmit, ProductsT!CloseBulkEdit,
         ProductsT!OpenDependencies, ProductsT!CloseOverlay, ProductsT!TypeField,
         ProductsT!handleRemoveDevice, ProductsT!handleSubmit
<1>5. CASE UNCHANGED ui
  BY <1>5
<1>6. CASE \/ ProductsT!handleBulkDeleteProducts \/ ProductsT!handleDelete
           \/ ProductsT!handleConvertToCase \/ ProductsT!handleViewProduct
           \/ ProductsT!handleAddDevices
           \/ \E p \in Products : ProductsT!handleEditProduct(p)
  BY <1>5, <1>6
     DEF ProductsT!handleBulkDeleteProducts, ProductsT!handleDelete,
         ProductsT!handleConvertToCase, ProductsT!handleViewProduct,
         ProductsT!handleAddDevices, ProductsT!handleEditProduct
<1>7. CASE ProductsT!handleOpenCreateModal \/ ProductsT!CloseForm
  BY <1>1, <1>5, <1>7
     DEF ProductsT!handleOpenCreateModal, ProductsT!OpenCreate, ProductsT!CloseForm,
         ProductsT!closeModal
<1>8. CASE \/ ProductsT!toggleSelectAllProducts
           \/ \E p \in Products : ProductsT!toggleProductSelection(p)
  BY <1>8 DEF ProductsT!toggleSelectAllProducts, ProductsT!toggleProductSelection
<1>9. CASE \E h \in calls : ProductsT!Answer(h)
  <2>1. PICK h \in calls : ProductsT!Answer(h)
    BY <1>9
  <2>2. CASE ProductsT!Listed(h)
    <3>1. PICK list \in SUBSET Products :
            LET u == [ProductsT!Show(ui, list) EXCEPT !.loading = FALSE]
            IN  \/ ui' = [ProductsT!closeModal(u) EXCEPT !.submitting = FALSE]
                \/ ui' = [u EXCEPT !.refreshing = FALSE]
                \/ ui' = u
      BY <2>2 DEF ProductsT!Listed
    <3>2. /\ ui'.products = list /\ ui'.selected = ui.selected \intersect list
          /\ DOMAIN ui' = DOMAIN ui
      BY <3>1 DEF ProductsT!Show, ProductsT!closeModal
    <3>3. QED
      BY <3>2
  <2>3. CASE ProductsT!BulkDone(h)
    BY <1>2, <1>5, <2>3 DEF ProductsT!BulkDone, ProductsT!LoadAgain
  <2>4. CASE \/ ProductsT!Deleted(h) \/ ProductsT!Converted(h) \/ ProductsT!Viewed(h)
             \/ ProductsT!MetadataLoaded(h) \/ ProductsT!ProductLoaded(h)
             \/ ProductsT!FieldsLoaded(h) \/ ProductsT!DevicesAdded(h)
    BY <1>1, <1>5, <2>4
       DEF ProductsT!Deleted, ProductsT!Converted, ProductsT!Viewed,
           ProductsT!MetadataLoaded, ProductsT!ProductLoaded, ProductsT!FieldsLoaded,
           ProductsT!DevicesAdded, ProductsT!LoadAgain
  <2>5. CASE ProductsT!DevicesLoaded(h) \/ ProductsT!AddedLoaded(h)
    BY <1>1, <2>5
       DEF ProductsT!DevicesLoaded, ProductsT!AddedLoaded, ProductsT!loadProductDevices
  <2>6. CASE ProductsT!DefinitionsLoaded(h)
    <3>1. PICK u \in {[ui EXCEPT !.defs = TRUE, !.defsFailed = FALSE],
                      [ui EXCEPT !.defsFailed = TRUE]} :
            ui' = ProductsT!OpenCreate(u) \/ ui' = u
      BY <2>6 DEF ProductsT!DefinitionsLoaded
    <3>2. QED
      BY <1>1, <3>1 DEF ProductsT!OpenCreate
  <2>7. CASE ProductsT!Saved(h) \/ ProductsT!DevicesSaved(h) \/ ProductsT!FieldsSaved(h)
    BY <1>1, <1>5, <2>7
       DEF ProductsT!Saved, ProductsT!DevicesSaved, ProductsT!FieldsSaved,
           ProductsT!SaveFields, ProductsT!LoadAgain, ProductsT!NotSaved
  <2>8. QED
    BY <2>1, <2>2, <2>3, <2>4, <2>5, <2>6, <2>7 DEF ProductsT!Answer
<1>10. QED
  BY <1>3, <1>4, <1>6, <1>7, <1>8, <1>9 DEF ProductsT!Next

(***************************************************************************)
(* The form of the cases page.  Whoever fills it in also says which case   *)
(* it is of, so that the two never part.                                   *)
(***************************************************************************)

\* What the page does to its handlers is what ReactPage says.
LEMMA CasesPHandlers ==
  ASSUME NEW h, "again" \notin DOMAIN h
  PROVE  /\ CasesP!Begins(h)
              => /\ calls \subseteq calls'
                 /\ \A c \in calls' : c \in calls \/ Like(c, h)
                 /\ \E c \in calls' : Like(c, h)
         /\ CasesP!Ends(h) => /\ calls' \subseteq calls
                               /\ \A c \in calls \ calls' : Like(c, h)
         /\ \A next : "again" \notin DOMAIN next /\ CasesP!GoesOnAs(h, next)
              => /\ \A c \in calls' : c \in calls \/ Like(c, next)
                 /\ \E c \in calls' : Like(c, next)
                 /\ \A c \in calls \ calls' : Like(c, h)
<1>1. CasesP!Begins(h) => Joins(h, calls)
  BY DEF CasesP!Begins, CasesP!Joins, Joins, CasesP!Again, Again
<1>2. CasesP!Ends(h) <=> Ends(h)
  BY DEF CasesP!Ends, Ends, CasesP!Without, Without, CasesP!Again, Again
<1>3. \A next : CasesP!GoesOnAs(h, next) => GoesOnAs(h, next)
  BY DEF CasesP!GoesOnAs, GoesOnAs, CasesP!Joins, Joins, CasesP!Without, Without,
         CasesP!Again, Again
<1>4. QED
  BY <1>1, <1>2, <1>3, Joined, Ended, WentOn

\* A save goes to the case whose values were in the form.
CaseSaved(c) == /\ {"ask", "of", "from"} \subseteq DOMAIN c
                /\ c.ask = "save" => c.of = c.from

\* The invariant of the page.
CasesPInv ==
  /\ {"formOf", "editing"} \subseteq DOMAIN ui
  /\ ui.formOf = ui.editing
  /\ \A c \in calls : CaseSaved(c)

\* The page begins with no form and no save.
LEMMA CasesPInits == CasesP!Init => CasesPInv
BY DEF CasesP!Init, CasesP!Load, CasesPInv, CaseSaved

\* A handler that is like another saves as it does.
LEMMA LikeSaved == ASSUME NEW c, NEW h, Like(c, h), CaseSaved(h) PROVE CaseSaved(c)
BY DEF Like, CaseSaved

\* A step that begins, goes on with or ends a handler that is not a save.
LEMMA CasesPCalls ==
  ASSUME CasesPInv,
         \/ UNCHANGED calls
         \/ \E h : CaseSaved(h) /\ "again" \notin DOMAIN h /\ CasesP!Begins(h)
         \/ \E h \in calls : "again" \notin DOMAIN h /\ CasesP!Ends(h)
         \/ \E h \in calls : \E next : /\ "again" \notin DOMAIN h
                                       /\ "again" \notin DOMAIN next
                                       /\ CaseSaved(next) /\ CasesP!GoesOnAs(h, next)
  PROVE  \A c \in calls' : CaseSaved(c)
BY CasesPHandlers, LikeSaved DEF CasesPInv

\* Every step of the page keeps the invariant.
LEMMA CasesPSteps == CasesPInv /\ CasesP!Next => CasesPInv'
<1> SUFFICES ASSUME CasesPInv, CasesP!Next PROVE CasesPInv'
  OBVIOUS
<1> DEFINE FormKept == /\ DOMAIN ui' = DOMAIN ui
                       /\ ui'.formOf = ui'.editing
<1>0. /\ \A ask, of, from : /\ "again" \notin DOMAIN CasesP!Handler(ask, of, from)
                            /\ (ask # "save" \/ of = from)
                                 => CaseSaved(CasesP!Handler(ask, of, from))
      /\ \A from : /\ "again" \notin DOMAIN CasesP!Load(from)
                   /\ CaseSaved(CasesP!Load(from))
  BY DEF CasesP!Handler, CasesP!Load, CaseSaved
<1>1. CASE \/ CasesP!Dismiss \/ CasesP!CloseCase \/ CasesP!CloseDevice
           \/ CasesP!CancelTree \/ CasesP!handleOpenCreateModal \/ CasesP!CloseForm
           \/ \E x \in {"detail", "edit"} : CasesP!handleAddDevices(x)
  <2>1. FormKept /\ UNCHANGED calls
    BY <1>1 DEF CasesPInv, CasesP!Dismiss, CasesP!CloseCase, CasesP!CloseDevice,
                CasesP!CancelTree, CasesP!handleOpenCreateModal, CasesP!CloseForm,
                CasesP!handleAddDevices
  <2>2. QED
    BY <2>1, CasesPCalls DEF CasesPInv
<1>2. CASE \/ CasesP!loadCases \/ CasesP!handleLocateDevice \/ CasesP!handleOpenDevice
           \/ CasesP!handleConfirmAddDevices
           \/ \E c \in Cases : CasesP!handleOpenCase(c) \/ CasesP!handleDelete(c)
           \/ \E x \in {"detail", "edit"} : CasesP!handleRemoveDevice(x)
  <2>1. FormKept
    BY <1>2 DEF CasesPInv, CasesP!loadCases, CasesP!handleLocateDevice,
                CasesP!handleOpenDevice, CasesP!handleConfirmAddDevices,
                CasesP!handleOpenCase, CasesP!handleDelete, CasesP!handleRemoveDevice,
                CasesP!Say, CasesP!clearActionMessage
  <2>2. \/ UNCHANGED calls
        \/ CasesP!Begins(CasesP!Load("load"))
        \/ \E ask, of, from : ask # "save" /\ CasesP!Begins(CasesP!Handler(ask, of, from))
    BY <1>2 DEF CasesP!loadCases, CasesP!handleLocateDevice,
                CasesP!handleOpenDevice, CasesP!handleConfirmAddDevices,
                CasesP!handleOpenCase, CasesP!handleDelete, CasesP!handleRemoveDevice
  <2>3. QED
    BY <1>0, <2>1, <2>2, CasesPCalls DEF CasesPInv
<1>3. CASE \E c \in Cases : CasesP!handleOpenEditModal(c)
  <2>1. PICK c \in Cases : /\ CasesP!Begins(CasesP!Handler("edit", c, "edit"))
                           /\ ui' = [ui EXCEPT !.editing = c, !.formOf = c]
    BY <1>3 DEF CasesP!handleOpenEditModal
  <2>2. FormKept
    BY <2>1 DEF CasesPInv
  <2>3. QED
    BY <1>0, <2>1, <2>2, CasesPCalls DEF CasesPInv
<1>4. CASE CasesP!handleFormSubmit
  <2>1. FormKept
    BY <1>4 DEF CasesPInv, CasesP!handleFormSubmit, CasesP!Say,
                CasesP!clearActionMessage
  <2>2. \/ UNCHANGED calls
        \/ CasesP!Begins(CasesP!Handler("save", ui.editing, ui.formOf))
    BY <1>4 DEF CasesP!handleFormSubmit
  <2>3. QED
    BY <1>0, <2>1, <2>2, CasesPCalls DEF CasesPInv
<1>5. CASE \E h \in calls : CasesP!Answer(h)
  <2>1. PICK h \in calls : CasesP!Answer(h)
    BY <1>5
  <2>2. "again" \notin DOMAIN h /\ CaseSaved(h)
    BY <2>1 DEF CasesPInv, CasesP!Answer, CasesP!Awaits, CasesP!Listed,
                CasesP!CaseOpened,
                CasesP!Located, CasesP!DeviceOpened, CasesP!Changed, CasesP!NotChanged,
                CasesP!Reloaded, CasesP!EditOpened, CasesP!Saved, CasesP!Deleted
  <2>3. \A ask : ask # "save" => /\ CaseSaved([h EXCEPT !.ask = ask])
                                 /\ "again" \notin DOMAIN [h EXCEPT !.ask = ask]
    BY <2>2 DEF CaseSaved
  <2>4. CASE CasesP!Listed(h)
    <3>1. CasesP!Ends(h) /\ FormKept
      BY <2>4 DEF CasesPInv, CasesP!Listed, CasesP!clearActionMessage
    <3>2. QED
      BY <2>2, <3>1, CasesPCalls DEF CasesPInv
  <2>5. CASE CasesP!CaseOpened(h) \/ CasesP!EditOpened(h)
    <3>1. CasesP!Ends(h) /\ FormKept
      BY <2>5 DEF CasesPInv, CasesP!CaseOpened, CasesP!EditOpened
    <3>2. QED
      BY <2>2, <3>1, CasesPCalls DEF CasesPInv
  <2>6. CASE CasesP!Located(h) \/ CasesP!DeviceOpened(h) \/ CasesP!NotChanged(h)
    <3>1. CasesP!Ends(h) /\ FormKept
      BY <2>6 DEF CasesPInv, CasesP!Located, CasesP!DeviceOpened, CasesP!NotChanged,
                  CasesP!Say, CasesP!clearActionMessage
    <3>2. QED
      BY <2>2, <3>1, CasesPCalls DEF CasesPInv
  <2>7. CASE CasesP!Changed(h)
    <3>1. CasesP!GoesOnAs(h, [h EXCEPT !.ask = "devices"]) /\ FormKept
      BY <2>7 DEF CasesPInv, CasesP!Changed, CasesP!GoesOn, CasesP!Say
    <3>2. QED
      BY <2>2, <2>3, <3>1, CasesPCalls DEF CasesPInv
  <2>8. CASE CasesP!Reloaded(h)
    <3>1. CasesP!GoesOnAs(h, CasesP!Load("load")) /\ FormKept
      BY <2>8 DEF CasesPInv, CasesP!Reloaded, CasesP!clearActionMessage
    <3>2. QED
      BY <1>0, <2>2, <3>1, CasesPCalls DEF CasesPInv
  <2>9. CASE CasesP!Saved(h) \/ CasesP!Deleted(h)
    <3>1. FormKept
      BY <2>9 DEF CasesPInv, CasesP!Saved, CasesP!Deleted, CasesP!Say,
                  CasesP!clearActionMessage
    <3>2. CasesP!Ends(h) \/ \E from : CasesP!GoesOnAs(h, CasesP!Load(from))
      BY <2>9 DEF CasesP!Saved, CasesP!Deleted
    <3>3. QED
      BY <1>0, <2>2, <3>1, <3>2, CasesPCalls DEF CasesPInv
  <2>10. QED
    BY <2>1, <2>4, <2>5, <2>6, <2>7, <2>8, <2>9 DEF CasesP!Answer
<1>6. QED
  BY <1>1, <1>2, <1>3, <1>4, <1>5 DEF CasesP!Next

(***************************************************************************)
(* The thumbnail of the packages tab is a position in a list.              *)
(***************************************************************************)

\* The list without its i-th picture: what is before it stays where it is, what
\* is behind it moves up by one.
LEMMA Removed ==
  ASSUME NEW S, NEW s \in Seq(S), NEW i \in DOMAIN s
  PROVE  /\ PackagesT!RemoveAt(s, i) \in Seq(S)
         /\ Len(PackagesT!RemoveAt(s, i)) = Len(s) - 1
         /\ \A j \in 1 .. i - 1 : PackagesT!RemoveAt(s, i)[j] = s[j]
         /\ \A j \in i .. Len(s) - 1 : PackagesT!RemoveAt(s, i)[j] = s[j + 1]
<1> DEFINE a == SubSeq(s, 1, i - 1)
           b == SubSeq(s, i + 1, Len(s))
<1>1. i \in 1 .. Len(s) /\ Len(s) \in Nat
  OBVIOUS
<1>2. /\ a \in Seq(S) /\ Len(a) = i - 1
      /\ \A j \in 1 .. i - 1 : a[j] = s[j]
  BY <1>1
<1>3. /\ b \in Seq(S) /\ Len(b) = Len(s) - i
      /\ \A j \in 1 .. Len(s) - i : b[j] = s[i + j]
  BY <1>1
<1>4. PackagesT!RemoveAt(s, i) = a \o b
  BY DEF PackagesT!RemoveAt
<1> HIDE DEF a, b
<1>5. /\ a \o b \in Seq(S) /\ Len(a \o b) = Len(s) - 1
      /\ \A j \in 1 .. i - 1 : (a \o b)[j] = a[j]
      /\ \A j \in 1 .. Len(s) - i : (a \o b)[i - 1 + j] = b[j]
  BY <1>1, <1>2, <1>3, SMTT(60)
<1>6. ASSUME NEW j \in i .. Len(s) - 1
      PROVE  (a \o b)[j] = s[j + 1]
  <2>1. j - i + 1 \in 1 .. Len(s) - i /\ i - 1 + (j - i + 1) = j /\ i + (j - i + 1) = j + 1
    BY <1>1, <1>6
  <2>2. (a \o b)[i - 1 + (j - i + 1)] = b[j - i + 1]
    BY <1>5, <2>1
  <2>3. b[j - i + 1] = s[i + (j - i + 1)]
    BY <1>3, <2>1
  <2>4. QED
    BY <2>1, <2>2, <2>3
<1>7. QED
  BY <1>2, <1>4, <1>5, <1>6

PackagesInv ==
  /\ {"imageFiles", "thumbnailIndex", "chosen"} \subseteq DOMAIN ui
  /\ ui.imageFiles \in Seq(Pictures) /\ ui.thumbnailIndex \in Nat
  /\ PackagesT!ThumbnailIsChosen

\* The tab begins with no thumbnail.
LEMMA PackagesInits == PackagesT!Init => PackagesInv
BY DEF PackagesT!Init, PackagesInv, PackagesT!ThumbnailIsChosen

\* Every step of the tab keeps the thumbnail where its picture is.
LEMMA PackagesSteps == PackagesInv /\ PackagesT!Next => PackagesInv'
<1> SUFFICES ASSUME PackagesInv, PackagesT!Next PROVE PackagesInv'
  OBVIOUS
<1> DEFINE Kept == /\ DOMAIN ui' = DOMAIN ui /\ ui'.imageFiles = ui.imageFiles
                   /\ ui'.thumbnailIndex = ui.thumbnailIndex /\ ui'.chosen = ui.chosen
           Emptied == /\ DOMAIN ui' = DOMAIN ui /\ ui'.imageFiles = <<>>
                      /\ ui'.thumbnailIndex = 0
<1>1. Kept \/ Emptied => PackagesInv'
  <2>1. CASE Kept
    BY <2>1 DEF PackagesInv, PackagesT!ThumbnailIsChosen
  <2>2. CASE Emptied
    BY <2>2 DEF PackagesInv, PackagesT!ThumbnailIsChosen
  <2>3. QED
    BY <2>1, <2>2
<1>2. CASE \/ PackagesT!fetchPackages \/ PackagesT!handleDelete
           \/ PackagesT!handleViewPackage \/ PackagesT!CloseView \/ PackagesT!OpenNew
           \/ PackagesT!handleRemoveDevice \/ PackagesT!handleAddDevices
           \/ PackagesT!handleSubmit \/ \E p \in Packages : PackagesT!handleOpenModal(p)
  <2>1. Kept
    BY <1>2 DEF PackagesInv, PackagesT!fetchPackages, PackagesT!handleDelete,
                PackagesT!handleViewPackage, PackagesT!CloseView, PackagesT!OpenNew,
                PackagesT!handleRemoveDevice, PackagesT!handleAddDevices,
                PackagesT!handleSubmit, PackagesT!handleOpenModal
  <2>2. QED
    BY <1>1, <2>1
<1>3. CASE PackagesT!handleCloseModal
  <2>1. Emptied
    BY <1>3 DEF PackagesInv, PackagesT!handleCloseModal, PackagesT!Closed
  <2>2. QED
    BY <1>1, <2>1
<1>4. CASE \E f \in Pictures : PackagesT!handleImageFileChange(f)
  BY <1>4 DEF PackagesInv, PackagesT!handleImageFileChange, PackagesT!ThumbnailIsChosen
<1>5. CASE \E i \in DOMAIN ui.imageFiles : PackagesT!handleSetThumbnail(i)
  BY <1>5 DEF PackagesInv, PackagesT!handleSetThumbnail, PackagesT!ThumbnailIsChosen
<1>6. CASE \E i \in DOMAIN ui.imageFiles : PackagesT!handleRemoveImage(i)
  <2>1. PICK i \in DOMAIN ui.imageFiles : PackagesT!handleRemoveImage(i)
    BY <1>6
  <2> DEFINE old == ui.imageFiles
             new == PackagesT!RemoveAt(old, i)
             at == ui.thumbnailIndex
  <2>2. /\ ui'.imageFiles = new /\ ui'.chosen = ui.chosen /\ DOMAIN ui' = DOMAIN ui
        /\ ui'.thumbnailIndex = IF at = i THEN 0 ELSE IF at > i THEN at - 1 ELSE at
    BY <2>1 DEF PackagesInv, PackagesT!handleRemoveImage
  <2>3. /\ new \in Seq(Pictures) /\ Len(new) = Len(old) - 1
        /\ \A j \in 1 .. i - 1 : new[j] = old[j]
        /\ \A j \in i .. Len(old) - 1 : new[j] = old[j + 1]
    BY Removed DEF PackagesInv
  <2>4. at \in Nat /\ old \in Seq(Pictures) /\ i \in 1 .. Len(old)
        /\ (at # 0 => at \in 1 .. Len(old) /\ old[at] = ui.chosen)
    BY DEF PackagesInv, PackagesT!ThumbnailIsChosen
  <2> HIDE DEF new, old
  <2>5. CASE at = i
    BY <2>2, <2>3, <2>5 DEF PackagesInv, PackagesT!ThumbnailIsChosen
  <2>6. CASE at > i
    <3>1. ui'.thumbnailIndex = at - 1
      BY <2>2, <2>6, <2>4
    <3>2. at - 1 \in i .. Len(old) - 1 /\ at - 1 \in Nat /\ at - 1 + 1 = at /\ at # 0
      BY <2>4, <2>6
    <3>3. new[at - 1] = ui.chosen /\ at - 1 \in 1 .. Len(new)
      BY <2>3, <2>4, <3>2
    <3>4. QED
      BY <2>2, <2>3, <3>1, <3>2, <3>3 DEF PackagesInv, PackagesT!ThumbnailIsChosen
  <2>7. CASE at < i
    <3>1. ui'.thumbnailIndex = at
      BY <2>2, <2>7, <2>4
    <3>2. at # 0 => at \in 1 .. i - 1 /\ at \in 1 .. Len(new) /\ new[at] = ui.chosen
      BY <2>3, <2>4, <2>7
    <3>3. QED
      BY <2>2, <2>3, <2>4, <3>1, <3>2 DEF PackagesInv, PackagesT!ThumbnailIsChosen
  <2>8. QED
    BY <2>4, <2>5, <2>6, <2>7
<1>7. CASE \E h \in calls : PackagesT!Answer(h)
  <2>1. PICK h \in calls : PackagesT!Answer(h)
    BY <1>7
  <2>2. CASE \/ PackagesT!Listed(h) \/ PackagesT!Deleted(h) \/ PackagesT!Viewed(h)
             \/ PackagesT!PackageLoaded(h) \/ PackagesT!ProductKnown(h)
             \/ PackagesT!DevicesAdded(h)
    <3>1. Kept
      BY <2>2 DEF PackagesInv, PackagesT!Listed, PackagesT!Deleted, PackagesT!Viewed,
                  PackagesT!PackageLoaded, PackagesT!ProductKnown,
                  PackagesT!DevicesAdded
    <3>2. QED
      BY <1>1, <3>1
  <2>3. CASE PackagesT!DevicesLoaded(h) \/ PackagesT!AddedLoaded(h)
    <3>1. Kept
      BY <2>3 DEF PackagesInv, PackagesT!DevicesLoaded, PackagesT!AddedLoaded,
                  PackagesT!loadPackageDevices
    <3>2. QED
      BY <1>1, <3>1
  <2>4. CASE \/ PackagesT!Saved(h) \/ PackagesT!SavedLoaded(h)
             \/ PackagesT!DevicesSaved(h) \/ PackagesT!PicturesSaved(h)
    <3>1. UNCHANGED ui \/ PackagesT!Finish(h) \/ PackagesT!NotSaved(h)
      BY <2>4 DEF PackagesT!Saved, PackagesT!SavedLoaded, PackagesT!DevicesSaved,
                  PackagesT!PicturesSaved, PackagesT!Upload
    <3>2. Kept \/ Emptied
      BY <3>1 DEF PackagesInv, PackagesT!Finish, PackagesT!NotSaved, PackagesT!Closed
    <3>3. QED
      BY <1>1, <3>2
  <2>5. QED
    BY <2>1, <2>2, <2>3, <2>4 DEF PackagesT!Answer
<1>8. QED
  BY <1>2, <1>3, <1>4, <1>5, <1>6, <1>7 DEF PackagesT!Next

(***************************************************************************)
(* The pictures of a product.                                              *)
(***************************************************************************)

\* What the dialog does to its handlers is what ReactPage says.
LEMMA ProductDHandlers ==
  ASSUME NEW h, "again" \notin DOMAIN h
  PROVE  /\ ProductD!Begins(h)
              => /\ calls \subseteq calls'
                 /\ \A c \in calls' : c \in calls \/ Like(c, h)
                 /\ \E c \in calls' : Like(c, h)
         /\ ProductD!Ends(h) => /\ calls' \subseteq calls
                                /\ \A c \in calls \ calls' : Like(c, h)
         /\ \A next : "again" \notin DOMAIN next /\ ProductD!GoesOnAs(h, next)
              => /\ \A c \in calls' : c \in calls \/ Like(c, next)
                 /\ \E c \in calls' : Like(c, next)
                 /\ \A c \in calls \ calls' : Like(c, h)
<1>1. ProductD!Begins(h) => Joins(h, calls)
  BY DEF ProductD!Begins, ProductD!Joins, Joins, ProductD!Again, Again
<1>2. ProductD!Ends(h) <=> Ends(h)
  BY DEF ProductD!Ends, Ends, ProductD!Without, Without, ProductD!Again, Again
<1>3. \A next : ProductD!GoesOnAs(h, next) => GoesOnAs(h, next)
  BY DEF ProductD!GoesOnAs, GoesOnAs, ProductD!Joins, Joins, ProductD!Without, Without,
         ProductD!Again, Again
<1>4. QED
  BY <1>1, <1>2, <1>3, Joined, Ended, WentOn

\* What is being saved for the website is in order.
Website(c) ==
  /\ "ask" \in DOMAIN c
  /\ c.ask = "pictures" => "from" \in DOMAIN c
  /\ c.ask = "website" =>
       /\ {"images", "thumbnail"} \subseteq DOMAIN c
       /\ c.thumbnail # ProductD!None => c.thumbnail \in c.images

PicturesInv ==
  /\ {"temporary", "thumbnail", "selected"} \subseteq DOMAIN ui
  /\ \A c \in calls : Website(c)
  /\ ProductD!TemporaryPicturesGo
  /\ ui.thumbnail # ProductD!None => ui.thumbnail \in ui.selected

\* A handler that is like another has the same settings.
LEMMA LikeWebsite == ASSUME NEW c, NEW h, Like(c, h), Website(h) PROVE Website(c)
BY DEF Like, Website

\* The dialog begins without previews.
LEMMA PicturesInits == ProductD!Init => PicturesInv
BY DEF ProductD!Init, PicturesInv, ProductD!TemporaryPicturesGo

\* The handlers that show previews.
Uploads(c) == c.ask = "upload" \/ (c.ask = "pictures" /\ c.from = "upload")

\* Beginning a handler takes no upload away.
LEMMA PicturesBegin ==
  ASSUME PicturesInv, NEW h, "again" \notin DOMAIN h, Website(h), ProductD!Begins(h),
         DOMAIN ui' = DOMAIN ui,
         ui'.temporary => ui.temporary \/ h.ask = "upload",
         ui'.thumbnail # ProductD!None => ui'.thumbnail \in ui'.selected
  PROVE  PicturesInv'
<1>1. /\ calls \subseteq calls'
      /\ \A c \in calls' : c \in calls \/ Like(c, h)
      /\ \E c \in calls' : Like(c, h)
  BY ProductDHandlers
<1>2. \A c \in calls' : Website(c)
  BY <1>1, LikeWebsite DEF PicturesInv
<1>3. ui'.temporary => \E c \in calls' : Uploads(c)
  <2>1. CASE ui.temporary
    BY <1>1, <2>1 DEF PicturesInv, ProductD!TemporaryPicturesGo, Uploads
  <2>2. CASE h.ask = "upload"
    <3>1. "ask" \in DOMAIN h
      BY DEF Website
    <3>2. QED
      BY <1>1, <2>2, <3>1 DEF Like, Uploads
  <2>3. QED
    BY <2>1, <2>2
<1>4. QED
  BY <1>2, <1>3 DEF PicturesInv, ProductD!TemporaryPicturesGo, Uploads

\* A handler that ends takes no upload away but its own, with the previews.
LEMMA PicturesAnswer ==
  ASSUME PicturesInv, NEW h \in calls, "again" \notin DOMAIN h,
         \/ ProductD!Ends(h) /\ (ui'.temporary => ui.temporary /\ ~Uploads(h))
         \/ /\ h.ask # "pictures" /\ (ui'.temporary => ui.temporary)
            /\ \E from : /\ ProductD!GoesOnAs(h, ProductD!Load(from))
                         /\ h.ask = "upload" => from = "upload",
         DOMAIN ui' = DOMAIN ui,
         ui'.thumbnail # ProductD!None => ui'.thumbnail \in ui'.selected
  PROVE  PicturesInv'
<1> USE DEF PicturesInv
<1>0. Website(h)
  OBVIOUS
<1>1. CASE ProductD!Ends(h) /\ (ui'.temporary => ui.temporary /\ ~Uploads(h))
  <2>1. calls' \subseteq calls /\ \A c \in calls \ calls' : Like(c, h)
    BY <1>1, ProductDHandlers
  <2>2. ui'.temporary => \E c \in calls' : Uploads(c)
    BY <1>0, <1>1, <2>1 DEF Like, Uploads, Website, ProductD!TemporaryPicturesGo
  <2>3. QED
    BY <2>1, <2>2 DEF Uploads, ProductD!TemporaryPicturesGo
<1>2. ASSUME NEW from, ProductD!GoesOnAs(h, ProductD!Load(from)),
             h.ask = "upload" => from = "upload", h.ask # "pictures",
             ui'.temporary => ui.temporary
      PROVE  PicturesInv'
  <2> DEFINE next == ProductD!Load(from)
  <2>1. "again" \notin DOMAIN next /\ Website(next) /\ (from = "upload" => Uploads(next))
    BY DEF ProductD!Load, Website, Uploads
  <2>2. /\ \A c \in calls' : c \in calls \/ Like(c, next)
        /\ \E c \in calls' : Like(c, next)
        /\ \A c \in calls \ calls' : Like(c, h)
    BY <1>2, <2>1, ProductDHandlers
  <2>3. \A c \in calls' : Website(c)
    BY <2>1, <2>2, LikeWebsite
  <2>4. CASE from = "upload"
    <3>1. \E c \in calls' : Uploads(c)
      BY <2>1, <2>2, <2>4 DEF Like, Uploads, ProductD!Load
    <3>2. QED
      BY <2>3, <3>1 DEF Uploads, ProductD!TemporaryPicturesGo
  <2>5. CASE h.ask # "upload"
    <3>1. \A c \in calls \ calls' : ~Uploads(c)
      BY <1>0, <1>2, <2>2, <2>5 DEF Like, Uploads, Website
    <3>2. ui'.temporary => \E c \in calls' : Uploads(c)
      BY <3>1 DEF Uploads, ProductD!TemporaryPicturesGo
    <3>3. QED
      BY <2>3, <3>2 DEF Uploads, ProductD!TemporaryPicturesGo
  <2>6. QED
    BY <1>2, <2>4, <2>5
<1>3. QED
  BY <1>1, <1>2

\* Every step of the dialog keeps its invariant.
LEMMA PicturesSteps == PicturesInv /\ ProductD!Next => PicturesInv'
<1> SUFFICES ASSUME PicturesInv, ProductD!Next PROVE PicturesInv'
  OBVIOUS
<1>1. ASSUME UNCHANGED calls, DOMAIN ui' = DOMAIN ui, ui'.temporary => ui.temporary,
             ui'.thumbnail # ProductD!None => ui'.thumbnail \in ui'.selected
      PROVE  PicturesInv'
  BY <1>1 DEF PicturesInv, ProductD!TemporaryPicturesGo
<1>2. CASE ProductD!Close \/ ProductD!setPreviewIndex
  BY <1>1, <1>2 DEF PicturesInv, ProductD!Close, ProductD!setPreviewIndex
<1>3. CASE \E p \in Pictures :
             ProductD!toggleWebsiteImage(p) \/ ProductD!setWebsiteThumbnail(p)
  <2>1. PICK p \in Pictures :
               ProductD!toggleWebsiteImage(p) \/ ProductD!setWebsiteThumbnail(p)
    BY <1>3
  <2>2. CASE ProductD!toggleWebsiteImage(p)
    <3>1. /\ UNCHANGED calls /\ DOMAIN ui' = DOMAIN ui /\ ui'.temporary = ui.temporary
          /\ ui'.selected = IF p \in ui.selected THEN ui.selected \ {p}
                            ELSE ui.selected \union {p}
          /\ ui'.thumbnail = IF ui.thumbnail = p THEN ProductD!None ELSE ui.thumbnail
      BY <2>2 DEF PicturesInv, ProductD!toggleWebsiteImage
    <3>2. ui'.thumbnail # ProductD!None => ui'.thumbnail \in ui'.selected
      BY <3>1 DEF PicturesInv
    <3>3. QED
      BY <1>1, <3>1, <3>2
  <2>3. CASE ProductD!setWebsiteThumbnail(p)
    BY <1>1, <2>3 DEF PicturesInv, ProductD!setWebsiteThumbnail
  <2>4. QED
    BY <2>1, <2>2, <2>3
<1>4. CASE ProductD!Open
  <2>1. PICK images \in SUBSET Pictures, visible \in BOOLEAN :
          \E thumbnail \in images \union {ProductD!None} :
            ui' = ProductD!loadPictures([ui EXCEPT !.open = TRUE, !.visible = visible,
                                         !.selected = images, !.thumbnail = thumbnail])
    BY <1>4 DEF ProductD!Open
  <2>2. /\ DOMAIN ui' = DOMAIN ui /\ ui'.temporary = ui.temporary
        /\ ui'.thumbnail # ProductD!None => ui'.thumbnail \in ui'.selected
    BY <2>1 DEF PicturesInv, ProductD!loadPictures
  <2>3. /\ ProductD!Begins(ProductD!Load("open"))
        /\ "again" \notin DOMAIN ProductD!Load("open") /\ Website(ProductD!Load("open"))
    BY <1>4 DEF ProductD!Open, ProductD!Load, Website
  <2>4. QED
    BY <2>2, <2>3, PicturesBegin
<1>5. CASE ProductD!handleUploadPictures
  <2> DEFINE h == [ask |-> "upload"]
  <2>1. Website(h) /\ "again" \notin DOMAIN h /\ h.ask = "upload"
    BY DEF Website
  <2>2. ProductD!Begins(h) /\ ui' = [ui EXCEPT !.temporary = TRUE, !.uploading = TRUE]
    BY <1>5 DEF ProductD!handleUploadPictures
  <2> HIDE DEF h
  <2>3. QED
    BY <2>1, <2>2, PicturesBegin DEF PicturesInv
<1>6. CASE \E p \in Pictures : ProductD!handleDeletePicture(p)
  <2> DEFINE h == [ask |-> "delete"]
  <2>1. Website(h) /\ "again" \notin DOMAIN h
    BY DEF Website
  <2>2. ProductD!Begins(h) /\ \E p \in Pictures : ui' = [ui EXCEPT !.deleting = p]
    BY <1>6 DEF ProductD!handleDeletePicture
  <2> HIDE DEF h
  <2>3. QED
    BY <2>1, <2>2, PicturesBegin DEF PicturesInv
<1>7. CASE ProductD!setWebsiteVisible \/ ProductD!handleSaveWebsite
  <2> DEFINE h == [ask |-> "website", images |-> ui.selected, thumbnail |-> ui.thumbnail]
  <2>1. Website(h) /\ "again" \notin DOMAIN h
    BY DEF PicturesInv, Website
  <2>2. /\ ProductD!Begins(h)
        /\ \E visible : ui' = [ui EXCEPT !.visible = visible, !.saving = TRUE]
    BY <1>7 DEF ProductD!setWebsiteVisible, ProductD!handleSaveWebsite,
                ProductD!persistWebsiteSettings
  <2> HIDE DEF h
  <2>3. QED
    BY <2>1, <2>2, PicturesBegin DEF PicturesInv
<1>8. CASE \E h \in calls : ProductD!Answer(h)
  <2>1. PICK h \in calls : ProductD!Answer(h)
    BY <1>8
  <2>2. "again" \notin DOMAIN h
    BY <2>1 DEF ProductD!Answer, ProductD!Awaits, ProductD!PicturesLoaded,
                ProductD!Uploaded, ProductD!Deleted, ProductD!WebsiteSaved
  <2> DEFINE Rest == /\ DOMAIN ui' = DOMAIN ui /\ ui'.selected = ui.selected
                     /\ ui'.thumbnail = ui.thumbnail
  <2>3. CASE ProductD!PicturesLoaded(h)
    <3>1. PICK list \in SUBSET Pictures, unavailable \in BOOLEAN :
            LET u == [ui EXCEPT !.temporary = FALSE, !.loading = FALSE,
                                !.pictures = IF unavailable THEN {} ELSE list,
                                !.unavailable = @ \/ unavailable]
            IN  \/ ui' = [u EXCEPT !.uploading = FALSE]
                \/ \E preview : ui' = [u EXCEPT !.deleting = ProductD!None, !.preview = preview]
                \/ ui' = u
      BY <2>3 DEF ProductD!PicturesLoaded
    <3>2. Rest /\ ~ui'.temporary
      BY <3>1 DEF PicturesInv
    <3>3. ProductD!Ends(h)
      BY <2>3 DEF ProductD!PicturesLoaded
    <3>4. QED
      BY <2>2, <3>2, <3>3, PicturesAnswer DEF PicturesInv
  <2>4. CASE ProductD!Uploaded(h)
    <3>1. CASE /\ ui' = ProductD!loadPictures(ui)
               /\ ProductD!GoesOnAs(h, ProductD!Load("upload"))
      <4>1. Rest /\ ui'.temporary = ui.temporary
        BY <3>1 DEF PicturesInv, ProductD!loadPictures
      <4>2. h.ask = "upload"
        BY <2>4 DEF ProductD!Uploaded, ProductD!Awaits
      <4>3. QED
        BY <2>2, <3>1, <4>1, <4>2, PicturesAnswer DEF PicturesInv
    <3>2. CASE /\ ui' = [ui EXCEPT !.temporary = FALSE, !.uploading = FALSE]
               /\ ProductD!Ends(h)
      BY <2>2, <3>2, PicturesAnswer DEF PicturesInv
    <3>3. QED
      BY <2>4, <3>1, <3>2 DEF ProductD!Uploaded
  <2>5. CASE ProductD!Deleted(h) \/ ProductD!WebsiteSaved(h)
    <3>1. ~Uploads(h) /\ h.ask \notin {"upload", "pictures"}
      BY <2>5 DEF ProductD!Deleted, ProductD!WebsiteSaved, ProductD!Awaits, Uploads
    <3>2. Rest /\ ui'.temporary = ui.temporary
      BY <2>5 DEF PicturesInv, ProductD!Deleted, ProductD!WebsiteSaved,
                  ProductD!loadPictures
    <3>3. ProductD!Ends(h) \/ ProductD!GoesOnAs(h, ProductD!Load("delete"))
      BY <2>5 DEF ProductD!Deleted, ProductD!WebsiteSaved
    <3>4. QED
      BY <2>2, <3>1, <3>2, <3>3, PicturesAnswer DEF PicturesInv
  <2>6. QED
    BY <2>1, <2>3, <2>4, <2>5 DEF ProductD!Answer
<1>9. QED
  BY <1>2, <1>3, <1>4, <1>5, <1>6, <1>7, <1>8 DEF ProductD!Next

(***************************************************************************)
(* The form and the details of the cases tab.                              *)
(***************************************************************************)

\* What the tab does to its handlers is what ReactPage says.
LEMMA CasesTHandlers ==
  ASSUME NEW h, "again" \notin DOMAIN h
  PROVE  /\ CasesT!Begins(h)
              => /\ calls \subseteq calls'
                 /\ \A c \in calls' : c \in calls \/ Like(c, h)
                 /\ \E c \in calls' : Like(c, h)
         /\ CasesT!Ends(h) => /\ calls' \subseteq calls
                              /\ \A c \in calls \ calls' : Like(c, h)
         /\ \A next : "again" \notin DOMAIN next /\ CasesT!GoesOnAs(h, next)
              => /\ \A c \in calls' : c \in calls \/ Like(c, next)
                 /\ \E c \in calls' : Like(c, next)
                 /\ \A c \in calls \ calls' : Like(c, h)
<1>1. CasesT!Begins(h) => Joins(h, calls)
  BY DEF CasesT!Begins, CasesT!Joins, Joins, CasesT!Again, Again
<1>2. CasesT!Ends(h) <=> Ends(h)
  BY DEF CasesT!Ends, Ends, CasesT!Without, Without, CasesT!Again, Again
<1>3. \A next : CasesT!GoesOnAs(h, next) => GoesOnAs(h, next)
  BY DEF CasesT!GoesOnAs, GoesOnAs, CasesT!Joins, Joins, CasesT!Without, Without,
         CasesT!Again, Again
<1>4. QED
  BY <1>1, <1>2, <1>3, Joined, Ended, WentOn

\* A save goes to the case whose values it carries.
TabSaved(c) ==
  /\ "ask" \in DOMAIN c
  /\ c.ask = "save" => {"of", "form"} \subseteq DOMAIN c /\ c.of = c.form

CasesTInv ==
  /\ {"view", "devicesOf", "open", "editing", "formOf"} \subseteq DOMAIN ui
  /\ ui.open => ui.editing = ui.formOf
  /\ CasesT!DetailsShowOneCase
  /\ \A c \in calls : TabSaved(c)

\* A handler that is like another saves as it does.
LEMMA LikeTabSaved == ASSUME NEW c, NEW h, Like(c, h), TabSaved(h) PROVE TabSaved(c)
BY DEF Like, TabSaved

\* The tab begins with no form and no details.
LEMMA CasesTInits == CasesT!Init => CasesTInv
BY DEF CasesT!Init, CasesT!Load, CasesTInv, TabSaved, CasesT!DetailsShowOneCase

\* The saves stay what they are when handlers begin, go on or end.
LEMMA CasesTCalls ==
  ASSUME CasesTInv,
         \/ UNCHANGED calls
         \/ \E h : TabSaved(h) /\ "again" \notin DOMAIN h /\ CasesT!Begins(h)
         \/ \E h \in calls : "again" \notin DOMAIN h /\ CasesT!Ends(h)
         \/ \E h \in calls : \E next : /\ "again" \notin DOMAIN h
                                       /\ "again" \notin DOMAIN next
                                       /\ TabSaved(next) /\ CasesT!GoesOnAs(h, next)
  PROVE  \A c \in calls' : TabSaved(c)
BY CasesTHandlers, LikeTabSaved DEF CasesTInv

\* Every step of the tab keeps the invariant.
LEMMA CasesTSteps == CasesTInv /\ CasesT!Next => CasesTInv'
<1> SUFFICES ASSUME CasesTInv, CasesT!Next PROVE CasesTInv'
  OBVIOUS
<1> DEFINE Kept == /\ DOMAIN ui' = DOMAIN ui
                   /\ ui'.open => ui'.editing = ui'.formOf
                   /\ CasesT!DetailsShowOneCase'
<1>0. \A from : "again" \notin DOMAIN CasesT!Load(from) /\ TabSaved(CasesT!Load(from))
  BY DEF CasesT!Load, TabSaved
<1>1. CASE \/ CasesT!Dismiss \/ CasesT!SearchTyped \/ CasesT!CloseView
           \/ CasesT!openCreateModal \/ CasesT!EditViewed \/ CasesT!CloseForm
           \/ \E c \in Cases : CasesT!EditCase(c)
  <2>1. UNCHANGED calls
    BY <1>1 DEF CasesT!Dismiss, CasesT!SearchTyped, CasesT!CloseView,
                CasesT!openCreateModal, CasesT!EditViewed, CasesT!CloseForm,
                CasesT!EditCase
  <2>2. CASE \/ CasesT!Dismiss \/ CasesT!SearchTyped \/ CasesT!CloseView
             \/ CasesT!openCreateModal \/ CasesT!CloseForm
    <3>1. Kept
      BY <2>2 DEF CasesTInv, CasesT!DetailsShowOneCase, CasesT!Dismiss,
                  CasesT!SearchTyped, CasesT!CloseView, CasesT!openCreateModal,
                  CasesT!CloseForm
    <3>2. QED
      BY <2>1, <3>1, CasesTCalls DEF CasesTInv
  <2>3. CASE CasesT!EditViewed \/ \E c \in Cases : CasesT!EditCase(c)
    <3>1. Kept
      BY <2>3 DEF CasesTInv, CasesT!DetailsShowOneCase, CasesT!EditViewed,
                  CasesT!EditCase, CasesT!openEditModal
    <3>2. QED
      BY <2>1, <3>1, CasesTCalls DEF CasesTInv
  <2>4. QED
    BY <1>1, <2>2, <2>3
<1>2. CASE CasesT!FilterChanged \/ CasesT!handleRefresh
  <2>1. Kept /\ \E from : CasesT!Begins(CasesT!Load(from))
    BY <1>2 DEF CasesTInv, CasesT!DetailsShowOneCase, CasesT!FilterChanged,
                CasesT!handleRefresh
  <2>2. QED
    BY <1>0, <2>1, CasesTCalls DEF CasesTInv
<1>3. CASE \E c \in Cases :
             CasesT!handleDelete(c) \/ CasesT!handlePrintLabel(c) \/ CasesT!handleViewCase(c)
  <2>1. Kept
    BY <1>3 DEF CasesTInv, CasesT!DetailsShowOneCase, CasesT!handleDelete,
                CasesT!handlePrintLabel, CasesT!handleViewCase
  <2>2. PICK c \in Cases : \/ CasesT!Begins([ask |-> "delete"])
                           \/ CasesT!Begins([ask |-> "templates"])
                           \/ CasesT!Begins([ask |-> "view", of |-> c])
    BY <1>3 DEF CasesT!handleDelete, CasesT!handlePrintLabel, CasesT!handleViewCase
  <2>3. \A h \in {[ask |-> "delete"], [ask |-> "templates"], [ask |-> "view", of |-> c]} :
          TabSaved(h) /\ "again" \notin DOMAIN h
    BY DEF TabSaved
  <2>4. QED
    BY <2>1, <2>2, <2>3, CasesTCalls DEF CasesTInv
<1>4. CASE CasesT!handleSubmit
  <2> DEFINE h == [ask |-> "save", of |-> ui.editing, form |-> ui.formOf]
  <2>1. TabSaved(h) /\ "again" \notin DOMAIN h
    BY <1>4 DEF CasesTInv, CasesT!handleSubmit, TabSaved
  <2>2. UNCHANGED calls \/ CasesT!Begins(h)
    BY <1>4 DEF CasesT!handleSubmit
  <2>3. Kept
    BY <1>4 DEF CasesTInv, CasesT!DetailsShowOneCase, CasesT!handleSubmit,
                CasesT!Say, CasesT!clearActionMessage
  <2> HIDE DEF h
  <2>4. QED
    BY <2>1, <2>2, <2>3, CasesTCalls DEF CasesTInv
<1>5. CASE \E h \in calls : CasesT!Answer(h)
  <2>1. PICK h \in calls : CasesT!Answer(h)
    BY <1>5
  <2>2. "again" \notin DOMAIN h /\ TabSaved(h)
    BY <2>1 DEF CasesTInv, CasesT!Answer, CasesT!Awaits, CasesT!fetchCases,
                CasesT!Deleted, CasesT!Printed, CasesT!Viewed, CasesT!Saved
  <2>3. CASE CasesT!fetchCases(h)
    <3>1. PICK list \in SUBSET Cases :
            LET u == [ui EXCEPT !.listed = list, !.loading = FALSE]
            IN  \/ ui' = [u EXCEPT !.refreshing = FALSE]
                \/ ui' = CasesT!clearActionMessage([u EXCEPT !.submitting = FALSE])
                \/ ui' = CasesT!clearActionMessage(u)
                \/ ui' = u
      BY <2>3 DEF CasesT!fetchCases
    <3>2. Kept
      BY <3>1 DEF CasesTInv, CasesT!DetailsShowOneCase, CasesT!clearActionMessage
    <3>3. CasesT!Ends(h)
      BY <2>3 DEF CasesT!fetchCases
    <3>4. QED
      BY <2>2, <3>2, <3>3, CasesTCalls DEF CasesTInv
  <2>4. CASE CasesT!Deleted(h) \/ CasesT!Viewed(h) \/ CasesT!Saved(h)
    <3>1. Kept
      BY <2>4 DEF CasesTInv, CasesT!DetailsShowOneCase, CasesT!Deleted, CasesT!Viewed,
                  CasesT!Saved, CasesT!Say, CasesT!clearActionMessage
    <3>2. CasesT!Ends(h) \/ \E from : CasesT!GoesOnAs(h, CasesT!Load(from))
      BY <2>4 DEF CasesT!Deleted, CasesT!Viewed, CasesT!Saved
    <3>3. QED
      BY <1>0, <2>2, <3>1, <3>2, CasesTCalls DEF CasesTInv
  <2>5. CASE CasesT!Printed(h)
    <3> DEFINE next == [h EXCEPT !.ask = "label"]
    <3>1. UNCHANGED ui /\ (CasesT!GoesOnAs(h, next) \/ CasesT!Ends(h))
      BY <2>5 DEF CasesT!Printed, CasesT!GoesOn
    <3>2. TabSaved(next) /\ "again" \notin DOMAIN next
      BY <2>2 DEF TabSaved
    <3> HIDE DEF next
    <3>3. \A c \in calls' : TabSaved(c)
      BY <2>2, <3>1, <3>2, CasesTCalls
    <3>4. QED
      BY <3>1, <3>3 DEF CasesTInv, CasesT!DetailsShowOneCase
  <2>6. QED
    BY <2>1, <2>3, <2>4, <2>5 DEF CasesT!Answer
<1>6. QED
  BY <1>1, <1>2, <1>3, <1>4, <1>5 DEF CasesT!Next

(***************************************************************************)
(* The texts beside the bins of the LED settings.                          *)
(***************************************************************************)
TextsInv == {"mapping", "pixelsInput"} \subseteq DOMAIN ui /\ LEDs!TextIsMapping

\* What the page does to the mapping when it moves the texts along.
LEMMA Rebuilt ==
  ASSUME NEW mapping, TextsInv, ui'.mapping = mapping, DOMAIN ui' = DOMAIN ui,
         ui'.pixelsInput = LEDs!rebuildPixelInputs(mapping)
  PROVE  TextsInv'
<1>1. /\ DOMAIN LEDs!rebuildPixelInputs(mapping) = LEDs!Positions(mapping)
      /\ \A p \in LEDs!Positions(mapping) :
           LEDs!rebuildPixelInputs(mapping)[p].parse = mapping[p[1]][p[2]]
  BY DEF LEDs!rebuildPixelInputs
<1>2. QED
  BY <1>1 DEF TextsInv, LEDs!TextIsMapping

\* No text but the one of an empty mapping is there at first.
LEMMA TextsInits == LEDs!Init => TextsInv
BY DEF LEDs!Init, TextsInv, LEDs!TextIsMapping, LEDs!Positions

\* A text that is typed changes its own bin and no other.
LEMMA Typed ==
  ASSUME TextsInv, NEW p \in LEDs!Positions(ui.mapping), NEW text \in LEDs!Text,
         LEDs!handlePixelInputChange(p[1], p[2], text)
  PROVE  TextsInv'
<1>0. PICK s \in DOMAIN ui.mapping : \E b \in DOMAIN ui.mapping[s] : p = <<s, b>>
  BY DEF LEDs!Positions
<1>1. PICK b \in DOMAIN ui.mapping[s] : p = <<s, b>>
  BY <1>0
<1> DEFINE new == [ui.mapping EXCEPT ![s][b] = text.parse]
           input == [ui.pixelsInput EXCEPT ![<<s, b>>] = text]
<1>2. ui'.mapping = new /\ ui'.pixelsInput = input /\ DOMAIN ui' = DOMAIN ui
  BY <1>1 DEF TextsInv, LEDs!handlePixelInputChange
<1>3. /\ DOMAIN new = DOMAIN ui.mapping
      /\ \A x \in DOMAIN new : DOMAIN new[x] = DOMAIN ui.mapping[x]
      /\ \A x \in DOMAIN new : \A y \in DOMAIN new[x] :
           new[x][y] = IF x = s /\ y = b THEN text.parse ELSE ui.mapping[x][y]
  BY <1>1
<1>4. /\ DOMAIN input = DOMAIN ui.pixelsInput
      /\ \A q \in DOMAIN input : input[q] = IF q = p THEN text ELSE ui.pixelsInput[q]
  BY <1>1 DEF TextsInv, LEDs!TextIsMapping
<1> HIDE DEF new, input
<1>5. LEDs!Positions(new) = LEDs!Positions(ui.mapping)
  BY <1>3 DEF LEDs!Positions
<1>6. ASSUME NEW q \in LEDs!Positions(new)
      PROVE  input[q].parse = new[q[1]][q[2]]
  <2>0. PICK x \in DOMAIN new : \E y \in DOMAIN new[x] : q = <<x, y>>
    BY <1>6 DEF LEDs!Positions
  <2>1. PICK y \in DOMAIN new[x] : q = <<x, y>>
    BY <2>0
  <2>2. q \in DOMAIN input /\ ui.pixelsInput[q].parse = ui.mapping[x][y]
    BY <1>4, <1>5, <2>1 DEF TextsInv, LEDs!TextIsMapping
  <2>3. CASE x = s /\ y = b
    BY <1>1, <1>3, <1>4, <2>1, <2>2, <2>3
  <2>4. CASE x # s \/ y # b
    BY <1>1, <1>3, <1>4, <2>1, <2>2, <2>4
  <2>5. QED
    BY <2>3, <2>4
<1>7. QED
  BY <1>2, <1>4, <1>5, <1>6 DEF TextsInv, LEDs!TextIsMapping

\* Whichever button it is, it starts a preview or stops it.
LEMMA LEDsButtons ==
  (\/ LEDs!FormPreview \/ LEDs!FormStop \/ LEDs!MappingPreview
   \/ \E bin \in Targets : LEDs!BinButton(bin))
    => \/ LEDs!handlePreviewStop
       \/ \E target \in Targets \union {"all"} : LEDs!triggerPreview(target)
BY DEF LEDs!FormPreview, LEDs!FormStop, LEDs!MappingPreview, LEDs!BinButton

\* Every step of the settings.
LEMMA TextsSteps == TextsInv /\ LEDs!Next => TextsInv'
<1> SUFFICES ASSUME TextsInv, LEDs!Next PROVE TextsInv'
  OBVIOUS
<1>1. CASE \E mapping : LEDs!Rebuild(mapping)
  <2>1. PICK mapping : LEDs!Rebuild(mapping)
    BY <1>1
  <2>2. /\ ui'.mapping = mapping /\ DOMAIN ui' = DOMAIN ui
        /\ ui'.pixelsInput = LEDs!rebuildPixelInputs(mapping)
    BY <2>1 DEF LEDs!Rebuild, TextsInv
  <2>3. QED
    BY <2>2, Rebuilt
<1>2. CASE /\ ui'.mapping = ui.mapping /\ ui'.pixelsInput = ui.pixelsInput
           /\ DOMAIN ui' = DOMAIN ui
  BY <1>2 DEF TextsInv, LEDs!TextIsMapping
<1>3. CASE LEDs!addShelf \/ \E s \in DOMAIN ui.mapping : LEDs!removeShelf(s) \/ LEDs!addBin(s)
  BY <1>1, <1>3 DEF LEDs!addShelf, LEDs!removeShelf, LEDs!addBin
<1>4. CASE \E p \in LEDs!Positions(ui.mapping) : LEDs!removeBin(p[1], p[2])
  BY <1>1, <1>4 DEF LEDs!removeBin
<1>5. CASE \E p \in LEDs!Positions(ui.mapping) : \E t \in LEDs!Text :
             LEDs!handlePixelInputChange(p[1], p[2], t)
  BY <1>5, Typed
<1>6. CASE \/ LEDs!loadMapping \/ LEDs!handlePreviewStop
           \/ \E target \in Targets \union {"all"} : LEDs!triggerPreview(target)
           \/ LEDs!handleSave \/ LEDs!handleJobSettingsSave \/ LEDs!handleMappingSave
           \/ LEDs!handleMappingValidate
           \/ \E z \in ZoneTypes : LEDs!handleZoneTypeSave(z)
  BY <1>2, <1>6
     DEF TextsInv, LEDs!loadMapping, LEDs!triggerPreview, LEDs!handlePreviewStop,
         LEDs!handleSave, LEDs!handleJobSettingsSave, LEDs!handleMappingSave,
         LEDs!handleMappingValidate, LEDs!Save, LEDs!handleZoneTypeSave
<1>7. CASE \E h \in calls : LEDs!Answer(h)
  <2>1. PICK h \in calls : LEDs!Answer(h)
    BY <1>7
  <2>2. CASE LEDs!MappingLoaded(h)
    <3>1. PICK mapping :
            \E ok \in BOOLEAN :
              ui' = [ui EXCEPT !.loaded = ok, !.mapping = mapping,
                               !.pixelsInput = LEDs!rebuildPixelInputs(mapping),
                               !.mappingLoading = FALSE]
      BY <2>2 DEF LEDs!MappingLoaded
    <3>2. QED
      BY <3>1, Rebuilt DEF TextsInv
  <2>3. CASE \/ LEDs!loadDefaults(h) \/ LEDs!loadZoneTypes(h) \/ LEDs!Saved(h)
             \/ LEDs!ZoneTypeSaved(h) \/ LEDs!Previewed(h) \/ LEDs!Stopped(h)
    BY <1>2, <2>3
       DEF TextsInv, LEDs!loadDefaults, LEDs!loadZoneTypes, LEDs!Saved,
           LEDs!ZoneTypeSaved, LEDs!Previewed, LEDs!Stopped
  <2>4. QED
    BY <2>1, <2>2, <2>3 DEF LEDs!Answer
<1>8. QED
  BY <1>3, <1>4, <1>5, <1>6, <1>7, LEDsButtons DEF LEDs!Next

(***************************************************************************)
(* The types of the cases page.                                            *)
(***************************************************************************)

\* The page, and what a handler of it carries.
CasesPUi ==
  [loading : BOOLEAN, open : BOOLEAN, selected : Cases \union {None},
   devicesOf : Cases \union {None}, opening : BOOLEAN, deviceOpen : BOOLEAN,
   tree : {None, "detail", "edit"}, formOpen : BOOLEAN, formOf : Cases \union {None},
   editing : Cases \union {None}, editDevicesOf : Cases \union {None},
   submitting : BOOLEAN, message : BOOLEAN, timer : BOOLEAN]

CasesPTyped(c) ==
  {"ask", "of", "from"} \subseteq DOMAIN c /\ c.of \in Cases \union {None}

CasesPTypes == ui \in CasesPUi /\ \A c \in calls : CasesPTyped(c)

\* A handler that is like another carries the same.
LEMMA CasesPTypedAlike ==
  ASSUME NEW c, NEW h, Like(c, h), CasesPTyped(h)
  PROVE  CasesPTyped(c)
BY DEF Like, CasesPTyped

\* What a step may do with the handlers.
CasesPTypedCalls ==
  \/ UNCHANGED calls
  \/ \E h : CasesPTyped(h) /\ "again" \notin DOMAIN h /\ CasesP!Begins(h)
  \/ \E h \in calls : "again" \notin DOMAIN h /\ CasesP!Ends(h)
  \/ \E h \in calls : \E next : /\ "again" \notin DOMAIN h /\ "again" \notin DOMAIN next
                                /\ CasesPTyped(next) /\ CasesP!GoesOnAs(h, next)

\* Such a step keeps their types.
LEMMA CasesPTypesKept ==
  CasesPTypes /\ ui' \in CasesPUi /\ CasesPTypedCalls => CasesPTypes'
BY CasesPHandlers, CasesPTypedAlike DEF CasesPTypes, CasesPTypedCalls

\* At first.
LEMMA CasesPTypeInits == CasesP!Init => CasesPTypes
BY DEF CasesP!Init, CasesP!Load, CasesP!Handler, CasesPTypes, CasesPUi, CasesPTyped,
       CasesP!None, None

\* So the page keeps its types.
LEMMA CasesPTypesHold == CasesPTypes => CasesP!TypeOK
BY DEF CasesPTypes, CasesPUi, CasesPTyped, CasesP!TypeOK, CasesP!None, None

\* Every step keeps the types.
LEMMA CasesPTypeSteps == CasesPTypes /\ CasesP!Next => CasesPTypes'
<1> SUFFICES ASSUME CasesPTypes, CasesP!Next PROVE ui' \in CasesPUi /\ CasesPTypedCalls
  BY CasesPTypesKept
<1>1. ui \in CasesPUi /\ \A c \in calls : CasesPTyped(c)
  BY DEF CasesPTypes
<1>2. \A ask, of, from : /\ "again" \notin DOMAIN CasesP!Handler(ask, of, from)
                         /\ of \in Cases \union {None}
                              => CasesPTyped(CasesP!Handler(ask, of, from))
  BY DEF CasesP!Handler, CasesPTyped
<1>3. \A from : "again" \notin DOMAIN CasesP!Load(from) /\ CasesPTyped(CasesP!Load(from))
  BY <1>2 DEF CasesP!Load, CasesP!None, None
<1> USE DEF CasesPUi, CasesPTypedCalls, CasesP!None, None
<1>4. CASE CasesP!Dismiss
  BY <1>1, <1>2, <1>3, <1>4, ZenonT(60) DEF CasesP!Dismiss
<1>5. CASE CasesP!loadCases
  BY <1>1, <1>2, <1>3, <1>5 DEF CasesP!loadCases
<1>6. CASE CasesP!CloseCase
  BY <1>1, <1>2, <1>3, <1>6 DEF CasesP!CloseCase
<1>7. CASE CasesP!handleLocateDevice
  BY <1>1, <1>2, <1>3, <1>7, ZenonT(60) DEF CasesP!handleLocateDevice, CasesP!Say,
                                CasesP!clearActionMessage
<1>8. CASE CasesP!handleOpenDevice
  BY <1>1, <1>2, <1>3, <1>8 DEF CasesP!handleOpenDevice
<1>9. CASE CasesP!CloseDevice
  BY <1>1, <1>2, <1>3, <1>9 DEF CasesP!CloseDevice
<1>10. CASE CasesP!handleConfirmAddDevices
  BY <1>1, <1>2, <1>3, <1>10 DEF CasesP!handleConfirmAddDevices, CasesP!CaseOf
<1>11. CASE CasesP!CancelTree
  BY <1>1, <1>2, <1>3, <1>11 DEF CasesP!CancelTree
<1>12. CASE CasesP!handleOpenCreateModal
  BY <1>1, <1>2, <1>3, <1>12 DEF CasesP!handleOpenCreateModal
<1>13. CASE CasesP!CloseForm
  BY <1>1, <1>2, <1>3, <1>13 DEF CasesP!CloseForm
<1>14. CASE CasesP!handleFormSubmit
  BY <1>1, <1>2, <1>3, <1>14, ZenonT(60) DEF CasesP!handleFormSubmit, CasesP!Say,
                                 CasesP!clearActionMessage
<1>15. CASE \E c \in Cases : CasesP!handleOpenCase(c)
  BY <1>1, <1>2, <1>3, <1>15 DEF CasesP!handleOpenCase
<1>16. CASE \E c \in Cases : CasesP!handleOpenEditModal(c)
  BY <1>1, <1>2, <1>3, <1>16 DEF CasesP!handleOpenEditModal
<1>17. CASE \E c \in Cases : CasesP!handleDelete(c)
  BY <1>1, <1>2, <1>3, <1>17 DEF CasesP!handleDelete
<1>18. CASE \E x \in {"detail", "edit"} : CasesP!handleAddDevices(x)
  BY <1>1, <1>2, <1>3, <1>18 DEF CasesP!handleAddDevices
<1>19. CASE \E x \in {"detail", "edit"} : CasesP!handleRemoveDevice(x)
  BY <1>1, <1>2, <1>3, <1>19 DEF CasesP!handleRemoveDevice, CasesP!CaseOf
<1>20. CASE \E h \in calls : CasesP!Answer(h)
  <2>1. PICK h \in calls : CasesP!Answer(h)
    BY <1>20
  <2>2. "again" \notin DOMAIN h /\ CasesPTyped(h)
    BY <1>1, <2>1 DEF CasesP!Answer,
                CasesP!Listed, CasesP!CaseOpened, CasesP!Located, CasesP!DeviceOpened,
                CasesP!Changed, CasesP!NotChanged, CasesP!Reloaded, CasesP!EditOpened,
                CasesP!Saved, CasesP!Deleted, CasesP!Awaits
  <2>3. \A ask : /\ "again" \notin DOMAIN [h EXCEPT !.ask = ask]
                /\ CasesPTyped([h EXCEPT !.ask = ask])
    BY <2>2 DEF CasesPTyped
  <2>4. CASE CasesP!Listed(h)
    <3> DEFINE u == [ui EXCEPT !.loading = FALSE]
    <3>1. ui' = CASE h.from = "submit" ->
                       CasesP!clearActionMessage([u EXCEPT !.submitting = FALSE])
                  [] h.from = "delete" -> CasesP!clearActionMessage(u)
                  [] OTHER -> u
      BY <2>4 DEF CasesP!Listed
    <3>2. ui' \in {u, CasesP!clearActionMessage(u),
                   CasesP!clearActionMessage([u EXCEPT !.submitting = FALSE])}
      <4> HIDE DEF u
      <4>1. QED
        BY <3>1
    <3>3. ui' \in CasesPUi
      BY <1>1, <3>2, ZenonT(60) DEF CasesP!clearActionMessage
    <3>4. QED
      BY <2>2, <2>4, <3>3 DEF CasesP!Listed
  <2>5. CASE CasesP!CaseOpened(h)
    <3>1. ui' \in {[ui EXCEPT !.selected = h.of, !.devicesOf = h.of, !.open = TRUE,
                            !.opening = FALSE],
                  [ui EXCEPT !.opening = FALSE]}
      BY <2>5 DEF CasesP!CaseOpened
    <3>2. [ui EXCEPT !.selected = h.of, !.devicesOf = h.of, !.open = TRUE,
                     !.opening = FALSE] \in CasesPUi
      BY <1>1, <2>2, ZenonT(60) DEF CasesPTyped
    <3>3. [ui EXCEPT !.opening = FALSE] \in CasesPUi
      BY <1>1, ZenonT(60)
    <3>4. CasesPTypedCalls
      BY <2>2, <2>5 DEF CasesP!CaseOpened
    <3> HIDE DEF CasesPUi, CasesPTypedCalls
    <3>5. QED
      BY <3>1, <3>2, <3>3, <3>4
  <2>6. CASE CasesP!Located(h)
    BY <1>1, <1>2, <1>3, <2>2, <2>3, <2>6 DEF CasesP!Located, CasesP!Say,
              CasesP!clearActionMessage
  <2>7. CASE CasesP!DeviceOpened(h)
    <3>1. [ui EXCEPT !.deviceOpen = TRUE] \in CasesPUi
      BY <1>1, ZenonT(60)
    <3>2. CasesP!clearActionMessage(CasesP!Say(ui)) \in CasesPUi
      BY <1>1, ZenonT(60) DEF CasesP!Say, CasesP!clearActionMessage
    <3>3. CasesPTypedCalls
      BY <2>2, <2>7 DEF CasesP!DeviceOpened
    <3> HIDE DEF CasesPUi, CasesPTypedCalls
    <3>4. QED
      BY <2>7, <3>1, <3>2, <3>3 DEF CasesP!DeviceOpened
  <2>8. CASE CasesP!Changed(h)
    BY <1>1, <1>2, <1>3, <2>2, <2>3, <2>8 DEF CasesP!Changed, CasesP!GoesOn, CasesP!Say
  <2>9. CASE CasesP!NotChanged(h)
    BY <1>1, <1>2, <1>3, <2>2, <2>3, <2>9, ZenonT(60) DEF CasesP!NotChanged, CasesP!Say,
              CasesP!clearActionMessage
  <2>10. CASE CasesP!Reloaded(h)
    <3> DEFINE u == CasesP!clearActionMessage(ui)
    <3>1. ui' \in {[u EXCEPT !.devicesOf = h.of, !.loading = TRUE],
                  [u EXCEPT !.editDevicesOf = h.of, !.loading = TRUE]}
      BY <2>10 DEF CasesP!Reloaded
    <3>2. u \in CasesPUi
      BY <1>1, ZenonT(60) DEF CasesP!clearActionMessage
    <3> HIDE DEF u
    <3>3. [u EXCEPT !.devicesOf = h.of, !.loading = TRUE] \in CasesPUi
      BY <2>2, <3>2, ZenonT(60) DEF CasesPTyped
    <3>4. [u EXCEPT !.editDevicesOf = h.of, !.loading = TRUE] \in CasesPUi
      BY <2>2, <3>2, ZenonT(60) DEF CasesPTyped
    <3>5. CasesPTypedCalls
      BY <1>3, <2>2, <2>10 DEF CasesP!Reloaded
    <3> HIDE DEF CasesPUi, CasesPTypedCalls
    <3>6. QED
      BY <3>1, <3>3, <3>4, <3>5
  <2>11. CASE CasesP!EditOpened(h)
    <3>1. PICK what \in {h.of, None} :
            ui' = [ui EXCEPT !.editDevicesOf = what, !.formOpen = TRUE]
      BY <2>11 DEF CasesP!EditOpened
    <3>2. [ui EXCEPT !.editDevicesOf = what, !.formOpen = TRUE] \in CasesPUi
      BY <1>1, <2>2, ZenonT(60) DEF CasesPTyped
    <3>3. CasesPTypedCalls
      BY <2>2, <2>11 DEF CasesP!EditOpened
    <3> HIDE DEF CasesPUi, CasesPTypedCalls
    <3>4. QED
      BY <3>1, <3>2, <3>3
  <2>12. CASE CasesP!Saved(h)
    BY <1>1, <1>2, <1>3, <2>2, <2>3, <2>12, ZenonT(60) DEF CasesP!Saved, CasesP!Say,
              CasesP!clearActionMessage
  <2>13. CASE CasesP!Deleted(h)
    BY <1>1, <1>2, <1>3, <2>2, <2>3, <2>13, ZenonT(60) DEF CasesP!Deleted, CasesP!Say,
              CasesP!clearActionMessage
  <2>14. QED
    BY <2>1, <2>4, <2>5, <2>6, <2>7, <2>8, <2>9, <2>10, <2>11, <2>12, <2>13
       DEF CasesP!Answer
<1>21. QED
  BY <1>4, <1>5, <1>6, <1>7, <1>8, <1>9, <1>10, <1>11, <1>12, <1>13, <1>14,
                <1>15, <1>16, <1>17, <1>18, <1>19, <1>20 DEF CasesP!Next

(***************************************************************************)
(* The types of the cases tab.                                             *)
(***************************************************************************)

\* The page, and what a handler of it carries.
CasesTUi ==
  [listed : SUBSET Cases, loading : BOOLEAN, refreshing : BOOLEAN, typed : BOOLEAN,
   view : Cases \union {None}, devicesOf : Cases \union {None}, open : BOOLEAN,
   editing : Cases \union {None}, formOf : Cases \union {None}, submitting : BOOLEAN,
   message : BOOLEAN, timer : BOOLEAN]

CasesTTyped(c) ==
  /\ "ask" \in DOMAIN c
  /\ c.ask = "view" => "of" \in DOMAIN c
  /\ "of" \in DOMAIN c => c.of \in Cases \union {None}

CasesTTypes == ui \in CasesTUi /\ \A c \in calls : CasesTTyped(c)

\* A handler that is like another carries the same.
LEMMA CasesTTypedAlike ==
  ASSUME NEW c, NEW h, Like(c, h), CasesTTyped(h)
  PROVE  CasesTTyped(c)
BY DEF Like, CasesTTyped

\* What a step may do with the handlers.
CasesTTypedCalls ==
  \/ UNCHANGED calls
  \/ \E h : CasesTTyped(h) /\ "again" \notin DOMAIN h /\ CasesT!Begins(h)
  \/ \E h \in calls : "again" \notin DOMAIN h /\ CasesT!Ends(h)
  \/ \E h \in calls : \E next : /\ "again" \notin DOMAIN h /\ "again" \notin DOMAIN next
                                /\ CasesTTyped(next) /\ CasesT!GoesOnAs(h, next)

\* Such a step keeps their types.
LEMMA CasesTTypesKept ==
  CasesTTypes /\ ui' \in CasesTUi /\ CasesTTypedCalls => CasesTTypes'
BY CasesTHandlers, CasesTTypedAlike DEF CasesTTypes, CasesTTypedCalls

\* At first.
LEMMA CasesTTypeInits == CasesT!Init => CasesTTypes
BY DEF CasesT!Init, CasesT!Load, CasesTTypes, CasesTUi, CasesTTyped, CasesT!None, None

\* So the page keeps its types.
LEMMA CasesTTypesHold == CasesTTypes => CasesT!TypeOK
BY DEF CasesTTypes, CasesTUi, CasesTTyped, CasesT!TypeOK, CasesT!None, None

\* Every step keeps the types.
LEMMA CasesTTypeSteps == CasesTTypes /\ CasesT!Next => CasesTTypes'
<1> SUFFICES ASSUME CasesTTypes, CasesT!Next PROVE ui' \in CasesTUi /\ CasesTTypedCalls
  BY CasesTTypesKept
<1>1. ui \in CasesTUi /\ \A c \in calls : CasesTTyped(c)
  BY DEF CasesTTypes
<1>2. \A from : "again" \notin DOMAIN CasesT!Load(from) /\ CasesTTyped(CasesT!Load(from))
  BY DEF CasesT!Load, CasesTTyped
<1> USE DEF CasesTUi, CasesTTypedCalls, CasesT!None, None
<1>3. CASE CasesT!Dismiss
  BY <1>1, <1>2, <1>3, ZenonT(60) DEF CasesT!Dismiss
<1>4. CASE CasesT!SearchTyped
  BY <1>1, <1>2, <1>4 DEF CasesT!SearchTyped
<1>5. CASE CasesT!FilterChanged
  BY <1>1, <1>2, <1>5 DEF CasesT!FilterChanged
<1>6. CASE CasesT!handleRefresh
  BY <1>1, <1>2, <1>6 DEF CasesT!handleRefresh
<1>7. CASE CasesT!CloseView
  BY <1>1, <1>2, <1>7 DEF CasesT!CloseView
<1>8. CASE CasesT!openCreateModal
  BY <1>1, <1>2, <1>8 DEF CasesT!openCreateModal
<1>9. CASE CasesT!EditViewed
  BY <1>1, <1>2, <1>9 DEF CasesT!EditViewed, CasesT!openEditModal
<1>10. CASE CasesT!CloseForm
  BY <1>1, <1>2, <1>10 DEF CasesT!CloseForm
<1>11. CASE CasesT!handleSubmit
  BY <1>1, <1>2, <1>11, ZenonT(60) DEF CasesT!handleSubmit, CasesT!Say,
     CasesT!clearActionMessage,
                           CasesTTyped
<1>12. CASE \E c \in Cases : CasesT!handleDelete(c)
  BY <1>1, <1>2, <1>12 DEF CasesT!handleDelete, CasesTTyped
<1>13. CASE \E c \in Cases : CasesT!handlePrintLabel(c)
  BY <1>1, <1>2, <1>13 DEF CasesT!handlePrintLabel, CasesTTyped
<1>14. CASE \E c \in Cases : CasesT!handleViewCase(c)
  BY <1>1, <1>2, <1>14 DEF CasesT!handleViewCase, CasesTTyped
<1>15. CASE \E c \in Cases : CasesT!EditCase(c)
  BY <1>1, <1>2, <1>15, ZenonT(60) DEF CasesT!EditCase, CasesT!openEditModal
<1>16. CASE \E h \in calls : CasesT!Answer(h)
  <2>1. PICK h \in calls : CasesT!Answer(h)
    BY <1>16
  <2>2. "again" \notin DOMAIN h /\ CasesTTyped(h)
    BY <1>1, <2>1 DEF CasesT!Answer,
                CasesT!fetchCases, CasesT!Deleted, CasesT!Printed, CasesT!Viewed,
                CasesT!Saved, CasesT!Awaits
  <2>3. \A ask : ask # "view" => /\ "again" \notin DOMAIN [h EXCEPT !.ask = ask]
                               /\ CasesTTyped([h EXCEPT !.ask = ask])
    BY <2>2 DEF CasesTTyped
  <2>4. CASE CasesT!fetchCases(h)
    <3>1. PICK list \in SUBSET Cases :
            LET u == [ui EXCEPT !.listed = list, !.loading = FALSE]
            IN  ui' = CASE h.from = "refresh" -> [u EXCEPT !.refreshing = FALSE]
                        [] h.from = "submit" ->
                             CasesT!clearActionMessage([u EXCEPT !.submitting = FALSE])
                        [] h.from = "delete" -> CasesT!clearActionMessage(u)
                        [] OTHER -> u
      BY <2>4 DEF CasesT!fetchCases
    <3> DEFINE u == [ui EXCEPT !.listed = list, !.loading = FALSE]
    <3>2. ui' \in {u, [u EXCEPT !.refreshing = FALSE], CasesT!clearActionMessage(u),
                   CasesT!clearActionMessage([u EXCEPT !.submitting = FALSE])}
      BY <3>1
    <3>3. ui' \in CasesTUi
      BY <1>1, <3>2, ZenonT(60) DEF CasesT!clearActionMessage
    <3>4. QED
      BY <2>2, <2>4, <3>3 DEF CasesT!fetchCases
  <2>5. CASE CasesT!Deleted(h)
    BY <1>1, <1>2, <2>2, <2>3, <2>5, ZenonT(60) DEF CasesT!Deleted, CasesT!Say,
                                        CasesT!clearActionMessage
  <2>6. CASE CasesT!Printed(h)
    BY <1>1, <1>2, <2>2, <2>3, <2>6 DEF CasesT!Printed, CasesT!GoesOn
  <2>7. CASE CasesT!Viewed(h)
    BY <1>1, <1>2, <2>2, <2>3, <2>7, ZenonT(60) DEF CasesT!Viewed, CasesT!Say,
                                        CasesT!clearActionMessage, CasesT!Awaits,
                                        CasesTTyped
  <2>8. CASE CasesT!Saved(h)
    BY <1>1, <1>2, <2>2, <2>3, <2>8, ZenonT(60) DEF CasesT!Saved, CasesT!Say,
                                        CasesT!clearActionMessage
  <2>9. QED
    BY <2>1, <2>4, <2>5, <2>6, <2>7, <2>8 DEF CasesT!Answer
<1>17. QED
  BY <1>3, <1>4, <1>5, <1>6, <1>7, <1>8, <1>9, <1>10, <1>11, <1>12, <1>13,
                <1>14, <1>15, <1>16 DEF CasesT!Next

(***************************************************************************)
(* The types of the details of a product.                                  *)
(***************************************************************************)

\* The page, and what a handler of it carries.
ProductDUi ==
  [open : BOOLEAN, pictures : SUBSET Pictures, temporary : BOOLEAN, loading : BOOLEAN,
   uploading : BOOLEAN, unavailable : BOOLEAN, preview : BOOLEAN,
   deleting : Pictures \union {None}, visible : BOOLEAN, selected : SUBSET Pictures,
   thumbnail : Pictures \union {None}, saving : BOOLEAN]

ProductDTyped(c) ==
  "ask" \in DOMAIN c /\ c.ask \in {"pictures", "upload", "delete", "website"}

ProductDTypes == ui \in ProductDUi /\ \A c \in calls : ProductDTyped(c)

\* A handler that is like another carries the same.
LEMMA ProductDTypedAlike ==
  ASSUME NEW c, NEW h, Like(c, h), ProductDTyped(h)
  PROVE  ProductDTyped(c)
BY DEF Like, ProductDTyped

\* What a step may do with the handlers.
ProductDTypedCalls ==
  \/ UNCHANGED calls
  \/ \E h : ProductDTyped(h) /\ "again" \notin DOMAIN h /\ ProductD!Begins(h)
  \/ \E h \in calls : "again" \notin DOMAIN h /\ ProductD!Ends(h)
  \/ \E h \in calls : \E next : /\ "again" \notin DOMAIN h /\ "again" \notin DOMAIN next
                                /\ ProductDTyped(next) /\ ProductD!GoesOnAs(h, next)

\* Such a step keeps their types.
LEMMA ProductDTypesKept ==
  ProductDTypes /\ ui' \in ProductDUi /\ ProductDTypedCalls => ProductDTypes'
BY ProductDHandlers, ProductDTypedAlike DEF ProductDTypes, ProductDTypedCalls

\* At first.
LEMMA ProductDTypeInits == ProductD!Init => ProductDTypes
BY DEF ProductD!Init, ProductDTypes, ProductDUi, ProductDTyped, ProductD!None, None

\* So the page keeps its types.
LEMMA ProductDTypesHold == ProductDTypes => ProductD!TypeOK
BY DEF ProductDTypes, ProductDUi, ProductDTyped, ProductD!TypeOK, ProductD!None, None

\* Every step keeps the types.
LEMMA ProductDTypeSteps == ProductDTypes /\ ProductD!Next => ProductDTypes'
<1> SUFFICES ASSUME ProductDTypes, ProductD!Next
             PROVE  ui' \in ProductDUi /\ ProductDTypedCalls
  BY ProductDTypesKept
<1>1. ui \in ProductDUi /\ \A c \in calls : ProductDTyped(c)
  BY DEF ProductDTypes
<1>2. \A from : "again" \notin DOMAIN ProductD!Load(from) /\ ProductDTyped(ProductD!Load(from))
  BY DEF ProductD!Load, ProductDTyped
<1> USE DEF ProductDUi, ProductDTypedCalls, ProductD!None, None
<1>3. CASE ProductD!Open
  BY <1>1, <1>2, <1>3, ZenonT(60) DEF ProductD!Open, ProductD!loadPictures
<1>4. CASE ProductD!Close
  BY <1>1, <1>2, <1>4 DEF ProductD!Close
<1>5. CASE ProductD!handleUploadPictures
  BY <1>1, <1>2, <1>5 DEF ProductD!handleUploadPictures, ProductDTyped
<1>6. CASE ProductD!setPreviewIndex
  BY <1>1, <1>2, <1>6 DEF ProductD!setPreviewIndex, ProductD!Shown
<1>7. CASE ProductD!setWebsiteVisible
  BY <1>1, <1>2, <1>7, ZenonT(60) DEF ProductD!setWebsiteVisible,
     ProductD!persistWebsiteSettings,
                          ProductDTyped
<1>8. CASE ProductD!handleSaveWebsite
  BY <1>1, <1>2, <1>8 DEF ProductD!handleSaveWebsite, ProductD!persistWebsiteSettings,
                          ProductDTyped
<1>9. CASE \E p \in Pictures : ProductD!handleDeletePicture(p)
  BY <1>1, <1>2, <1>9 DEF ProductD!handleDeletePicture, ProductDTyped
<1>10. CASE \E p \in Pictures : ProductD!toggleWebsiteImage(p)
  <2>1. PICK p \in Pictures :
          /\ ui' = [ui EXCEPT !.selected = IF p \in @ THEN @ \ {p} ELSE @ \union {p},
                               !.thumbnail = IF @ = p THEN ProductD!None ELSE @]
          /\ UNCHANGED calls
    BY <1>10 DEF ProductD!toggleWebsiteImage
  <2> DEFINE images == IF p \in ui.selected THEN ui.selected \ {p} ELSE ui.selected \union {p}
             picture == IF ui.thumbnail = p THEN ProductD!None ELSE ui.thumbnail
  <2>2. ui' = [ui EXCEPT !.selected = images, !.thumbnail = picture]
    BY <1>1, <2>1
  <2>3. images \in SUBSET Pictures /\ picture \in Pictures \union {None}
    BY <1>1
  <2> HIDE DEF images, picture
  <2>4. ui' \in ProductDUi
    BY <1>1, <2>2, <2>3
  <2>5. QED
    BY <2>1, <2>4
<1>11. CASE \E p \in Pictures : ProductD!setWebsiteThumbnail(p)
  BY <1>1, <1>2, <1>11 DEF ProductD!setWebsiteThumbnail
<1>12. CASE \E h \in calls : ProductD!Answer(h)
  <2>1. PICK h \in calls : ProductD!Answer(h)
    BY <1>12
  <2>2. "again" \notin DOMAIN h /\ ProductDTyped(h)
    BY <1>1, <2>1 DEF
                ProductD!Answer, ProductD!PicturesLoaded, ProductD!Uploaded,
                ProductD!Deleted, ProductD!WebsiteSaved, ProductD!Awaits
  <2>3. \A ask : ask \in {"pictures", "upload", "delete", "website"} =>
                  /\ "again" \notin DOMAIN [h EXCEPT !.ask = ask]
                  /\ ProductDTyped([h EXCEPT !.ask = ask])
    BY <2>2 DEF ProductDTyped
  <2>4. CASE ProductD!PicturesLoaded(h)
    <3>1. PICK list \in SUBSET Pictures, unavailable \in BOOLEAN :
            LET u == [ui EXCEPT !.temporary = FALSE, !.loading = FALSE,
                                !.pictures = IF unavailable THEN {} ELSE list,
                                !.unavailable = @ \/ unavailable]
            IN  CASE h.from = "upload" -> ui' = [u EXCEPT !.uploading = FALSE]
                  [] h.from = "delete" ->
                       \E preview \in {u.preview, FALSE} :
                         ui' = [u EXCEPT !.deleting = None, !.preview = preview]
                  [] OTHER -> ui' = u
      BY <2>4 DEF ProductD!PicturesLoaded
    <3> DEFINE u == [ui EXCEPT !.temporary = FALSE, !.loading = FALSE,
                               !.pictures = IF unavailable THEN {} ELSE list,
                               !.unavailable = @ \/ unavailable]
    <3>2. \/ ui' = [u EXCEPT !.uploading = FALSE]
          \/ \E preview \in {u.preview, FALSE} :
               ui' = [u EXCEPT !.deleting = None, !.preview = preview]
          \/ ui' = u
      BY <3>1
    <3>3. u \in ProductDUi
      BY <1>1, ZenonT(60)
    <3>4. ui' \in ProductDUi
      <4> HIDE DEF u
      <4>1. QED
        BY <3>2, <3>3, ZenonT(60)
    <3>5. QED
      BY <2>2, <2>4, <3>4 DEF ProductD!PicturesLoaded
  <2>5. CASE ProductD!Uploaded(h)
    BY <1>1, <1>2, <2>2, <2>3, <2>5, ZenonT(60) DEF ProductD!Uploaded, ProductD!loadPictures
  <2>6. CASE ProductD!Deleted(h)
    BY <1>1, <1>2, <2>2, <2>3, <2>6, ZenonT(60) DEF ProductD!Deleted, ProductD!loadPictures
  <2>7. CASE ProductD!WebsiteSaved(h)
    BY <1>1, <1>2, <2>2, <2>3, <2>7 DEF ProductD!WebsiteSaved
  <2>8. QED
    BY <2>1, <2>4, <2>5, <2>6, <2>7 DEF ProductD!Answer
<1>13. QED
  BY <1>3, <1>4, <1>5, <1>6, <1>7, <1>8, <1>9, <1>10, <1>11, <1>12 DEF ProductD!Next

(***************************************************************************)
(* The client.                                                             *)
(***************************************************************************)
PagesInv ==
  /\ page = "devices" => DevicesInv
  /\ page = "products" => ProductsInv
  /\ page = "cases" => CasesPInv
  /\ page = "packages" => PackagesInv
  /\ page = "product" => PicturesInv
  /\ page = "casesTab" => CasesTInv
  /\ page = "leds" => TextsInv

\* The page that is shown keeps its invariant; the others do nothing.
LEMMA PagesStep == PagesInv /\ [Next]_<<page, ui, calls>> => PagesInv'
<1> SUFFICES ASSUME PagesInv, [Next]_<<page, ui, calls>> PROVE PagesInv'
  OBVIOUS
<1>1. CASE UNCHANGED vars /\ page' = page
  <2>1. page = "devices" => DevicesInv'
    BY <1>1, DevicesSteps DEF PagesInv
  <2>2. page = "products" => ProductsInv'
    BY <1>1 DEF PagesInv, vars, ProductsInv, ProductsT!SelectionIsListed
  <2>3. page = "cases" => CasesPInv'
    BY <1>1 DEF PagesInv, vars, CasesPInv, CaseSaved
  <2>4. page = "packages" => PackagesInv'
    BY <1>1 DEF PagesInv, vars, PackagesInv, PackagesT!ThumbnailIsChosen
  <2>5. page = "product" => PicturesInv'
    BY <1>1 DEF PagesInv, vars, PicturesInv, Website, ProductD!TemporaryPicturesGo
  <2>6. page = "casesTab" => CasesTInv'
    BY <1>1 DEF PagesInv, vars, CasesTInv, TabSaved, CasesT!DetailsShowOneCase
  <2>7. page = "leds" => TextsInv'
    BY <1>1 DEF PagesInv, vars, TextsInv, LEDs!TextIsMapping
  <2>8. QED
    BY <1>1, <2>1, <2>2, <2>3, <2>4, <2>5, <2>6, <2>7 DEF PagesInv
<1>2. CASE Next
  BY <1>2, DevicesSteps, ProductsSteps, CasesPSteps, PackagesSteps, PicturesSteps,
     CasesTSteps, TextsSteps
     DEF Next, PagesInv
<1>3. QED
  BY <1>1, <1>2 DEF vars

\* Every page begins with its invariant and keeps it.
LEMMA PagesAlways == Spec => []PagesInv
<1>1. Init => PagesInv
  BY DevicesInits, ProductsInits, CasesPInits, PackagesInits, PicturesInits,
     CasesTInits, TextsInits
     DEF Init, PagesInv
<1>2. QED
  BY <1>1, PagesStep, PTL DEF Spec

(***************************************************************************)
(* The theorems.                                                           *)
(***************************************************************************)

\* What the bulk changes of products and devices work on is in the list that was
\* loaded last, however lists, filters and answers follow one another; of devices
\* it is also what the table shows as selected.
THEOREM BulkChangesWorkOnWhatIsListed == Spec => []SelectionIsListed
<1>1. PagesInv => SelectionIsListed
  BY DEF PagesInv, DevicesInv, ProductsInv, SelectionIsListed
<1>2. QED
  BY <1>1, PagesAlways, PTL

\* What a form of cases or devices saves goes to the item whose values filled it,
\* though late answers open and close the form at any time.
THEOREM FormsSaveToTheirItem == Spec => []FormSavesToItsItem
<1>1. PagesInv => FormSavesToItsItem
  BY DEF PagesInv, DevicesInv, KnownCall, CasesPInv, CaseSaved, CasesTInv, TabSaved,
         FormSavesToItsItem,
         DevicesT!FormSavesToItsDevice, CasesP!FormSavesToItsCase,
         CasesT!FormSavesToItsCase
<1>2. QED
  BY <1>1, PagesAlways, PTL

\* State and handlers of the devices tab have their types.
THEOREM DevicesTypesAreKept == Spec => [](page = "devices" => DevicesT!TypeOK)
<1>1. PagesInv => (page = "devices" => DevicesT!TypeOK)
  BY DEF PagesInv, DevicesInv, DevicesFields, Device, KnownCall, DevicesT!TypeOK
<1>2. QED
  BY <1>1, PagesAlways, PTL

\* The thumbnail of a package and of a product is the picture that was chosen for
\* it, whatever pictures before and behind it come and go.
THEOREM ThumbnailsAreChosen == Spec => []ThumbnailIsChosen
<1>1. PagesInv => ThumbnailIsChosen
  BY DEF PagesInv, PackagesInv, PicturesInv, Website, ThumbnailIsChosen,
         ProductD!ThumbnailIsChosen
<1>2. QED
  BY <1>1, PagesAlways, PTL

\* The devices in the details of the cases tab are those of the case it shows.
THEOREM DetailsAreOfOneCase == Spec => []DetailsShowOneCase
<1>1. PagesInv => DetailsShowOneCase
  BY DEF PagesInv, CasesTInv, DetailsShowOneCase
<1>2. QED
  BY <1>1, PagesAlways, PTL

\* No preview of an upload outlives it.
THEOREM PreviewsGo == Spec => []TemporaryPicturesGo
<1>1. PagesInv => TemporaryPicturesGo
  BY DEF PagesInv, PicturesInv, TemporaryPicturesGo
<1>2. QED
  BY <1>1, PagesAlways, PTL

\* The mapping of the LEDs is what the texts beside its bins say, however shelves
\* and bins come and go before them.
THEOREM MappingIsWhatItsTextsSay == Spec => []TextIsMapping
<1>1. PagesInv => TextIsMapping
  BY DEF PagesInv, TextsInv, TextIsMapping
<1>2. QED
  BY <1>1, PagesAlways, PTL
=============================================================================
