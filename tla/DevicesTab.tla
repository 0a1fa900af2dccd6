----------------------------- MODULE DevicesTab -----------------------------
(***************************************************************************)
(* The devices tab of the web client                                       *)
(* (web/src/components/admin/DevicesTab.tsx): the list, filtered in the    *)
(* browser, with its selection and bulk changes, and the form, which the   *)
(* scan page may have sent the user to.                                    *)
(***************************************************************************)
EXTENDS ReactPage

CONSTANT Devices

Load(from) == [ask |-> "list", from |-> from]

\* `listed' came from the server and `shown' passes the filters; `editing' is
\* the device that saving the form writes to and `formOf' the one its values
\* are of; `sent': the scan page sent the user here to edit a device.
Mounted(sent) ==
  [listed |-> {}, shown |-> {}, selected |-> {}, table |-> TRUE, loading |-> TRUE,
   refreshing |-> FALSE, open |-> FALSE, editing |-> None, formOf |-> None,
   scanField |-> FALSE, submitting |-> FALSE, view |-> None, bulkOpen |-> FALSE,
   sent |-> sent]

Init ==
  \/ ui = Mounted(FALSE) /\ calls = {Load("load")}
  \/ \E d \in Devices :
       ui = Mounted(TRUE) /\ calls = {Load("load"), [ask |-> "edit", of |-> d]}

OnTheList == ~ui.open /\ ui.view = None /\ ~ui.bulkOpen

\* Back to the scan page; whoever returns finds the tab mounted anew, and what
\* was still asked for answers to no one.
Leave == ui' = Mounted(FALSE) /\ calls' = {Load("load")}

(***************************************************************************)
(* The list and the selection.                                             *)
(***************************************************************************)

handleRefresh ==
  /\ OnTheList /\ ~ui.refreshing
  /\ Begins(Load("refresh"))
  /\ ui' = [ui EXCEPT !.loading = TRUE, !.refreshing = TRUE]

\* The selection is pruned to what is shown of a new list.
Listed(h) ==
  /\ Awaits(h, {"list"})
  /\ \E list \in SUBSET Devices : \E some \in SUBSET list :
       LET u == [ui EXCEPT !.listed = list, !.shown = some, !.loading = FALSE,
                           !.selected = @ \intersect some]
       IN  ui' = CASE h.from = "refresh" -> [u EXCEPT !.refreshing = FALSE]
                   [] h.from = "submit" -> [u EXCEPT !.submitting = FALSE]
                   [] OTHER -> u
  /\ Ends(h)

\* A search, a filter, or all of them reset.
FilterChanged ==
  /\ OnTheList
  /\ \E some \in SUBSET ui.listed : ui' = [ui EXCEPT !.shown = some, !.selected = {}]
  /\ UNCHANGED calls

\* Only the table has checkboxes.
setViewMode ==
  /\ OnTheList
  /\ ui' = [ui EXCEPT !.table = ~@, !.selected = IF ui.table THEN {} ELSE @]
  /\ UNCHANGED calls

OnTheTable == OnTheList /\ ui.table /\ ~ui.loading

toggleDeviceSelection(d) ==
  /\ OnTheTable /\ d \in ui.shown
  /\ ui' = [ui EXCEPT !.selected = IF d \in @ THEN @ \ {d} ELSE @ \union {d}]
  /\ UNCHANGED calls

\* How many are selected decides, not which.
toggleSelectAll ==
  /\ OnTheTable /\ ui.shown # {}
  /\ ui' = [ui EXCEPT !.selected = IF Cardinality(@) = Cardinality(ui.shown)
                                   THEN {} ELSE ui.shown]
  /\ UNCHANGED calls

Deselect ==
  /\ OnTheList /\ ui.selected # {}
  /\ ui' = [ui EXCEPT !.selected = {}]
  /\ UNCHANGED calls

handleBulkDelete ==
  /\ OnTheList /\ ui.selected # {}
  /\ Begins([ask |-> "bulkDelete"])
  /\ UNCHANGED ui

OpenBulkEdit ==
  /\ OnTheList /\ ui.selected # {}
  /\ ui' = [ui EXCEPT !.bulkOpen = TRUE]
  /\ UNCHANGED calls

handleBulkEditSubmit ==
  /\ ui.bulkOpen /\ ui.selected # {}
  /\ \/ Begins([ask |-> "bulkEdit"]) /\ UNCHANGED ui
     \/ ui' = [ui EXCEPT !.bulkOpen = FALSE] /\ UNCHANGED calls

CloseBulkEdit ==
  /\ ui.bulkOpen
  /\ ui' = [ui EXCEPT !.bulkOpen = FALSE]
  /\ UNCHANGED calls

BulkDone(h) ==
  /\ Awaits(h, {"bulkDelete", "bulkEdit"})
  /\ \/ /\ LET u == [ui EXCEPT !.selected = {}, !.loading = TRUE]
           IN  ui' = IF h.ask = "bulkEdit" THEN [u EXCEPT !.bulkOpen = FALSE] ELSE u
        /\ GoesOnAs(h, Load("load"))
     \/ Ends(h) /\ UNCHANGED ui

handleDelete ==
  /\ OnTheList /\ ui.shown # {}
  /\ Begins([ask |-> "delete"])
  /\ UNCHANGED ui

Deleted(h) ==
  /\ Awaits(h, {"delete"})
  /\ \/ ui' = [ui EXCEPT !.loading = TRUE] /\ GoesOnAs(h, Load("load"))
     \/ Ends(h) /\ UNCHANGED ui

(***************************************************************************)
(* Looking at a device and editing it.                                     *)
(***************************************************************************)

handleViewDevice(d) ==
  /\ OnTheList /\ d \in ui.shown
  /\ Begins([ask |-> "view", of |-> d])
  /\ UNCHANGED ui

\* When its details cannot be loaded, what the list knows is shown.
Viewed(h) ==
  /\ Awaits(h, {"view"})
  /\ ui' = [ui EXCEPT !.view = h.of]
  /\ Ends(h)

CloseView ==
  /\ ui.view # None
  /\ ui' = [ui EXCEPT !.view = None]
  /\ UNCHANGED calls

\* Mutant: a new device is made in what the form edited last.
CreateInPlace ==
  /\ OnTheList
  /\ ui' = [ui EXCEPT !.formOf = None, !.open = TRUE]
  /\ UNCHANGED calls

openCreateModal ==
  /\ OnTheList
  /\ ui' = [ui EXCEPT !.editing = None, !.formOf = None, !.open = TRUE]
  /\ UNCHANGED calls

openEditModal(u, d) == [u EXCEPT !.editing = d, !.formOf = d, !.open = TRUE]

\* From the list, or from the details, which it closes.
EditDevice ==
  /\ \/ \E d \in ui.shown : OnTheList /\ ui' = openEditModal(ui, d)
     \/ ui.view # None /\ ui' = openEditModal([ui EXCEPT !.view = None], ui.view)
  /\ UNCHANGED calls

\* The device the scan page asked for.
SentFor(h) ==
  /\ Awaits(h, {"edit"})
  /\ ui' \in {openEditModal(ui, h.of), ui}
  /\ Ends(h)

\* A code scanned into a field of the form (ScanFieldModal).
ScanField ==
  /\ ui.open
  /\ ui' = [ui EXCEPT !.scanField = ~@]
  /\ UNCHANGED calls

CloseForm ==
  /\ ui.open /\ ~ui.scanField
  /\ IF ui.sent THEN Leave
     ELSE ui' = [ui EXCEPT !.open = FALSE] /\ UNCHANGED calls

handleSubmit ==
  /\ ui.open /\ ~ui.scanField /\ ~ui.submitting
  /\ Begins([ask |-> "save", of |-> ui.editing, form |-> ui.formOf])
  /\ ui' = [ui EXCEPT !.submitting = TRUE]

\* It closes and clears the form that is open now; what the form edited stays.
Saved(h) ==
  /\ Awaits(h, {"save"})
  /\ \/ IF ui.sent THEN Leave
        ELSE /\ ui' = [ui EXCEPT !.open = FALSE, !.scanField = FALSE, !.formOf = None,
                                 !.loading = TRUE]
             /\ GoesOnAs(h, Load("submit"))
     \/ ui' = [ui EXCEPT !.submitting = FALSE] /\ Ends(h)

Answer(h) ==
  \/ Listed(h) \/ BulkDone(h) \/ Deleted(h) \/ Viewed(h) \/ SentFor(h) \/ Saved(h)

Next ==
  \/ handleRefresh \/ FilterChanged \/ setViewMode \/ toggleSelectAll \/ Deselect
  \/ handleBulkDelete \/ OpenBulkEdit \/ handleBulkEditSubmit \/ CloseBulkEdit
  \/ handleDelete \/ CloseView \/ openCreateModal \/ EditDevice \/ ScanField
  \/ CloseForm \/ handleSubmit
  \/ \E d \in Devices : toggleDeviceSelection(d) \/ handleViewDevice(d)
  \/ \E h \in calls : Answer(h)

Spec == Init /\ [][Next]_vars

(***************************************************************************)
(* Properties.                                                             *)
(***************************************************************************)

TypeOK ==
  LET Device == Devices \union {None}
  IN  /\ ui \in [listed : SUBSET Devices, shown : SUBSET Devices,
                 selected : SUBSET Devices, table : BOOLEAN, loading : BOOLEAN,
                 refreshing : BOOLEAN, open : BOOLEAN, editing : Device, formOf : Device,
                 scanField : BOOLEAN, submitting : BOOLEAN, view : Device,
                 bulkOpen : BOOLEAN, sent : BOOLEAN]
      /\ \A h \in calls : "of" \in DOMAIN h => h.of \in Device

\* What the bulk changes work on passes the filters, and nothing is selected
\* where no checkbox shows it (the three effects on selectedDevices).
SelectionIsShown ==
  /\ ui.selected \subseteq ui.shown
  /\ ~ui.table => ui.selected = {}

\* What the form saves goes to the device whose values filled it, or makes new
\* ones when none did, though what the form edited is never reset when it closes.
FormSavesToItsDevice == \A h \in calls : h.ask = "save" => h.of = h.form

\* When nothing is in flight the page is not waiting (the finally blocks).
NoSpinnerLeft == calls = {} => ~ui.loading /\ ~ui.refreshing /\ ~ui.submitting
=============================================================================
