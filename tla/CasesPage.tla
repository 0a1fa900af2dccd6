----------------------------- MODULE CasesPage -----------------------------
(***************************************************************************)
(* The cases page of the web client (web/src/pages/CasesPage.tsx) with its *)
(* dialogs.  Of the data that an answer brings the model keeps what it is  *)
(* the data of: `devicesOf' is the case whose devices the details show,    *)
(* `formOf' the case whose values fill the form, and so on.  Which cases   *)
(* are listed, and by which filter, only the eye of the user reads.        *)
(***************************************************************************)
EXTENDS ReactPage

CONSTANT Cases

\* `editing' is the case that saving the form writes to, None for a new one.
Init ==
  /\ ui = [loading |-> TRUE,
           open |-> FALSE, selected |-> None, devicesOf |-> None, opening |-> FALSE,
           deviceOpen |-> FALSE, tree |-> None,
           formOpen |-> FALSE, formOf |-> None, editing |-> None, editDevicesOf |-> None,
           submitting |-> FALSE, message |-> FALSE, timer |-> FALSE]
  /\ calls = {[ask |-> "list", of |-> None, from |-> "load"]}

\* of: the case asked for; from: the handler, or what filled the form.
Handler(ask, of, from) == [ask |-> ask, of |-> of, from |-> from]
Load(from) == Handler("list", None, from)

Say(u) == [u EXCEPT !.message = TRUE]
clearActionMessage(u) == [u EXCEPT !.timer = TRUE]

\* Timers are not cancelled: one that another message set may come first.
Dismiss ==
  /\ ui.timer
  /\ \E another \in BOOLEAN : ui' = [ui EXCEPT !.message = FALSE, !.timer = another]
  /\ UNCHANGED calls

(***************************************************************************)
(* The list: loaded with the page, by a search, a change or reset of the   *)
(* filters, and after every change.                                        *)
(***************************************************************************)

loadCases ==
  /\ ~ui.open /\ ~ui.formOpen
  /\ Begins(Load("load"))
  /\ ui' = [ui EXCEPT !.loading = TRUE]

\* An answer, or a failure, which empties the list.  It ends the submission or
\* the deletion that waited for it.
Listed(h) ==
  /\ Awaits(h, {"list"})
  /\ LET u == [ui EXCEPT !.loading = FALSE]
     IN  ui' = CASE h.from = "submit" -> clearActionMessage([u EXCEPT !.submitting = FALSE])
                 [] h.from = "delete" -> clearActionMessage(u)
                 [] OTHER -> u
  /\ Ends(h)

(***************************************************************************)
(* The details of a case (CaseDetailModal).                                *)
(***************************************************************************)

handleOpenCase(c) ==
  /\ ~ui.open /\ ~ui.formOpen
  /\ Begins(Handler("details", c, "open"))
  /\ ui' = [ui EXCEPT !.opening = TRUE]

CaseOpened(h) ==
  /\ Awaits(h, {"details"})
  /\ \/ ui' = [ui EXCEPT !.selected = h.of, !.devicesOf = h.of, !.open = TRUE,
                         !.opening = FALSE]
     \/ ui' = [ui EXCEPT !.opening = FALSE]
  /\ Ends(h)

CloseCase ==
  /\ ui.open /\ ~ui.deviceOpen /\ ui.tree = None
  /\ ui' = [ui EXCEPT !.open = FALSE]
  /\ UNCHANGED calls

\* Lighting the bin of a device; a device without one is refused at once.
handleLocateDevice ==
  /\ ui.open
  /\ \/ Begins(Handler("locate", None, "locate")) /\ UNCHANGED ui
     \/ ui' = clearActionMessage(Say(ui)) /\ UNCHANGED calls

Located(h) ==
  /\ Awaits(h, {"locate"})
  /\ ui' = clearActionMessage(Say(ui))
  /\ Ends(h)

handleOpenDevice ==
  /\ ui.open
  /\ Begins(Handler("device", None, "device"))
  /\ UNCHANGED ui

DeviceOpened(h) ==
  /\ Awaits(h, {"device"})
  /\ ui' \in {[ui EXCEPT !.deviceOpen = TRUE], clearActionMessage(Say(ui))}
  /\ Ends(h)

CloseDevice ==
  /\ ui.deviceOpen
  /\ ui' = [ui EXCEPT !.deviceOpen = FALSE]
  /\ UNCHANGED calls

(***************************************************************************)
(* Devices added to and removed from a case, in the details or the form.   *)
(***************************************************************************)

handleAddDevices(context) ==
  /\ IF context = "detail" THEN ui.open ELSE ui.formOpen /\ ui.editing # None
  /\ ui' = [ui EXCEPT !.tree = context]
  /\ UNCHANGED calls

\* Where the devices go is the case of the render that confirms.
CaseOf(context) == IF context = "detail" THEN ui.selected ELSE ui.editing

handleConfirmAddDevices ==
  /\ ui.tree # None
  /\ IF CaseOf(ui.tree) # None
     THEN Begins(Handler("add", CaseOf(ui.tree), ui.tree))
     ELSE UNCHANGED calls
  /\ ui' = [ui EXCEPT !.tree = None]

CancelTree ==
  /\ ui.tree # None
  /\ ui' = [ui EXCEPT !.tree = None]
  /\ UNCHANGED calls

handleRemoveDevice(context) ==
  /\ IF context = "detail" THEN ui.open ELSE ui.formOpen
  /\ CaseOf(context) # None
  /\ Begins(Handler("remove", CaseOf(context), context))
  /\ UNCHANGED ui

\* The server has done it; the devices of the case are loaded again.
Changed(h) ==
  /\ Awaits(h, {"add", "remove"})
  /\ GoesOn(h, "devices")
  /\ ui' = Say(ui)

\* It has not (an error, or no device that could be added), or the devices
\* cannot be loaded.
NotChanged(h) ==
  /\ Awaits(h, {"add", "remove", "devices"})
  /\ ui' \in {clearActionMessage(Say(ui)), clearActionMessage(ui)}
  /\ Ends(h)

Reloaded(h) ==
  /\ Awaits(h, {"devices"})
  /\ LET u == clearActionMessage(ui)
     IN  ui' = IF h.from = "detail"
               THEN [u EXCEPT !.devicesOf = h.of, !.loading = TRUE]
               ELSE [u EXCEPT !.editDevicesOf = h.of, !.loading = TRUE]
  /\ GoesOnAs(h, Load("load"))

(***************************************************************************)
(* The form.                                                               *)
(***************************************************************************)

handleOpenCreateModal ==
  /\ ~ui.open /\ ~ui.formOpen
  /\ ui' = [ui EXCEPT !.formOpen = TRUE, !.formOf = None, !.editing = None,
                      !.editDevicesOf = None]
  /\ UNCHANGED calls

\* The dialog opens only when the devices of the case have come.
handleOpenEditModal(c) ==
  /\ ~ui.open /\ ~ui.formOpen
  /\ Begins(Handler("edit", c, "edit"))
  /\ ui' = [ui EXCEPT !.editing = c, !.formOf = c]

EditOpened(h) ==
  /\ Awaits(h, {"edit"})
  /\ \E what \in {h.of, None} :
       ui' = [ui EXCEPT !.editDevicesOf = what, !.formOpen = TRUE]
  /\ Ends(h)

CloseForm ==
  /\ ui.formOpen /\ ui.tree = None
  /\ ui' = [ui EXCEPT !.formOpen = FALSE]
  /\ UNCHANGED calls

handleFormSubmit ==
  /\ ui.formOpen /\ ~ui.submitting /\ ui.tree = None
  /\ \/ /\ Begins(Handler("save", ui.editing, ui.formOf))
        /\ ui' = [ui EXCEPT !.submitting = TRUE]
     \/ /\ ui' = clearActionMessage(Say(ui))   \* no name
        /\ UNCHANGED calls

\* The dialog that is open now is closed, whoever opened it.
Saved(h) ==
  /\ Awaits(h, {"save"})
  /\ \/ /\ ui' = [Say(ui) EXCEPT !.formOpen = FALSE, !.loading = TRUE]
        /\ GoesOnAs(h, Load("submit"))
     \/ /\ ui' = [clearActionMessage(Say(ui)) EXCEPT !.submitting = FALSE]
        /\ Ends(h)

handleDelete(c) ==
  /\ ~ui.open /\ ~ui.formOpen
  /\ Begins(Handler("delete", c, "delete"))
  /\ UNCHANGED ui

Deleted(h) ==
  /\ Awaits(h, {"delete"})
  /\ \/ /\ ui' = [Say(ui) EXCEPT !.loading = TRUE]
        /\ GoesOnAs(h, Load("delete"))
     \/ ui' = clearActionMessage(Say(ui)) /\ Ends(h)

Answer(h) ==
  \/ Listed(h) \/ CaseOpened(h) \/ Located(h) \/ DeviceOpened(h) \/ Changed(h)
  \/ NotChanged(h) \/ Reloaded(h) \/ EditOpened(h) \/ Saved(h) \/ Deleted(h)

Next ==
  \/ Dismiss \/ loadCases \/ CloseCase \/ handleLocateDevice
  \/ handleOpenDevice \/ CloseDevice \/ handleConfirmAddDevices \/ CancelTree
  \/ handleOpenCreateModal \/ CloseForm \/ handleFormSubmit
  \/ \E c \in Cases : handleOpenCase(c) \/ handleOpenEditModal(c) \/ handleDelete(c)
  \/ \E x \in {"detail", "edit"} : handleAddDevices(x) \/ handleRemoveDevice(x)
  \/ \E h \in calls : Answer(h)

Spec == Init /\ [][Next]_vars

(***************************************************************************)
(* Properties.                                                             *)
(***************************************************************************)

TypeOK ==
  LET Case == Cases \union {None}
  IN  /\ ui \in [loading : BOOLEAN, open : BOOLEAN, selected : Case, devicesOf : Case,
                 opening : BOOLEAN, deviceOpen : BOOLEAN, tree : {None, "detail", "edit"},
                 formOpen : BOOLEAN, formOf : Case, editing : Case,
                 editDevicesOf : Case, submitting : BOOLEAN, message : BOOLEAN,
                 timer : BOOLEAN]
      /\ \A h \in calls : h.of \in Case

\* What a form saves goes to the case whose values filled it, or makes a new
\* case when none did, however opening the form, which waits for the devices,
\* interleaves with opening others (handleOpenEditModal, handleOpenCreateModal).
FormSavesToItsCase == \A h \in calls : h.ask = "save" => h.of = h.from

\* Every message is taken away again: by a timer that runs, or by a handler
\* that sets one when it ends.
MessageGoesAway ==
  ui.message => ui.timer \/ \E h \in calls :
    h.ask = "devices" \/ (h.ask = "list" /\ h.from \in {"submit", "delete"})

\* When nothing is in flight the page is not waiting (the finally blocks).
NoSpinnerLeft == calls = {} => ~ui.loading /\ ~ui.opening /\ ~ui.submitting

\* What the page does not assure: the devices in the details may be those of
\* another case, when the answer to a change made in it comes late.
DetailsShowOneCase == ui.open => ui.devicesOf = ui.selected
=============================================================================
