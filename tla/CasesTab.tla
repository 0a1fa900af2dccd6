------------------------------ MODULE CasesTab ------------------------------
(***************************************************************************)
(* The cases tab of the admin components                                   *)
(* (web/src/components/admin/CasesTab.tsx): the list of cases with its     *)
(* filters, the details of a case, its form and its label.  The component  *)
(* is complete but no route shows it; CasesPage is what /cases shows.      *)
(***************************************************************************)
EXTENDS ReactPage

CONSTANT Cases

Load(from) == [ask |-> "list", from |-> from]

\* typed: the search term has changed and its delay has not run out.
\* view, devicesOf: the case whose details, and whose devices, are shown.
\* editing: what saving the form writes to, None for a new case; formOf: whose
\* values fill it.
Init ==
  /\ ui = [listed |-> {}, loading |-> TRUE, refreshing |-> FALSE, typed |-> FALSE,
           view |-> None, devicesOf |-> None, open |-> FALSE, editing |-> None,
           formOf |-> None, submitting |-> FALSE, message |-> FALSE, timer |-> FALSE]
  /\ calls = {Load("load")}

Say(u) == [u EXCEPT !.message = TRUE]
clearActionMessage(u) == [u EXCEPT !.timer = TRUE]

\* Timers are not cancelled: one that another message set may come first.
Dismiss ==
  /\ ui.timer
  /\ \E another \in BOOLEAN : ui' = [ui EXCEPT !.message = FALSE, !.timer = another]
  /\ UNCHANGED calls

OnTheList == ~ui.open /\ ui.view = None

(***************************************************************************)
(* The list.                                                               *)
(***************************************************************************)

SearchTyped ==
  /\ OnTheList
  /\ ui' = [ui EXCEPT !.typed = TRUE]
  /\ UNCHANGED calls

\* The delay of the search is over: fetchCases is another function now.  (The
\* same when the status filter changes, at once.)
FilterChanged ==
  /\ ui.typed \/ OnTheList
  /\ Begins(Load("load"))
  /\ ui' = [ui EXCEPT !.typed = FALSE, !.loading = TRUE]

handleRefresh ==
  /\ OnTheList /\ ~ui.refreshing
  /\ Begins(Load("refresh"))
  /\ ui' = [ui EXCEPT !.refreshing = TRUE, !.loading = TRUE]

\* A failure empties the list.
fetchCases(h) ==
  /\ Awaits(h, {"list"})
  /\ \E list \in SUBSET Cases :
       LET u == [ui EXCEPT !.listed = list, !.loading = FALSE]
       IN  ui' = CASE h.from = "refresh" -> [u EXCEPT !.refreshing = FALSE]
                   [] h.from = "submit" -> clearActionMessage([u EXCEPT !.submitting = FALSE])
                   [] h.from = "delete" -> clearActionMessage(u)
                   [] OTHER -> u
  /\ Ends(h)

InTheList(c) == OnTheList /\ ~ui.loading /\ c \in ui.listed

handleDelete(c) ==
  /\ InTheList(c)
  /\ Begins([ask |-> "delete"])
  /\ UNCHANGED ui

Deleted(h) ==
  /\ Awaits(h, {"delete"})
  /\ \/ ui' = Say([ui EXCEPT !.loading = TRUE]) /\ GoesOnAs(h, Load("delete"))
     \/ ui' = clearActionMessage(Say(ui)) /\ Ends(h)

\* Its templates, then its label, then a window of its own.
handlePrintLabel(c) ==
  /\ InTheList(c)
  /\ Begins([ask |-> "templates"])
  /\ UNCHANGED ui

Printed(h) ==
  /\ Awaits(h, {"templates", "label"})
  /\ UNCHANGED ui
  /\ (h.ask = "templates" /\ GoesOn(h, "label")) \/ Ends(h)

(***************************************************************************)
(* The details.                                                            *)
(***************************************************************************)

handleViewCase(c) ==
  /\ InTheList(c)
  /\ Begins([ask |-> "view", of |-> c])
  /\ UNCHANGED ui

\* Mutant: the case is shown before its devices are there.
ViewedInTurn(h) ==
  \/ Awaits(h, {"view"}) /\ ui' = [ui EXCEPT !.view = h.of] /\ GoesOn(h, "devices")
  \/ Awaits(h, {"devices"}) /\ ui' = [ui EXCEPT !.devicesOf = h.of] /\ Ends(h)

\* Both have been asked for at once and are shown at once.
Viewed(h) ==
  /\ Awaits(h, {"view"})
  /\ \/ ui' = [ui EXCEPT !.view = h.of, !.devicesOf = h.of]
     \/ ui' = clearActionMessage(Say(ui))
  /\ Ends(h)

CloseView ==
  /\ ui.view # None
  /\ ui' = [ui EXCEPT !.view = None]
  /\ UNCHANGED calls

(***************************************************************************)
(* The form.                                                               *)
(***************************************************************************)

openCreateModal ==
  /\ OnTheList
  /\ ui' = [ui EXCEPT !.editing = None, !.formOf = None, !.open = TRUE]
  /\ UNCHANGED calls

openEditModal(u, c) == [u EXCEPT !.editing = c, !.formOf = c, !.open = TRUE]

EditCase(c) == InTheList(c) /\ ui' = openEditModal(ui, c) /\ UNCHANGED calls

\* From the details, when the list still has the case.
EditViewed ==
  /\ ui.view # None
  /\ LET u == [ui EXCEPT !.view = None]
     IN  ui' = IF ui.view \in ui.listed THEN openEditModal(u, ui.view) ELSE u
  /\ UNCHANGED calls

CloseForm ==
  /\ ui.open
  /\ ui' = [ui EXCEPT !.open = FALSE]
  /\ UNCHANGED calls

handleSubmit ==
  /\ ui.open /\ ~ui.submitting
  /\ \/ /\ Begins([ask |-> "save", of |-> ui.editing, form |-> ui.formOf])
        /\ ui' = [ui EXCEPT !.submitting = TRUE]
     \/ ui' = clearActionMessage(Say(ui)) /\ UNCHANGED calls   \* no name

\* The form that is open now is closed and cleared, whoever opened it.
Saved(h) ==
  /\ Awaits(h, {"save"})
  /\ \/ /\ ui' = Say([ui EXCEPT !.open = FALSE, !.formOf = None, !.loading = TRUE])
        /\ GoesOnAs(h, Load("submit"))
     \/ ui' = clearActionMessage(Say([ui EXCEPT !.submitting = FALSE])) /\ Ends(h)

Answer(h) ==
  \/ fetchCases(h) \/ Deleted(h) \/ Printed(h) \/ Viewed(h) \/ Saved(h)

Next ==
  \/ Dismiss \/ SearchTyped \/ FilterChanged \/ handleRefresh \/ CloseView
  \/ openCreateModal \/ EditViewed \/ CloseForm \/ handleSubmit
  \/ \E c \in Cases :
       handleDelete(c) \/ handlePrintLabel(c) \/ handleViewCase(c) \/ EditCase(c)
  \/ \E h \in calls : Answer(h)

Spec == Init /\ [][Next]_vars

(***************************************************************************)
(* Properties.                                                             *)
(***************************************************************************)

TypeOK ==
  LET Case == Cases \union {None}
  IN  /\ ui \in [listed : SUBSET Cases, loading : BOOLEAN, refreshing : BOOLEAN,
                 typed : BOOLEAN, view : Case, devicesOf : Case, open : BOOLEAN,
                 editing : Case, formOf : Case, submitting : BOOLEAN,
                 message : BOOLEAN, timer : BOOLEAN]
      /\ \A h \in calls : "of" \in DOMAIN h => h.of \in Case

\* The devices listed in the details are those of the case they show, when two
\* cases are asked for one after the other and answered in any order.
DetailsShowOneCase == ui.view # None => ui.devicesOf = ui.view

\* What a form saves goes to the case whose values filled it, or makes a new
\* case when none did, though what it edited is not reset when it closes.
FormSavesToItsCase == \A h \in calls : h.ask = "save" => h.of = h.form

\* Every message is taken away again: by a timer that runs, or by a handler
\* that sets one when its list has come.
MessageGoesAway ==
  ui.message =>
    ui.timer \/ \E h \in calls : h.ask = "list" /\ h.from \in {"submit", "delete"}

\* When nothing is in flight the page is not waiting (the finally blocks).
NoSpinnerLeft == calls = {} => ~ui.loading /\ ~ui.refreshing /\ ~ui.submitting
=============================================================================
