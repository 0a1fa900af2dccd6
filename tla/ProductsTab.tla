---------------------------- MODULE ProductsTab ----------------------------
(***************************************************************************)
(* The products tab of the web client                                      *)
(* (web/src/components/admin/ProductsTab.tsx): the list with its selection *)
(* and bulk changes, and the form with the devices and the custom fields   *)
(* of a product.  The server has one required custom field, which is not a *)
(* checkbox.  Which product the values in the form are of is not followed; *)
(* `editing' is the one that saving it writes to, None for a new one.  In  *)
(* the view `tree' the place of the list is taken by the DeviceTreeTab.    *)
(***************************************************************************)
EXTENDS ReactPage

CONSTANT Products

Views == {"table", "cards", "tree"}

Load(from) == [ask |-> "list", from |-> from]

\* The lists the form chooses from; `then' is what waits for them.
Metadata(then, of) == [ask |-> "lists", then |-> then, of |-> of]

\* `defs': the definitions of the custom fields are here; `defsFailed': they
\* could not be loaded; `filled': the required field is; `marked': devices to
\* delete are marked; `overlay': a dialog that only shows things covers the list.
\* A narrow screen begins with cards.
Init ==
  /\ \E view \in {"table", "cards"} :
     ui = [products |-> {}, selected |-> {}, view |-> view,
           loading |-> TRUE, refreshing |-> FALSE,
           metadata |-> FALSE, defs |-> FALSE, defsFailed |-> FALSE,
           open |-> FALSE, editing |-> None, devices |-> FALSE,
           marked |-> FALSE, loadingDevices |-> FALSE,
           filled |-> FALSE, valuesLoaded |-> FALSE, submitting |-> FALSE,
           bulkOpen |-> FALSE, overlay |-> FALSE]
  /\ calls = {Load("load"), Metadata("nothing", None)}

OnTheList == ~ui.open /\ ~ui.bulkOpen /\ ~ui.overlay

\* The buttons of each product; the tree has none.
OnAProduct ==
  OnTheList /\ ~ui.loading /\ ui.products # {} /\ ui.view \in {"table", "cards"}

(***************************************************************************)
(* The list and the selection.                                             *)
(***************************************************************************)

\* A new search or category.
FilterChanged ==
  /\ OnTheList
  /\ Begins(Load("load"))
  /\ ui' = [ui EXCEPT !.loading = TRUE, !.selected = {}]

handleRefresh ==
  /\ OnTheList /\ ~ui.refreshing
  /\ Begins(Load("refresh"))
  /\ ui' = [ui EXCEPT !.loading = TRUE, !.refreshing = TRUE]

closeModal(u) ==
  [u EXCEPT !.open = FALSE, !.editing = None, !.devices = FALSE,
            !.marked = FALSE, !.filled = FALSE, !.valuesLoaded = FALSE]

\* Mutant: the selection outlives the list it was made on.
KeepSelection(u, list) == [u EXCEPT !.products = list]

\* A new list takes from the selection what it no longer shows.
Show(u, list) == [u EXCEPT !.products = list, !.selected = @ \intersect list]

\* An answer, or a failure, which empties the list.
Listed(h) ==
  /\ Awaits(h, {"list"})
  /\ \E list \in SUBSET Products :
       LET u == [Show(ui, list) EXCEPT !.loading = FALSE]
       IN  ui' = CASE h.from = "submit" -> [closeModal(u) EXCEPT !.submitting = FALSE]
                   [] h.from = "refresh" -> [u EXCEPT !.refreshing = FALSE]
                   [] OTHER -> u
  /\ Ends(h)

\* The selection stays, though only the table has checkboxes.
setViewMode(view) ==
  /\ OnTheList
  /\ ui' = [ui EXCEPT !.view = view]
  /\ UNCHANGED calls

toggleProductSelection(p) ==
  /\ OnAProduct /\ ui.view = "table" /\ p \in ui.products
  /\ ui' = [ui EXCEPT !.selected = IF p \in @ THEN @ \ {p} ELSE @ \union {p}]
  /\ UNCHANGED calls

toggleSelectAllProducts ==
  /\ OnAProduct /\ ui.view = "table"
  /\ ui' = [ui EXCEPT !.selected = IF @ = ui.products THEN {} ELSE ui.products]
  /\ UNCHANGED calls

DeselectAll ==
  /\ OnTheList /\ ui.selected # {}
  /\ ui' = [ui EXCEPT !.selected = {}]
  /\ UNCHANGED calls

\* After a change that the server has made the list is loaded again.
LoadAgain(h, from, u) ==
  /\ ui' = [u EXCEPT !.loading = TRUE]
  /\ GoesOnAs(h, Load(from))

handleBulkDeleteProducts ==
  /\ OnTheList /\ ui.selected # {}
  /\ Begins([ask |-> "bulkDelete"])
  /\ UNCHANGED ui

OpenBulkEdit ==
  /\ OnTheList /\ ui.selected # {}
  /\ ui' = [ui EXCEPT !.bulkOpen = TRUE]
  /\ UNCHANGED calls

\* Nothing happens when a new list has emptied the selection meanwhile, and the
\* dialog closes when no field was filled in.
handleBulkEditProductsSubmit ==
  /\ ui.bulkOpen /\ ui.selected # {}
  /\ \/ Begins([ask |-> "bulkEdit"]) /\ UNCHANGED ui
     \/ ui' = [ui EXCEPT !.bulkOpen = FALSE] /\ UNCHANGED calls

CloseBulkEdit ==
  /\ ui.bulkOpen
  /\ ui' = [ui EXCEPT !.bulkOpen = FALSE]
  /\ UNCHANGED calls

BulkDone(h) ==
  /\ Awaits(h, {"bulkDelete", "bulkEdit"})
  /\ \/ LET u == [ui EXCEPT !.selected = {}]
        IN  LoadAgain(h, "load",
                      IF h.ask = "bulkEdit" THEN [u EXCEPT !.bulkOpen = FALSE] ELSE u)
     \/ Ends(h) /\ UNCHANGED ui

(***************************************************************************)
(* Deleting, converting to a case, looking at a product.                   *)
(***************************************************************************)

handleDelete ==
  /\ OnAProduct
  /\ Begins([ask |-> "delete"])
  /\ UNCHANGED ui

Deleted(h) ==
  /\ Awaits(h, {"delete"})
  /\ LoadAgain(h, "load", ui) \/ (Ends(h) /\ UNCHANGED ui)

handleConvertToCase ==
  /\ OnAProduct
  /\ Begins([ask |-> "convert"])
  /\ UNCHANGED ui

Converted(h) == Awaits(h, {"convert"}) /\ Ends(h) /\ UNCHANGED ui

handleViewProduct ==
  /\ OnAProduct
  /\ Begins([ask |-> "view"])
  /\ UNCHANGED ui

Viewed(h) ==
  /\ Awaits(h, {"view"})
  /\ \E shown \in {TRUE, ui.overlay} : ui' = [ui EXCEPT !.overlay = shown]
  /\ Ends(h)

OpenDependencies ==
  /\ OnAProduct
  /\ ui' = [ui EXCEPT !.overlay = TRUE]
  /\ UNCHANGED calls

\* There may be another one below.
CloseOverlay ==
  /\ ui.overlay
  /\ \E below \in BOOLEAN : ui' = [ui EXCEPT !.overlay = below]
  /\ UNCHANGED calls

(***************************************************************************)
(* Opening the form.                                                       *)
(***************************************************************************)

OpenCreate(u) ==
  [u EXCEPT !.editing = None, !.filled = FALSE, !.valuesLoaded = FALSE, !.open = TRUE]

Product(p) == [ask |-> "product", of |-> p]

handleOpenCreateModal ==
  /\ OnTheList
  /\ \/ ui.metadata /\ ui' = OpenCreate(ui) /\ UNCHANGED calls
     \/ ~ui.metadata /\ Begins(Metadata("create", None)) /\ UNCHANGED ui

handleEditProduct(p) ==
  /\ OnAProduct /\ p \in ui.products
  /\ Begins(IF ui.metadata THEN Product(p) ELSE Metadata("edit", p))
  /\ UNCHANGED ui

\* The lists first; then, whether or not they came, the definitions.
MetadataLoaded(h) ==
  /\ Awaits(h, {"lists"})
  /\ \E ok \in {TRUE, ui.metadata} : ui' = [ui EXCEPT !.metadata = ok]
  /\ GoesOn(h, "definitions")

DefinitionsLoaded(h) ==
  /\ Awaits(h, {"definitions"})
  /\ \E u \in {[ui EXCEPT !.defs = TRUE, !.defsFailed = FALSE],
               [ui EXCEPT !.defsFailed = TRUE]} :
       ui' = IF h.then = "create" THEN OpenCreate(u) ELSE u
  /\ IF h.then = "edit" THEN GoesOnAs(h, Product(h.of)) ELSE Ends(h)

\* The form opens with the product; its devices and its fields are on the way.
ProductLoaded(h) ==
  /\ Awaits(h, {"product"})
  /\ \/ /\ ui' = [ui EXCEPT !.editing = h.of, !.open = TRUE, !.loadingDevices = TRUE]
        /\ GoesOn(h, "devices")
     \/ UNCHANGED ui /\ Ends(h)

\* The marks go with the devices they were made on, unless the answer is an error.
loadProductDevices ==
  \E u \in {[ui EXCEPT !.devices = TRUE, !.marked = FALSE],
             [ui EXCEPT !.devices = FALSE, !.marked = FALSE], [ui EXCEPT !.devices = FALSE]} :
    ui' = [u EXCEPT !.loadingDevices = FALSE]

DevicesLoaded(h) ==
  /\ Awaits(h, {"devices"})
  /\ loadProductDevices
  /\ GoesOn(h, "fields")

FieldsLoaded(h) ==
  /\ Awaits(h, {"fields"})
  /\ \/ \E full \in BOOLEAN :
          ui' = [ui EXCEPT !.filled = full, !.valuesLoaded = TRUE]
     \/ UNCHANGED ui
  /\ Ends(h)

(***************************************************************************)
(* In the form.                                                            *)
(***************************************************************************)

TypeField ==
  /\ ui.open /\ ui.defs
  /\ \E full \in BOOLEAN : ui' = [ui EXCEPT !.filled = full]
  /\ UNCHANGED calls

handleRemoveDevice ==
  /\ ui.open /\ ui.editing # None /\ ui.devices
  /\ ui' = [ui EXCEPT !.marked = ~@]
  /\ UNCHANGED calls

\* At the end it writes back the form of the render it began in.
handleAddDevices ==
  /\ ui.open /\ ui.editing # None
  /\ Begins([ask |-> "add"])
  /\ UNCHANGED ui

DevicesAdded(h) ==
  /\ Awaits(h, {"add"})
  /\ \/ GoesOn(h, "added") /\ ui' = [ui EXCEPT !.loadingDevices = TRUE]
     \/ Ends(h) /\ UNCHANGED ui

AddedLoaded(h) ==
  /\ Awaits(h, {"added"})
  /\ loadProductDevices
  /\ Ends(h)

\* The cross; the button beside the other one is off while submitting.
CloseForm ==
  /\ ui.open
  /\ ui' = closeModal(ui)
  /\ UNCHANGED calls

(***************************************************************************)
(* Saving.                                                                 *)
(***************************************************************************)

MaySave ==
  /\ ~ui.defsFailed
  /\ ui.editing # None => ui.valuesLoaded
  /\ ui.defs => ui.filled

\* A form that may not be saved only says so.
handleSubmit ==
  /\ ui.open /\ ~ui.submitting /\ MaySave
  /\ Begins([ask |-> "save", of |-> ui.editing, filled |-> ui.filled,
             defs |-> ui.defs, marked |-> ui.marked])
  /\ ui' = [ui EXCEPT !.submitting = TRUE]

\* Mutant: the button is on again only after a save that succeeded.
NotSavedStays(h) == UNCHANGED ui /\ Ends(h)

NotSaved(h) == ui' = [ui EXCEPT !.submitting = FALSE] /\ Ends(h)

\* The custom fields that changed, when there are any, then the list.
SaveFields(h) ==
  \/ h.defs /\ GoesOn(h, "values") /\ UNCHANGED ui
  \/ LoadAgain(h, "submit", ui)

\* The product; then the devices that are marked, or those a new one begins with.
Saved(h) ==
  /\ Awaits(h, {"save"})
  /\ \/ /\ h.of = None \/ h.marked
        /\ GoesOn(h, "saveDevices") /\ UNCHANGED ui
     \/ /\ h.of = None \/ ~h.marked
        /\ SaveFields(h)
     \/ NotSaved(h)

\* Devices that could not be deleted or made are only told of.
DevicesSaved(h) == Awaits(h, {"saveDevices"}) /\ SaveFields(h)

FieldsSaved(h) ==
  /\ Awaits(h, {"values"})
  /\ LoadAgain(h, "submit", ui) \/ NotSaved(h)

Answer(h) ==
  \/ Listed(h) \/ BulkDone(h) \/ Deleted(h) \/ Converted(h) \/ Viewed(h)
  \/ MetadataLoaded(h) \/ DefinitionsLoaded(h) \/ ProductLoaded(h) \/ DevicesLoaded(h)
  \/ FieldsLoaded(h) \/ DevicesAdded(h) \/ AddedLoaded(h)
  \/ Saved(h) \/ DevicesSaved(h) \/ FieldsSaved(h)

Next ==
  \/ FilterChanged \/ handleRefresh \/ toggleSelectAllProducts \/ DeselectAll
  \/ handleBulkDeleteProducts \/ OpenBulkEdit \/ handleBulkEditProductsSubmit
  \/ CloseBulkEdit \/ handleDelete \/ handleConvertToCase \/ handleViewProduct
  \/ OpenDependencies \/ CloseOverlay \/ handleOpenCreateModal
  \/ TypeField \/ handleRemoveDevice \/ handleAddDevices \/ CloseForm \/ handleSubmit
  \/ \E view \in Views : setViewMode(view)
  \/ \E p \in Products : toggleProductSelection(p) \/ handleEditProduct(p)
  \/ \E h \in calls : Answer(h)

Spec == Init /\ [][Next]_vars

(***************************************************************************)
(* Properties.                                                             *)
(***************************************************************************)

TypeOK ==
  LET Product_ == Products \union {None}
  IN  /\ ui \in [products : SUBSET Products, selected : SUBSET Products, view : Views,
                 loading : BOOLEAN, refreshing : BOOLEAN, metadata : BOOLEAN,
                 defs : BOOLEAN, defsFailed : BOOLEAN, open : BOOLEAN, editing : Product_,
                 devices : BOOLEAN, marked : BOOLEAN, loadingDevices : BOOLEAN, filled : BOOLEAN,
                 valuesLoaded : BOOLEAN, submitting : BOOLEAN, bulkOpen : BOOLEAN,
                 overlay : BOOLEAN]
      /\ \A h \in calls : "of" \in DOMAIN h => h.of \in Product_

\* What the bulk changes work on is in the list that was loaded last, whatever
\* answer came late (the effects that clear and prune selectedProducts): a bulk
\* change reaches no product that a search or a reload has taken from the list.
\* That the view shows what is selected is not claimed: the tree does not.
SelectionIsListed == ui.selected \subseteq ui.products

\* When nothing is in flight the page is not waiting (the finally blocks).
NoSpinnerLeft ==
  calls = {} => ~ui.loading /\ ~ui.refreshing /\ ~ui.loadingDevices /\ ~ui.submitting

\* A product is only saved with its required field ("so the product is never
\* persisted without its required field values", ProductsTab.tsx).
RequiredFieldsFilled == \A h \in calls : h.ask = "save" => h.filled
=============================================================================
