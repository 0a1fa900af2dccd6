------------------------- MODULE ProductPackagesTab -------------------------
(***************************************************************************)
(* The packages tab of the web client                                      *)
(* (web/src/components/admin/ProductPackagesTab.tsx).  `editing' is the    *)
(* package that saving the form writes to, None for a new one; whose       *)
(* values are in the form is not followed.  The pictures that will be      *)
(* uploaded with a package are a sequence, and the thumbnail is a position *)
(* in it; `chosen' is the picture the user made the thumbnail.             *)
(***************************************************************************)
EXTENDS ReactPage, SequencesExt

CONSTANTS Packages, Pictures

Load == [ask |-> "list"]

Init ==
  /\ ui = [loading |-> TRUE, open |-> FALSE, editing |-> None, devices |-> FALSE,
           marked |-> FALSE, loadingDevices |-> FALSE, submitting |-> FALSE,
           imageFiles |-> <<>>, thumbnailIndex |-> 0, chosen |-> None, overlay |-> FALSE]
  /\ calls = {Load}

OnTheList == ~ui.open /\ ~ui.overlay

\* With the tab, when the search changes, and by the button.
fetchPackages ==
  /\ OnTheList
  /\ Begins(Load)
  /\ ui' = [ui EXCEPT !.loading = TRUE]

Listed(h) ==
  /\ Awaits(h, {"list"})
  /\ ui' = [ui EXCEPT !.loading = FALSE]
  /\ Ends(h)

handleDelete ==
  /\ OnTheList
  /\ Begins([ask |-> "delete"])
  /\ UNCHANGED ui

Deleted(h) ==
  /\ Awaits(h, {"delete"})
  /\ \/ ui' = [ui EXCEPT !.loading = TRUE] /\ GoesOnAs(h, Load)
     \/ UNCHANGED ui /\ Ends(h)

handleViewPackage ==
  /\ OnTheList
  /\ Begins([ask |-> "view"])
  /\ UNCHANGED ui

Viewed(h) ==
  /\ Awaits(h, {"view"})
  /\ \E shown \in {TRUE, ui.overlay} : ui' = [ui EXCEPT !.overlay = shown]
  /\ Ends(h)

CloseView ==
  /\ ui.overlay
  /\ ui' = [ui EXCEPT !.overlay = FALSE]
  /\ UNCHANGED calls

(***************************************************************************)
(* Opening and closing the form.                                           *)
(***************************************************************************)

OpenNew ==
  /\ OnTheList
  /\ ui' = [ui EXCEPT !.editing = None, !.devices = FALSE, !.marked = FALSE, !.open = TRUE]
  /\ UNCHANGED calls

\* What the form saves to is set at once, the form opens when all has come.
handleOpenModal(p) ==
  /\ OnTheList
  /\ Begins([ask |-> "package"])
  /\ ui' = [ui EXCEPT !.editing = p]

\* A package that cannot be loaded opens the form too, with what is in it.
PackageLoaded(h) ==
  /\ Awaits(h, {"package"})
  /\ \/ ui' = [ui EXCEPT !.loadingDevices = TRUE] /\ GoesOn(h, "devices")
     \/ ui' = [ui EXCEPT !.open = TRUE] /\ Ends(h)

\* The marks go with the devices they were made on, unless the answer is an error.
loadPackageDevices(u) ==
  {[u EXCEPT !.devices = TRUE, !.marked = FALSE, !.loadingDevices = FALSE],
   [u EXCEPT !.devices = FALSE, !.marked = FALSE, !.loadingDevices = FALSE],
   [u EXCEPT !.devices = FALSE, !.loadingDevices = FALSE]}

DevicesLoaded(h) ==
  /\ Awaits(h, {"devices"})
  /\ ui' \in loadPackageDevices([ui EXCEPT !.open = TRUE])
  /\ Ends(h)

Closed(u) ==
  [u EXCEPT !.open = FALSE, !.editing = None, !.devices = FALSE, !.marked = FALSE,
            !.imageFiles = <<>>, !.thumbnailIndex = 0, !.chosen = None]

\* By the cross, at any time.
handleCloseModal ==
  /\ ui.open
  /\ ui' = Closed(ui)
  /\ UNCHANGED calls

(***************************************************************************)
(* In the form: devices and pictures.                                      *)
(***************************************************************************)

handleRemoveDevice ==
  /\ ui.open /\ ui.editing # None /\ ui.devices
  /\ ui' = [ui EXCEPT !.marked = ~@]
  /\ UNCHANGED calls

\* The package's product is asked for first.
handleAddDevices ==
  /\ ui.open /\ ui.editing # None
  /\ Begins([ask |-> "product"])
  /\ UNCHANGED ui

ProductKnown(h) ==
  /\ Awaits(h, {"product"})
  /\ GoesOn(h, "add") \/ Ends(h)
  /\ UNCHANGED ui

DevicesAdded(h) ==
  /\ Awaits(h, {"add"})
  /\ \/ ui' = [ui EXCEPT !.loadingDevices = TRUE] /\ GoesOn(h, "added")
     \/ UNCHANGED ui /\ Ends(h)

AddedLoaded(h) ==
  /\ Awaits(h, {"added"})
  /\ ui' \in loadPackageDevices(ui)
  /\ Ends(h)

handleImageFileChange(f) ==
  /\ ui.open /\ f \notin ToSet(ui.imageFiles)
  /\ ui' = [ui EXCEPT !.imageFiles = Append(@, f)]
  /\ UNCHANGED calls

handleSetThumbnail(i) ==
  /\ ui.open
  /\ ui' = [ui EXCEPT !.thumbnailIndex = i, !.chosen = ui.imageFiles[i]]
  /\ UNCHANGED calls

\* Mutant: the thumbnail keeps its position when a picture before it goes.
KeepPosition(i) ==
  /\ ui.open
  /\ ui' = [ui EXCEPT !.imageFiles = RemoveAt(@, i),
                      !.thumbnailIndex = IF @ = i THEN 0 ELSE @]
  /\ UNCHANGED calls

handleRemoveImage(i) ==
  /\ ui.open
  /\ ui' = [ui EXCEPT !.imageFiles = RemoveAt(@, i),
                      !.thumbnailIndex = IF @ = i THEN 0 ELSE IF @ > i THEN @ - 1 ELSE @]
  /\ UNCHANGED calls

(***************************************************************************)
(* Saving.                                                                 *)
(***************************************************************************)

\* A form without a name or without items only says so.
handleSubmit ==
  /\ ui.open /\ ~ui.submitting
  /\ Begins([ask |-> "save", of |-> ui.editing, marked |-> ui.marked,
             pictures |-> ui.imageFiles # <<>>])
  /\ ui' = [ui EXCEPT !.submitting = TRUE]

\* The form that is open now is closed.
Finish(h) ==
  /\ ui' = [Closed(ui) EXCEPT !.submitting = FALSE, !.loading = TRUE]
  /\ GoesOnAs(h, Load)

NotSaved(h) == ui' = [ui EXCEPT !.submitting = FALSE] /\ Ends(h)

\* The pictures, when there are any and the package's product is known.
Upload(h) ==
  \/ h.pictures /\ GoesOn(h, "pictures") /\ UNCHANGED ui
  \/ Finish(h)

\* A changed package is asked for its product, for the marked devices; a new one
\* may begin with devices.
Saved(h) ==
  /\ Awaits(h, {"save"})
  /\ \/ GoesOn(h, IF h.of = None THEN "saveDevices" ELSE "saved") /\ UNCHANGED ui
     \/ h.of = None /\ Upload(h)
     \/ NotSaved(h)

SavedLoaded(h) ==
  /\ Awaits(h, {"saved"})
  /\ \/ h.marked /\ GoesOn(h, "saveDevices") /\ UNCHANGED ui
     \/ Upload(h)
     \/ NotSaved(h)

\* Devices or pictures that failed are only told of.
DevicesSaved(h) == Awaits(h, {"saveDevices"}) /\ Upload(h)

PicturesSaved(h) == Awaits(h, {"pictures"}) /\ Finish(h)

Answer(h) ==
  \/ Listed(h) \/ Deleted(h) \/ Viewed(h) \/ PackageLoaded(h) \/ DevicesLoaded(h)
  \/ ProductKnown(h) \/ DevicesAdded(h) \/ AddedLoaded(h)
  \/ Saved(h) \/ SavedLoaded(h) \/ DevicesSaved(h) \/ PicturesSaved(h)

Next ==
  \/ fetchPackages \/ handleDelete \/ handleViewPackage \/ CloseView \/ OpenNew
  \/ handleCloseModal \/ handleRemoveDevice \/ handleAddDevices \/ handleSubmit
  \/ \E p \in Packages : handleOpenModal(p)
  \/ \E f \in Pictures : handleImageFileChange(f)
  \/ \E i \in DOMAIN ui.imageFiles : handleSetThumbnail(i) \/ handleRemoveImage(i)
  \/ \E h \in calls : Answer(h)

Spec == Init /\ [][Next]_vars

(***************************************************************************)
(* Properties.                                                             *)
(***************************************************************************)

TypeOK ==
  /\ ui \in [loading : BOOLEAN, open : BOOLEAN, editing : Packages \union {None},
             devices : BOOLEAN, marked : BOOLEAN, loadingDevices : BOOLEAN,
             submitting : BOOLEAN, imageFiles : Seq(Pictures),
             thumbnailIndex : 0 .. Len(ui.imageFiles),
             chosen : Pictures \union {None}, overlay : BOOLEAN]
  /\ \A h \in calls : "of" \in DOMAIN h => h.of \in Packages \union {None}

\* The position that is uploaded as the thumbnail is that of the picture the user
\* chose, after any removals before and behind it (handleRemoveImage).
ThumbnailIsChosen ==
  ui.thumbnailIndex # 0 =>
    /\ ui.thumbnailIndex \in DOMAIN ui.imageFiles
    /\ ui.imageFiles[ui.thumbnailIndex] = ui.chosen

\* When nothing is in flight the page is not waiting (the finally blocks).
NoSpinnerLeft ==
  calls = {} => ~ui.loading /\ ~ui.loadingDevices /\ ~ui.submitting
=============================================================================
