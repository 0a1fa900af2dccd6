------------------------- MODULE ProductDetailModal -------------------------
(***************************************************************************)
(* The details of a product                                                *)
(* (web/src/components/ProductDetailModal.tsx): its pictures, which are    *)
(* added and deleted at once, and what of them the public website shows.   *)
(* The page keeps the dialog mounted, so answers come after it is closed.  *)
(***************************************************************************)
EXTENDS ReactPage

CONSTANT Pictures

\* pictures: those of the server; temporary: previews of an upload stand before
\* them.  preview: the index of the large view is set.
Init ==
  /\ ui = [open |-> FALSE, pictures |-> {}, temporary |-> FALSE, loading |-> FALSE,
           uploading |-> FALSE, unavailable |-> FALSE, preview |-> FALSE,
           deleting |-> None, visible |-> FALSE, selected |-> {}, thumbnail |-> None,
           saving |-> FALSE]
  /\ calls = {}

\* from: the handler that waits for the list.
Load(from) == [ask |-> "pictures", from |-> from]
loadPictures(u) == [u EXCEPT !.loading = TRUE, !.unavailable = FALSE]

\* The effect on isOpen and the product's id.  The index of the large view stays.
Open ==
  /\ ~ui.open
  /\ Begins(Load("open"))
  /\ \E images \in SUBSET Pictures, visible \in BOOLEAN :
       \E thumbnail \in images \union {None} :
         ui' = loadPictures([ui EXCEPT !.open = TRUE, !.visible = visible,
                                       !.selected = images, !.thumbnail = thumbnail])

Shown(u) == u.preview /\ (u.pictures # {} \/ u.temporary)

\* Previews have the names of the files chosen: any.
Listed(p) == p \in ui.pictures \/ ui.temporary

\* The large view covers the buttons.
Close ==
  /\ ui.open /\ ~Shown(ui)
  /\ ui' = [ui EXCEPT !.open = FALSE, !.pictures = {}, !.temporary = FALSE,
                      !.selected = {}, !.thumbnail = None]
  /\ UNCHANGED calls

\* The list replaces what is shown, previews too; a failure empties it.
PicturesLoaded(h) ==
  /\ Awaits(h, {"pictures"})
  /\ \E list \in SUBSET Pictures, unavailable \in BOOLEAN :
       LET u == [ui EXCEPT !.temporary = FALSE, !.loading = FALSE,
                           !.pictures = IF unavailable THEN {} ELSE list,
                           !.unavailable = @ \/ unavailable]
       IN  CASE h.from = "upload" -> ui' = [u EXCEPT !.uploading = FALSE]
             [] h.from = "delete" ->
                  \E preview \in {u.preview, FALSE} :
                    ui' = [u EXCEPT !.deleting = None, !.preview = preview]
             [] OTHER -> ui' = u
  /\ Ends(h)

handleUploadPictures ==
  /\ ui.open /\ ~ui.uploading /\ ~ui.unavailable
  /\ Begins([ask |-> "upload"])
  /\ ui' = [ui EXCEPT !.temporary = TRUE, !.uploading = TRUE]

\* Mutant: the previews of an upload that failed stay.
KeepPreviews(h) ==
  /\ Awaits(h, {"upload"})
  /\ \/ ui' = loadPictures(ui) /\ GoesOnAs(h, Load("upload"))
     \/ ui' = [ui EXCEPT !.uploading = FALSE] /\ Ends(h)

Uploaded(h) ==
  /\ Awaits(h, {"upload"})
  /\ \/ ui' = loadPictures(ui) /\ GoesOnAs(h, Load("upload"))
     \/ ui' = [ui EXCEPT !.temporary = FALSE, !.uploading = FALSE] /\ Ends(h)

\* From the list or the large view, whose next and previous change no more than
\* which picture it shows.
handleDeletePicture(p) ==
  /\ ui.open /\ Listed(p) /\ ui.deleting # p
  /\ Shown(ui) \/ (~ui.loading /\ ~ui.unavailable)
  /\ Begins([ask |-> "delete"])
  /\ ui' = [ui EXCEPT !.deleting = p]

Deleted(h) ==
  /\ Awaits(h, {"delete"})
  /\ \/ ui' = loadPictures(ui) /\ GoesOnAs(h, Load("delete"))
     \/ ui' = [ui EXCEPT !.deleting = None] /\ Ends(h)

setPreviewIndex ==
  /\ ui.open
  /\ \/ ui.preview /\ Shown(ui)
     \/ ~Shown(ui) /\ ~ui.loading /\ ~ui.unavailable /\ (\E p \in Pictures : Listed(p))
  /\ ui' = [ui EXCEPT !.preview = ~Shown(ui)]
  /\ UNCHANGED calls

(***************************************************************************)
(* The website.                                                            *)
(***************************************************************************)

OnTheDialog == ui.open /\ ~Shown(ui)

\* Mutant: the thumbnail stays when its picture leaves the website.
KeepThumbnail(p) ==
  /\ OnTheDialog /\ Listed(p)
  /\ ui' = [ui EXCEPT !.selected = IF p \in @ THEN @ \ {p} ELSE @ \union {p}]
  /\ UNCHANGED calls

toggleWebsiteImage(p) ==
  /\ OnTheDialog /\ Listed(p)
  /\ ui' = [ui EXCEPT !.selected = IF p \in @ THEN @ \ {p} ELSE @ \union {p},
                      !.thumbnail = IF @ = p THEN None ELSE @]
  /\ UNCHANGED calls

\* The radio button is off for a picture that is not on the website.
setWebsiteThumbnail(p) ==
  /\ OnTheDialog /\ Listed(p) /\ p \in ui.selected
  /\ ui' = [ui EXCEPT !.thumbnail = p]
  /\ UNCHANGED calls

persistWebsiteSettings(visible) ==
  /\ Begins([ask |-> "website", images |-> ui.selected, thumbnail |-> ui.thumbnail])
  /\ ui' = [ui EXCEPT !.visible = visible, !.saving = TRUE]

\* The checkbox saves at once, also while another save runs.
setWebsiteVisible == OnTheDialog /\ persistWebsiteSettings(~ui.visible)

handleSaveWebsite ==
  /\ OnTheDialog /\ (\E p \in Pictures : Listed(p)) /\ ~ui.saving
  /\ persistWebsiteSettings(ui.visible)

WebsiteSaved(h) ==
  /\ Awaits(h, {"website"})
  /\ ui' = [ui EXCEPT !.saving = FALSE]
  /\ Ends(h)

Answer(h) == PicturesLoaded(h) \/ Uploaded(h) \/ Deleted(h) \/ WebsiteSaved(h)

Next ==
  \/ Open \/ Close \/ handleUploadPictures \/ setPreviewIndex
  \/ setWebsiteVisible \/ handleSaveWebsite
  \/ \E p \in Pictures :
       handleDeletePicture(p) \/ toggleWebsiteImage(p) \/ setWebsiteThumbnail(p)
  \/ \E h \in calls : Answer(h)

Spec == Init /\ [][Next]_vars

(***************************************************************************)
(* Properties.                                                             *)
(***************************************************************************)

TypeOK ==
  /\ ui \in [open : BOOLEAN, pictures : SUBSET Pictures, temporary : BOOLEAN,
             loading : BOOLEAN, uploading : BOOLEAN, unavailable : BOOLEAN,
             preview : BOOLEAN, deleting : Pictures \union {None}, visible : BOOLEAN,
             selected : SUBSET Pictures, thumbnail : Pictures \union {None},
             saving : BOOLEAN]
  /\ \A h \in calls : h.ask \in {"pictures", "upload", "delete", "website"}

\* A preview, whose data is given back to the browser when the upload ends, is
\* shown only while an upload runs or its list is on the way.
TemporaryPicturesGo ==
  ui.temporary => \E h \in calls : h.ask = "upload" \/ (h.ask = "pictures" /\ h.from = "upload")

\* The thumbnail of the website is one of the pictures it shows, in the dialog
\* and in whatever is being saved, in whatever order the boxes are ticked.
ThumbnailIsChosen ==
  /\ ui.thumbnail # None => ui.thumbnail \in ui.selected
  /\ \A h \in calls : h.ask = "website" /\ h.thumbnail # None => h.thumbnail \in h.images

\* When nothing is in flight the dialog is not waiting (the finally blocks).
NoSpinnerLeft ==
  calls = {} => ~ui.loading /\ ~ui.uploading /\ ui.deleting = None /\ ~ui.saving
=============================================================================
