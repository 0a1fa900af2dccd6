--------------------------- MODULE LEDSettingsTab ---------------------------
(***************************************************************************)
(* The LED settings of the web client                                      *)
(* (web/src/components/admin/LEDSettingsTab.tsx): the appearance of a bin, *)
(* of a job and of each zone type, with previews, and the mapping of bins  *)
(* to pixels.  The mapping is a sequence of shelves, a shelf one of bins,  *)
(* a bin its list of pixels.  The user edits a bin's pixels as a text: it  *)
(* is kept beside the mapping under the positions of shelf and bin, and    *)
(* the mapping has what it parses to.                                      *)
(***************************************************************************)
EXTENDS ReactPage, SequencesExt

CONSTANTS
  PixelLists,        \* lists of pixels a bin may have
  NoPixels,          \* the empty one
  ZoneTypes,
  Targets,           \* IDs of bins: a bin can be given any, the form names any
  MaxShelves, MaxBins   \* bounds: shelves, and bins on a shelf

\* A text parses to a list; `neat': it is how the list is written by the code.
Text == [parse : PixelLists, neat : BOOLEAN]

Positions(mapping) ==
  UNION {{<<s, b>> : b \in DOMAIN mapping[s]} : s \in DOMAIN mapping}

rebuildPixelInputs(mapping) ==
  [p \in Positions(mapping) |-> [parse |-> mapping[p[1]][p[2]], neat |-> TRUE]]

\* loaded: there is a mapping.  The other flags say which buttons are off.
Init ==
  /\ ui = [loading |-> TRUE, zoneTypeLoading |-> TRUE, mappingLoading |-> TRUE,
           loaded |-> FALSE, mapping |-> <<>>, pixelsInput |-> <<>>,
           saving |-> {}, zoneTypeSaving |-> None,
           previewLoading |-> FALSE, previewActive |-> FALSE, previewTarget |-> None,
           stopLoading |-> FALSE]
  /\ calls = {[ask |-> "defaults"], [ask |-> "zoneTypes"], [ask |-> "mapping"]}

Shown == ~ui.loading /\ ~ui.zoneTypeLoading

(***************************************************************************)
(* Loading.                                                                *)
(***************************************************************************)

loadDefaults(h) ==
  /\ Awaits(h, {"defaults"})
  /\ ui' = [ui EXCEPT !.loading = FALSE]
  /\ Ends(h)

loadZoneTypes(h) ==
  /\ Awaits(h, {"zoneTypes"})
  /\ ui' = [ui EXCEPT !.zoneTypeLoading = FALSE]
  /\ Ends(h)

loadMapping ==
  /\ Shown /\ ui.loaded /\ ~ui.mappingLoading
  /\ Begins([ask |-> "mapping"])
  /\ ui' = [ui EXCEPT !.mappingLoading = TRUE]

\* The server's mappings that are looked at: one shelf with one bin, or none.
MappingLoaded(h) ==
  /\ Awaits(h, {"mapping"})
  /\ \E found \in {<<>>} \union {<< <<l>> >> : l \in PixelLists} : \E ok \in BOOLEAN :
       LET mapping == IF ok THEN found ELSE <<>>
       IN  ui' = [ui EXCEPT !.loaded = ok, !.mapping = mapping,
                            !.pixelsInput = rebuildPixelInputs(mapping),
                            !.mappingLoading = FALSE]
  /\ Ends(h)

(***************************************************************************)
(* Editing the mapping.                                                    *)
(***************************************************************************)

Editable == Shown /\ ui.loaded /\ ~ui.mappingLoading

\* A change of the shelves or bins moves the texts to their new positions.
Rebuild(mapping) ==
  /\ ui' = [ui EXCEPT !.mapping = mapping, !.pixelsInput = rebuildPixelInputs(mapping)]
  /\ UNCHANGED calls

addShelf ==
  /\ Editable /\ Len(ui.mapping) < MaxShelves
  /\ Rebuild(Append(ui.mapping, <<>>))

removeShelf(s) == Editable /\ Rebuild(RemoveAt(ui.mapping, s))

addBin(s) ==
  /\ Editable /\ Len(ui.mapping[s]) < MaxBins
  /\ Rebuild([ui.mapping EXCEPT ![s] = Append(@, NoPixels)])

\* Mutant: the texts stay where they are when a bin goes.
KeepTexts(s, b) ==
  /\ Editable
  /\ ui' = [ui EXCEPT !.mapping[s] = RemoveAt(@, b)]
  /\ UNCHANGED calls

removeBin(s, b) ==
  /\ Editable
  /\ Rebuild([ui.mapping EXCEPT ![s] = RemoveAt(@, b)])

\* What the text parses to goes into the mapping; the text stays as typed.
handlePixelInputChange(s, b, text) ==
  /\ Editable
  /\ ui' = [ui EXCEPT !.pixelsInput[<<s, b>>] = text, !.mapping[s][b] = text.parse]
  /\ UNCHANGED calls

(***************************************************************************)
(* Saving and checking.  Each button is off until its own answer.          *)
(***************************************************************************)

Save(what) ==
  /\ Shown /\ what \notin ui.saving
  /\ what \in {"mapping", "validate"} => ui.loaded /\ ~ui.mappingLoading
  /\ Begins([ask |-> "save", what |-> what])
  /\ ui' = [ui EXCEPT !.saving = @ \union {what}]

handleSave == Save("defaults")
handleJobSettingsSave == Save("job")
handleMappingSave == Save("mapping")
handleMappingValidate == Save("validate")

Saved(h) ==
  /\ Awaits(h, {"save"})
  /\ ui' = [ui EXCEPT !.saving = @ \ {h.what}]
  /\ Ends(h)

handleZoneTypeSave(z) ==
  /\ Shown /\ ui.zoneTypeSaving # z
  /\ Begins([ask |-> "zoneType"])
  /\ ui' = [ui EXCEPT !.zoneTypeSaving = z]

\* One flag for all: the first answer frees every button.
ZoneTypeSaved(h) ==
  /\ Awaits(h, {"zoneType"})
  /\ ui' = [ui EXCEPT !.zoneTypeSaving = None]
  /\ GoesOn(h, "zoneTypes") \/ Ends(h)

(***************************************************************************)
(* Previews.                                                               *)
(***************************************************************************)

triggerPreview(target) ==
  /\ Begins([ask |-> "preview", target |-> target])
  /\ ui' = [ui EXCEPT !.previewLoading = TRUE]

\* The answer frees every button, whatever else has been asked for meanwhile.
Previewed(h) ==
  /\ Awaits(h, {"preview"})
  /\ \E ok \in BOOLEAN :
       ui' = [ui EXCEPT !.previewLoading = FALSE, !.previewActive = ok,
                        !.previewTarget = IF ok THEN h.target ELSE None]
  /\ Ends(h)

handlePreviewStop ==
  /\ Begins([ask |-> "clear"])
  /\ ui' = [ui EXCEPT !.stopLoading = TRUE]

Stopped(h) ==
  /\ Awaits(h, {"clear"})
  /\ \/ ui' = [ui EXCEPT !.stopLoading = FALSE]
     \/ ui' = [ui EXCEPT !.stopLoading = FALSE, !.previewActive = FALSE, !.previewTarget = None]
  /\ Ends(h)

\* The buttons of the defaults, the job and the zone types, and that of a bin that
\* has no ID yet: to the bin that is typed in, or to all.
FormPreview ==
  /\ Shown /\ ~ui.previewLoading
  /\ \E target \in Targets \union {"all"} : triggerPreview(target)

\* Also while a preview is asked for.
FormStop ==
  /\ Shown /\ (ui.previewActive \/ ui.previewLoading) /\ ~ui.stopLoading
  /\ handlePreviewStop

\* The button of the mapping's defaults stays on while a preview of all is shown
\* and another one is asked for ...
MappingPreview ==
  /\ Editable /\ (ui.previewLoading => ui.previewTarget = "all")
  /\ \E target \in Targets \union {"all"} : triggerPreview(target)

\* ... and that of a bin while the bin is shown; it stops its own preview, also
\* while a stop is being answered.
BinButton(bin) ==
  /\ Editable /\ Positions(ui.mapping) # {}
  /\ ui.previewLoading => ui.previewTarget = bin
  /\ IF ui.previewActive /\ ui.previewTarget = bin THEN handlePreviewStop
                                                   ELSE triggerPreview(bin)

Answer(h) ==
  \/ loadDefaults(h) \/ loadZoneTypes(h) \/ MappingLoaded(h) \/ Saved(h)
  \/ ZoneTypeSaved(h) \/ Previewed(h) \/ Stopped(h)

Next ==
  \/ loadMapping \/ addShelf \/ FormPreview \/ FormStop \/ MappingPreview
  \/ \E bin \in Targets : BinButton(bin)
  \/ \E s \in DOMAIN ui.mapping : removeShelf(s) \/ addBin(s)
  \/ \E p \in Positions(ui.mapping) :
       removeBin(p[1], p[2]) \/ \E t \in Text : handlePixelInputChange(p[1], p[2], t)
  \/ handleSave \/ handleJobSettingsSave \/ handleMappingSave \/ handleMappingValidate
  \/ \E z \in ZoneTypes : handleZoneTypeSave(z)
  \/ \E h \in calls : Answer(h)

Spec == Init /\ [][Next]_vars

(***************************************************************************)
(* Properties.                                                             *)
(***************************************************************************)

TypeOK ==
  /\ DOMAIN ui = {"loading", "zoneTypeLoading", "mappingLoading", "loaded", "mapping",
                  "pixelsInput", "saving", "zoneTypeSaving", "previewLoading",
                  "previewActive", "previewTarget", "stopLoading"}
  /\ ui.mapping \in Seq(Seq(PixelLists))
  /\ \A p \in DOMAIN ui.pixelsInput : ui.pixelsInput[p] \in Text
  /\ ui.zoneTypeSaving \in ZoneTypes \union {None}
  /\ ui.previewTarget \in Targets \union {"all", None}

\* Every bin has its text, and the mapping that will be saved has what the text
\* beside the bin says, whatever shelves and bins before it have come and gone
\* (pixelsInput is kept under positions, and rebuilt when they move).
TextIsMapping ==
  /\ DOMAIN ui.pixelsInput = Positions(ui.mapping)
  /\ \A p \in Positions(ui.mapping) : ui.pixelsInput[p].parse = ui.mapping[p[1]][p[2]]

\* When nothing is in flight no button is off, though previews and stops that share
\* a flag overlap and each answer clears it (the finally blocks).
NoSpinnerLeft ==
  calls = {} =>
    /\ ~ui.loading /\ ~ui.zoneTypeLoading /\ ~ui.mappingLoading
    /\ ui.saving = {} /\ ui.zoneTypeSaving = None
    /\ ~ui.previewLoading /\ ~ui.stopLoading
=============================================================================
