----------------------------- MODULE WebClient -----------------------------
(***************************************************************************)
(* The web client: one page of it, or one dialog, with its state and its   *)
(* handlers.  Leaving a page unmounts it, so which one is shown is chosen  *)
(* at the start and every page starts anew.  (CasesTab is a component that *)
(* no route shows; it is checked beside the others.)  The properties that  *)
(* several pages promise are stated here once for all of them.             *)
(***************************************************************************)
EXTENDS ReactPage, Sequences

CONSTANTS
  Products, Cases, Devices, Packages, Pictures,
  Zones, Jobs, ScannedDevices, Consumables, ScannedCases,   \* what a code can name
  Cameras, Readers,                   \* the scanners of the scan page and of a field
  PixelLists, NoPixels, ZoneTypes, Targets,
  Places,                             \* where devices hang in the tree
  MaxStreams, MaxShelves, MaxBins     \* bounds of ScanFieldModal and LEDSettingsTab

\* The scanners of a field, and streams numbered by the browser.
ASSUME ReadersAssumption == Readers \subseteq {"camera", "nfc"} /\ MaxStreams \in Nat

\* The server tells devices from consumables: no code is both.
ASSUME CodesAssumption == ScannedDevices \intersect Consumables = {}

ASSUME PixelsAssumption == NoPixels \in PixelLists

\* A place is a category, a subcategory in one, or a product group in that.
ASSUME TreeAssumption ==
  /\ IsFiniteSet(Devices) /\ IsFiniteSet(Places)
  /\ \A p \in Places : Len(p) \in 1 .. 3 /\ p \in Seq({p[i] : i \in DOMAIN p})

VARIABLE page

Scan == INSTANCE ScanPage WITH Devices <- ScannedDevices, Cases <- ScannedCases,
                               Scanners <- Cameras
Field == INSTANCE ScanFieldModal WITH Scanners <- Readers, MaxCalls <- MaxCalls + 1
CasesP == INSTANCE CasesPage
CasesT == INSTANCE CasesTab
ProductsT == INSTANCE ProductsTab
DevicesT == INSTANCE DevicesTab
PackagesT == INSTANCE ProductPackagesTab
LEDs == INSTANCE LEDSettingsTab
DeviceD == INSTANCE DeviceDetailModal
ProductD == INSTANCE ProductDetailModal
TreeD == INSTANCE DeviceTreeModal
TreeT == INSTANCE DeviceTreeTab

Init ==
  \/ page = "scan" /\ Scan!Init
  \/ page = "scanField" /\ Field!Init
  \/ page = "cases" /\ CasesP!Init
  \/ page = "casesTab" /\ CasesT!Init
  \/ page = "products" /\ ProductsT!Init
  \/ page = "devices" /\ DevicesT!Init
  \/ page = "packages" /\ PackagesT!Init
  \/ page = "leds" /\ LEDs!Init
  \/ page = "device" /\ DeviceD!Init
  \/ page = "product" /\ ProductD!Init
  \/ page = "treeDialog" /\ TreeD!Init
  \/ page = "tree" /\ TreeT!Init

Next ==
  /\ UNCHANGED page
  /\ \/ page = "scan" /\ Scan!Next
     \/ page = "scanField" /\ Field!Next
     \/ page = "cases" /\ CasesP!Next
     \/ page = "casesTab" /\ CasesT!Next
     \/ page = "products" /\ ProductsT!Next
     \/ page = "devices" /\ DevicesT!Next
     \/ page = "packages" /\ PackagesT!Next
     \/ page = "leds" /\ LEDs!Next
     \/ page = "device" /\ DeviceD!Next
     \/ page = "product" /\ ProductD!Next
     \/ page = "treeDialog" /\ TreeD!Next
     \/ page = "tree" /\ TreeT!Next

Spec == Init /\ [][Next]_<<page, ui, calls>>

(***************************************************************************)
(* Properties.                                                             *)
(***************************************************************************)

TypeOK ==
  /\ page = "scan" => Scan!TypeOK
  /\ page = "scanField" => Field!TypeOK
  /\ page = "cases" => CasesP!TypeOK
  /\ page = "casesTab" => CasesT!TypeOK
  /\ page = "products" => ProductsT!TypeOK
  /\ page = "devices" => DevicesT!TypeOK
  /\ page = "packages" => PackagesT!TypeOK
  /\ page = "leds" => LEDs!TypeOK
  /\ page = "device" => DeviceD!TypeOK
  /\ page = "product" => ProductD!TypeOK
  /\ page = "treeDialog" => TreeD!TypeOK
  /\ page = "tree" => TreeT!TypeOK

\* Whatever fails and in whatever order answers come, no page is left waiting
\* for an answer that will not come, with a spinner or a button that stays off
\* (the flags that the handlers set before a request and reset after it).
NoSpinnerLeft ==
  /\ page = "scan" => Scan!NoSpinnerLeft
  /\ page = "cases" => CasesP!NoSpinnerLeft
  /\ page = "casesTab" => CasesT!NoSpinnerLeft
  /\ page = "products" => ProductsT!NoSpinnerLeft
  /\ page = "devices" => DevicesT!NoSpinnerLeft
  /\ page = "packages" => PackagesT!NoSpinnerLeft
  /\ page = "leds" => LEDs!NoSpinnerLeft
  /\ page = "device" => DeviceD!NoSpinnerLeft
  /\ page = "product" => ProductD!NoSpinnerLeft
  /\ page = "treeDialog" => TreeD!NoSpinnerLeft
  /\ page = "tree" => TreeT!NoSpinnerLeft

\* A message about an action is taken away again: by a timer that runs or by a
\* handler that will set one.
MessageGoesAway ==
  /\ page = "scan" => Scan!MessageGoesAway
  /\ page = "cases" => CasesP!MessageGoesAway
  /\ page = "casesTab" => CasesT!MessageGoesAway
  /\ page = "device" => DeviceD!MessageGoesAway
  /\ page = "tree" => TreeT!MessageGoesAway

\* What the bulk changes work on is in the list that the page has last loaded,
\* after every reload, filter and late answer; for devices it is also what the
\* view shows as selected.  (For products it is not: the tree shows no selection.)
SelectionIsListed ==
  /\ page = "products" => ProductsT!SelectionIsListed
  /\ page = "devices" => DevicesT!SelectionIsShown

\* What a form saves goes to the item whose values filled it.
FormSavesToItsItem ==
  /\ page = "cases" => CasesP!FormSavesToItsCase
  /\ page = "casesTab" => CasesT!FormSavesToItsCase
  /\ page = "devices" => DevicesT!FormSavesToItsDevice

\* The thumbnail is the picture that was chosen for it, whatever pictures come
\* and go around it.
ThumbnailIsChosen ==
  /\ page = "packages" => PackagesT!ThumbnailIsChosen
  /\ page = "product" => ProductD!ThumbnailIsChosen

\* A search in the tree shows all it finds.
EveryMatchIsShown ==
  /\ page = "treeDialog" => TreeD!EveryMatchIsShown
  /\ page = "tree" => TreeT!EveryMatchIsShown

\* An intake names what was scanned for it (ScanPage).
IntakeNamesItem == page = "scan" => Scan!IntakeNamesItem

\* A device goes out for a job (ScanPage).
DeviceOuttakeNamesJob == page = "scan" => Scan!DeviceOuttakeNamesJob

\* No reader stays on when its dialog is closed (ScanFieldModal).
ReaderFollowsDialog == page = "scanField" => Field!ReaderFollowsDialog

\* The devices in the details of a case are its own (CasesTab).
DetailsShowOneCase == page = "casesTab" => CasesT!DetailsShowOneCase

\* The mapping of the LEDs is what the texts beside its bins say (LEDSettingsTab).
TextIsMapping == page = "leds" => LEDs!TextIsMapping

\* The light of a bin goes out with the dialog that lit it (DeviceDetailModal).
LightGoesOut == page = "device" => DeviceD!LightGoesOut

\* No preview of an upload outlives it (ProductDetailModal).
TemporaryPicturesGo == page = "product" => ProductD!TemporaryPicturesGo
=============================================================================
