CONSTANTS
  p1 = p1  k1 = k1  k2 = k2  d1 = d1  d2 = d2
  a1 = a1  a2 = a2  x1 = x1  x2 = x2
  MaxCalls = 2
  Products = {p1}
  Cases = {k1, k2}
  Devices = {d1, d2}
  Packages = {a1, a2}
  Pictures = {x1, x2}
  ScannedDevices = {"device"}
  Consumables = {"consumable"}
  Zones = {"zone"}
  Jobs = {"job"}
  ScannedCases = {"case"}
  Cameras = {"camera"}
  Readers = {"camera", "nfc"}
  MaxStreams = 2
  PixelLists = {"empty", "one"}
  NoPixels = "empty"
  ZoneTypes = {"shelf", "rack"}
  Targets = {"bin"}
  MaxShelves = 2
  MaxBins = 2
  Places <- OneBranch
SPECIFICATION Spec
INVARIANTS
  TypeOK NoSpinnerLeft MessageGoesAway SelectionIsListed FormSavesToItsItem
  ThumbnailIsChosen EveryMatchIsShown IntakeNamesItem DeviceOuttakeNamesJob
  ReaderFollowsDialog DetailsShowOneCase TextIsMapping LightGoesOut
  TemporaryPicturesGo
SYMMETRY Alike
VIEW Live
