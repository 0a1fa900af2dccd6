CONSTANTS
  s1 = s1  s2 = s2  e1 = e1  z1 = z1  z2 = z2  nil = nil
  Scans = {s1, s2}
  Edits = {}
  Zones = {z1, z2}
  MaxQty = 1
  Initial <- TwoPlaces
  Opening = {2}
  Nil = nil
SPECIFICATION Spec
INVARIANT StockInSync
