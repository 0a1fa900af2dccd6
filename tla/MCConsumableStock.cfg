CONSTANTS
  s1 = s1  s2 = s2  e1 = e1  z1 = z1  z2 = z2  nil = nil
  Scans = {s1, s2}
  Edits = {e1}
  Zones = {z1, z2}
  MaxQty = 1
  Initial <- Places
  Opening = {3}
  Nil = nil
SPECIFICATION FairSpec
INVARIANTS TypeOK NoMovementLost SyncInOnePlace
PROPERTY RequestsEnd
