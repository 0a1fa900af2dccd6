CONSTANTS
  s1 = s1  s2 = s2  z1 = z1  j1 = j1  j2 = j2  d1 = d1  e1 = e1  nil = nil
  Scans = {s1}
  Edits = {e1}
  Devices = {d1}
  Jobs = {j1, j2}
  Zones = {z1}
  Statuses = {"in_storage", "on_job"}
  Requests <- AllRequests
  MaxConns = 4
  Nil = nil
SPECIFICATION Spec
PROPERTY IntakeStores
