SPECIFICATION Spec
CONSTANTS
  u1 = u1
  u2 = u2
  i1 = i1
  i2 = i2
  p1 = p1
  a1 = a1
  a2 = a2
  None = None
  Uploads = {u1, u2}
  Ids = {i1, i2}
  IdOf <- OwnIds
  Pages = {p1}
  PageOf <- SamePage
  Agents = {a1, a2}
  BatchLimit = 2
  MaxDirs = 3
  MaxFaults = 1
SYMMETRY OwnIdsSymmetry
INVARIANTS TypeOK HandOffInv CaptureNeverLost ArchivedAtMostOnce NoBlobLeak JobsEnqueuedOnce
CHECK_DEADLOCK FALSE
