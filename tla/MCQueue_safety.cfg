SPECIFICATION Spec
CONSTANTS
  d1 = d1
  d2 = d2
  r1 = r1
  r2 = r2
  s1 = s1
  s2 = s2
  None = None
  Items = {q1}
  Devices = {d1, d2}
  Saves = {s1, s2}
  LinkSaves = {}
  KeepsId = {d1}
  Slots = {r1, r2}
  Revocable = {}
  LinksMayGo = FALSE
SYMMETRY Symmetry
INVARIANTS QueueInv ItemMatchesSave SavedMeansRecorded RetryIsAsked
CHECK_DEADLOCK FALSE
