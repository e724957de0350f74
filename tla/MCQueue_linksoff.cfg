SPECIFICATION FairSpec
CONSTANTS
  d1 = d1
  d2 = d2
  r1 = r1
  r2 = r2
  s1 = s1
  s2 = s2
  None = None
  Items = {q1, q2}
  Devices = {d2}
  Saves = {s1, s2}
  LinkSaves = {s2}
  KeepsId = {}
  Slots = {r1}
  Revocable = {d2}
  LinksMayGo = TRUE
PROPERTY SweepsIndependent
CHECK_DEADLOCK FALSE
