SPECIFICATION UnfairSpec
CONSTANTS
  None = None
  Parts = {"mirror", "bookmarks", "wayback", "links"}
  Failed = Failed
  Rows = {p1, p2, l1}
  LinkRows = {l1}
  Sessions = {s1}
  LinksEnabled = TRUE
  TicksPerSecond = 2
  MaxClock = 4
  MaxFaults = 1
  Urls = {u1}
  Runs = {r1, r2}
  PopupRuns = {r2}
  MaxFolders = 4
  MaxMarks = 4
  MaxEvents = 2
  JobIds = {j1, j2}
  Clicks = {k1, k2}
  Sweepers = {w1}
  Hour = 2
  MaxSaves = 2
  Inline = {}
  Objects = {1}
  Limit = 2
  Agents = {a1, a2}
  Requests = {r1}
  MaxEdits = 1
  Captures = {c1}
  JobAgents = {a1}
  MaxAttempts = 2
  MaxAIJobs = 3
  MaxClicks = 1
INVARIANTS MirrorInv BookmarksInv WaybackInv LinksInv
PROPERTY LaterSaveSticks
CHECK_DEADLOCK FALSE
