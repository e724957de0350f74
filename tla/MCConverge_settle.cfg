SPECIFICATION ConvergeSpec
CONSTANTS
  None = None
  Parts = {"mirror", "bookmarks", "wayback", "links", "jobs"}
  Failed = Failed
  Rows = {p1, p2, l1}
  LinkRows = {l1}
  Sessions = {s1}
  LinksEnabled = TRUE
  TicksPerSecond = 2
  MaxClock = 3
  MaxFaults = 1
  Urls = {u1}
  Runs = {r1, r2}
  PopupRuns = {r2}
  MaxFolders = 4
  MaxMarks = 4
  MaxEvents = 1
  JobIds = {j1}
  Clicks = {k1, k2}
  Sweepers = {w1}
  Hour = 2
  MaxSaves = 2
  Inline = {}
  Objects = {1}
  Limit = 2
  Agents = {a1, a2}
  Requests = {r1}
  MaxEdits = 0
  Captures = {c1}
  JobAgents = {a1}
  MaxAttempts = 2
  MaxAIJobs = 2
  MaxClicks = 1
PROPERTIES Converges FolderConverges Settles EverySaveFetched JobsSettle
CHECK_DEADLOCK FALSE
