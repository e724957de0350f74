SPECIFICATION ServerSpec
CONSTANTS
  None = None
  Users = {u1, u2}
  Ops = {o1, o2}
  MaxTokens = 2
  MaxStarts = 2
  MaxFaults = 1
  MaxResyncs = 1
  Requests = {r1, r2}
  MaxCreds = 2
  MaxResets = 1
  Dirs = {c1, c2}
  Grace = 1
  MinFiles = 3
  MaxClock = 1
  MaxRenders = 1
  Hosts = {"site", "shop", "wrap", "jump"}
  Urls <- MCUrls
  Providers <- MCProviders
  Params <- MCParams
INVARIANTS SetupInv PairingMirrored SessionsInv GcInv SweepExact NothingLeft StableKey
CHECK_DEADLOCK FALSE
