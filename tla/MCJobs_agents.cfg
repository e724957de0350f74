SPECIFICATION BoundedSpec
CONSTANTS
  a1 = a1
  a2 = a2
  None = None
  Captures = {c1}
  Agents = {a1, a2}
  MaxAttempts = 2
  MaxAIJobs = 3
  MaxClicks = 1
  MaxFaults = 1
SYMMETRY Symmetry
INVARIANT AgentsInv
PROPERTIES FailedIsFinal
CHECK_DEADLOCK FALSE
