SPECIFICATION FileSpec
CONSTANTS
  p1 = p1
  p2 = p2
  k1 = k1
  k2 = k2
  NoOne = NoOne
  Processes <- TwoProcesses
  Keys <- TwoKeys
  MaxUpdates = 3
  MaxCrashes = 0
PROPERTIES
  NoOldSnapshot
CHECK_DEADLOCK FALSE
