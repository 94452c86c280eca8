SPECIFICATION FairFileSpec
CONSTANTS
  p1 = p1
  p2 = p2
  k1 = k1
  k2 = k2
  NoOne = NoOne
  Processes <- TwoProcesses
  Keys <- TwoKeys
  MaxUpdates = 3
  MaxCrashes = 1
INVARIANTS
  FileTypeOK
  MutualExclusion
PROPERTIES
  RecordsKept
  WriteEnds
CHECK_DEADLOCK FALSE
