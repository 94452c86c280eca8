SPECIFICATION Spec
CONSTANTS
  NL = "NL"
  Absent = Absent
  NoPath = NoPath
  NoNs = NoNs
  Sanitized <- MCSanitized
  Tools <- MCTools
  Deferred <- MCDeferred
  Modes = {"default"}
  Outputs <- MCOutputs
  ModelCalls <- InsertCalls
  FirstDisk <- EmptyLineDisk
  OutsideEdits <- MCOutsideEdits
  ProfileNames = {"deepseek"}
  MaxBatch = 1
  MaxCalls = 2
  MaxAsks = 1
PROPERTIES
  InsertsAfterLine
CHECK_DEADLOCK FALSE
