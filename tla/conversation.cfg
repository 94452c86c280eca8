SPECIFICATION Spec
CONSTANTS
  NL = "NL"
  Absent = Absent
  NoPath = NoPath
  NoNs = NoNs
  Sanitized <- MCSanitized
  Tools <- MCTools
  Deferred <- MCDeferred
  Modes = {"default"}
  Outputs <- MCOutputs
  ModelCalls <- MCModelCalls
  FirstDisk <- MCFirstDisk
  OutsideEdits <- MCOutsideEdits
  ProfileNames = {"deepseek", "openai"}
  MaxBatch = 2
  MaxCalls = 2
  MaxAsks = 2
INVARIANTS
  TypeOK
  ReplayedSame
  AnsweredByResult
  ReasoningKept
  UserSeen
PROPERTIES
  NamesKeepMeaning
  EditsTakeEffect
CHECK_DEADLOCK FALSE
