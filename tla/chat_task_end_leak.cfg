SPECIFICATION Spec
CONSTANTS
  ExplicitTaskEnd = TRUE
  CanonicalOrder = TRUE
  MaxInternalToolRounds = 1
  MaxTaskProtocolRetries = 1
  MaxCalls = 2
  Texts <- OneText
  CallKinds <- AllCallKinds
INVARIANTS
  TaskEndHidden
CHECK_DEADLOCK FALSE
