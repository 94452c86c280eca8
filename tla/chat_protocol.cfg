SPECIFICATION Spec
CONSTANTS
  ExplicitTaskEnd = TRUE
  CanonicalOrder = TRUE
  MaxInternalToolRounds = 1
  MaxTaskProtocolRetries = 1
  MaxCalls = 2
  Texts <- TwoTexts
  CallKinds <- AllCallKinds
INVARIANTS
  TypeOK
  PlainTextNeverCompletes
  AnnouncedWhereFinished
  ResultShownOnce
PROPERTIES
  KeepsContract
CHECK_DEADLOCK FALSE
