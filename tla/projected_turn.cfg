SPECIFICATION FairSpec
CONSTANTS
  MaxInternalToolRounds = 1
  MaxTaskProtocolRetries = 1
  MaxItems = 2
  MaxOmissions = 1
  Texts <- TwoTexts
  ValidTexts <- OnlyA
INVARIANTS
  TypeOK
  StreamMatchesOutput
  StructuredGuarded
  InternalCallsHidden
PROPERTIES
  KeepsContract
  NarrativeHidden
  TurnEnds
CHECK_DEADLOCK FALSE
