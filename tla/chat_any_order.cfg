SPECIFICATION FairSpec
CONSTANTS
  ExplicitTaskEnd = TRUE
  CanonicalOrder = FALSE
  MaxInternalToolRounds = 1
  MaxTaskProtocolRetries = 1
  MaxCalls = 1
  Texts <- TwoTexts
  CallKinds <- MixedKinds
INVARIANTS
  StreamMatchesOutput
  NarrativeKept
  ItemIdsUnique
PROPERTIES
  TurnEnds
CHECK_DEADLOCK FALSE
