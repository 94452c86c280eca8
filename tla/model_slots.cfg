SPECIFICATION Spec
CONSTANTS
  Providers <- TwoProviders
  ModelIDs <- ThreeIDs
  Slots <- ThreeSlots
  Preferred <- PreferredSlots
  HandWritten <- OneHandWritten
  MaxStarts = 3
INVARIANTS
  TypeOK
  SlotsStable
CHECK_DEADLOCK FALSE
