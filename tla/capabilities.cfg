SPECIFICATION Spec
CONSTANTS
  Models <- OneModel
  NativeModels <- NoNative
  Guessed <- OneGuess
  Slugs <- TwoSlugs
  SlotOf <- OneSlot
  Endpoints <- Sides
  Written <- Edited
  Faults <- Faulty
  Able <- Ways
  Upstreams <- Differing
  OldCaches <- LeftOver
  Chosen <- NoProfile
  Verifiers = {v1}
  MaxAge = 1
  MaxDay = 3
  MaxChanges = 1
  MaxCommands = 3
INVARIANTS
  TypeOK
  RecordTrue
  PlanTrue
  AdvertisedHonoured
CHECK_DEADLOCK FALSE
