SPECIFICATION FairSpec
CONSTANTS
  MaxAttempts = 2
  QueueSize = 2
  MaxLines = 5
INVARIANTS
  TruncationReported
  ConcludedOnce
PROPERTIES
  GoroutinesEnd
CHECK_DEADLOCK FALSE
