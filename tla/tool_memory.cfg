SPECIFICATION Spec
CONSTANTS
  s1 = s1
  s2 = s2
  c1 = c1
  c2 = c2
  x = x
  y = y
  Sessions <- TwoSessions
  Calls <- TwoCalls
  Signatures <- TwoSignatures
  SignatureOf <- Signed
  ObservedAs <- Signed
  Executed = y
  Proxies <- FirstCall
  CanReturnLocalText = FALSE
  MaxEntries = 2
  MaxSessions = 1
  MaxRequests = 4
SYMMETRY Alike
INVARIANTS
  TypeOK
  ObservedOnce
  FailuresCurrent
  LogicalCallsShown
CHECK_DEADLOCK FALSE
