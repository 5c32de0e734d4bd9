SPECIFICATION Spec
CONSTANTS
  Checks = {c1, c2, c3}
  TTL = 1
  CallTimeout = 1
  MaxRegistrations = 2
  MaxTime = 3
SYMMETRY Symmetry
INVARIANTS AllowIsCurrent
PROPERTIES StaleIdentifierRunsOut
