CONSTANTS
  Requests = {r1, r2, r3}
  Owners = 2
  Interval = 2
  KeyCap = 2
  Buckets = 1
  MaxTime = 2
SPECIFICATION Spec
SYMMETRY Symmetry
INVARIANTS
  NothingSuppressedSilently
  EveryErrorIsTold
  CountersAgree
PROPERTIES
  OneLinePerInterval
