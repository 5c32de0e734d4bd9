CONSTANTS
  Keys = {r1, r2, r3, r4}
  MaxRequestContexts = 3
  Batch = 2
  TTL = 1
  MaxTime = 3
SPECIFICATION FairSpec
INVARIANTS
  TypeOK
  SizeBounded
  EveryEntryAccounted
PROPERTIES
  ResponseMatchesAge
  OverflowTakesOldest
  LeakIsReclaimed
