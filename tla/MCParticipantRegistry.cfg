SPECIFICATION Spec
CONSTANTS
  Callers = {c1, c2, c3}
  Authorities = {a1, a2}
  StaticAuthorities = {a2}
  DIDs = {d1}
  URLs = {u1}
  Unknown = Unknown
  TTL = 2
  NegativeTTL = 1
  CallTimeout = 1
  MaxPast = 2
  MaxTime = 3
SYMMETRY Symmetry
INVARIANTS TypeOK CacheRestsOnAnswers
PROPERTIES ImplementsOracle
