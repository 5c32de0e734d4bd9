CONSTANTS
  N = 3
  Slots = 2
SPECIFICATION FairSpec
INVARIANTS
  TypeOK
  AllowIsUnanimous
  RefusalIsFinal
  FailClosedHolds
  OutcomeIsExplained
PROPERTIES
  Termination
  ImplementsGate
