CONSTANTS
  N = 3
  Slots = 2
SPECIFICATION FairSpec
INVARIANTS
  EveryOwnerGranted
