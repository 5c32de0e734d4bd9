SPECIFICATION FairSpec
CONSTANTS
  Keys = {k1, k2}
  Requests = {r1, r2}
  Owners = 2
  QueueSize = 2
  BatchSize = 2
INVARIANTS TypeOK EveryRecordAccounted FlushedAtExit
PROPERTIES ShutdownCompletes WaitingIsTemporary
