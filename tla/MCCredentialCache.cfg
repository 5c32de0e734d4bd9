SPECIFICATION FairSpec
CONSTANTS
  Callers = {c1, c2}
  Lifetimes = {0, 3}
  TokenTTLs = {2, 4}
  Skew = 2
  CallTimeout = 1
  MaxTokens = 2
  MaxTime = 4
INVARIANTS RejectedOnlyAfterRefresh LoginsAreEarned
PROPERTIES HandedOutAlive EveryCallerAnswered
