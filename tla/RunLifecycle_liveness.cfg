SPECIFICATION FairSpec
CONSTANTS
  Runs = {r1}
  Slots = {w1}
  NoJob = NoJob
  MaxAttempts = 2
  RetryDelays <- MCRetryDelays
  JobTimeout = 1
  CleanupTime = 0
  StuckAfter = 1
  OrphanAfter = 1
  ReapLimit = 1
  InProgressTTL = 1
  KeepResult = 1
  MaxFaults = 2
  ReleaseReplyLost = FALSE
INVARIANTS
  TypeOK
  PendingHasBudget
PROPERTIES
  ImplementsRecord
  EveryRunEnds
