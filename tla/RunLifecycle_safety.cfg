SPECIFICATION Spec
CONSTANTS
  Runs = {r1}
  Slots = {w1, w2}
  NoJob = NoJob
  MaxAttempts = 2
  RetryDelays <- MCRetryDelays
  JobTimeout = 0
  CleanupTime = 1
  StuckAfter = 1
  OrphanAfter = 1
  ReapLimit = 1
  InProgressTTL = 1
  KeepResult = 1
  MaxFaults = 1
  ReleaseReplyLost = FALSE
SYMMETRY Symmetry
INVARIANTS
  ClaimExclusive
  ClaimHonoured
  PayloadMatchesRow
