SPECIFICATION Spec
CONSTANTS
  Sites = {s1}
  Workers = {w1, w2}
  Puts = {p1, p2}
  Intervals = {2, 3}
  MaxJitter <- MCMaxJitter
  Null = Null
  BatchLimit = 1
  MayMiss = TRUE
  MaxPuts = 2
  MaxTriggers = 0
  MaxFaults = 0
  MaxLate = 2
  MaxAge = 4
SYMMETRY Symmetry
INVARIANT TypeOK
INVARIANT ActiveHasInstant
INVARIANT OneScheduledRun
INVARIANT NoCatchUpBurst
INVARIANT NeverPostponed
