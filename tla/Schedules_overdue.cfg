SPECIFICATION SetUpSpec
CONSTANTS
  Sites = {s1, s2, s3}
  Workers = {w1, w2}
  Puts = {}
  Intervals = {3}
  MaxJitter <- MCMaxJitter
  Null = Null
  BatchLimit = 1
  MayMiss = FALSE
  MaxPuts = 3
  MaxTriggers = 1
  MaxFaults = 0
  MaxLate = 6
  MaxAge = 1
SYMMETRY Symmetry
INVARIANT OverdueServed
