SPECIFICATION FairSpec
CONSTANTS
  Sites = {s1}
  Workers = {w1}
  Puts = {p1}
  Intervals = {3}
  MaxJitter <- MCMaxJitter
  Null = Null
  BatchLimit = 1
  MayMiss = TRUE
  MaxPuts = 2
  MaxTriggers = 1
  MaxFaults = 1
  MaxLate = 2
  MaxAge = 6
PROPERTY KeepsRunning
