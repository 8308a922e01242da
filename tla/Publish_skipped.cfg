SPECIFICATION Spec
CONSTANTS
  MaxRuns = 2
  Places = {p1}
  Lists = {l1}
  Words = {v1, v2}
  NoFile = NoFile
  Edited = Edited
  Null = Null
  MaxFaults = 0
  MaxEdits = 0
  MaxTargets = 1
SYMMETRY Symmetry
CHECK_DEADLOCK FALSE
PROPERTY SkippedMeansSame
