SPECIFICATION Spec
CONSTANTS
  MaxRuns = 2
  Places = {p1}
  Lists = {l1}
  Words = {v1, v2}
  NoFile = NoFile
  Edited = Edited
  Null = Null
  MaxFaults = 1
  MaxEdits = 1
  MaxTargets = 2
SYMMETRY Symmetry
CHECK_DEADLOCK FALSE
INVARIANT TypeOK
INVARIANT OnePullRequest
INVARIANT SucceededIsThere
PROPERTY NoLostEdit
