SPECIFICATION SelectionSpec
CONSTANTS
  Traits <- MCTraits
  Priorities = {9}
  Lastmods = {0, 1}
  Undefined = Undefined
  OutOfRange = 0
  Limit = 2
  MaxCandidates = 2
CHECK_DEADLOCK FALSE
INVARIANT DiscoveryHarmless
