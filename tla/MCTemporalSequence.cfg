SPECIFICATION Spec
CHECK_DEADLOCK FALSE
CONSTANTS
  MaxAllocations = 5
  LastTime = 3
  Sizes = {1, 2}
INVARIANTS
  OverlapApart
  FewestBuckets
PROPERTIES
  Terminates
