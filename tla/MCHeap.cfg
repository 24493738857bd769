SPECIFICATION Spec
CONSTANTS
  SL_SHIFT = 2
  Requests = {6, 9, 33}
  MaxSize = 53
INVARIANTS
  BoundaryTags
  FreeListsCoherent
  AllFreeAgain
PROPERTIES
  GrowsOnlyIfNeeded
  ImplementsRegions
