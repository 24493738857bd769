SPECIFICATION Spec
CONSTANTS
  WordBits = 2
  NumSizes = 3
  TotalUnits = 8
  SegSize <- Doubling
INVARIANTS
  Disjoint
  Coherent
  Coalesced
  OOMIsHonest
PROPERTIES
  LossOnlyAtTop
  ImplementsRegions
