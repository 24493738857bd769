SPECIFICATION Spec
CONSTANTS
  WordBits = 2
  NumSizes = 2
  TotalUnits = 4
  SegSize <- Doubling
INVARIANTS
  AllFreeAgain
