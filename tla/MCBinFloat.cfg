SPECIFICATION Spec
CHECK_DEADLOCK FALSE
CONSTANTS
  MantissaBits = 3
  LastBin = 230
INVARIANTS
  RoundingIsTight
  ImplementationsAgree
  ListsServe
