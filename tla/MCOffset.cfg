SPECIFICATION Spec
CONSTANTS
  MantissaBits = 1
  Size = 6
  MaxAllocs = 6
  Requests = {0, 1, 5}
  MaxLive = 3
INVARIANTS
  NodesAccounted
  Tiling
  ReportIsHonest
  SearchIsGoodFit
PROPERTIES
  ImplementsRegions
