SPECIFICATION Spec
CONSTANTS
  SegmentSize = 4
  NumSegments = 3
  MinSegments = 2
  PageSize = 2
  MaxRequest = 2
  Alignments = {1, 2}
  CounterMax = 7
  U32 = 16
INVARIANTS
  CountersMatch
  FitsSegment
  LiveIsCommitted
PROPERTIES
  OOMIsHonest
  ImplementsRegions
