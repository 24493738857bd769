SPECIFICATION MCSpec
CONSTANTS
  ArenaSize = 7
  Sizes = {1, 2}
  Alignments = {1, 2}
  MaxFailed = 2
  MaxScopes = 3
  LinearArena = 11
  SizeOfAllocator = 3
  LinearSizes = {0, 1, 2}
  LinearAlignments = {1, 2, 4}
  m_buffer_end = 17
  ForwardSizes = {1, 2, 4}
  ForwardAlignments = {1, 2, 4}
  AvoidExactFit = TRUE
  AvoidWrap = TRUE
  MaxActiveFrames = 2
  FrameArena = 3
  FrameSizes = {1, 2}
  MaxCount = 1
INVARIANTS
  
  
  EmptyAgain
  LanesAccounted
  BlocksKept
PROPERTIES
  ImplementsRegions
  LinearAndForwardImplementRegions
  FailsOnlyIfHeld
  FrameImplementsRegions
