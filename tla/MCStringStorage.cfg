SPECIFICATION Spec
CHECK_DEADLOCK FALSE
CONSTANTS
  Bytes = {a, b}
  MaxLength = 3
  Room = 5
  m_max = 6
INVARIANTS
  StringsKept
