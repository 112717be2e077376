SPECIFICATION Spec
CONSTANTS
  Lengths = {2}
  Sizes = {9, 10}
  ContentFirst = TRUE
  MaxCalls = 3
INVARIANTS ChunkSizeReadable
CHECK_DEADLOCK FALSE
