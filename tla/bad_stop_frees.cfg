SPECIFICATION Spec
CONSTANTS
  Settings <- DefaultSettings
  MaxConns = 1
  MaxStarts = 1
INVARIANTS NoUseAfterFree
CHECK_DEADLOCK FALSE
