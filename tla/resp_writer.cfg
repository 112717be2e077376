SPECIFICATION Spec
CONSTANTS
  Lengths = {0, 1, 3}
  Sizes = {0, 1, 2}
  ContentFirst = TRUE
  MaxCalls = 5
INVARIANTS TypeOK OneHeaderEach WithinLength FramedAsAnnounced HeaderBinds
CHECK_DEADLOCK FALSE
