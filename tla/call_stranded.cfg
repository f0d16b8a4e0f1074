SPECIFICATION Spec
CONSTANTS
  Calls = {c1}
  Other = Other
  Null = Null
  NSlots = 2
  MaxFaults = 0
  MaxStarts = 0
INVARIANT NoneStranded
CHECK_DEADLOCK FALSE
