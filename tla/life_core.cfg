SPECIFICATION Spec
CONSTANTS
  Launchers = {l1, l2}
  Pids = {p1, p2}
  Null = Null
  Mishaps = {"start", "stop"}
  MaxFaults = 2
SYMMETRY Symmetry
INVARIANT TypeOK
PROPERTY StrangersSpared
CHECK_DEADLOCK FALSE
