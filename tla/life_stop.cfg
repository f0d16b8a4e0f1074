SPECIFICATION Spec
CONSTANTS
  Launchers = {l1, l2}
  Pids = {p1, p2}
  Null = Null
  Mishaps = {"stop"}
  MaxFaults = 1
SYMMETRY Symmetry
PROPERTY StopSparesReplacement
CHECK_DEADLOCK FALSE
