SPECIFICATION Spec
CONSTANTS
  Launchers = {l1, l2}
  Pids = {p1, p2}
  Null = Null
  Mishaps = {}
  MaxFaults = 1
SYMMETRY Symmetry
PROPERTY NoClobber
CHECK_DEADLOCK FALSE
