SPECIFICATION Spec
CONSTANTS
  Launchers = {l1}
  Pids = {p1, p2}
  Null = Null
  Mishaps = {"stop"}
  MaxFaults = 2
PROPERTY ExitSparesOwner
CHECK_DEADLOCK FALSE
