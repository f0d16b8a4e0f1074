SPECIFICATION Spec
CONSTANTS
  Launchers = {l1}
  Pids = {p1}
  Null = Null
  Mishaps = {"stop", "blind"}
  MaxFaults = 4
PROPERTY StrangersSpared
CHECK_DEADLOCK FALSE
