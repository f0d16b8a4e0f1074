SPECIFICATION Spec
CONSTANTS
  Launchers = {l1}
  Pids = {p1}
  Null = Null
  Mishaps = {}
  MaxFaults = 1
INVARIANT NextEnqueueStarts
CHECK_DEADLOCK FALSE
