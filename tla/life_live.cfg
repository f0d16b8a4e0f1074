SPECIFICATION BusySpec
CONSTANTS
  Launchers = {l1}
  Pids = {p1, p2}
  Null = Null
  Mishaps = {"start", "stop", "upgrade", "stall", "empty", "blind"}
  MaxFaults = 1
PROPERTY StraysLeave QueuedIsDrained OneDaemonAtLast
CHECK_DEADLOCK FALSE
