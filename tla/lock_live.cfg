SPECIFICATION FairSpec
CONSTANTS
  Procs = {p1, p2, p3}
  Null = Null
  Mishaps = {"token", "steal"}
  Undeletable = FALSE
  MaxFaults = 2
PROPERTY OrphanCleared
CHECK_DEADLOCK FALSE
