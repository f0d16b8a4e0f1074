SPECIFICATION Spec
CONSTANTS
  Procs = {p1, p2, p3}
  Null = Null
  Mishaps = {"token"}
  Undeletable = FALSE
  MaxFaults = 1
INVARIANT MutualExclusion
CHECK_DEADLOCK FALSE
