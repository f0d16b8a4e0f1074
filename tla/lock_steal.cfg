SPECIFICATION Spec
CONSTANTS
  Procs = {p1, p2, p3, p4}
  Null = Null
  Mishaps = {"steal"}
  Undeletable = FALSE
  MaxFaults = 2
SYMMETRY Symmetry
INVARIANT OneStealer
CHECK_DEADLOCK FALSE
