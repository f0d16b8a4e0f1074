SPECIFICATION Spec
CONSTANTS
  Procs = {p1, p2, p3, p4}
  Null = Null
  Mishaps = {}
  Undeletable = FALSE
  MaxFaults = 2
SYMMETRY Symmetry
INVARIANT IInv MutualExclusion
PROPERTY ImplementsMutex
CHECK_DEADLOCK FALSE
