SPECIFICATION Spec
CONSTANTS
  Files = {f1}
  Tracked = {f1}
  Sweepers = {}
  Indexers = {p1}
  Contents = {a, b}
  Null = Null
  Tick = 2
  MaxClock = 4
  MaxEdits = 1
  MaxFaults = 0
INVARIANT EveryProofHolds
CHECK_DEADLOCK FALSE
