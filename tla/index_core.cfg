SPECIFICATION FairSpec
CONSTANTS
  Files = {f1}
  Tracked = {f1}
  Sweepers = {s1}
  Indexers = {p1}
  Contents = {a, b}
  Null = Null
  Tick = 2
  MaxClock = 3
  MaxEdits = 1
  MaxFaults = 1
INVARIANT TypeOK ProofsHold
PROPERTY DriftSettles
CHECK_DEADLOCK FALSE
