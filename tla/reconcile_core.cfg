SPECIFICATION FairSpec
CONSTANTS
  t1 = t1
  t2 = t2
  u = u
  Tracked <- TrackedOne
  Listed <- ListedOne
  Order <- OrderOne
  Hooks = {h1}
  Worker = w
  Null = Null
  MaxChanges = 1
  MaxStarts = 1
  MaxFaults = 1
INVARIANT TypeOK RequestKept NothingMissed
PROPERTY SweptIsQueued OwedQueued
CHECK_DEADLOCK FALSE
