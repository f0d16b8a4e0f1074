SPECIFICATION FairSpec
CONSTANTS
  t1 = t1
  t2 = t2
  u = u
  Tracked <- TrackedTwo
  Listed <- ListedTwo
  Order <- OrderTwo
  Hooks = {h1}
  Worker = w
  Null = Null
  MaxChanges = 1
  MaxStarts = 0
  MaxFaults = 1
INVARIANT TypeOK RequestKept NothingMissed
PROPERTY SweptIsQueued OwedQueued
CHECK_DEADLOCK FALSE
