SPECIFICATION Spec
CONSTANTS
  Files = {f1}
  Hooks = {h1}
  Daemons = {d1, d2}
  Inodes = {i1, i2, i3, i4}
  Alts = {a1, a2}
  Blocked = {}
  Stuck = {}
  Null = Null
  MaxEdits = 1
  MaxRetries = 1
  AppendAttempts = 3
  MaxFaults = 0
VIEW View
PROPERTY NeverDeletedUnindexed
CHECK_DEADLOCK FALSE
