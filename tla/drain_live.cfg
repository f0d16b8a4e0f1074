SPECIFICATION FairSpec
CONSTANTS
  Files = {f1, f2}
  Hooks = {h1}
  Daemons = {d1}
  Inodes = {i1, i2, i3, i4, i5, i6}
  Alts = {a1, a2, a3}
  Blocked = {}
  Stuck = {f2}
  Null = Null
  MaxEdits = 1
  MaxRetries = 1
  AppendAttempts = 1
  MaxFaults = 2
PROPERTY OwedIsSettled QueueEmpties
CHECK_DEADLOCK FALSE
