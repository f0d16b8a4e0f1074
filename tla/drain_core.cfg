SPECIFICATION Spec
CONSTANTS
  Files = {f1, f2}
  Hooks = {h1}
  Daemons = {d1}
  Inodes = {i1, i2, i3, i4, i5, i6}
  Alts = {a1, a2, a3}
  Blocked = {f2}
  Stuck = {}
  Null = Null
  MaxEdits = 2
  MaxRetries = 1
  AppendAttempts = 2
  MaxFaults = 2
VIEW View
INVARIANT TypeOK IInv
PROPERTY NoSilentLoss
CHECK_DEADLOCK FALSE
