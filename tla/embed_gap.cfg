SPECIFICATION Spec
CONSTANTS
  Files = {f1}
  Cli = Cli
  Null = Null
  Contents = {a, b}
  Skipped = {b}
  Limit = 1
  Batch = 1
  Mishaps = {"gap"}
  Walked = {f1}
  Steady = {}
  MaxEvents = 2
INVARIANT StampTrue
CHECK_DEADLOCK FALSE
