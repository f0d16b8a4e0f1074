SPECIFICATION FairSpec
CONSTANTS
  Files = {f1, f2}
  Cli = Cli
  Null = Null
  Contents = {a, b}
  Skipped = {b}
  Limit = 1
  Batch = 1
  Mishaps = {}
  Walked = {f1, f2}
  Steady = {f2}
  MaxEvents = 2
INVARIANT TypeOK SlotsKept StampTrue
PROPERTY EmbedsSettle
CHECK_DEADLOCK FALSE
