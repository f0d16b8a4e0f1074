SPECIFICATION FairSpec
CONSTANTS
  Files = {f1}
  Cli = Cli
  Null = Null
  Contents = {a, b}
  Skipped = {b}
  Limit = 1
  Batch = 1
  Mishaps = {"brief"}
  Walked = {f1}
  Steady = {}
  MaxEvents = 2
PROPERTY EmbedsSettle
CHECK_DEADLOCK FALSE
