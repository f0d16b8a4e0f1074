SPECIFICATION Spec
CONSTANTS
  Hooks = {h1, h2}
  Null = Null
  Spans = {s1}
  Entries = {e1}
  Sessions = {{"read", "compact"}}
  Torn = FALSE
  MaxReads = 4
  MaxCompactions = 1
  MaxChanges = 1
  MaxFaults = 0
SYMMETRY Symmetry
INVARIANT EpochCountsReal
CHECK_DEADLOCK FALSE
