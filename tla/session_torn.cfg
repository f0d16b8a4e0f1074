SPECIFICATION Spec
CONSTANTS
  Hooks = {h1, h2}
  Null = Null
  Spans = {s1}
  Entries = {e1}
  Sessions = {{"compact"}}
  Torn = TRUE
  MaxReads = 2
  MaxCompactions = 2
  MaxChanges = 1
  MaxFaults = 0
SYMMETRY Symmetry
INVARIANT KnowsCompaction
CHECK_DEADLOCK FALSE
