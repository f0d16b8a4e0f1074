SPECIFICATION Spec
CONSTANTS
  Hooks = {h1, h2}
  Null = Null
  Spans = {s1, s2}
  Entries = {e1}
  Sessions = {{"range"}}
  Torn = TRUE
  MaxReads = 2
  MaxCompactions = 0
  MaxChanges = 1
  MaxFaults = 0
SYMMETRY Symmetry
INVARIANT RangesVouched
CHECK_DEADLOCK FALSE
