SPECIFICATION Spec
CONSTANTS
  Hooks = {h1, h2}
  Null = Null
  Spans = {s1}
  Entries = {e1}
  Sessions = {{"read", "range", "edit", "compact"}, {"read", "ask", "take", "compact"}}
  Torn = TRUE
  MaxReads = 2
  MaxCompactions = 1
  MaxChanges = 1
  MaxFaults = 1
SYMMETRY Symmetry
INVARIANT TypeOK CountedOnce PendingExact RangesInEpoch KnowsCompaction
CHECK_DEADLOCK FALSE
