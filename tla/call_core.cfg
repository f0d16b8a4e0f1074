SPECIFICATION FairSpec
CONSTANTS
  Calls = {c1}
  Other = Other
  Null = Null
  NSlots = 2
  MaxFaults = 2
  MaxStarts = 1
INVARIANT TypeOK RunsOnce AnswerNotCutShort
PROPERTY CallEnds Retires ImplementsHookRun
CHECK_DEADLOCK FALSE
