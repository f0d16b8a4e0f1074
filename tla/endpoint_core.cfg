SPECIFICATION EndpointFairSpec
CONSTANTS
  Procs = {p1, p2, p3}
  Prompt = {p1, p2}
  MaxFiles = 4
  MaxKeys = 2
  MaxMishaps = 2
INVARIANT EndpointInv
PROPERTY LeavesOthersAlone OrphanExits
CHECK_DEADLOCK FALSE
