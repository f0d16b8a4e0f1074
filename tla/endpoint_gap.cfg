SPECIFICATION EndpointFairSpec
CONSTANTS
  Procs = {p1, p2}
  Prompt = {}
  MaxFiles = 4
  MaxKeys = 2
  MaxMishaps = 2

PROPERTY AllOrphansExit
CHECK_DEADLOCK FALSE
