CONSTANTS
  NProc = 3
  Lives = 2
  Fences = 3
  MaxPuts = 1
  Namers = {0}
  Scenarios <- MCScenarios
SPECIFICATION FairSpec
INVARIANTS
  WindowUsable
  FenceComplete
  NothingLeft
PROPERTY CallsReturn
