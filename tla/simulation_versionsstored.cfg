CONSTANTS
  Requests = {h1, h2}
  MaxVersion = 3
  MaxRounds = 2
  MaxJobs = 1
  MaxUpsets = 0
SPECIFICATION Spec
INVARIANT VersionsStored
CHECK_DEADLOCK FALSE
