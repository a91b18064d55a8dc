CONSTANTS
  Requests = {h1, h2}
  MaxVersion = 3
  MaxRounds = 2
  MaxJobs = 1
  MaxUpsets = 1
SPECIFICATION FairSpec
INVARIANTS TypeOK HistoryKept RoundIsLocked
PROPERTY InFlightSettles
CHECK_DEADLOCK FALSE
