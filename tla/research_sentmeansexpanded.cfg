CONSTANTS
  Rows = {d1}
  Workers = {w1}
  NoRow = NoRow
  MaxAttempts = 2
  MaxJobs = 1
  MaxFaults = 1
SPECIFICATION Spec
INVARIANTS SentMeansExpanded
