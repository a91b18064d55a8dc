CONSTANTS
  Rows = {d1}
  Workers = {w1, w2}
  NoRow = NoRow
  MaxAttempts = 2
  SlowSends = FALSE
  MaxJobs = 1
  MaxFaults = 1
SPECIFICATION FairSpec
INVARIANTS TypeOK SoleSender AtMostOncePerFault AttemptsBounded
PROPERTIES RowsSettle KeepsPromise
