CONSTANTS
  Rows = {d1}
  Reviews = {h1}
  Workers = {w1}
  NoRow = NoRow
  MaxAttempts = 2
  MaxJobs = 1
  MaxFaults = 2
SPECIFICATION FairSpec
INVARIANTS TypeOK MailedOncePerFault MirrorHonest
PROPERTY RowsSettle
