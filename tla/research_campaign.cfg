CONSTANTS
  Rows = {d1}
  Workers = {w1, w2}
  NoRow = NoRow
  MaxAttempts = 2
  MaxJobs = 1
  MaxFaults = 2
SPECIFICATION FairSpec
INVARIANTS TypeOK ExpandedOnce AtMostOncePerFault CancelStops
PROPERTY CampaignSettles
