CONSTANTS
  Tabs = {t1, t2}
  MaxRows = 2
  MaxRevision = 2
  MaxJobs = 1
  MaxFaults = 1
SPECIFICATION FairSpec
INVARIANTS TypeOK ReadyIsCurrent FileIsSource
PROPERTIES EditOutlives ExtractionSettles
CHECK_DEADLOCK FALSE
