CONSTANTS
  Handlers = {h1, h2}
  Texts = {t1}
  Crops = {c1, c2}
  NoCrop = NoCrop
  MaxJobs = 2
  MaxFaults = 1
SPECIFICATION FairSpec
INVARIANTS TypeOK FiguresKeptAlone CommitOnce SingleRun
PROPERTIES CommittedKept ReviewNotLost ExtractingSettles
CHECK_DEADLOCK FALSE
