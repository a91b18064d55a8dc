CONSTANTS
  Handlers = {h1, h2}
  Texts = {t1}
  Crops = {c1, c2}
  NoCrop = NoCrop
  MaxJobs = 2
  MaxFaults = 0
SPECIFICATION Spec
INVARIANT FiguresKept
CHECK_DEADLOCK FALSE
