CONSTANTS
  Attempts = {a1, a2}
  Requests = {r1, r2}
  NoAttempt = NoAttempt
  Cap = 1
  MaxScore = 1
SPECIFICATION Spec
PROPERTY ResultDurable
CHECK_DEADLOCK FALSE
