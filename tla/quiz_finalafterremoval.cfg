CONSTANTS
  Attempts = {a1, a2}
  Requests = {r1}
  NoAttempt = NoAttempt
  Cap = 2
  MaxScore = 1
SPECIFICATION Spec
PROPERTY FinalAfterRemoval
CHECK_DEADLOCK FALSE
