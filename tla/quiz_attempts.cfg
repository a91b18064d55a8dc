CONSTANTS
  Attempts = {a1, a2, a3}
  Requests = {r1, r2}
  NoAttempt = NoAttempt
  Cap = 2
  MaxScore = 1
SPECIFICATION Spec
SYMMETRY Symmetry
INVARIANTS TypeOK CapHolds ProgressAgrees KeyHeld
PROPERTIES GradedOnce NoStockpile
CHECK_DEADLOCK FALSE
