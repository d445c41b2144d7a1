SPECIFICATION Spec
CONSTANTS
  failed = failed
  login = login
  number = number
  broken = broken
  Fragment = Fragment
  p1 = p1
  p2 = p2
  Lines = {failed, login, number, broken}
  Stamped = {failed}
  Scalar = {number}
  Malformed = {broken}
  Significant = {failed, login}
  Important = {failed, login}
  Processes = {p1, p2}
  Retention = 3
  Window = 2
  Told = 1
  MaxBytes = 6
  MaxRuns = 2
  MaxCrashes = 1
  MaxRotations = 1
SYMMETRY ProcessSymmetry
INVARIANTS RecordedOnce SeenIsRecorded PromotionComplete
CHECK_DEADLOCK FALSE
