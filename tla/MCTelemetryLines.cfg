SPECIFICATION Spec
CONSTANTS
  failed = failed
  login = login
  Fragment = Fragment
  p1 = p1
  Lines = {failed, login}
  Stamped = {failed, login}
  Scalar = {}
  Malformed = {}
  Significant = {failed, login}
  Important = {failed, login}
  Processes = {p1}
  Retention = 3
  Window = 2
  Told = 1
  MaxBytes = 4
  MaxRuns = 1
  MaxCrashes = 0
  MaxRotations = 0
INVARIANT EachLineIsAnEvent
CHECK_DEADLOCK FALSE
