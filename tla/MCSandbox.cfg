SPECIFICATION Spec
CONSTANTS
  MaxExperiments = 2
  MaxOperations = 2
  MaxFaults = 2
  MaxCancels = 1
  MaxCrashes = 1
INVARIANTS HonestSuccess LeftoverPerFailure CancelHeeded AuditAhead
PROPERTY LogSpec
CHECK_DEADLOCK FALSE
