SPECIFICATION Spec
CONSTANTS
  p1 = p1
  p2 = p2
  Processes = {p1, p2}
  Earlier <- TwoSuccesses
  Arrivals <- MoreAndCorrection
  Commands = {"correct"}
  MinSupport = 2
  ClaimBudget = 1
  LearningBudget = 5
  MinNewEvents = 1
  MaxEvents = 3
  MaxPasses = 2
  MaxCommands = 1
  MaxCrashes = 0
SYMMETRY ProcessSymmetry
INVARIANTS CountedOnce MiningComplete PromotedOnEvidence
CHECK_DEADLOCK FALSE
