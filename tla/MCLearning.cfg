SPECIFICATION Spec
CONSTANTS
  p1 = p1
  Processes = {p1}
  Earlier <- TwoSuccesses
  Arrivals <- MoreExperience
  Commands = {"rejected", "contradicted", "correct", "decay"}
  MinSupport = 2
  ClaimBudget = 1
  LearningBudget = 6
  MinNewEvents = 1
  MaxEvents = 5
  MaxPasses = 2
  MaxCommands = 1
  MaxCrashes = 1
INVARIANTS OrphansOnlyByCrash PassSettles ReplacedHasSuccessor
CHECK_DEADLOCK FALSE
