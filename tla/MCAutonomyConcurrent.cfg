SPECIFICATION Spec
CONSTANTS
  s1 = s1
  s2 = s2
  c1 = c1
  NoSession = NoSession
  Sessions <- TwoSessions
  Curiosities <- OneCuriosity
  Threshold = 2
  MaxActivities = 1
  InitialGoals = 0
  MaxGoals = 0
  MaxRuns = 2
  MaxCrashes = 0
  MaxCommands = 1
  UseSandbox = TRUE
  Concurrent = TRUE
SYMMETRY SessionSymmetry
INVARIANTS CountedActivitiesLived AnsweredByExperience
CHECK_DEADLOCK FALSE
