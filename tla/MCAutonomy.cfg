SPECIFICATION FairSpec
CONSTANTS
  s1 = s1
  s2 = s2
  c1 = c1
  NoSession = NoSession
  Sessions <- OneSession
  Curiosities <- OneCuriosity
  Threshold = 2
  MaxActivities = 2
  InitialGoals = 0
  MaxGoals = 1
  MaxRuns = 2
  MaxCrashes = 1
  MaxCommands = 2
  UseSandbox = FALSE
  Concurrent = FALSE
INVARIANTS NoUnaccountedActivity IdenticalAttemptsBounded BlockedGoalEvolves
PROPERTIES PausedUntilResumed RunEnds
CHECK_DEADLOCK FALSE
