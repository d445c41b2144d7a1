SPECIFICATION Spec
CONSTANTS
  p1 = p1
  p2 = p2
  Processes = {p1, p2}
  Tools = {"echo", "edit"}
  Risk <- ToolRisk
  NoTool = "none"
  Requests <- WhatIsAsked
  Window = 2
  MaxSteps = 2
  MaxGoals = 1
  Pasts <- APast
  Kinds = {"task", "outcome", "affect", "interests", "close", "tool", "dispatch", "turn"}
  MaxCalls = 2
  MaxTurns = 2
  MaxCrashes = 1
SYMMETRY ProcessSymmetry
INVARIANTS StateKeepsUp ClosedAgainOnlyUnseen RunsOnApproval EffectsAudited
CHECK_DEADLOCK FALSE
