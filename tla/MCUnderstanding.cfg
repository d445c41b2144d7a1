SPECIFICATION Spec
CONSTANTS
  works = works
  likes = likes
  moved = moved
  asks = asks
  load = load
  p1 = p1
  Processes = {p1}
  Statements = {works, likes, moved, asks, load}
  Form <- WhatIsSaid
  Overlap <- InCommon
  Commands = {"uncertain", "outdated", "infer"}
  Window = 1
  MaxEvents = 4
  MaxPasses = 3
  MaxCommands = 1
  MaxCrashes = 1
INVARIANTS ConfidenceEarned FinishedPassCovers BothSidesKept DerivedOnce
CHECK_DEADLOCK FALSE
