SPECIFICATION Spec
CONSTANTS
  a = a
  b = b
  p1 = p1
  p2 = p2
  Processes = {p1, p2}
  Candidates = {a, b}
  Overlap <- TwoFit
  Described = {a}
  Linked = {a}
  Checked = {b}
  NoCandidate = NoCandidate
  MinConfidence = 35
  ByHand <- PersonMoves
  MaxCalls = 2
  MaxHand = 3
  MaxUses = 1
  MaxCrashes = 1
SYMMETRY ProcessSymmetry
INVARIANTS AvailableWasValidated NoMachineLeft LeftInOrder
CHECK_DEADLOCK FALSE
