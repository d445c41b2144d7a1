SPECIFICATION Spec
CONSTANTS
  p1 = p1
  p2 = p2
  plain = plain
  longer = longer
  doubting = doubting
  ApiUrl = ApiUrl
  Corrected = Corrected
  Procs = {p1, p2}
  Texts = {plain, longer, doubting}
  Words <- TheWords
  Contrasting = {doubting}
  Documents <- TheDocuments
  Urls = {u1}
  Replies <- TheReplies
  Bonus = 1
  Tags = {brief}
  Threshold = 2
  Kept = {"uncertain"}
  RecallLimit = 2
  SourceLimit = 2
  MaxAsked = 1
  MaxCalls = 3
  MaxUpsets = 1
INVARIANTS DocumentCovered SourcesSay AdoptedOnSightings
CHECK_DEADLOCK FALSE
SYMMETRY Symmetry
