SPECIFICATION StandaloneSpec
CONSTANTS
  high = high
  full = full
  Hubs = {h1}
  Rules = {high, full}
  Key <- SharedKey
  Cooldown <- Cool
  Watched = {full}
  NoRule = NoRule
  WakeCooldown = 2
  Limit = 2
  MaxTime = 3
  MaxStarts = 2
  MaxEvents = 4
  Callers = {c1, c2}
  Paths = {x, y, z}
  Sizes = {1, 2, 4}
  MaxFile = 3
  MaxFetch = 4
  MaxTotal = 4
  MaxFiles = 2
  Allowed = {TRUE, FALSE}
  MaxCalls = 5
  s1 = s1
  s2 = s2
  Engines = {s1, s2}
  Past <- Ledger
  Beginnings <- Evidence
  MinSupport = 2
  MaxCandidates = 4
  RecentWindow = 2
  StuckAfter = 3
  MineLimit = 2
  MaxMined = 1
INVARIANTS FiredApart WakesApart WithinQuota Rotation 
CHECK_DEADLOCK FALSE
