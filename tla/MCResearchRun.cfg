SPECIFICATION RunSpec
CONSTANTS
  a1 = a1
  a2 = a2
  w1 = w1
  d1 = d1
  Markets <- MCMarkets
  Watchlist = {w1}
  Alphas = {a1, a2}
  Avoids = {a2, w1}
  Evidence <- MCEvidence
  Tier <- MCTier
  RepeatTarget = 1
  Samplable = {w1, d1}
  Controllable = {a1, a2, d1}
  ExcludeAvoids = FALSE
  MaxMarkets = 3
  Ratios <- MCRatios
  PerScan = 1
  MaxRepeats = 1
  MaxControl = 1
  MaxCalls = 1
INVARIANTS
  ScansWithinMaxMarkets
  NotAskedTooOften
PROPERTIES
  AlphasReachTarget
  StopsWhenAsked
CHECK_DEADLOCK TRUE
