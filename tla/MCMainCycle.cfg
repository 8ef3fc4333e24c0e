CONSTANTS
  m1 = m1
  m2 = m2
  s = s
  none = none
  Markets <- MCMarkets
  Strategies <- MCStrategies
  NoStrategy = none
  StartingCapital = 3
  Costs <- MCCosts
  Proceeds <- MCCosts
  Days <- MCDays
  DaysPerWeek = 1
  MaxTrades = 1
  DailyLossLimit = 3
  WeeklyLossLimit = 8
  MaxLosses = 3
  MarketCap = 3
  StrategyCap = 3
  MinDepth = 20
  MaxSpread = 500
  PaperEnabled = TRUE
  LiveEnabled = FALSE
  AutoExecution = FALSE
  MarketOrder <- MCOrder
  Strategy = s
  OrderSize = 2
  MaxApiFailures = 2
  MaxWsDisconnects = 2
  MarketKinds <- MCKinds
  Books <- MCBooks
  SignalScores <- MCScores
  SignalSides <- MCSides
  SummaryEvery = 2
  MaxCycles = 2
  MaxLives = 2
SPECIFICATION MainSpec
INVARIANTS
  TradesAreAudited
  LedgeredIsSaved
  PositionsBounded
PROPERTIES
  TrippedNeverTrades
  OutcomesNeverMix
  ShutdownStops
