CONSTANTS
  DailyLossLimit = 3
  WeeklyLossLimit = 8
  MaxLosses = 3
  MarketCap = 3
  StrategyCap = 8
  MinDepth = 20
  MaxSpread = 500
  PaperEnabled = TRUE
  LiveEnabled = TRUE
  AutoExecution = TRUE
  Profiles <- MCProfiles
  Scores <- MCScores
  Flags <- MCFlags
  Spreads <- MCSpreads
  Sides <- MCSides
  MaxEvents = 2
  Modes = {"mock", "real_readonly", "hybrid"}
  MaxRetries = 2
  RawMarkets <- MCRawMarkets
  MockMarkets <- MCMockMarkets
  RawSides <- MCRawSides
  MockBooks <- MCMockBooks
  LlmRetries = 1
  Answers <- MCAnswers
  Scenarios <- MCScenarios
  RunnerProviders = {"xfyun_anthropic", "sensenova", "mock"}
SPECIFICATION Spec
INVARIANTS
  RunnerNeverTrades
  NothingInvented
PROPERTIES WorseNeverPermits PathEnds
CHECK_DEADLOCK FALSE
