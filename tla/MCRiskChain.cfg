CONSTANTS
  m1 = m1
  m2 = m2
  m3 = m3
  probe = probe
  none = none
  Markets <- MCThree
  Strategies <- MCStrategies
  NoStrategy = none
  StartingCapital = 13
  Costs <- MCCosts
  Proceeds <- MCProceeds
  Days <- MCDays
  DaysPerWeek = 1
  MaxTrades = 12
  Notionals <- MCNotionals
  Depths <- MCDepths
  Rates <- MCRates
  Grosses <- MCGrosses
  MaxFill = 8
  Fee <- MCFee
  QuoteAges <- MCQuoteAges
  Latency = 1
  MaxQuoteAge = 3
  FutureSkew = 2
  AllowPartial = FALSE
  FaultSchedule <- MCNoFaults
  DayTicks = 6
  Times <- MCTimes
  MaxOrders = 24
  DailyLossLimit = 3
  WeeklyLossLimit = 3
  MaxLosses = 3
  MarketCap = 2
  StrategyCap = 5
  MinDepth = 20
  MaxSpread = 500
  PaperEnabled = TRUE
  LiveEnabled = FALSE
  AutoExecution = FALSE
  MarketOrder <- MCThreeOrder
  Probe = probe
  Clip = 3
  Horizon = 1
  MaxSteps = 5
  StepTicks = 2
  Gated = TRUE
  Books <- MCBooks
  Qualities <- MCQualities
SPECIFICATION ChainSpec
INVARIANTS
  ExposureBounded
  LossesBounded
  BreakerNeverOverridden
PROPERTIES
  LockoutIsPermanent
