CONSTANTS
  m1 = m1
  m2 = m2
  s1 = s1
  s2 = s2
  none = none
  Markets <- MCMarkets
  Strategies <- MCStrategies
  NoStrategy = none
  StartingCapital = 8
  Costs <- MCCosts
  Proceeds <- MCProceeds
  Days <- MCDays
  DaysPerWeek = 1
  MaxTrades = 3
  Notionals <- MCNotionals
  Depths <- MCDepths
  Rates <- MCRates
  Grosses <- MCGrosses
  MaxFill = 8
  Fee <- MCFee
  QuoteAges <- MCQuoteAges
  Latency = 1
  MaxQuoteAge = 3
  FutureSkew = 2
  AllowPartial = FALSE
  FaultSchedule <- MCFaults
  DayTicks = 4
  Times <- MCTimes
  MaxOrders = 6
SPECIFICATION BrokerSpec
INVARIANTS
  BooksAgree
  CashConserved
  AttributionMatchesExposure
PROPERTIES
  ExitTakesWhatItSold
  AccountSpec
CHECK_DEADLOCK FALSE
