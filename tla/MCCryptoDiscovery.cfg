\* One batch, started in the first minutes.
CONSTANTS
    Markets <- MCMarkets
    Text <- MCText
    Avoided = {}
    Listings <- MCListings
    Flaky = {"late", "quiet"}
    Quotes <- MCQuotes
    Answers <- MCAnswers
    EndsAbove <- MCEndsAbove
    PerMinute = 2
    PageLimit = 2
    MaxPages = 3
    PageSize = 2
    MaxMarkets = 6
    MinVolume = 5
    FullHorizon = 4
    MinEdge = 5
    MinConfidence = 70
    Grace = 1
    Lag <- MCLag
    Offsets <- MCOffsets
    Levels = {1, 2}
    MaxStart = 3
    MaxClock = 4
    MaxLate = 1
    MaxMoves = 2
    MaxBatches = 1
SPECIFICATION DiscoverySpec
CHECK_DEADLOCK FALSE
INVARIANTS EntriesUncrossed
PROPERTIES FeedsAsPromised BatchEnds
