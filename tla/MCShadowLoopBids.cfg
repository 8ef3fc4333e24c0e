CONSTANTS
    Markets <- MCMarkets
    Leads <- MCLeads
    Legacy <- MCLegacy
    EdgeTypes <- MCEdgeTypes
    Snapshots <- MCSnapshots
    Points <- MCPoints
    Pollers = {p1}
    StopPct = 5
    TakePct = 5
    Horizon = 2
    StaleAfter = 1
    MinTrades = 2
    MaxEntries = 3
    MaxPositions = 3
    MaxTime = 2
    MaxRuns = 3
SPECIFICATION Spec
CHECK_DEADLOCK FALSE
INVARIANT ExitsAreForwardSideBids
