------------------------------ MODULE ShadowRules ------------------------------
(***************************************************************************)
(* The decisions of the shadow research loop, as operators: when a         *)
(* candidate may become a shadow trade (entry_filter.py), what the         *)
(* feedback gate says of an edge type (feedback_gate.py), and where a      *)
(* trade exits on the observations made of its market (exit_rules.py).     *)
(* Prices are integers; no bid, like a field left empty, is NoBid.         *)
(***************************************************************************)
EXTENDS Integers, FiniteSets

CONSTANTS
    StopPct,        \* the loss that stops a trade, in percent (-stop_loss_pct)
    TakePct,        \* take_profit_pct
    Horizon,        \* fixed_horizon_minutes, in observation times
    StaleAfter,     \* stale_after_minutes, in observation times
    MinTrades,      \* FeedbackGateConfig.min_required_trades
    EdgeTypes       \* the edge types that occur

ASSUME RulesAssumption ==
    /\ StopPct \in Nat /\ TakePct \in Nat
    /\ Horizon \in Nat /\ StaleAfter \in Nat /\ MinTrades \in Nat

NoBid == 0
Sides == {"YES", "NO"}

\* PROBABILITY_EDGE_TYPES, and the set the gate's comment names.
ProbabilityTypes == {"price_dislocation_probability_v1", "price_dislocation_probability_v2"}
GatedTypes == ProbabilityTypes \union {"crypto_price_threshold_v1"}

------------------------------------------------------------------------------
(* exit_rules.py *)

\* A bid of the trade's side, or else whatever the observation calls its price.
PriceFor(trade, obs) == IF obs.bid[trade.side] # NoBid THEN obs.bid[trade.side] ELSE obs.price

Stops(trade, p) == 100 * (trade.entry - p) >= StopPct * trade.entry
Takes(trade, p) == 100 * (p - trade.entry) >= TakePct * trade.entry
Due(trade, obs) == obs.time >= trade.time + Horizon

\* Observations are read in the order of their timestamps; those of one poll
\* follow the order of its positions.
Before(o, q) == o.time < q.time \/ (o.time = q.time /\ o.id < q.id)
Earliest(S) == CHOOSE o \in S : \A q \in S \ {o} : ~ Before(q, o)
Latest(S) == CHOOSE o \in S : \A q \in S \ {o} : ~ Before(o, q)

Priced(trade, obs) == PriceFor(trade, obs) # NoBid

Ends(trade, obs) ==
    \/ obs.flag \in {"market_closed", "stale"}
    \/ /\ Priced(trade, obs)
       /\ \/ Stops(trade, PriceFor(trade, obs))
          \/ Takes(trade, PriceFor(trade, obs))
          \/ Due(trade, obs)

EndReason(trade, obs) ==
    IF obs.flag = "market_closed" THEN "market_close"
    ELSE IF obs.flag = "stale" THEN "stale_data"
    ELSE IF Stops(trade, PriceFor(trade, obs)) THEN "stop_loss"
    ELSE IF Takes(trade, PriceFor(trade, obs)) THEN "take_profit"
    ELSE "fixed_horizon"

NoExit == [reason |-> "open", at |-> 0, price |-> NoBid]

DecideExitLatest(trade, evidence) ==    \* deviation: the last observation that ends the trade decides it
    LET ends == {o \in evidence : Ends(trade, o) /\ Priced(trade, o)}
    IN  IF ends = {} THEN NoExit
        ELSE LET o == Latest(ends)
             IN  [reason |-> EndReason(trade, o), at |-> o.time, price |-> PriceFor(trade, o)]

\* The first observation that ends the trade decides it.  If none does, the
\* last price closes it as stale, however young the trade is.
DecideExit(trade, evidence) ==
    LET ends == {o \in evidence : Ends(trade, o)}
        priced == {o \in evidence : Priced(trade, o)}
    IN  IF ends # {}
        THEN LET o == Earliest(ends)
             IN  IF Priced(trade, o)
                 THEN [reason |-> EndReason(trade, o), at |-> o.time, price |-> PriceFor(trade, o)]
                 ELSE NoExit
        ELSE IF priced = {} THEN NoExit
        ELSE LET last == Latest(evidence)
                 p == PriceFor(trade, Latest(priced))
             IN  IF Due(trade, last)
                 THEN [reason |-> "fixed_horizon", at |-> last.time, price |-> p]
                 ELSE [reason |-> "stale_data", at |-> last.time + StaleAfter, price |-> p]

------------------------------------------------------------------------------
(* feedback_gate.py *)

\* The record calibration leaves when it has seen no trade, and what the gate
\* reads from a missing or unreadable summary.
NoFeedback ==
    [closed |-> [e \in EdgeTypes |-> 0], wins |-> [e \in EdgeTypes |-> 0], gain |-> [e \in EdgeTypes |-> 0],
     losses |-> 0, confidentLosses |-> 0, edgePredicts |-> FALSE, confidencePredicts |-> FALSE]

\* Rates are compared as the code does: of the type's own closed trades, the
\* losses being those of every type.
WinsTooRarely(e, f) == f.closed[e] = 0 \/ 100 * f.wins[e] < 52 * f.closed[e]
FalsePositives(e, f) == f.closed[e] > 0 /\ 100 * f.losses > 45 * f.closed[e]
ConfidentLosses(e, f) == f.closed[e] > 0 /\ 100 * f.confidentLosses > 35 * f.closed[e]

\* The win rate is checked last and replaces the verdict of the checks before.
Quarantined(e, f) ==
    /\ f.closed[e] > 0
    /\ IF WinsTooRarely(e, f)
       THEN f.gain[e] <= 0
       ELSE \/ f.gain[e] <= 0 \/ ~ f.edgePredicts \/ ~ f.confidencePredicts
            \/ ConfidentLosses(e, f) \/ FalsePositives(e, f)

Enabled(e, f) ==
    /\ f.closed[e] >= MinTrades
    /\ f.gain[e] > 0 /\ f.edgePredicts /\ f.confidencePredicts
    /\ ~ ConfidentLosses(e, f) /\ ~ FalsePositives(e, f) /\ ~ WinsTooRarely(e, f)

GateStatusColdStart(e, f) ==    \* deviation: a type without a record has nothing against it
    IF e \notin GatedTypes \/ f.closed[e] = 0 THEN "enabled"
    ELSE IF Quarantined(e, f) THEN "quarantined"
    ELSE IF Enabled(e, f) THEN "enabled" ELSE "watch_only"

GateStatus(e, f) ==
    IF e \notin GatedTypes THEN "enabled"
    ELSE IF Quarantined(e, f) THEN "quarantined"
    ELSE IF Enabled(e, f) THEN "enabled" ELSE "watch_only"

------------------------------------------------------------------------------
(* entry_filter.py *)

QualityFailures ==
    {"avoid_candidate", "high_ambiguity", "low_liquidity", "spread_too_wide", "stale_data", "missing_combined_ask",
     "missing_side_ask", "invalid_entry_price_model", "risk_hard_reject", "insufficient_orderbook_depth",
     "llm_only_signal", "confidence_too_low", "likely_false_match"}

\* Only the probability types answer to their gate here; a row that names no
\* gate at all is let through.
HeldByGate(row) ==
    /\ row.type \in ProbabilityTypes
    /\ ~ (row.passed = "true" /\ row.gate \in {"", "enabled"})
    /\ ~ (row.gate = "" /\ row.passed # "false")

\* A strong near miss, or supporting evidence: both need an expected edge above
\* spread and buffer, a passed edge, and no quality failure.
Eligible(row) ==
    /\ ~ HeldByGate(row)
    /\ row.defects \intersect QualityFailures = {}
    /\ row.edgePass
    /\ row.strong \/ row.supported
==============================================================================
