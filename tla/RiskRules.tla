----------------------------- MODULE RiskRules -----------------------------
(***************************************************************************)
(* What the Risk Governor decides, as pure operators: risk_governor.py,    *)
(* exposure_guard.py, liquidity_guard.py and models/risk.py.               *)
(*                                                                         *)
(* Scores are kept times 100 so that the percentage weights, the half      *)
(* points and the basis points of the spread are whole numbers.            *)
(***************************************************************************)
EXTENDS Integers, FiniteSets

CONSTANTS
  DailyLossLimit,    \* max_account_capital_usd * daily_max_loss_pct
  WeeklyLossLimit,   \* max_account_capital_usd * weekly_max_loss_pct
  MaxLosses,         \* max_consecutive_losses
  MarketCap,         \* max_account_capital_usd * max_market_exposure_pct
  StrategyCap,       \* max_account_capital_usd * max_strategy_exposure_pct
  MinDepth,          \* min_depth_usd
  MaxSpread,         \* max_spread_pct, in basis points
  PaperEnabled,      \* paper_trading_enabled
  LiveEnabled,       \* live_trading_enabled
  AutoExecution      \* allow_auto_execution

ASSUME LimitsAssumption ==
  /\ DailyLossLimit \in Nat /\ WeeklyLossLimit \in Nat
  /\ MaxLosses \in Nat \ {0}
  /\ MarketCap \in Nat \ {0} /\ StrategyCap \in Nat \ {0}
  /\ MinDepth \in Nat \ {0} /\ MaxSpread \in Nat \ {0}
  /\ {PaperEnabled, LiveEnabled, AutoExecution} \subseteq BOOLEAN

Actions == {"ignore", "log_only", "alert", "paper_trade",
            "manual_review", "live_execute", "hard_reject"}

-----------------------------------------------------------------------------
(* Hard rejections.  An account is a record of what AccountState feeds in; *)
(* a market and a book are what the checks read of them.                   *)

ExposureReasonsMarketOnly(account) ==    \* deviation: the strategy cap is not wired in
  {r \in {"market_exposure_limit"} : account.marketExposure >= MarketCap}

ExposureReasons(account) ==
  {r \in {"market_exposure_limit", "strategy_exposure_limit"} :
     \/ r = "market_exposure_limit" /\ account.marketExposure >= MarketCap
     \/ r = "strategy_exposure_limit" /\ account.strategyExposure >= StrategyCap}

LossReasonsLate(account) ==    \* deviation: the streak breaker fires one loss late
  {r \in {"daily_loss_limit_breached", "weekly_loss_limit_breached",
          "consecutive_loss_limit_breached"} :
     \/ r = "daily_loss_limit_breached" /\ account.dailyPnl < -DailyLossLimit
     \/ r = "weekly_loss_limit_breached" /\ account.weeklyPnl < -WeeklyLossLimit
     \/ r = "consecutive_loss_limit_breached" /\ account.losses > MaxLosses}

LossReasonsStreakOnly(account) ==    \* deviation: the period limits are not checked
  {r \in {"consecutive_loss_limit_breached"} : account.losses >= MaxLosses}

LossReasons(account) ==
  {r \in {"daily_loss_limit_breached", "weekly_loss_limit_breached",
          "consecutive_loss_limit_breached"} :
     \/ r = "daily_loss_limit_breached" /\ account.dailyPnl < -DailyLossLimit
     \/ r = "weekly_loss_limit_breached" /\ account.weeklyPnl < -WeeklyLossLimit
     \/ r = "consecutive_loss_limit_breached" /\ account.losses >= MaxLosses}

AccountReasons(account) == LossReasons(account) \cup ExposureReasons(account)

SystemReasons(system) ==
  {r \in {"api_unhealthy", "websocket_unhealthy", "price_stale"} :
     \/ r = "api_unhealthy" /\ ~system.apiHealthy
     \/ r = "websocket_unhealthy" /\ ~system.wsHealthy
     \/ r = "price_stale" /\ system.priceStale}

\* A signal on YES or NO consumes that side's asks, one on BOTH consumes both.
SidesConsumed(side) == IF side = "both" THEN {"yes", "no"} ELSE {side}

BookReasons(book, side) ==
  {r \in {"orderbook_stale", "spread_too_wide", "depth_too_thin"} :
     \/ r = "orderbook_stale" /\ book.stale
     \/ r = "spread_too_wide" /\ book.spread > MaxSpread
     \/ r = "depth_too_thin" /\ \E x \in SidesConsumed(side) : book.depth[x] < MinDepth}

\* Checked on the market itself and, again, on the flags of the signal.
MarketReasons(market, flags) ==
  {r \in {"market_not_open", "market_ambiguous", "forbidden_category", "volume_too_low"} :
     \/ r = "market_not_open" /\ (~market.open \/ r \in flags)
     \/ r = "market_ambiguous" /\ (market.ambiguous \/ r \in flags)
     \/ /\ r = "forbidden_category"
        /\ \/ ~market.autoAllowed
           \/ flags \cap {"forbidden_category", "event_forbidden_category"} # {}
     \/ r = "volume_too_low" /\ market.thin}

\* A strong score of one engine with every market-side score weak.
OnlySignal(scores, strong, other) ==
  /\ scores[strong] >= 80
  /\ scores["microstructure"] < 60
  /\ scores[other] < 60
  /\ scores["liquidity"] < 60

SignalReasons(scores, flags) ==
  {r \in {"wallet_signal_only_reason", "event_signal_only_reason"} :
     \/ /\ r = "wallet_signal_only_reason"
        /\ "wallet_signal_only" \in flags \/ OnlySignal(scores, "wallet", "event")
     \/ /\ r = "event_signal_only_reason"
        /\ "event_signal_only" \in flags \/ OnlySignal(scores, "event", "wallet")}

HardRejectReasons(in) ==
  SystemReasons(in.system) \cup MarketReasons(in.market, in.flags)
    \cup BookReasons(in.book, in.side) \cup AccountReasons(in.account)
    \cup SignalReasons(in.scores, in.flags)

-----------------------------------------------------------------------------
(* The score, times 100, and the action it leads to.                       *)

BaseScore(scores) ==
  30 * scores["microstructure"] + 20 * scores["liquidity"] + 20 * scores["event"]
    + 15 * scores["wallet"] + 15 * scores["lifecycle"]

FlagPenalty(flags, flag, points) == IF flag \in flags THEN 100 * points ELSE 0

\* if / elif chains: the first flag present decides.
CopyRiskPenalty(flags) ==
  IF "copy_risk_high" \in flags THEN 1500
  ELSE IF "copy_risk_medium" \in flags THEN 800
  ELSE FlagPenalty(flags, "copy_risk_low", 3)

LlmPenalty(flags) ==
  IF "llm_invalid_json" \in flags THEN 500
  ELSE IF "llm_low_confidence" \in flags THEN 300
  ELSE FlagPenalty(flags, "llm_error", 5)

SlippagePenaltyInverted(book) ==    \* deviation: the difference the wrong way round
  IF book.spread > 300 THEN 300 - book.spread ELSE 0

SlippagePenalty(book) == IF book.spread > 300 THEN book.spread - 300 ELSE 0

ConcentrationPenalty(account) == IF account.marketExposure > MarketCap THEN 500 ELSE 0

Penalties(in) ==
  FlagPenalty(in.flags, "ambiguous_market", 10)
    + SlippagePenalty(in.book) + ConcentrationPenalty(in.account)
    + CopyRiskPenalty(in.flags)
    + FlagPenalty(in.flags, "chase_risk_high", 10)
    + FlagPenalty(in.flags, "timing_risk_high", 5)
    + FlagPenalty(in.flags, "event_high_ambiguity", 10)
    + FlagPenalty(in.flags, "event_weak_evidence", 5)
    + LlmPenalty(in.flags)

Clamp(x) == IF x < 0 THEN 0 ELSE IF x > 10000 THEN 10000 ELSE x

TradeScore(in) == Clamp(BaseScore(in.scores) - Penalties(in))

DecideAction(score, flags) ==
  CASE score < 7000 -> "ignore"
    [] 7000 <= score /\ score < 8000 -> "log_only"
    [] 8000 <= score /\ score < 9000 -> "alert"
    [] 9000 <= score /\ score < 9500 ->
         IF "forbidden_auto_category" \in flags THEN "manual_review" ELSE "paper_trade"
    [] 9500 <= score ->
         IF LiveEnabled /\ AutoExecution THEN "live_execute" ELSE "paper_trade"

AllowedActions(action) ==
  CASE action = "hard_reject" -> {}
    [] action \in {"ignore", "log_only"} -> {action}
    [] OTHER ->
         {"alert"}
           \cup {a \in {"paper_trade"} :
                   PaperEnabled /\ action \in {"alert", "paper_trade", "manual_review"}}
           \cup {a \in {"manual_review"} : action = "manual_review"}
           \cup {a \in {"live_execute"} : LiveEnabled /\ action = "live_execute"}

\* evaluate: the decision record.
Evaluate(in) ==
  LET reasons == HardRejectReasons(in)
      score   == IF reasons # {} THEN 0 ELSE TradeScore(in)
      action  == IF reasons # {} THEN "hard_reject" ELSE DecideAction(score, in.flags)
  IN  [action |-> action, score |-> score, reasons |-> reasons,
       allowed |-> AllowedActions(action)]

AllowsPaperTrade(decision) == "paper_trade" \in decision.allowed
=============================================================================
