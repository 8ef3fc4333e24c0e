----------------------------- MODULE RiskChain -----------------------------
(***************************************************************************)
(* The production risk chain as scripts/run_regime_stress_test.py drives   *)
(* it: Signal -> RiskGovernor.evaluate (fed by the account) -> SimBroker   *)
(* -> AccountState.  At every step the loop visits the markets in order;   *)
(* in each it first manages the exit of the open probe and then, if the    *)
(* market is flat, asks the Governor for an entry.                         *)
(*                                                                         *)
(* The prices of the regime are not modelled: they choose whether a stop   *)
(* or a target is hit, what the books hold and what an exit brings.        *)
(***************************************************************************)
EXTENDS SimBroker, RiskRules, Sequences

CONSTANTS
  MarketOrder,   \* the markets, in the order the loop visits them
  Probe,         \* "regime_stress_probe"
  Clip,          \* entry_notional_usd
  Horizon,       \* max_holding_steps
  MaxSteps,      \* steps
  StepTicks,     \* ticks in a step
  Gated,         \* entry_mode = "near_threshold"
  Books,         \* what the Governor may be shown of a book
  Qualities      \* microstructure and liquidity scores an engine may give

ASSUME LoopAssumption ==
  /\ MarketOrder \in Seq(Markets)
  /\ Len(MarketOrder) > 0
  /\ Probe \in Strategies
  /\ Clip \in Notionals \ {0}
  /\ 0 \in QuoteAges
  /\ Horizon \in Nat /\ MaxSteps \in Nat /\ StepTicks \in Nat \ {0}
  /\ Gated \in BOOLEAN
  /\ \A k \in 0 .. MaxSteps - 1 : k * StepTicks \in Times

\* With a latency shorter than what is left of the day at every decision, a
\* fill falls on the day its decision was taken.
ASSUME SameDayFills == \A t \in Times : FillDay(t) = DayOf(t)

VARIABLES
  step,          \* step of the loop
  turn,          \* position in MarketOrder
  phase,         \* exit management or entry, for the market in turn
  probes,        \* open_probes: entry step of each market, NoProbe when flat
  fired,         \* step_breaker_first_fired is not None
  afterBreaker,  \* entries_filled_after_breaker
  whileActive,   \* entries_filled_while_breaker_active
  halted         \* record_open's ValueError has ended the run

loopVars == <<step, turn, phase, probes, fired, afterBreaker, whileActive, halted>>

chainVars == <<accountVars, brokerVars, loopVars>>

-----------------------------------------------------------------------------
NoProbe == -1

Market == MarketOrder[turn]

Now == step * StepTicks

Today == DayOf(Now)

Running(p) == step < MaxSteps /\ ~halted /\ phase = p

\* account.risk_context_fields
RiskContextFields(m, s, d) ==
  [dailyPnl |-> DailyPnl(d), weeklyPnl |-> WeeklyPnl(d), losses |-> losses,
   marketExposure |-> MarketExposure(m), strategyExposure |-> StrategyExposure(s)]

\* The loop only visits tradable, auto-allowed, unambiguous markets, with the
\* slow-path scores it sets and the wallet score it leaves neutral.
SignalAndContext(m, book, quality) ==
  [scores |-> [microstructure |-> quality.microstructure, liquidity |-> quality.liquidity,
               event |-> 80, wallet |-> 50, lifecycle |-> 85],
   side |-> "yes", flags |-> {},
   system |-> [apiHealthy |-> TRUE, wsHealthy |-> TRUE, priceStale |-> book.stale],
   market |-> [open |-> TRUE, ambiguous |-> FALSE, autoAllowed |-> TRUE, thin |-> FALSE],
   book |-> book,
   account |-> RiskContextFields(m, Probe, Today)]

\* The loop's own check of the account, made independently of the Governor.
BreakerActive ==
  \/ losses >= MaxLosses
  \/ DailyPnl(Today) < -DailyLossLimit
  \/ WeeklyPnl(Today) < -WeeklyLossLimit

BreakerReasons == {"daily_loss_limit_breached", "weekly_loss_limit_breached",
                   "consecutive_loss_limit_breached"}

NextMarket ==
  /\ phase' = "exit"
  /\ IF turn < Len(MarketOrder)
       THEN turn' = turn + 1 /\ step' = step
       ELSE turn' = 1 /\ step' = step + 1

-----------------------------------------------------------------------------
(* Exit management. *)

Holding == step - probes[Market]

\* No probe, or a probe whose position is gone, or no reason to leave yet.
NoExit ==
  /\ Running("exit")
  /\ probes[Market] # NoProbe /\ shares[Market] > 0 => Holding < Horizon
  /\ probes' = [probes EXCEPT ![Market] = IF shares[Market] > 0 THEN @ ELSE NoProbe]
  /\ phase' = "entry"
  /\ UNCHANGED <<accountVars, brokerVars, step, turn, fired, afterBreaker, whileActive, halted>>

\* A rejected exit keeps its probe and is tried again at the next step.
ProbesAfterExit(sold) == IF sold THEN [probes EXCEPT ![Market] = NoProbe] ELSE probes

\* Stop, target or horizon.
Exit ==
  /\ Running("exit")
  /\ probes[Market] # NoProbe /\ shares[Market] > 0
  /\ \E depth \in Depths :
       \/ /\ SellRejected(Market, shares[Market], depth, 0)
          /\ probes' = ProbesAfterExit(FALSE)
       \/ /\ closed < MaxTrades
          /\ \E gross \in Grosses :
               SellFilled(Market, shares[Market], depth, gross, 0, Now)
          /\ probes' = ProbesAfterExit(TRUE)
  /\ phase' = "entry"
  /\ UNCHANGED <<step, turn, fired, afterBreaker, whileActive, halted>>

-----------------------------------------------------------------------------
(* Entry through the full chain. *)

\* A probe is open, or the price is not near the threshold.
NoEntry ==
  /\ Running("entry")
  /\ probes[Market] # NoProbe \/ Gated
  /\ NextMarket
  /\ UNCHANGED <<accountVars, brokerVars, probes, fired, afterBreaker, whileActive, halted>>

EntryRefused ==
  /\ Running("entry")
  /\ probes[Market] = NoProbe
  /\ \E book \in Books, quality \in Qualities :
       LET decision == Evaluate(SignalAndContext(Market, book, quality))
       IN  /\ ~AllowsPaperTrade(decision)
           /\ fired' = (fired \/ decision.reasons \cap BreakerReasons # {})
  /\ NextMarket
  /\ UNCHANGED <<accountVars, brokerVars, probes, afterBreaker, whileActive, halted>>

EntryAllowed ==
  \E book \in Books, quality \in Qualities :
    AllowsPaperTrade(Evaluate(SignalAndContext(Market, book, quality)))

EntryFilled(depth, rate) ==
  /\ BuyFilled(Market, Probe, Clip, depth, rate, 0)
  /\ probes' = [probes EXCEPT ![Market] = step]
  /\ afterBreaker' = afterBreaker + (IF fired THEN 1 ELSE 0)
  /\ whileActive' = whileActive + (IF BreakerActive THEN 1 ELSE 0)

EntrySubmitted ==
  /\ Running("entry")
  /\ probes[Market] = NoProbe
  /\ EntryAllowed
  /\ \E depth \in Depths :
       \/ BuyRejected(Market, Clip, depth, 0) /\ UNCHANGED <<probes, afterBreaker, whileActive>>
       \/ \E rate \in Rates : EntryFilled(depth, rate)
  /\ NextMarket
  /\ UNCHANGED <<fired, halted>>

\* Nothing catches the ledger's ValueError.
EntryRaised ==
  /\ Running("entry")
  /\ probes[Market] = NoProbe
  /\ EntryAllowed
  /\ \E depth \in Depths : BuyRaised(Clip, depth, 0)
  /\ halted' = TRUE
  /\ UNCHANGED <<step, turn, phase, probes, fired, afterBreaker, whileActive>>

Finished ==
  /\ step = MaxSteps \/ halted
  /\ UNCHANGED chainVars

-----------------------------------------------------------------------------
ChainInit ==
  /\ BrokerInit
  /\ step = 0 /\ turn = 1 /\ phase = "exit"
  /\ probes = [m \in Markets |-> NoProbe]
  /\ fired = FALSE
  /\ afterBreaker = 0 /\ whileActive = 0
  /\ halted = FALSE

ChainNext ==
  \/ NoExit \/ Exit
  \/ NoEntry \/ EntryRefused \/ EntrySubmitted \/ EntryRaised
  \/ Finished

ChainSpec == ChainInit /\ [][ChainNext]_chainVars

-----------------------------------------------------------------------------
ChainTypeOK ==
  /\ BrokerTypeOK
  /\ step \in 0 .. MaxSteps
  /\ turn \in 1 .. Len(MarketOrder)
  /\ phase \in {"exit", "entry"}
  /\ probes \in [Markets -> -1 .. MaxSteps]
  /\ fired \in BOOLEAN /\ halted \in BOOLEAN
  /\ afterBreaker \in Nat /\ whileActive \in Nat

(* The loop's probes and the broker's positions are the same: no position  *)
(* is left without a probe that will close it, and no probe outlives its   *)
(* position (the "book and probe out of sync" branch never runs).          *)
ProbesMatchBook == \A m \in Markets : probes[m] # NoProbe <=> shares[m] > 0

ClipCost == Clip + Fee[Clip]

\* The Governor checks the exposure before a trade and not what the trade
\* adds to it: the last entry may overshoot the strategy's cap.
ExposureBound == StrategyCap - 1 + ClipCost

(* The money at risk never exceeds the strategy cap by a whole entry: each *)
(* entry is checked against every position the probe holds, whatever exits *)
(* failed before it (exposure_guard.py check_exposure, invariant I2).      *)
ExposureBounded == TotalExposure <= ExposureBound

(* However the market moves and whichever exits fail, one day loses at     *)
(* most the daily limit plus what was at risk when the breaker fired, and  *)
(* one week at most the weekly limit plus as much (risk_governor.py        *)
(* account-level checks, sim_broker.py fill-time attribution).             *)
LossesBounded ==
  /\ \A d \in Days : dayPnl[d] >= -(DailyLossLimit + ExposureBound)
  /\ \A w \in Weeks : weekPnl[w] >= -(WeeklyLossLimit + ExposureBound)

(* Invariant I3 of the stress test, in the form its own counter gives it:  *)
(* no entry is ever filled while a loss breaker's condition holds.         *)
BreakerNeverOverridden == whileActive = 0

(* A losing streak at its limit with nothing left open is final: only a    *)
(* winning close ends a streak, nothing is left to close, and every entry  *)
(* is refused (account_state.py record_close, risk_governor.py).           *)
LockoutIsPermanent ==
  [][losses >= MaxLosses /\ TotalExposure = 0 => UNCHANGED accountVars]_chainVars
=============================================================================
