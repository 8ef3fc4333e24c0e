------------------------------ MODULE MainCycle ------------------------------
(***************************************************************************)
(* The program's main loop, polysignal/main.py: run, run_cycle and         *)
(* _process_signal, with the Governor, the circuit breaker, the paper      *)
(* trader, the account ledger and the database it calls.                   *)
(*                                                                         *)
(* One asyncio task does all the work; an action is what it does between   *)
(* two awaits.  The process may be killed at any await and started again:  *)
(* the database is what it finds then, the ledger, the trader and the      *)
(* breaker start empty.  Any read of the API and any write of the database *)
(* may raise.                                                              *)
(***************************************************************************)
EXTENDS Account, RiskRules, Sequences

CONSTANTS
  MarketOrder,    \* the markets, in the order get_markets lists them
  Strategy,       \* the name of the one strategy the program runs
  OrderSize,      \* default_order_size_usd
  MaxApiFailures, MaxWsDisconnects,    \* of the circuit breaker
  MarketKinds,    \* what the Governor may be told of a tradable market
  Books,          \* what it may be shown of a book
  SignalScores,   \* scores a signal may carry
  SignalSides,    \* sides a signal may have
  SummaryEvery,   \* cycles between two summaries
  MaxCycles,      \* bound: cycles of all processes together
  MaxLives        \* bound: times the program is started

ASSUME MainAssumption ==
  /\ MarketOrder \in Seq(Markets)
  /\ Len(MarketOrder) > 0
  /\ Strategy \in Strategies
  /\ OrderSize \in Nat \ {0}
  /\ 1 .. OrderSize \subseteq Costs
  /\ SignalSides \subseteq {"yes", "no", "both"}
  /\ MaxApiFailures \in Nat \ {0} /\ MaxWsDisconnects \in Nat \ {0}
  /\ SummaryEvery \in Nat \ {0}
  /\ Days # {}

VARIABLES
  apiFailures, apiTripped, wsDisconnects, wsTripped,    \* the breaker
  cost, outcome,                                        \* the paper trader
  pc,        \* the await the task is at
  running,   \* _running
  turn,      \* position in MarketOrder
  cycles,    \* cycles begun, by all processes together
  lives,     \* times the program was started
  signal,    \* the signal in hand: may it be traded on paper, its side, its fill
  saved,     \* signals, risk_decisions: what the database holds of the signal in hand
  dbOrders,  \* paper_orders: notional saved for each market
  row,       \* paper_positions: cost in the row of this process's position
  orphans,   \* paper_positions: cost in the rows of earlier processes
  lost       \* auxiliary: fills the ledger never heard of, in all processes

Trader == INSTANCE PaperTrader
Breaker == INSTANCE CircuitBreaker

traderVars == <<cost, outcome>>
breakerVars == <<apiFailures, apiTripped, wsDisconnects, wsTripped>>
memory == <<accountVars, traderVars, breakerVars>>
place == <<pc, turn, signal, saved>>
tables == <<dbOrders, row, orphans>>
mainVars == <<memory, place, running, cycles, lives, tables, lost>>

-----------------------------------------------------------------------------
Market == MarketOrder[turn]

NoSignal == [trade |-> FALSE, side |-> "none", fill |-> 0]

\* The task ends its await at p and goes on to the one at q.
Goes(p, q) == pc = p /\ pc' = q

Nowhere == UNCHANGED <<turn, signal, saved>>

\* The day of a call makes no difference: the main cycle closes no position.
Today == CHOOSE d \in Days : TRUE

AccountFields ==
  [dailyPnl |-> DailyPnl(Today), weeklyPnl |-> WeeklyPnl(Today), losses |-> losses,
   marketExposure |-> MarketExposure(Market), strategyExposure |-> StrategyExposure(Strategy)]

HealthTakenForGranted ==    \* deviation: the breaker is not wired to the Governor
  [api |-> TRUE, ws |-> TRUE]

Health == [api |-> Breaker!ApiHealthy, ws |-> Breaker!WebsocketHealthy]

\* The signal, RiskContext, book and market handed to evaluate.
Input(kind, book, scores, side) ==
  [scores |-> scores, side |-> side, flags |-> {},
   system |-> [apiHealthy |-> Health.api, wsHealthy |-> Health.ws, priceStale |-> book.stale],
   market |-> kind, book |-> book, account |-> AccountFields]

-----------------------------------------------------------------------------
(* Start, stop and crash. *)

FreshMemory ==
  /\ cash' = StartingCapital /\ realized' = 0 /\ losses' = 0 /\ closed' = 0
  /\ notional' = [m \in Markets |-> 0]
  /\ strategyOf' = [m \in Markets |-> NoStrategy]
  /\ dayPnl' = [d \in Days |-> 0]
  /\ weekPnl' = [w \in Weeks |-> 0]
  /\ apiFailures' = 0 /\ apiTripped' = FALSE
  /\ wsDisconnects' = 0 /\ wsTripped' = FALSE
  /\ cost' = [m \in Markets |-> 0]
  /\ outcome' = [m \in Markets |-> "none"]

\* PolySignalPro is constructed; what the positions table holds is not read.
StartProcess ==
  /\ Goes("dead", "starting")
  /\ lives < MaxLives
  /\ lives' = lives + 1
  /\ FreshMemory
  /\ running' = FALSE
  /\ orphans' = orphans + Total(row)
  /\ row' = [m \in Markets |-> 0]
  /\ Nowhere
  /\ UNCHANGED <<cycles, dbOrders, lost>>

\* start sets _running whatever a signal handler did before, or fails to open
\* the database.
Started ==
  /\ \/ Goes("starting", "idle") /\ running' = TRUE
     \/ Goes("starting", "dead") /\ UNCHANGED running
  /\ Nowhere
  /\ UNCHANGED <<memory, cycles, lives, tables, lost>>

\* SIGINT or SIGTERM.
HandleShutdown ==
  /\ pc # "dead"
  /\ running
  /\ running' = FALSE
  /\ UNCHANGED <<memory, place, cycles, lives, tables, lost>>

\* A fill in hand dies with its process.
Crash ==
  /\ pc # "dead" /\ pc' = "dead"
  /\ signal' = NoSignal /\ saved' = {}
  /\ lost' = lost + (IF signal.fill > 0 THEN 1 ELSE 0)
  /\ UNCHANGED <<memory, turn, running, cycles, lives, tables>>

-----------------------------------------------------------------------------
(* The loop around the cycles. *)

LoopOverNever == FALSE    \* deviation: the flag is set and never looked at

LoopOver == ~running

\* A cycle; while the Telegram client has paused the signals, a flag that only
\* this place reads, nothing is done in it.
Cycle ==
  /\ ~LoopOver
  /\ cycles < MaxCycles
  /\ cycles' = cycles + 1
  /\ Goes("idle", "markets") \/ Goes("idle", "sleep")
  /\ turn' = 1
  /\ UNCHANGED <<memory, signal, saved, running, lives, tables, lost>>

LeaveLoop ==
  /\ LoopOver
  /\ Goes("idle", "closing")
  /\ Nowhere
  /\ UNCHANGED <<memory, running, cycles, lives, tables, lost>>

\* The wait between cycles, before which print_summary is due now and then:
\* what it raises ends run.
Sleep ==
  /\ \/ Goes("sleep", "idle")
     \/ cycles % SummaryEvery = 0 /\ Goes("sleep", "closing")
  /\ Nowhere
  /\ UNCHANGED <<memory, running, cycles, lives, tables, lost>>

\* stop, in the finally of run.
Stop ==
  /\ Goes("closing", "dead")
  /\ running' = FALSE
  /\ Nowhere
  /\ UNCHANGED <<memory, cycles, lives, tables, lost>>

\* get_markets returns, or raises into the cycle's handler.
GetMarkets ==
  /\ \/ Goes("markets", "book") /\ UNCHANGED breakerVars
     \/ Goes("markets", "sleep") /\ Breaker!RecordApiFailure
  /\ Nowhere
  /\ UNCHANGED <<accountVars, traderVars, running, cycles, lives, tables, lost>>

-----------------------------------------------------------------------------
(* One market. *)

NextMarket ==
  /\ signal' = NoSignal /\ saved' = {}
  /\ IF turn < Len(MarketOrder)
       THEN turn' = turn + 1 /\ pc' = "book"
       ELSE turn' = turn /\ pc' = "sleep"
  /\ UNCHANGED <<running, cycles, lives>>

\* The except and the else of the market's try statement.
MarketFailed == NextMarket /\ Breaker!RecordApiFailure

MarketDone == NextMarket /\ Breaker!RecordApiSuccess

\* Not tradable, no book or no signal: continue, which leaves the try
\* statement without its else.
SkipMarket ==
  /\ pc = "book"
  /\ NextMarket
  /\ UNCHANGED <<memory, tables, lost>>

Judge ==
  /\ Goes("book", "save_signal")
  /\ \E kind \in MarketKinds, book \in Books, scores \in SignalScores, side \in SignalSides :
       LET decision == Evaluate(Input(kind, book, scores, side))
       IN  signal' = [NoSignal EXCEPT !.trade = decision.action = "paper_trade", !.side = side]
  /\ UNCHANGED <<memory, turn, saved, running, cycles, lives, tables, lost>>

SaveSignal ==
  /\ Goes("save_signal", "save_decision")
  /\ saved' = saved \cup {"signal"}
  /\ UNCHANGED <<memory, turn, signal, running, cycles, lives, tables, lost>>

\* The provider, an engine, the strategy or the Governor raises, or one of the
\* two writes does.
MarketRaises ==
  /\ pc \in {"book", "save_signal", "save_decision"}
  /\ MarketFailed
  /\ UNCHANGED <<accountVars, traderVars, tables, lost>>

\* Any other action, a trade the trader refuses or cannot fill: at most a
\* Telegram message, whose failure is not raised.
NothingTraded ==
  /\ pc = "save_decision"
  /\ MarketDone
  /\ UNCHANGED <<accountVars, traderVars, tables, lost>>

\* What is saved when _process_signal begins.
SavedFirstSignalOnly == saved    \* deviation: the decision is not

SavedFirst == saved \cup {"decision"}

\* The paper trader fills in memory before anything of the trade is saved.  A
\* decision to trade implies that the book is not stale.
Trade ==
  /\ Goes("save_decision", "save_order")
  /\ saved' = SavedFirst
  /\ ~Trader!ExecuteRefused(Market, signal.side, signal.trade, FALSE)
  /\ \E n \in Trader!VisibleFills :
       /\ Trader!Fill(Market, signal.side, n)
       /\ signal' = [signal EXCEPT !.fill = n]
  /\ UNCHANGED <<accountVars, breakerVars, turn, running, cycles, lives, tables, lost>>

SaveOrder ==
  /\ Goes("save_order", "save_position")
  /\ dbOrders' = [dbOrders EXCEPT ![Market] = @ + signal.fill]
  /\ Nowhere
  /\ UNCHANGED <<memory, running, cycles, lives, row, orphans, lost>>

SavePositionOfFill ==    \* deviation: the row holds the last fill, not the position
  row' = [row EXCEPT ![Market] = signal.fill]

SavePosition == row' = [row EXCEPT ![Market] = cost[Market]]

LedgerNotionalPerShare == 1    \* deviation: the price is recorded without the size

LedgerNotional == signal.fill

LedgerStrategy == Strategy

\* The ledger hears of a trade last.
Ledger ==
  /\ pc = "save_position"
  /\ SavePosition
  /\ RecordOpen(Market, LedgerStrategy, LedgerNotional)
  /\ MarketDone
  /\ UNCHANGED <<traderVars, dbOrders, orphans, lost>>

\* record_open raises: the cash does not cover the fill.
LedgerRaises ==
  /\ pc = "save_position"
  /\ SavePosition
  /\ ~CanOpen(LedgerNotional)
  /\ MarketFailed
  /\ lost' = lost + 1
  /\ UNCHANGED <<accountVars, traderVars, dbOrders, orphans>>

\* A write of the trade raises; nothing is taken back.
TradeRaises ==
  /\ pc \in {"save_order", "save_position"}
  /\ MarketFailed
  /\ lost' = lost + 1
  /\ UNCHANGED <<accountVars, traderVars, tables>>

-----------------------------------------------------------------------------
MainInit ==
  /\ AccountInit
  /\ Trader!TraderInit
  /\ Breaker!BreakerInit
  /\ pc = "dead" /\ running = FALSE
  /\ turn = 1 /\ cycles = 0 /\ lives = 0
  /\ signal = NoSignal /\ saved = {}
  /\ dbOrders = [m \in Markets |-> 0]
  /\ row = [m \in Markets |-> 0]
  /\ orphans = 0 /\ lost = 0

\* What the program's task does when its await ends.
TaskStep ==
  \/ Started \/ Cycle \/ LeaveLoop \/ Sleep \/ Stop
  \/ GetMarkets \/ SkipMarket \/ Judge \/ SaveSignal \/ MarketRaises
  \/ NothingTraded \/ Trade \/ SaveOrder \/ Ledger \/ LedgerRaises \/ TradeRaises

\* A bound of the model, not the program, ends the behaviour here.
BoundReached ==
  /\ \/ pc = "dead" /\ lives = MaxLives
     \/ pc = "idle" /\ ~LoopOver /\ cycles = MaxCycles
  /\ UNCHANGED mainVars

MainNext == TaskStep \/ StartProcess \/ HandleShutdown \/ Crash \/ BoundReached

\* Every await ends: HTTP requests have timeouts and bounded retries, the
\* database is a local file, the sleep is short.
MainSpec == MainInit /\ [][MainNext]_mainVars /\ WF_mainVars(TaskStep)

-----------------------------------------------------------------------------
Awaits == {"dead", "starting", "idle", "markets", "book", "save_signal", "save_decision",
           "save_order", "save_position", "sleep", "closing"}

MainTypeOK ==
  /\ AccountTypeOK /\ Trader!TraderTypeOK /\ Breaker!BreakerTypeOK
  /\ pc \in Awaits
  /\ running \in BOOLEAN
  /\ turn \in 1 .. Len(MarketOrder)
  /\ cycles \in Nat /\ lives \in Nat
  /\ signal \in [trade : BOOLEAN, side : SignalSides \cup {"none"}, fill : 0 .. OrderSize]
  /\ saved \subseteq {"signal", "decision"}
  /\ dbOrders \in [Markets -> Nat] /\ row \in [Markets -> Nat]
  /\ orphans \in Nat /\ lost \in Nat

(* A fill is never without its audit trail: the signal and the decision    *)
(* that allowed it are in the database before the paper trader fills, so   *)
(* that no crash or failed write can leave an unexplained position         *)
(* (run_cycle, the two saves before _process_signal).                      *)
TradesAreAudited == signal.fill > 0 => saved = {"signal", "decision"}

(* The ledger never runs ahead: what it counts as spent in a market is in  *)
(* the position's row and in the saved orders, and no row holds more than  *)
(* the trader's position (_process_signal, order of the writes).           *)
LedgeredIsSaved ==
  \A m \in Markets :
    /\ notional[m] <= row[m] /\ row[m] <= cost[m]
    /\ notional[m] <= dbOrders[m]

\* The Governor checks the exposure before a trade and not what it adds.
ExposureBound == StrategyCap - 1 + OrderSize

(* The strategy cap is enforced on the ledger, which misses the fills that *)
(* a failed write or a crash cut off: the trader's positions stay within   *)
(* the cap, one order, and one order for each fill so lost or in hand.     *)
(* The cap starts anew with each process, so the open rows of the database *)
(* are bounded per start only (exposure_guard.py, fed by                   *)
(* AccountState.risk_context_fields; _process_signal).                     *)
PositionsBounded ==
  LET unledgered == OrderSize * lost + signal.fill
  IN  /\ Total(cost) <= ExposureBound + unledgered
      /\ Total(row) + orphans <= lives * ExposureBound + unledgered

(* While the API channel is tripped nothing is traded, although the        *)
(* rejection it causes is itself the success that lifts it (run_cycle,     *)
(* else branch; risk_governor.py, api_unhealthy).                          *)
TrippedNeverTrades ==
  [][apiTripped => \A m \in Markets : cost'[m] <= cost[m]]_mainVars

(* A trip is the work of failures alone and ends with the first success:   *)
(* in any mix of failing, skipped and finished markets and failing cycles  *)
(* the flag is up exactly while the streak is at its limit                 *)
(* (circuit_breaker.py; run_cycle, which feeds it).                        *)
FlagsFollowStreaks == Breaker!FlagsFollowStreaks

(* Money of the two outcomes is never averaged into one position, however  *)
(* the signals of a market alternate (PaperTrader.execute, check of the    *)
(* existing position).                                                     *)
OutcomesNeverMix ==
  [][\A m \in Markets :
        0 < cost[m] /\ cost[m] < cost'[m] => outcome'[m] = outcome[m]]_mainVars

(* Within the life of a process the cycle uses ledger, trader and breaker  *)
(* through their operations only, and none of them twice in a step: each   *)
(* goes through a behaviour of its own specification.                      *)
UsesComponentsAsSpecified ==
  [][pc # "dead" =>
       /\ AccountNext \/ UNCHANGED accountVars
       /\ Trader!TraderNext \/ UNCHANGED traderVars
       /\ Breaker!BreakerNext \/ UNCHANGED breakerVars]_mainVars

(* A running program that is told to stop does: at whichever await the     *)
(* signal arrives, the cycle ends and the database is closed (main.py run  *)
(* and handle_shutdown).  The exception is start, which sets the flag      *)
(* again.                                                                  *)
ShutdownStops == ~running /\ pc # "starting" ~> pc = "dead"
=============================================================================
