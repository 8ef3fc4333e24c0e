-------------------------- MODULE MainCycleProofs --------------------------
(***************************************************************************)
(* What the main cycle guarantees for every list of markets, order size,   *)
(* cap, breaker limit and number of starts, whatever fails and whenever    *)
(* the process dies; and, in the last part, what the caches of order books *)
(* guarantee for every set of tokens, number of levels and length of the   *)
(* wire, whatever is lost.                                                 *)
(***************************************************************************)
EXTENDS MainCycle, AccountProofs, BookCache, SequenceTheorems, WellFoundedInduction

InTrade == {"save_order", "save_position"}

Judged == {"save_signal", "save_decision"} \cup InTrade

\* What is known of the signal in hand at each await.
StageInv ==
  /\ pc \in InTrade => signal.trade /\ saved = {"signal", "decision"} /\ signal.fill > 0
  /\ pc \notin InTrade => signal.fill = 0
  /\ pc = "save_decision" => "signal" \in saved
  /\ pc \in Judged => signal.side \in SignalSides
  /\ pc \in Judged /\ signal.trade => ~apiTripped /\ Total(notional) < StrategyCap

\* How far ledger, orders, rows and positions may be apart, market by market.
RecordsInv ==
  /\ LedgeredIsSaved
  /\ pc \in InTrade => notional[Market] + signal.fill <= cost[Market]
  /\ pc = "save_position" => notional[Market] + signal.fill <= dbOrders[Market]
  /\ \A m \in Markets : cost[m] > 0 => outcome[m] # "none"

OnlyStrategyOwns == \A m \in Markets : strategyOf[m] \in {Strategy, NoStrategy}

ComponentsInv ==
  /\ AccountInv
  /\ OnlyStrategyOwns
  /\ Trader!TraderTypeOK
  /\ Breaker!BreakerTypeOK
  /\ FlagsFollowStreaks

\* The types of what is the cycle's own.
OwnTypes ==
  /\ pc \in Awaits
  /\ running \in BOOLEAN
  /\ turn \in 1 .. Len(MarketOrder)
  /\ cycles \in Nat /\ lives \in Nat
  /\ signal \in [trade : BOOLEAN, side : SignalSides \cup {"none"}, fill : 0 .. OrderSize]
  /\ saved \subseteq {"signal", "decision"}
  /\ dbOrders \in [Markets -> Nat] /\ row \in [Markets -> Nat]
  /\ orphans \in Nat /\ lost \in Nat

BaseInv == OwnTypes /\ ComponentsInv /\ StageInv

-----------------------------------------------------------------------------
(* The steps, by what they do. *)

\* Steps that only move the task, or its flag, between awaits.
Move == Started \/ HandleShutdown \/ Cycle \/ LeaveLoop \/ Sleep \/ Stop

LEMMA MarketInTurn == turn \in 1 .. Len(MarketOrder) => Market \in Markets
PROOF
  BY MainAssumption DEF Market

LEMMA Moves ==
  ASSUME Move
  PROVE  /\ UNCHANGED <<memory, tables, lost, signal, saved, lives>>
         /\ \/ pc \notin Judged /\ pc' \notin Judged
            \/ pc' = pc /\ turn' = turn
         /\ pc = "dead" => pc' = pc
PROOF
  <1> USE DEF Judged, InTrade, Goes, Nowhere, place
  <1>1. CASE Started BY <1>1 DEF Started
  <1>2. CASE HandleShutdown BY <1>2 DEF HandleShutdown
  <1>3. CASE Cycle BY <1>3 DEF Cycle
  <1>4. CASE LeaveLoop BY <1>4 DEF LeaveLoop
  <1>5. CASE Sleep BY <1>5 DEF Sleep
  <1>6. CASE Stop BY <1>6 DEF Stop
  <1> QED BY <1>1, <1>2, <1>3, <1>4, <1>5, <1>6 DEF Move

LEMMA AccountFresh == AccountInit' => AccountInv'
PROOF
  BY AccountInitInv, PTL

\* The account as the steps see it: left alone, new, or opened by the ledger's step.
LEMMA StepOfAccount ==
  ASSUME MainNext \/ UNCHANGED mainVars
  PROVE  \/ UNCHANGED accountVars
         \/ AccountInit' /\ StartProcess
         \/ Ledger /\ RecordOpen(Market, Strategy, signal.fill)
PROOF
  <1> USE DEF memory, mainVars
  <1>1. CASE TaskStep
    <2>1. CASE Ledger
      BY <2>1 DEF Ledger, LedgerStrategy, LedgerNotional
    <2>2. CASE Started \/ Cycle \/ LeaveLoop \/ Sleep \/ Stop
      BY <2>2, Moves DEF Move
    <2>3. CASE GetMarkets \/ SkipMarket \/ Judge \/ SaveSignal \/ MarketRaises \/ NothingTraded
      BY <2>3 DEF GetMarkets, SkipMarket, Judge, SaveSignal, MarketRaises, NothingTraded
    <2>4. CASE Trade \/ SaveOrder \/ LedgerRaises \/ TradeRaises
      BY <2>4 DEF Trade, SaveOrder, LedgerRaises, TradeRaises
    <2> QED BY <1>1, <2>1, <2>2, <2>3, <2>4 DEF TaskStep
  <1>2. CASE StartProcess
    BY <1>2 DEF StartProcess, FreshMemory, AccountInit
  <1>3. CASE HandleShutdown \/ Crash \/ BoundReached \/ UNCHANGED mainVars
    BY <1>3 DEF HandleShutdown, Crash, BoundReached
  <1> QED BY <1>1, <1>2, <1>3 DEF MainNext

\* The trader likewise.
LEMMA StepOfTrader ==
  ASSUME MainNext \/ UNCHANGED mainVars
  PROVE  \/ UNCHANGED traderVars
         \/ Trader!TraderInit' /\ StartProcess
         \/ Trade
PROOF
  <1> USE DEF memory, mainVars, traderVars
  <1>1. CASE TaskStep
    <2>1. CASE Trade
      BY <2>1
    <2>2. CASE Started \/ Cycle \/ LeaveLoop \/ Sleep \/ Stop
      BY <2>2, Moves DEF Move
    <2>3. CASE GetMarkets \/ SkipMarket \/ Judge \/ SaveSignal \/ MarketRaises \/ NothingTraded
      BY <2>3 DEF GetMarkets, SkipMarket, Judge, SaveSignal, MarketRaises, NothingTraded
    <2>4. CASE SaveOrder \/ Ledger \/ LedgerRaises \/ TradeRaises
      BY <2>4 DEF SaveOrder, Ledger, LedgerRaises, TradeRaises
    <2> QED BY <1>1, <2>1, <2>2, <2>3, <2>4 DEF TaskStep
  <1>2. CASE StartProcess
    BY <1>2 DEF StartProcess, FreshMemory, Trader!TraderInit
  <1>3. CASE HandleShutdown \/ Crash \/ BoundReached \/ UNCHANGED mainVars
    BY <1>3 DEF HandleShutdown, Crash, BoundReached
  <1> QED BY <1>1, <1>2, <1>3 DEF MainNext

\* The breaker: left alone, new, or told of one failure or one success.
LEMMA StepOfBreaker ==
  ASSUME MainNext \/ UNCHANGED mainVars
  PROVE  \/ UNCHANGED breakerVars
         \/ Breaker!BreakerInit' /\ StartProcess
         \/ (Breaker!RecordApiFailure \/ Breaker!RecordApiSuccess) /\ pc' \notin Judged
PROOF
  <1> USE DEF memory, mainVars, breakerVars, NextMarket, MarketFailed, MarketDone, Judged, InTrade
  <1>1. CASE TaskStep
    <2>1. CASE GetMarkets
      BY <2>1 DEF GetMarkets, Goes
    <2>2. CASE Started \/ Cycle \/ LeaveLoop \/ Sleep \/ Stop
      BY <2>2, Moves DEF Move
    <2>3. CASE SkipMarket \/ Judge \/ SaveSignal \/ MarketRaises \/ NothingTraded
      BY <2>3 DEF SkipMarket, Judge, SaveSignal, MarketRaises, NothingTraded
    <2>4. CASE Trade \/ SaveOrder \/ Ledger \/ LedgerRaises \/ TradeRaises
      BY <2>4 DEF Trade, SaveOrder, Ledger, LedgerRaises, TradeRaises
    <2> QED BY <1>1, <2>1, <2>2, <2>3, <2>4 DEF TaskStep
  <1>2. CASE StartProcess
    BY <1>2 DEF StartProcess, FreshMemory, Breaker!BreakerInit
  <1>3. CASE HandleShutdown \/ Crash \/ BoundReached \/ UNCHANGED mainVars
    BY <1>3 DEF HandleShutdown, Crash, BoundReached
  <1> QED BY <1>1, <1>2, <1>3 DEF MainNext

-----------------------------------------------------------------------------
(* The components keep their invariants. *)

LEMMA FreshBreaker == Breaker!BreakerInit => Breaker!BreakerTypeOK /\ FlagsFollowStreaks
PROOF
  <1> SUFFICES ASSUME Breaker!BreakerInit PROVE Breaker!BreakerTypeOK /\ FlagsFollowStreaks
    OBVIOUS
  <1>1. apiFailures = 0 /\ wsDisconnects = 0 /\ ~apiTripped /\ ~wsTripped
    BY DEF Breaker!BreakerInit
  <1>2. ~(apiFailures >= MaxApiFailures) /\ ~(wsDisconnects >= MaxWsDisconnects)
    BY <1>1, MainAssumption
  <1>3. Breaker!BreakerTypeOK
    BY DEF Breaker!BreakerInit, Breaker!BreakerTypeOK
  <1> QED BY <1>1, <1>2, <1>3, Zenon DEF FlagsFollowStreaks, Breaker!FlagsFollowStreaks

LEMMA FreshBreakerNext ==
  Breaker!BreakerInit' => Breaker!BreakerTypeOK' /\ FlagsFollowStreaks'
PROOF
  BY FreshBreaker, PTL

LEMMA BreakerKept ==
  ASSUME Breaker!BreakerTypeOK, FlagsFollowStreaks,
         Breaker!RecordApiFailure \/ Breaker!RecordApiSuccess \/ UNCHANGED breakerVars
  PROVE  Breaker!BreakerTypeOK' /\ FlagsFollowStreaks'
PROOF
  <1> USE DEF FlagsFollowStreaks, Breaker!FlagsFollowStreaks, Breaker!wsChannel
  <1>0. apiTripped \in BOOLEAN /\ apiFailures \in Nat /\ MaxApiFailures \in Nat \ {0}
    BY MainAssumption DEF Breaker!BreakerTypeOK
  <1>1. CASE Breaker!RecordApiFailure
    <2>1. UNCHANGED <<wsDisconnects, wsTripped>>
      BY <1>1 DEF Breaker!RecordApiFailure
    <2>2. apiFailures >= MaxApiFailures => apiFailures + 1 >= MaxApiFailures
      BY <1>0
    <2>3. apiFailures' = apiFailures + 1 /\ apiFailures' \in Nat
      BY <1>0, <1>1 DEF Breaker!RecordApiFailure
    <2>4. apiTripped' = (apiTripped \/ apiFailures + 1 >= MaxApiFailures)
      BY <1>1, Zenon DEF Breaker!RecordApiFailure
    <2>5. apiTripped' \in BOOLEAN /\ (apiTripped' <=> apiFailures + 1 >= MaxApiFailures)
      BY <2>2, <2>4, Zenon
    <2>6. Breaker!BreakerTypeOK'
      BY <2>1, <2>3, <2>5 DEF Breaker!BreakerTypeOK
    <2> QED BY <2>1, <2>3, <2>5, <2>6, Zenon
  <1>2. CASE Breaker!RecordApiSuccess
    <2>1. UNCHANGED <<wsDisconnects, wsTripped>> /\ apiFailures' = 0 /\ apiTripped' = FALSE
      BY <1>2 DEF Breaker!RecordApiSuccess
    <2>2. ~(apiFailures' >= MaxApiFailures)
      BY <1>0, <2>1
    <2>3. Breaker!BreakerTypeOK'
      BY <2>1 DEF Breaker!BreakerTypeOK
    <2> QED BY <2>1, <2>2, <2>3, Zenon
  <1>3. CASE UNCHANGED breakerVars
    BY <1>3, Zenon DEF breakerVars, Breaker!BreakerTypeOK
  <1> QED BY <1>1, <1>2, <1>3

LEMMA InitBase == MainInit => BaseInv
PROOF
  <1> SUFFICES ASSUME MainInit PROVE BaseInv
    OBVIOUS
  <1> USE DEF MainInit
  <1>1. OwnTypes
    <2>1. 1 \in 1 .. Len(MarketOrder)
      BY MainAssumption
    <2>2. NoSignal \in [trade : BOOLEAN, side : SignalSides \cup {"none"}, fill : 0 .. OrderSize]
      BY MainAssumption DEF NoSignal
    <2> QED BY <2>1, <2>2 DEF OwnTypes, Awaits
  <1>2. ComponentsInv
    <2>1. AccountInv
      BY AccountInitInv
    <2>2. OnlyStrategyOwns
      BY DEF AccountInit, OnlyStrategyOwns
    <2>3. Trader!TraderTypeOK
      BY DEF Trader!TraderInit, Trader!TraderTypeOK
    <2>4. Breaker!BreakerTypeOK /\ FlagsFollowStreaks
      BY FreshBreaker
    <2> QED BY <2>1, <2>2, <2>3, <2>4 DEF ComponentsInv
  <1>3. StageInv
    BY DEF StageInv, InTrade, Judged, NoSignal
  <1> QED BY <1>1, <1>2, <1>3 DEF BaseInv

LEMMA ComponentsKept ==
  ASSUME BaseInv, MainNext \/ UNCHANGED mainVars
  PROVE  ComponentsInv'
PROOF
  <1> USE DEF BaseInv, ComponentsInv
  <1>0. Market \in Markets
    BY MarketInTurn DEF OwnTypes
  <1>1. AccountInv' /\ OnlyStrategyOwns'
    <2>1. CASE UNCHANGED accountVars
      BY <2>1, AccountStutterInv DEF OnlyStrategyOwns, accountVars
    <2>2. CASE AccountInit'
      BY <2>2, AccountFresh DEF AccountInit, OnlyStrategyOwns
    <2>3. CASE RecordOpen(Market, Strategy, signal.fill)
      <3>1. signal.fill \in Nat /\ Strategy \in Strategies
        BY MainAssumption DEF OwnTypes
      <3>2. AccountInv'
        BY <1>0, <2>3, <3>1, RecordOpenInv
      <3>3. OnlyStrategyOwns'
        BY <1>0, <2>3 DEF RecordOpen, OwnerAfterOpen, OnlyStrategyOwns, AccountInv, AccountTypeOK
      <3> QED BY <3>2, <3>3
    <2> QED BY <2>1, <2>2, <2>3, StepOfAccount
  <1>2. Trader!TraderTypeOK'
    <2>1. CASE UNCHANGED traderVars
      BY <2>1 DEF traderVars, Trader!TraderTypeOK
    <2>2. CASE Trader!TraderInit'
      BY <2>2 DEF Trader!TraderInit, Trader!TraderTypeOK
    <2>3. CASE Trade
      <3>1. signal.side \in {"yes", "no", "both"} /\ signal.side # "both"
        BY <2>3, MainAssumption
        DEF Trade, Goes, Trader!ExecuteRefused, StageInv, Judged
      <3>2. PICK n \in 0 .. OrderSize : Trader!Fill(Market, signal.side, n)
        BY <2>3 DEF Trade, Trader!VisibleFills
      <3> QED BY <1>0, <3>1, <3>2, MainAssumption
              DEF Trader!Fill, Trader!TraderTypeOK, Trader!Outcomes
    <2> QED BY <2>1, <2>2, <2>3, StepOfTrader
  <1>3. Breaker!BreakerTypeOK' /\ FlagsFollowStreaks'
    BY StepOfBreaker, BreakerKept, FreshBreakerNext
  <1> QED BY <1>1, <1>2, <1>3

-----------------------------------------------------------------------------
(* What the Governor has checked when it lets a signal be traded. *)

LEMMA StrategyOwnsAll ==
  ASSUME AccountInv, OnlyStrategyOwns
  PROVE  StrategyExposure(Strategy) = Total(notional)
PROOF
  <1>1. notional \in [Markets -> Nat]
    BY DEF AccountInv, AccountTypeOK
  <1>2. \A m \in Markets : OfStrategy(notional, Strategy)[m] = notional[m]
    BY NoStrategyAssumption, MainAssumption
    DEF OfStrategy, OnlyStrategyOwns, AccountInv, AttributionMatchesExposure, IsOpen
  <1>3. OfStrategy(notional, Strategy) \in [Markets -> Nat]
    BY <1>1 DEF OfStrategy
  <1>4. OfStrategy(notional, Strategy) = notional
    BY <1>1, <1>2, <1>3
  <1> QED BY <1>4 DEF StrategyExposure

LEMMA TradeMeansNoReason ==
  ASSUME NEW in, Evaluate(in).action = "paper_trade"
  PROVE  SystemReasons(in.system) = {} /\ ExposureReasons(in.account) = {}
PROOF
  <1>1. HardRejectReasons(in) = {}
    BY DEF Evaluate
  <1> QED BY <1>1 DEF HardRejectReasons, AccountReasons

LEMMA JudgedSoundly ==
  ASSUME AccountInv, OnlyStrategyOwns,
         NEW kind, NEW told, NEW scores, NEW side,
         Evaluate(Input(kind, told, scores, side)).action = "paper_trade"
  PROVE  ~apiTripped /\ Total(notional) < StrategyCap
PROOF
  <1> DEFINE in == Input(kind, told, scores, side)
  <1>1. SystemReasons(in.system) = {} /\ ExposureReasons(in.account) = {}
    BY TradeMeansNoReason
  <1>2. in.system.apiHealthy
    BY <1>1 DEF SystemReasons
  <1>3. ~apiTripped
    BY <1>2 DEF Input, Health, Breaker!ApiHealthy
  <1>4. ~(in.account.strategyExposure >= StrategyCap)
    BY <1>1 DEF ExposureReasons
  <1>5. in.account.strategyExposure = Total(notional)
    BY StrategyOwnsAll DEF Input, AccountFields
  <1>6. Total(notional) \in Nat /\ StrategyCap \in Nat
    BY TotalType, LimitsAssumption DEF AccountInv, AccountTypeOK
  <1> QED BY <1>3, <1>4, <1>5, <1>6

-----------------------------------------------------------------------------
(* The cycle's own variables, and what is known at each await. *)

\* The steps that end a market's turn.
EndOfTurn ==
  SkipMarket \/ MarketRaises \/ NothingTraded \/ Ledger \/ LedgerRaises \/ TradeRaises

LEMMA StepCases ==
  ASSUME MainNext \/ UNCHANGED mainVars
  PROVE  \/ Move \/ StartProcess \/ Crash \/ UNCHANGED mainVars
         \/ GetMarkets \/ Judge \/ SaveSignal \/ Trade \/ SaveOrder \/ EndOfTurn
PROOF
  BY DEF MainNext, TaskStep, Move, EndOfTurn, BoundReached

LEMMA EndsOfTurns ==
  ASSUME EndOfTurn
  PROVE  NextMarket
PROOF
  BY DEF EndOfTurn, SkipMarket, MarketRaises, NothingTraded, Ledger, LedgerRaises, TradeRaises,
         MarketFailed, MarketDone

LEMMA NoSignalTyped ==
  NoSignal \in [trade : BOOLEAN, side : SignalSides \cup {"none"}, fill : 0 .. OrderSize]
PROOF
  BY MainAssumption DEF NoSignal

LEMMA OwnTypesKept ==
  ASSUME BaseInv, MainNext \/ UNCHANGED mainVars
  PROVE  OwnTypes'
PROOF
  <1> USE DEF BaseInv, OwnTypes, Awaits
  <1>0. Market \in Markets /\ Len(MarketOrder) \in Nat \ {0} /\ OrderSize \in Nat
    BY MarketInTurn, MainAssumption
  <1>1. CASE Move
    <2>1. pc' \in Awaits
      BY <1>1 DEF Move, Started, HandleShutdown, Cycle, LeaveLoop, Sleep, Stop, Goes, place
    <2>2. running' \in BOOLEAN
      BY <1>1 DEF Move, Started, HandleShutdown, Cycle, LeaveLoop, Sleep, Stop
    <2>3. turn' \in {turn, 1} /\ cycles' \in {cycles, cycles + 1}
      BY <1>1 DEF Move, Started, HandleShutdown, Cycle, LeaveLoop, Sleep, Stop, Nowhere, place
    <2>4. turn' \in 1 .. Len(MarketOrder) /\ cycles' \in Nat
      BY <1>0, <2>3
    <2>5. UNCHANGED <<tables, lost, signal, saved, lives>>
      BY <1>1, Moves
    <2> QED BY <2>1, <2>2, <2>4, <2>5 DEF tables
  <1>2. CASE StartProcess
    <2>1. Total(row) \in Nat /\ orphans \in Nat /\ orphans' = orphans + Total(row)
      BY <1>2, TotalType DEF StartProcess
    <2>2. orphans' \in Nat
      BY <2>1
    <2>3. row' = [m \in Markets |-> 0] /\ lives' = lives + 1 /\ running' = FALSE
      BY <1>2 DEF StartProcess
    <2>4. pc' = "starting" /\ UNCHANGED <<turn, signal, saved, cycles, dbOrders, lost>>
      BY <1>2 DEF StartProcess, Goes, Nowhere
    <2>5. row' \in [Markets -> Nat]
      BY <2>3
    <2>6. lives' \in Nat
      BY <2>3
    <2>8. pc' \in Awaits
      BY <2>4
    <2>9. running' \in BOOLEAN
      BY <2>3, Zenon
    <2>7. turn' \in 1 .. Len(MarketOrder)
      BY <2>4
    <2> QED BY <2>2, <2>4, <2>5, <2>6, <2>7, <2>8, <2>9
  <1>3. CASE Crash
    BY <1>3, NoSignalTyped DEF Crash, tables
  <1>4. CASE UNCHANGED mainVars
    BY <1>4 DEF mainVars, place, tables
  <1>5. CASE GetMarkets
    BY <1>5 DEF GetMarkets, Goes, Nowhere, tables
  <1>6. CASE Judge
    <2>1. signal' \in [trade : BOOLEAN, side : SignalSides \cup {"none"}, fill : 0 .. OrderSize]
      <3>1. PICK kind \in MarketKinds, told \in Books, scores \in SignalScores, side \in SignalSides :
              signal' = [NoSignal EXCEPT
                           !.trade = Evaluate(Input(kind, told, scores, side)).action = "paper_trade",
                           !.side = side]
        BY <1>6 DEF Judge
      <3> DEFINE allowed == Evaluate(Input(kind, told, scores, side)).action = "paper_trade"
      <3>2. allowed \in BOOLEAN
        OBVIOUS
      <3>3. signal' = [NoSignal EXCEPT !.trade = allowed, !.side = side]
        BY <3>1
      <3> HIDE DEF allowed
      <3>4. signal' = [trade |-> allowed, side |-> side, fill |-> 0]
        BY <3>3 DEF NoSignal
      <3> QED BY <1>0, <3>2, <3>4
    <2> QED BY <1>6, <2>1 DEF Judge, Goes, tables
  <1>7. CASE SaveSignal
    BY <1>7 DEF SaveSignal, Goes, tables
  <1>8. CASE Trade
    BY <1>8 DEF Trade, Goes, SavedFirst, tables, Trader!VisibleFills
  <1>9. CASE SaveOrder
    BY <1>0, <1>9 DEF SaveOrder, Goes, Nowhere
  <1>10. CASE EndOfTurn
    <2>1. /\ signal' = NoSignal /\ saved' = {}
          /\ turn' \in 1 .. Len(MarketOrder) /\ pc' \in Awaits
          /\ UNCHANGED <<running, cycles, lives>>
      BY <1>0, <1>10, EndsOfTurns DEF NextMarket
    <2>2. /\ dbOrders' = dbOrders /\ orphans' = orphans
          /\ lost' \in {lost, lost + 1}
          /\ row' = row \/ row' = [row EXCEPT ![Market] = cost[Market]]
      BY <1>10
      DEF EndOfTurn, SkipMarket, MarketRaises, NothingTraded, Ledger, LedgerRaises, TradeRaises,
          SavePosition, tables
    <2>3. cost[Market] \in Nat
      BY <1>0 DEF ComponentsInv, Trader!TraderTypeOK
    <2> QED BY <1>0, <2>1, <2>2, <2>3, NoSignalTyped
  <1> QED BY <1>1, <1>2, <1>3, <1>4, <1>5, <1>6, <1>7, <1>8, <1>9, <1>10, StepCases

LEMMA StageKept ==
  ASSUME BaseInv, MainNext \/ UNCHANGED mainVars
  PROVE  StageInv'
PROOF
  <1> USE DEF BaseInv, StageInv, Judged, InTrade
  <1>1. CASE Move
    BY <1>1, Moves DEF memory, accountVars, breakerVars
  <1>2. CASE StartProcess
    BY <1>2 DEF StartProcess, Goes, Nowhere
  <1>3. CASE Crash
    BY <1>3 DEF Crash, NoSignal
  <1>4. CASE UNCHANGED mainVars
    BY <1>4 DEF mainVars, place, memory, accountVars, breakerVars
  <1>5. CASE GetMarkets
    BY <1>5 DEF GetMarkets, Goes, Nowhere
  <1>6. CASE Judge
    <2>1. PICK kind \in MarketKinds, told \in Books, scores \in SignalScores, side \in SignalSides :
            signal' = [NoSignal EXCEPT
                         !.trade = Evaluate(Input(kind, told, scores, side)).action = "paper_trade",
                         !.side = side]
      BY <1>6 DEF Judge
    <2>2. signal'.side \in SignalSides /\ signal'.fill = 0
      BY <2>1 DEF NoSignal
    <2>3. signal'.trade => ~apiTripped /\ Total(notional) < StrategyCap
      <3>1. signal'.trade => Evaluate(Input(kind, told, scores, side)).action = "paper_trade"
        BY <2>1 DEF NoSignal
      <3> QED BY <3>1, JudgedSoundly DEF ComponentsInv
    <2>4. UNCHANGED <<notional, apiTripped>> /\ pc' = "save_signal"
      BY <1>6 DEF Judge, Goes, memory, accountVars, breakerVars
    <2> QED BY <2>2, <2>3, <2>4
  <1>7. CASE SaveSignal
    BY <1>7 DEF SaveSignal, Goes, memory, accountVars, breakerVars
  <1>8. CASE Trade
    <2>1. PICK n \in 0 .. OrderSize :
            n > 0 /\ signal' = [signal EXCEPT !.fill = n]
      BY <1>8 DEF Trade, Trader!VisibleFills, Trader!Fill
    <2>2. signal'.fill > 0 /\ signal'.trade = signal.trade /\ signal'.side = signal.side
      BY <2>1 DEF OwnTypes
    <2>3. signal.trade
      BY <1>8 DEF Trade, Trader!ExecuteRefused
    <2>4. saved' = {"signal", "decision"}
      BY <1>8 DEF Trade, Goes, SavedFirst, OwnTypes
    <2>5. UNCHANGED <<notional, apiTripped>> /\ pc = "save_decision" /\ pc' = "save_order"
      BY <1>8 DEF Trade, Goes, accountVars, breakerVars
    <2> QED BY <2>2, <2>3, <2>4, <2>5
  <1>9. CASE SaveOrder
    BY <1>9 DEF SaveOrder, Goes, Nowhere, memory, accountVars, breakerVars
  <1>10. CASE EndOfTurn
    <2>1. signal' = NoSignal /\ pc' \in {"book", "sleep"}
      BY <1>10, EndsOfTurns DEF NextMarket
    <2> QED BY <2>1 DEF NoSignal
  <1> QED BY <1>1, <1>2, <1>3, <1>4, <1>5, <1>6, <1>7, <1>8, <1>9, <1>10, StepCases

LEMMA BaseKept == BaseInv /\ [MainNext]_mainVars => BaseInv'
PROOF
  BY ComponentsKept, OwnTypesKept, StageKept DEF BaseInv

(* Types, the components' own invariants and what is known at each await   *)
(* of the cycle hold throughout (main.py run_cycle, _process_signal).      *)
THEOREM BaseInvariant == MainSpec => []BaseInv
PROOF
  BY InitBase, BaseKept, PTL DEF MainSpec

-----------------------------------------------------------------------------
(* The records of one market: ledger, orders, row and position. *)

LEMMA BaseTypes ==
  ASSUME BaseInv
  PROVE  /\ Market \in Markets
         /\ signal.fill \in Nat /\ signal.fill <= OrderSize /\ OrderSize \in Nat
         /\ notional \in [Markets -> Nat] /\ cost \in [Markets -> Nat]
         /\ row \in [Markets -> Nat] /\ dbOrders \in [Markets -> Nat]
         /\ orphans \in Nat /\ lost \in Nat /\ lives \in Nat
PROOF
  <1>1. OwnTypes /\ ComponentsInv
    BY DEF BaseInv
  <1>2. Market \in Markets
    BY <1>1, MarketInTurn DEF OwnTypes
  <1>3. OrderSize \in Nat
    BY MainAssumption
  <1>4. signal.fill \in 0 .. OrderSize
    BY <1>1 DEF OwnTypes
  <1>5. row \in [Markets -> Nat] /\ dbOrders \in [Markets -> Nat]
    BY <1>1 DEF OwnTypes
  <1>6. notional \in [Markets -> Nat]
    BY <1>1 DEF ComponentsInv, AccountInv, AccountTypeOK
  <1>7. cost \in [Markets -> Nat]
    BY <1>1 DEF ComponentsInv, Trader!TraderTypeOK
  <1>8. orphans \in Nat /\ lost \in Nat /\ lives \in Nat
    BY <1>1 DEF OwnTypes
  <1> QED BY <1>2, <1>3, <1>4, <1>5, <1>6, <1>7, <1>8

LEMMA RecordsInit == MainInit => RecordsInv
PROOF
  BY DEF MainInit, AccountInit, Trader!TraderInit, RecordsInv, LedgeredIsSaved, InTrade

LEMMA RecordsKept ==
  ASSUME BaseInv, RecordsInv, MainNext \/ UNCHANGED mainVars
  PROVE  RecordsInv'
PROOF
  <1> USE DEF RecordsInv, LedgeredIsSaved, InTrade
  <1>0. /\ Market \in Markets /\ signal.fill \in Nat
        /\ notional \in [Markets -> Nat] /\ cost \in [Markets -> Nat]
        /\ row \in [Markets -> Nat] /\ dbOrders \in [Markets -> Nat]
    BY BaseTypes
  <1>1. CASE Move
    <2>1. UNCHANGED <<notional, cost, outcome, row, dbOrders, signal>>
      BY <1>1, Moves DEF memory, accountVars, traderVars, tables
    <2>2. pc' \notin InTrade \/ (pc' = pc /\ Market' = Market)
      BY <1>1, Moves DEF Judged, Market
    <2> QED BY <2>1, <2>2
  <1>2. CASE StartProcess
    <2>1. /\ notional' = [m \in Markets |-> 0] /\ cost' = [m \in Markets |-> 0]
          /\ row' = [m \in Markets |-> 0] /\ dbOrders' = dbOrders /\ pc' = "starting"
      BY <1>2 DEF StartProcess, FreshMemory, Goes
    <2> QED BY <1>0, <2>1
  <1>3. CASE Crash
    BY <1>3 DEF Crash, memory, accountVars, traderVars, tables
  <1>4. CASE UNCHANGED mainVars
    <2>1. UNCHANGED <<notional, cost, outcome, row, dbOrders, signal, pc>> /\ Market' = Market
      BY <1>4 DEF mainVars, memory, accountVars, traderVars, tables, place, Market
    <2> QED BY <2>1
  <1>5. CASE GetMarkets \/ Judge \/ SaveSignal
    BY <1>5 DEF GetMarkets, Judge, SaveSignal, Goes, memory, accountVars, traderVars, tables
  <1>6. CASE Trade
    <2>1. PICK n \in 0 .. OrderSize :
            /\ n > 0 /\ signal'.fill = n
            /\ cost' = [cost EXCEPT ![Market] = @ + n]
            /\ outcome' = [outcome EXCEPT ![Market] = signal.side]
      BY <1>6 DEF Trade, Trader!VisibleFills, Trader!Fill, BaseInv, OwnTypes
    <2>2. UNCHANGED <<notional, row, dbOrders>> /\ pc' = "save_order" /\ Market' = Market
      BY <1>6 DEF Trade, Goes, accountVars, tables, Market
    <2>3. signal.side # "none" /\ outcome \in [Markets -> {"yes", "no", "none"}]
      BY <1>6, MainAssumption
      DEF Trade, Goes, BaseInv, StageInv, Judged, ComponentsInv, Trader!TraderTypeOK, Trader!Outcomes
    <2>4. n \in Nat
      BY MainAssumption
    <2>5. \A m \in Markets : cost'[m] > 0 => outcome'[m] # "none"
      BY <1>0, <2>1, <2>3
    <2>6. notional[Market] + n <= cost'[Market]
      BY <1>0, <2>1, <2>4
    <2>7. \A m \in Markets : row[m] <= cost'[m]
      BY <1>0, <2>1, <2>4
    <2> QED BY <2>1, <2>2, <2>5, <2>6, <2>7
  <1>7. CASE SaveOrder
    <2>1. /\ dbOrders' = [dbOrders EXCEPT ![Market] = @ + signal.fill]
          /\ UNCHANGED <<notional, cost, outcome, row, signal>> /\ Market' = Market
          /\ pc = "save_order" /\ pc' = "save_position"
      BY <1>7 DEF SaveOrder, Goes, Nowhere, memory, accountVars, traderVars, Market
    <2>2. notional[Market] + signal.fill <= dbOrders'[Market]
      BY <1>0, <2>1
    <2>3. \A m \in Markets : notional[m] <= dbOrders'[m]
      BY <1>0, <2>1
    <2> QED BY <2>1, <2>2, <2>3
  <1>8. CASE EndOfTurn
    <2>1. pc' \notin InTrade
      BY <1>8, EndsOfTurns DEF NextMarket
    <2>2. UNCHANGED <<cost, outcome, dbOrders>>
      BY <1>8
      DEF EndOfTurn, SkipMarket, MarketRaises, NothingTraded, Ledger, LedgerRaises, TradeRaises,
          memory, traderVars, tables
    <2>3. CASE Ledger
      <3>1. /\ pc = "save_position"
            /\ row' = [row EXCEPT ![Market] = cost[Market]]
            /\ notional' = [notional EXCEPT ![Market] = @ + signal.fill]
        BY <2>3 DEF Ledger, SavePosition, RecordOpen, LedgerNotional
      <3>2. \A m \in Markets : notional'[m] <= row'[m] /\ row'[m] <= cost[m]
        BY <1>0, <3>1
      <3>3. \A m \in Markets : notional'[m] <= dbOrders[m]
        BY <1>0, <3>1
      <3> QED BY <2>1, <2>2, <3>2, <3>3
    <2>4. CASE LedgerRaises
      <3>1. row' = [row EXCEPT ![Market] = cost[Market]] /\ notional' = notional
        BY <2>4 DEF LedgerRaises, SavePosition, accountVars
      <3>2. \A m \in Markets : notional'[m] <= row'[m] /\ row'[m] <= cost[m]
        BY <1>0, <3>1
      <3> QED BY <2>1, <2>2, <3>1, <3>2
    <2>5. CASE SkipMarket \/ MarketRaises \/ NothingTraded \/ TradeRaises
      <3>1. UNCHANGED <<notional, row>>
        BY <2>5 DEF SkipMarket, MarketRaises, NothingTraded, TradeRaises, memory, accountVars, tables
      <3> QED BY <2>1, <2>2, <3>1
    <2> QED BY <1>8, <2>3, <2>4, <2>5 DEF EndOfTurn
  <1> QED BY <1>1, <1>2, <1>3, <1>4, <1>5, <1>6, <1>7, <1>8, StepCases

-----------------------------------------------------------------------------
(* The money of all markets, and of all processes. *)

\* What may be in positions and not in the ledger.
Unledgered == OrderSize * lost + signal.fill

MoneyInv ==
  /\ PositionsBounded
  /\ Total(notional) <= ExposureBound
  /\ Total(cost) <= Total(notional) + Unledgered
  /\ lives = 0 => pc = "dead"
  /\ lives > 0 => orphans + Total(cost) + ExposureBound
                    <= Total(notional) + lives * ExposureBound + Unledgered

LEMMA BoundsTyped ==
  ASSUME BaseInv
  PROVE  /\ ExposureBound \in Nat /\ Unledgered \in Nat
         /\ lives * ExposureBound \in Nat
         /\ Total(notional) \in Nat /\ Total(cost) \in Nat /\ Total(row) \in Nat
PROOF
  <1>1. ExposureBound \in Nat
    BY MainAssumption, LimitsAssumption DEF ExposureBound
  <1>2. Unledgered \in Nat
    <2>1. OrderSize \in Nat /\ lost \in Nat /\ signal.fill \in Nat
      BY BaseTypes
    <2>2. OrderSize * lost \in Nat
      BY <2>1
    <2> QED BY <2>1, <2>2 DEF Unledgered
  <1>3. lives * ExposureBound \in Nat
    <2>1. lives \in Nat
      BY BaseTypes
    <2> HIDE DEF ExposureBound
    <2> QED BY <1>1, <2>1
  <1>4. Total(notional) \in Nat /\ Total(cost) \in Nat /\ Total(row) \in Nat
    BY BaseTypes, TotalType
  <1> QED BY <1>1, <1>2, <1>3, <1>4

SumsTyped ==
  Unledgered \in Nat /\ Total(notional) \in Nat /\ Total(cost) \in Nat /\ Total(row) \in Nat

RowsWithinCost == Total(row) <= Total(cost)

LEMMA SumsAreTyped == BaseInv => SumsTyped
PROOF
  BY BoundsTyped DEF SumsTyped

LEMMA SumsTypedNext == BaseInv' => SumsTyped'
PROOF
  BY SumsAreTyped, PTL

\* No row holds more than the position.
LEMMA RowsAreWithinCost == BaseInv /\ RecordsInv => RowsWithinCost
PROOF
  <1> SUFFICES ASSUME BaseInv, RecordsInv PROVE RowsWithinCost
    OBVIOUS
  <1>1. row \in [Markets -> Nat] /\ cost \in [Markets -> Nat]
    BY BaseTypes
  <1>2. \A m \in Markets : row[m] <= cost[m]
    BY DEF RecordsInv, LedgeredIsSaved
  <1> QED BY <1>1, <1>2, TotalMonotone DEF RowsWithinCost

LEMMA RowsNext == BaseInv' /\ RecordsInv' => RowsWithinCost'
PROOF
  BY RowsAreWithinCost, PTL

\* A dead process only starts.
LEMMA DeadStays ==
  ASSUME pc = "dead", MainNext \/ UNCHANGED mainVars, ~StartProcess
  PROVE  pc' = "dead" /\ UNCHANGED <<row, lost, signal>>
PROOF
  <1>1. CASE Move
    BY <1>1, Moves DEF tables
  <1>2. CASE UNCHANGED mainVars
    BY <1>2 DEF mainVars, place, tables
  <1>3. CASE Crash \/ GetMarkets \/ Judge \/ SaveSignal \/ Trade \/ SaveOrder \/ EndOfTurn
    BY <1>3
    DEF Crash, GetMarkets, Judge, SaveSignal, Trade, SaveOrder, Goes, EndOfTurn, SkipMarket,
        MarketRaises, NothingTraded, Ledger, LedgerRaises, TradeRaises
  <1> QED BY <1>1, <1>2, <1>3, StepCases

\* A fill given up counts as a lost order.
LEMMA FillGivenUp ==
  ASSUME BaseInv, signal' = NoSignal,
         lost' = lost + 1 \/ (lost' = lost /\ signal.fill = 0)
  PROVE  Unledgered <= Unledgered'
PROOF
  <1>1. /\ signal'.fill = 0 /\ signal.fill \in Nat /\ signal.fill <= OrderSize
        /\ OrderSize \in Nat /\ lost \in Nat
    BY BaseTypes DEF NoSignal
  <1>2. OrderSize * lost \in Nat /\ OrderSize * (lost + 1) = OrderSize * lost + OrderSize
    BY <1>1
  <1>3. CASE lost' = lost + 1
    <2>1. Unledgered' = OrderSize * (lost + 1) + 0
      BY <1>1, <1>3 DEF Unledgered
    <2> QED BY <1>1, <1>2, <2>1 DEF Unledgered
  <1>4. CASE lost' = lost /\ signal.fill = 0
    BY <1>1, <1>2, <1>4 DEF Unledgered
  <1> QED BY <1>3, <1>4

\* What a step puts into positions it puts into the ledger or leaves unledgered,
\* and the Governor has left room for what it puts into the ledger.
LEMMA StepsBalance ==
  ASSUME BaseInv, RecordsInv, MoneyInv, MainNext \/ UNCHANGED mainVars, ~StartProcess
  PROVE  /\ Total(cost') + Total(notional) + Unledgered
              <= Total(cost) + Total(notional') + Unledgered'
         /\ Total(notional') <= ExposureBound
         /\ Unledgered' \in Nat
         /\ UNCHANGED <<orphans, lives>>
PROOF
  <1>1. /\ Total(notional) \in Nat /\ Total(cost) \in Nat /\ Unledgered \in Nat
        /\ Total(notional) <= ExposureBound
    BY BoundsTyped DEF MoneyInv
  <1>2. BaseInv'
    BY BaseKept
  <1>3. Unledgered' \in Nat
    BY <1>2, SumsTypedNext DEF SumsTyped
  <1>4. CASE \/ Move \/ UNCHANGED mainVars \/ GetMarkets \/ Judge \/ SaveSignal \/ SaveOrder
    <2>1. UNCHANGED <<notional, cost, lost, orphans, lives>>
      <3>1. CASE Move
        BY <3>1, Moves DEF memory, accountVars, traderVars, tables
      <3>2. CASE UNCHANGED mainVars \/ GetMarkets \/ Judge \/ SaveSignal \/ SaveOrder
        BY <3>2
        DEF mainVars, GetMarkets, Judge, SaveSignal, SaveOrder,
            memory, accountVars, traderVars, tables
      <3> QED BY <1>4, <3>1, <3>2
    <2>2. signal'.fill = signal.fill
      <3>1. CASE Move
        BY <3>1, Moves
      <3>2. CASE Judge
        BY <3>2 DEF Judge, Goes, NoSignal, BaseInv, StageInv, InTrade
      <3>3. CASE UNCHANGED mainVars \/ GetMarkets \/ SaveSignal \/ SaveOrder
        BY <3>3 DEF mainVars, place, GetMarkets, SaveSignal, SaveOrder, Nowhere
      <3> QED BY <1>4, <3>1, <3>2, <3>3
    <2>3. Unledgered' = Unledgered
      BY <2>1, <2>2 DEF Unledgered
    <2> QED BY <1>1, <1>3, <2>1, <2>3
  <1>5. CASE Crash
    <2>1. signal' = NoSignal /\ (lost' = lost + 1 \/ (lost' = lost /\ ~(signal.fill > 0)))
      <3>1. signal.fill > 0 => lost' = lost + 1
        BY <1>5 DEF Crash
      <3>2. ~(signal.fill > 0) => lost' = lost + 0
        BY <1>5 DEF Crash
      <3>3. lost \in Nat
        BY BaseTypes
      <3> QED BY <1>5, <3>1, <3>2, <3>3 DEF Crash
    <2>2. signal.fill \in Nat
      BY BaseTypes
    <2>3. Unledgered <= Unledgered'
      BY <2>1, <2>2, FillGivenUp
    <2>4. UNCHANGED <<notional, cost, orphans, lives>>
      BY <1>5 DEF Crash, memory, accountVars, traderVars, tables
    <2> QED BY <1>1, <1>3, <2>3, <2>4
  <1>6. CASE Trade
    <2>1. PICK n \in 0 .. OrderSize :
            signal'.fill = n /\ cost' = [cost EXCEPT ![Market] = @ + n]
      BY <1>6 DEF Trade, Trader!VisibleFills, Trader!Fill, BaseInv, OwnTypes
    <2>2. Market \in Markets /\ cost \in [Markets -> Nat] /\ n \in Nat
      BY BaseTypes, MainAssumption
    <2>3. Total(cost') = Total(cost) + n
      BY <2>1, <2>2, TotalRaised
    <2>4. UNCHANGED <<notional, lost, orphans, lives>> /\ signal.fill = 0
      BY <1>6 DEF Trade, Goes, accountVars, tables, BaseInv, StageInv, InTrade
    <2>5. Unledgered' = Unledgered + n
      <3>1. OrderSize * lost \in Nat
        BY BaseTypes
      <3> QED BY <2>1, <2>2, <2>4, <3>1 DEF Unledgered
    <2> QED BY <1>1, <1>3, <2>2, <2>3, <2>4, <2>5
  <1>7. CASE Ledger
    <2>1. /\ notional' = [notional EXCEPT ![Market] = @ + signal.fill]
          /\ UNCHANGED <<cost, lost, orphans, lives>> /\ signal' = NoSignal
      BY <1>7 DEF Ledger, RecordOpen, LedgerNotional, MarketDone, NextMarket, traderVars
    <2>2. Market \in Markets /\ notional \in [Markets -> Nat] /\ signal.fill \in Nat
      BY BaseTypes
    <2>3. Total(notional') = Total(notional) + signal.fill
      BY <2>1, <2>2, TotalRaised
    <2>4. Unledgered' + signal.fill = Unledgered
      <3>1. OrderSize * lost \in Nat /\ signal'.fill = 0
        BY <2>1, BaseTypes DEF NoSignal
      <3> QED BY <2>1, <2>2, <3>1 DEF Unledgered
    <2>5. Total(notional) < StrategyCap
      BY <1>7 DEF Ledger, BaseInv, StageInv, InTrade, Judged
    <2>6. signal.fill <= OrderSize /\ OrderSize \in Nat /\ StrategyCap \in Nat
      BY BaseTypes, LimitsAssumption
    <2>7. Total(notional') <= ExposureBound
      BY <1>1, <2>2, <2>3, <2>5, <2>6 DEF ExposureBound
    <2> QED BY <1>1, <1>3, <2>1, <2>2, <2>3, <2>4, <2>7
  <1>8. CASE EndOfTurn /\ ~Ledger
    <2>1. UNCHANGED <<notional, cost, orphans, lives>> /\ signal' = NoSignal
      <3>1. signal' = NoSignal /\ lives' = lives
        BY <1>8, EndsOfTurns DEF NextMarket
      <3>2. UNCHANGED <<notional, cost, orphans>>
        BY <1>8
        DEF EndOfTurn, SkipMarket, MarketRaises, NothingTraded, LedgerRaises, TradeRaises,
            memory, accountVars, traderVars, tables
      <3> QED BY <3>1, <3>2
    <2>2. lost' = lost + 1 \/ (lost' = lost /\ signal.fill = 0)
      BY <1>8
      DEF EndOfTurn, SkipMarket, MarketRaises, NothingTraded, LedgerRaises, TradeRaises,
          BaseInv, StageInv, InTrade
    <2>3. Unledgered <= Unledgered'
      BY <2>1, <2>2, FillGivenUp
    <2> QED BY <1>1, <1>3, <2>1, <2>3
  <1> QED BY <1>4, <1>5, <1>6, <1>7, <1>8, StepCases

LEMMA MoneyInit == MainInit => MoneyInv
PROOF
  <1> SUFFICES ASSUME MainInit PROVE MoneyInv
    OBVIOUS
  <1>1. BaseInv
    BY InitBase
  <1>2. /\ Total(notional) = 0 /\ Total(cost) = 0 /\ Total(row) = 0
        /\ lives = 0 /\ orphans = 0 /\ pc = "dead"
    BY TotalOfNothing DEF MainInit, AccountInit, Trader!TraderInit
  <1>3. ExposureBound \in Nat /\ Unledgered \in Nat /\ lives * ExposureBound = 0
    BY <1>1, <1>2, BoundsTyped
  <1> QED BY <1>2, <1>3 DEF MoneyInv, PositionsBounded, Unledgered

LEMMA MoneyKept ==
  ASSUME BaseInv, RecordsInv, MoneyInv, MainNext \/ UNCHANGED mainVars
  PROVE  MoneyInv'
PROOF
  <1>1. BaseInv' /\ RecordsInv'
    BY BaseKept, RecordsKept
  <1>2. /\ ExposureBound \in Nat /\ lives \in Nat /\ orphans \in Nat
        /\ Unledgered \in Nat /\ lives * ExposureBound \in Nat
        /\ Total(notional) \in Nat /\ Total(cost) \in Nat /\ Total(row) \in Nat
    BY BoundsTyped, BaseTypes
  <1>3. /\ Unledgered' \in Nat /\ Total(row') \in Nat /\ Total(cost') \in Nat
        /\ Total(notional') \in Nat
    BY <1>1, SumsTypedNext DEF SumsTyped
  <1>4. Total(row') <= Total(cost')
    BY <1>1, RowsNext DEF RowsWithinCost
  <1>5. CASE StartProcess
    <2>1. /\ lives' = lives + 1 /\ pc' = "starting" /\ orphans' = orphans + Total(row)
          /\ cost' = [m \in Markets |-> 0] /\ notional' = [m \in Markets |-> 0]
          /\ row' = [m \in Markets |-> 0] /\ UNCHANGED <<signal, lost>>
      BY <1>5 DEF StartProcess, FreshMemory, Goes, Nowhere
    <2>2. Total(cost') = 0 /\ Total(notional') = 0 /\ Total(row') = 0
      BY <2>1, TotalOfNothing
    <2>3. Unledgered' = Unledgered
      BY <2>1 DEF Unledgered
    <2>4. Total(row) + orphans <= lives * ExposureBound + Unledgered
      BY DEF MoneyInv, PositionsBounded, Unledgered
    <2>5. (lives + 1) * ExposureBound = lives * ExposureBound + ExposureBound
      BY <1>2
    <2>6. lives' * ExposureBound = lives * ExposureBound + ExposureBound
      BY <2>1, <2>5
    <2>7. orphans' + ExposureBound <= lives' * ExposureBound + Unledgered'
      BY <1>2, <2>1, <2>3, <2>4, <2>6
    <2>8. Total(row') + orphans' <= lives' * ExposureBound + Unledgered'
      BY <1>2, <2>1, <2>2, <2>3, <2>4, <2>6
    <2>9. lives' # 0
      BY <1>2, <2>1
    <2>10. PositionsBounded'
      BY <1>2, <1>3, <2>2, <2>8 DEF PositionsBounded, Unledgered, ExposureBound
    <2>11. Total(notional') <= ExposureBound /\ Total(cost') <= Total(notional') + Unledgered'
      <3>1. Total(notional') <= ExposureBound
        BY <1>2, <2>2
      <3>2. \A u \in Nat : 0 <= 0 + u
        OBVIOUS
      <3>3. Total(cost') <= Total(notional') + Unledgered'
        BY <1>3, <2>2, <3>2, Zenon
      <3> QED BY <3>1, <3>3
    <2>12. orphans' + Total(cost') + ExposureBound
             <= Total(notional') + lives' * ExposureBound + Unledgered'
      <3>1. orphans' \in Nat /\ lives' * ExposureBound \in Nat
        BY <1>2, <2>1, <2>6
      <3> QED BY <1>2, <1>3, <2>2, <2>7, <3>1
    <2> QED BY <2>9, <2>10, <2>11, <2>12 DEF MoneyInv, ExposureBound
  <1>6. CASE ~StartProcess
    <2>1. /\ Total(cost') + Total(notional) + Unledgered
               <= Total(cost) + Total(notional') + Unledgered'
          /\ Total(notional') <= ExposureBound
          /\ orphans' = orphans /\ lives' = lives
      BY <1>6, StepsBalance
    <2>2. Total(cost') <= Total(notional') + Unledgered'
      BY <1>2, <1>3, <2>1 DEF MoneyInv
    <2>3. lives = 0 => pc' = "dead" /\ UNCHANGED <<row, lost, signal>>
      BY <1>6, DeadStays DEF MoneyInv
    <2>4. lives > 0 => orphans' + Total(cost') + ExposureBound
                         <= Total(notional') + lives * ExposureBound + Unledgered'
      BY <1>2, <1>3, <2>1 DEF MoneyInv
    <2>5. Total(row') + orphans' <= lives * ExposureBound + Unledgered'
      <3>1. CASE lives > 0
        BY <1>2, <1>3, <1>4, <2>1, <2>4, <3>1
      <3>2. CASE lives = 0
        <4>1. Total(row') = Total(row) /\ Unledgered' = Unledgered
          BY <2>3, <3>2 DEF Unledgered
        <4> QED BY <2>1, <4>1 DEF MoneyInv, PositionsBounded, Unledgered
      <3> QED BY <1>2, <3>1, <3>2
    <2>6. Total(cost') <= ExposureBound + Unledgered'
      BY <1>2, <1>3, <2>1, <2>2
    <2> QED BY <2>1, <2>2, <2>3, <2>4, <2>5, <2>6 DEF MoneyInv, PositionsBounded, Unledgered, ExposureBound
  <1> QED BY <1>5, <1>6
-----------------------------------------------------------------------------
MainInv == BaseInv /\ RecordsInv /\ MoneyInv

(* The inductive invariant of the main cycle: types, what is known at each *)
(* await, and how far ledger, database and trader may be apart (main.py).  *)
THEOREM MainInvariant == MainSpec => []MainInv
PROOF
  <1>1. MainInit => MainInv
    BY InitBase, RecordsInit, MoneyInit DEF MainInv
  <1>2. MainInv /\ [MainNext]_mainVars => MainInv'
    BY BaseKept, RecordsKept, MoneyKept DEF MainInv
  <1> QED BY <1>1, <1>2, PTL DEF MainSpec

(* The cycle and the components it drives keep their types, whatever       *)
(* raises and whenever the process dies (main.py run_cycle).               *)
THEOREM MainTyped == MainSpec => []MainTypeOK
PROOF
  <1>1. MainInv => MainTypeOK
    BY DEF MainInv, BaseInv, OwnTypes, ComponentsInv, AccountInv, MainTypeOK
  <1> QED BY <1>1, MainInvariant, PTL

(* No fill is in hand without its signal and decision in the database, at  *)
(* every await (run_cycle, the saves before _process_signal).              *)
THEOREM TradesAreAlwaysAudited == MainSpec => []TradesAreAudited
PROOF
  <1>1. MainInv => TradesAreAudited
    BY DEF MainInv, BaseInv, StageInv, TradesAreAudited
  <1> QED BY <1>1, MainInvariant, PTL

(* What the ledger counts is in the rows and orders of the database, and   *)
(* no row exceeds the trader's position (_process_signal).                 *)
THEOREM LedgerNeverRunsAhead == MainSpec => []LedgeredIsSaved
PROOF
  <1>1. MainInv => LedgeredIsSaved
    BY DEF MainInv, RecordsInv
  <1> QED BY <1>1, MainInvariant, PTL

(* The strategy cap holds up to one order and one order for each fill the  *)
(* ledger missed, and anew for each start, for any number of starts, cap   *)
(* and order size (exposure_guard.py, main.py).                            *)
THEOREM PositionsAreBounded == MainSpec => []PositionsBounded
PROOF
  <1>1. MainInv => PositionsBounded
    BY DEF MainInv, MoneyInv
  <1> QED BY <1>1, MainInvariant, PTL

(* The API flag is up exactly while the failures in a row have reached the *)
(* limit, for every limit (circuit_breaker.py, run_cycle).                 *)
THEOREM BreakerFollowsStreak == MainSpec => []FlagsFollowStreaks
PROOF
  <1>1. MainInv => FlagsFollowStreaks
    BY DEF MainInv, BaseInv, ComponentsInv
  <1> QED BY <1>1, MainInvariant, PTL

-----------------------------------------------------------------------------
CostsTyped == cost \in [Markets -> Nat]

LEMMA CostsAreTyped == MainInv => CostsTyped
PROOF
  BY BaseTypes DEF MainInv, CostsTyped

LEMMA CostsTypedNext == MainInv' => CostsTyped'
PROOF
  BY CostsAreTyped, PTL

\* The one step that adds to a position.
LEMMA OnlyTradeAdds ==
  ASSUME MainInv, MainNext \/ UNCHANGED mainVars, NEW m \in Markets, cost[m] < cost'[m]
  PROVE  Trade
PROOF
  <1>1. cost \in [Markets -> Nat]
    BY BaseTypes DEF MainInv
  <1>2. cost[m] \in Nat
    BY <1>1
  <1>3. ~UNCHANGED traderVars
    BY <1>2 DEF traderVars
  <1>4. ~(Trader!TraderInit')
    BY <1>2 DEF Trader!TraderInit
  <1> QED BY <1>3, <1>4, StepOfTrader

(* Nothing is added to a position while the API channel is tripped: a      *)
(* trade follows a judgement that saw it healthy, and no failure is        *)
(* recorded between the two (run_cycle, risk_governor.py).                 *)
THEOREM TripStopsTrading == MainSpec => TrippedNeverTrades
PROOF
  <1> DEFINE Keeps == apiTripped => \A m \in Markets : cost'[m] <= cost[m]
  <1>1. MainInv /\ [MainNext]_mainVars => [Keeps]_mainVars
    <2> SUFFICES ASSUME MainInv, MainNext, apiTripped, NEW m \in Markets
                 PROVE  cost'[m] <= cost[m]
      OBVIOUS
    <2>1. cost \in [Markets -> Nat]
      BY BaseTypes DEF MainInv
    <2>2. MainInv'
      BY BaseKept, RecordsKept, MoneyKept DEF MainInv
    <2>3. CostsTyped'
      BY <2>2, CostsTypedNext
    <2>4. CASE cost[m] < cost'[m]
      <3>1. Trade
        BY <2>4, OnlyTradeAdds
      <3>2. signal.trade /\ pc = "save_decision"
        BY <3>1 DEF Trade, Goes, Trader!ExecuteRefused
      <3> QED BY <3>2 DEF MainInv, BaseInv, StageInv, Judged
    <2> QED BY <2>1, <2>3, <2>4 DEF CostsTyped
  <1> QED BY <1>1, MainInvariant, PTL DEF MainSpec, TrippedNeverTrades

(* Money is only ever added to a position of the same outcome, in any      *)
(* sequence of signals (PaperTrader.execute).                              *)
THEOREM OutcomesAreNeverMixed == MainSpec => OutcomesNeverMix
PROOF
  <1> DEFINE Keeps == \A m \in Markets :
                        0 < cost[m] /\ cost[m] < cost'[m] => outcome'[m] = outcome[m]
  <1>1. MainInv /\ [MainNext]_mainVars => [Keeps]_mainVars
    <2> SUFFICES ASSUME MainInv, MainNext, NEW m \in Markets, 0 < cost[m], cost[m] < cost'[m]
                 PROVE  outcome'[m] = outcome[m]
      OBVIOUS
    <2>1. Trade
      BY OnlyTradeAdds
    <2>2. PICK n \in Trader!VisibleFills : Trader!Fill(Market, signal.side, n)
      BY <2>1 DEF Trade
    <2>3. cost \in [Markets -> Nat] /\ outcome \in [Markets -> Trader!Outcomes \cup {"none"}]
      BY DEF MainInv, BaseInv, ComponentsInv, Trader!TraderTypeOK
    <2>4. m = Market
      BY <2>2, <2>3 DEF Trader!Fill
    <2>5. Trader!HasPosition(m)
      BY DEF MainInv, RecordsInv, Trader!HasPosition
    <2>6. outcome[m] = signal.side
      BY <2>1, <2>4, <2>5 DEF Trade, Trader!ExecuteRefused
    <2> QED BY <2>2, <2>3, <2>4, <2>6 DEF Trader!Fill
  <1> QED BY <1>1, MainInvariant, PTL DEF MainSpec, OutcomesNeverMix

(* Ledger, trader and breaker are driven through their operations, each at *)
(* most once a step: within a process the cycle implements their           *)
(* specifications (run_cycle, _process_signal).                            *)
THEOREM ComponentsAreUsedAsSpecified == MainSpec => UsesComponentsAsSpecified
PROOF
  <1> DEFINE Keeps ==
        pc # "dead" =>
          /\ AccountNext \/ UNCHANGED accountVars
          /\ Trader!TraderNext \/ UNCHANGED traderVars
          /\ Breaker!BreakerNext \/ UNCHANGED breakerVars
  <1>1. MainInv /\ [MainNext]_mainVars => [Keeps]_mainVars
    <2> SUFFICES ASSUME MainInv, MainNext, pc # "dead" PROVE Keeps
      OBVIOUS
    <2>1. ~StartProcess
      BY DEF StartProcess, Goes
    <2>2. AccountNext \/ UNCHANGED accountVars
      <3>1. CASE Ledger /\ RecordOpen(Market, Strategy, signal.fill)
        <4>1. signal.fill \in 1 .. OrderSize
          BY <3>1 DEF Ledger, MainInv, BaseInv, OwnTypes, StageInv, InTrade
        <4>2. signal.fill \in Costs /\ Market \in Markets /\ Strategy \in Strategies
          BY <4>1, MainAssumption, BaseTypes DEF MainInv
        <4> QED BY <3>1, <4>2 DEF AccountNext, Open
      <3> QED BY <2>1, <3>1, StepOfAccount
    <2>3. Trader!TraderNext \/ UNCHANGED traderVars
      <3>1. CASE Trade
        <4>1. ~Trader!ExecuteRefused(Market, signal.side, signal.trade, FALSE)
          BY <3>1 DEF Trade
        <4>2. ~Trader!ExecuteRefused(Market, signal.side, TRUE, FALSE)
          BY <4>1 DEF Trader!ExecuteRefused
        <4>3. signal.side \in {"yes", "no", "both"}
          BY <3>1, MainAssumption DEF Trade, Goes, MainInv, BaseInv, StageInv, Judged
        <4>4. Market \in Markets
          BY BaseTypes DEF MainInv
        <4>5. \E n \in Trader!VisibleFills : Trader!Fill(Market, signal.side, n)
          BY <3>1 DEF Trade
        <4> QED BY <4>2, <4>3, <4>4, <4>5 DEF Trader!TraderNext, Trader!Execute, Trader!Outcomes
      <3> QED BY <2>1, <3>1, StepOfTrader
    <2>4. Breaker!BreakerNext \/ UNCHANGED breakerVars
      BY <2>1, StepOfBreaker DEF Breaker!BreakerNext
    <2> QED BY <2>2, <2>3, <2>4
  <1> QED BY <1>1, MainInvariant, PTL DEF MainSpec, UsesComponentsAsSpecified

-----------------------------------------------------------------------------
(* The caches of order books.                                              *)

Below(T, m) == {k \in T : k < m}

\* Numbers, however many, have a least one: there is no smaller set of smaller
\* numbers.
LEMMA LeastNumber ==
  ASSUME NEW T, T \subseteq Nat, T # {}
  PROVE  \E m \in T : \A k \in T : m <= k
PROOF
  <1> DEFINE F == {Below(T, m) : m \in T}
  <1>1. ASSUME NEW m \in T PROVE Below(T, m) \in FiniteSubsetsOf(Nat)
    <2>1. Below(T, m) \in SUBSET Nat /\ m \in Nat
      BY DEF Below
    <2>2. \A k \in Below(T, m) : k <= m
      BY <2>1 DEF Below
    <2> QED BY <2>1, <2>2, FS_BoundedSetOfNaturals DEF FiniteSubsetsOf
  <1>2. F \subseteq FiniteSubsetsOf(Nat) /\ F # {}
    BY <1>1
  <1>3. \E B \in F : \A C \in F : <<C, B>> \notin StrictSubsetOrdering(Nat)
    <2> HIDE DEF F
    <2> QED BY <1>2, FS_StrictSubsetOrderingWellFounded, WFMin
  <1>4. PICK m \in T : \A k \in T : <<Below(T, k), Below(T, m)>> \notin StrictSubsetOrdering(Nat)
    BY <1>3
  <1>5. ASSUME NEW k \in T, k < m PROVE FALSE
    <2>1. k \in Nat /\ m \in Nat
      OBVIOUS
    <2>2. Below(T, k) \subseteq Below(T, m)
      <3>1. \A j \in T : j \in Nat /\ (j < k => j < m)
        BY <1>5, <2>1
      <3> QED BY <3>1 DEF Below
    <2>3. k \in Below(T, m) /\ k \notin Below(T, k)
      BY <1>5, <2>1 DEF Below
    <2>4. Below(T, k) \in SUBSET Nat /\ Below(T, m) \in SUBSET Nat
      BY DEF Below
    <2> QED BY <1>4, <2>2, <2>3, <2>4 DEF StrictSubsetOrdering
  <1>6. \A k \in T : m \in Nat /\ k \in Nat
    OBVIOUS
  <1> QED BY <1>5, <1>6

\* A set that has 0, and after each of its numbers the next, has them all.
LEMMA NumbersInTurn ==
  ASSUME NEW S, S \subseteq Nat, 0 \in S, \A n \in S : n + 1 \in S
  PROVE  S = Nat
PROOF
  <1> SUFFICES ASSUME Nat \ S # {} PROVE FALSE
    OBVIOUS
  <1>1. PICK m \in Nat \ S : \A k \in Nat \ S : m <= k
    BY LeastNumber
  <1>2. m # 0 /\ m \in Nat /\ m - 1 \in Nat /\ ~(m <= m - 1)
    OBVIOUS
  <1>3. m - 1 \in S
    BY <1>1, <1>2
  <1>4. (m - 1) + 1 = m
    BY <1>2
  <1> QED BY <1>3, <1>4

-----------------------------------------------------------------------------
(* The views that follow one another as a wire is read. *)

NextViews(t, view, views, msg) ==
  IF msg.token = t THEN Append(views, ViewAfter(Latest(view, views), msg)) ELSE views

\* f is the function ViewsOf defines, for the first n messages.
AreViews(t, view, msgs, n, f) ==
  f = [i \in 0 .. n |-> IF i = 0 THEN <<>> ELSE NextViews(t, view, f[i - 1], msgs[i])]

LEMMA ViewsStart ==
  ASSUME NEW t, NEW view, NEW msgs, NEW n \in Nat, NEW f, AreViews(t, view, msgs, n, f)
  PROVE  f[0] = <<>>
PROOF
  BY DEF AreViews

LEMMA ViewsNext ==
  ASSUME NEW t, NEW view, NEW msgs, NEW n \in Nat, NEW f, AreViews(t, view, msgs, n, f),
         NEW i \in 1 .. n
  PROVE  f[i] = NextViews(t, view, f[i - 1], msgs[i])
PROOF
  BY DEF AreViews

LEMMA ViewsStep ==
  ASSUME NEW t, NEW view, NEW msgs, NEW n \in Nat, NEW f, AreViews(t, view, msgs, n, f)
  PROVE  \A i, j \in Nat : j = i + 1 /\ j <= n => f[j] = NextViews(t, view, f[i], msgs[j])
PROOF
  <1> SUFFICES ASSUME NEW i \in Nat, NEW j \in Nat, j = i + 1, j <= n
               PROVE  f[j] = NextViews(t, view, f[i], msgs[j])
    OBVIOUS
  <1>1. j \in 0 .. n /\ j # 0 /\ j - 1 = i
    OBVIOUS
  <1>2. f[j] = NextViews(t, view, f[j - 1], msgs[j])
    BY <1>1 DEF AreViews
  <1> QED BY <1>1, <1>2

LEMMA ViewsExist ==
  ASSUME NEW t, NEW view, NEW msgs, NEW n \in Nat
  PROVE  \E f : AreViews(t, view, msgs, n, f)
PROOF
  <1> DEFINE S == {k \in Nat : \E f : AreViews(t, view, msgs, k, f)}
  <1>1. 0 \in S
    <2> DEFINE f == [i \in 0 .. 0 |-> <<>>]
    <2>1. AreViews(t, view, msgs, 0, f)
      BY DEF AreViews
    <2> QED BY <2>1
  <1>2. ASSUME NEW k \in Nat, k \in S PROVE k + 1 \in S
    <2>0. PICK f : AreViews(t, view, msgs, k, f)
      BY <1>2
    <2> DEFINE g == [i \in 0 .. k + 1 |->
                       IF i = k + 1 THEN NextViews(t, view, f[k], msgs[k + 1]) ELSE f[i]]
    <2>1. k \in Nat
      OBVIOUS
    <2>2. \A i \in 0 .. k + 1 : i # 0 /\ i # k + 1 => i \in 1 .. k /\ i - 1 \in 0 .. k
      BY <2>1
    <2>3. 0 \in 0 .. k + 1 /\ 0 # k + 1 /\ (k + 1) - 1 = k /\ k \in 0 .. k + 1 /\ k # k + 1
      BY <2>1
    <2>4. \A i \in 0 .. k : i \in 0 .. k + 1 /\ i # k + 1
      BY <2>1
    <2>5. f[0] = <<>> /\ \A i \in 1 .. k : f[i] = NextViews(t, view, f[i - 1], msgs[i])
      <3> HIDE DEF S, g
      <3>1. f[0] = <<>>
        BY <2>0, <2>1, ViewsStart
      <3>2. \A i \in 1 .. k : f[i] = NextViews(t, view, f[i - 1], msgs[i])
        BY <2>0, <2>1, ViewsNext
      <3> QED BY <3>1, <3>2
    <2>6. \A i \in 0 .. k : g[i] = f[i]
      BY <2>4
    <2>7. g[k + 1] = NextViews(t, view, f[k], msgs[k + 1])
      BY <2>1
    <2>8. ASSUME NEW i \in 0 .. k + 1
          PROVE  g[i] = IF i = 0 THEN <<>> ELSE NextViews(t, view, g[i - 1], msgs[i])
      <3>1. CASE i = 0
        BY <2>3, <2>5, <3>1
      <3>2. CASE i = k + 1
        <4>1. g[i - 1] = f[k]
          BY <2>3, <2>6, <2>1, <3>2
        <4> HIDE DEF g
        <4> QED BY <2>3, <2>7, <3>2, <4>1
      <3>3. CASE i # 0 /\ i # k + 1
        <4>1. i \in 1 .. k /\ i - 1 \in 0 .. k /\ i \in 0 .. k
          BY <2>1, <2>2, <3>3
        <4>2. g[i] = f[i] /\ g[i - 1] = f[i - 1]
          BY <2>6, <4>1
        <4> HIDE DEF g
        <4> QED BY <2>5, <3>3, <4>1, <4>2
      <3> QED BY <3>1, <3>2, <3>3
    <2>9. AreViews(t, view, msgs, k + 1, g)
      BY <2>8 DEF AreViews
    <2> QED BY <2>1, <2>9
  <1>3. S = Nat
    <2>1. S \subseteq Nat
      OBVIOUS
    <2> HIDE DEF S
    <2> QED BY <1>1, <1>2, <2>1, NumbersInTurn
  <1> QED BY <1>3

\* Wires that agree on their first messages agree on the views of these.
LEMMA ViewsAgree ==
  ASSUME NEW t, NEW view, NEW msgs, NEW others, NEW n \in Nat, NEW k \in Nat, n <= k,
         \A i \in 1 .. n : msgs[i] = others[i],
         NEW f, AreViews(t, view, msgs, n, f), NEW g, AreViews(t, view, others, k, g)
  PROVE  \A i \in 0 .. n : f[i] = g[i]
PROOF
  <1> DEFINE S == {i \in Nat : i <= n => f[i] = g[i]}
  <1>1. 0 \in S
    <2>1. f[0] = <<>> /\ g[0] = <<>>
      BY ViewsStart
    <2> QED BY <2>1
  <1>2. ASSUME NEW i \in Nat, i \in S PROVE i + 1 \in S
    <2>1. CASE i + 1 <= n
      <3>1. i + 1 \in 1 .. n /\ i + 1 <= k /\ i <= n /\ i + 1 \in Nat
        BY <2>1
      <3>2. f[i + 1] = NextViews(t, view, f[i], msgs[i + 1])
        <4>1. \A p, q \in Nat : q = p + 1 /\ q <= n => f[q] = NextViews(t, view, f[p], msgs[q])
          BY ViewsStep
        <4> QED BY <2>1, <3>1, <4>1
      <3>3. g[i + 1] = NextViews(t, view, g[i], others[i + 1])
        <4>1. \A p, q \in Nat : q = p + 1 /\ q <= k => g[q] = NextViews(t, view, g[p], others[q])
          BY ViewsStep
        <4> QED BY <3>1, <4>1
      <3>4. f[i] = g[i]
        BY <1>2, <3>1
      <3>5. msgs[i + 1] = others[i + 1]
        BY <3>1
      <3>6. f[i + 1] = g[i + 1]
        BY <3>2, <3>3, <3>4, <3>5
      <3> QED BY <3>6
    <2> QED BY <2>1
  <1>3. S = Nat
    <2>1. S \subseteq Nat
      OBVIOUS
    <2> HIDE DEF S
    <2> QED BY <1>1, <1>2, <2>1, NumbersInTurn
  <1> QED BY <1>3

-----------------------------------------------------------------------------
(* What is said of a book, and the views it leads to. *)

Sayings == UNION {[ls -> Sizes] : ls \in SUBSET (UNION {Levels[t] : t \in Tokens})}

Messages == [token : Tokens, kind : Kinds, levels : Sayings]

ViewsFor(t) == BooksOf(t) \cup {Unsure}

LEMMA ViewAfterType ==
  ASSUME NEW t \in Tokens, NEW msg \in Messages, msg.token = t, NEW view \in ViewsFor(t)
  PROVE  ViewAfter(view, msg) \in ViewsFor(t)
PROOF
  <1>1. PICK ls : msg.levels \in [ls -> Sizes]
    <2>1. msg.levels \in Sayings
      BY DEF Messages
    <2> QED BY <2>1 DEF Sayings
  <1>2. 0 \in Sizes
    BY CacheAssumption DEF Sizes
  <1>3. ApplySnapshot(Blank(t), msg.levels) \in BooksOf(t)
    BY <1>1, <1>2 DEF ApplySnapshot, Blank, BooksOf
  <1>4. ASSUME view # Unsure PROVE ApplyUpdate(view, msg.levels) \in BooksOf(t)
    <2>1. view \in [Levels[t] -> Sizes]
      BY <1>4 DEF ViewsFor, BooksOf
    <2> QED BY <1>1, <2>1 DEF ApplyUpdate, BooksOf
  <1>5. msg.kind = "book" => Applied(Blank(msg.token), msg) \in BooksOf(t)
    BY <1>3 DEF Applied
  <1>6. msg.kind = "update" /\ view # Unsure => Applied(view, msg) \in BooksOf(t)
    BY <1>4 DEF Applied
  <1>7. msg.kind \in {"book", "update", "delta"}
    BY DEF Messages, Kinds
  <1> QED BY <1>5, <1>6, <1>7 DEF ViewAfter, ViewsFor

LEMMA LatestType ==
  ASSUME NEW V, NEW view \in V, NEW views \in Seq(V)
  PROVE  Latest(view, views) \in V
PROOF
  <1>1. views # <<>> => Len(views) \in 1 .. Len(views)
    OBVIOUS
  <1> QED BY <1>1 DEF Latest

LEMMA ViewsTyped ==
  ASSUME NEW t \in Tokens, NEW view \in ViewsFor(t), NEW msgs, NEW n \in Nat,
         \A i \in 1 .. n : msgs[i] \in Messages,
         NEW f, AreViews(t, view, msgs, n, f)
  PROVE  \A i \in 0 .. n : f[i] \in Seq(ViewsFor(t))
PROOF
  <1> DEFINE S == {i \in Nat : i <= n => f[i] \in Seq(ViewsFor(t))}
  <1>1. 0 \in S
    <2>1. f[0] = <<>>
      BY ViewsStart
    <2>2. <<>> \in Seq(ViewsFor(t))
      OBVIOUS
    <2> QED BY <2>1, <2>2
  <1>2. ASSUME NEW i \in Nat, i \in S PROVE i + 1 \in S
    <2>1. CASE i + 1 <= n
      <3>1. i + 1 \in 1 .. n /\ i <= n /\ i + 1 \in Nat
        BY <2>1
      <3>2. f[i + 1] = NextViews(t, view, f[i], msgs[i + 1])
        <4>1. \A p, q \in Nat : q = p + 1 /\ q <= n => f[q] = NextViews(t, view, f[p], msgs[q])
          BY ViewsStep
        <4> QED BY <2>1, <3>1, <4>1
      <3>3. f[i] \in Seq(ViewsFor(t)) /\ msgs[i + 1] \in Messages
        BY <1>2, <3>1
      <3>4. Latest(view, f[i]) \in ViewsFor(t)
        BY <3>3, LatestType
      <3>5. msgs[i + 1].token = t => ViewAfter(Latest(view, f[i]), msgs[i + 1]) \in ViewsFor(t)
        BY <3>3, <3>4, ViewAfterType
      <3>6. f[i + 1] \in Seq(ViewsFor(t))
        BY <3>2, <3>3, <3>5 DEF NextViews
      <3> QED BY <3>6
    <2> QED BY <2>1
  <1>3. S = Nat
    <2>1. S \subseteq Nat
      OBVIOUS
    <2> HIDE DEF S
    <2> QED BY <1>1, <1>2, <2>1, NumbersInTurn
  <1> QED BY <1>3

-----------------------------------------------------------------------------
(* The views under way, and what sending, reading and losing messages does *)
(* to them.                                                                *)

LEMMA ViewsOfAre ==
  ASSUME NEW t, NEW view, NEW msgs, Len(msgs) \in Nat
  PROVE  AreViews(t, view, msgs, Len(msgs), ViewsOf(t, view, msgs))
PROOF
  <1>1. \E f : AreViews(t, view, msgs, Len(msgs), f)
    BY ViewsExist
  <1> QED BY <1>1 DEF ViewsOf, AreViews, NextViews

UnderWay(t, view, msgs) == ViewsOf(t, view, msgs)[Len(msgs)]

LEMMA NothingUnderWay == ASSUME NEW t, NEW view PROVE UnderWay(t, view, <<>>) = <<>>
PROOF
  <1>1. Len(<<>>) = 0
    OBVIOUS
  <1>2. AreViews(t, view, <<>>, 0, ViewsOf(t, view, <<>>))
    BY <1>1, ViewsOfAre
  <1> QED BY <1>1, <1>2, ViewsStart DEF UnderWay

LEMMA UnderWayType ==
  ASSUME NEW t \in Tokens, NEW view \in ViewsFor(t), NEW msgs \in Seq(Messages)
  PROVE  /\ \A i \in 0 .. Len(msgs) : ViewsOf(t, view, msgs)[i] \in Seq(ViewsFor(t))
         /\ UnderWay(t, view, msgs) \in Seq(ViewsFor(t))
PROOF
  <1>1. Len(msgs) \in Nat /\ Len(msgs) \in 0 .. Len(msgs)
    OBVIOUS
  <1>2. \A i \in 1 .. Len(msgs) : msgs[i] \in Messages
    OBVIOUS
  <1>3. \A i \in 0 .. Len(msgs) : ViewsOf(t, view, msgs)[i] \in Seq(ViewsFor(t))
    BY <1>1, <1>2, ViewsOfAre, ViewsTyped
  <1> QED BY <1>1, <1>3 DEF UnderWay

\* A message that is sent adds the view it leads to.
LEMMA SentUnderWay ==
  ASSUME NEW t, NEW view, NEW msgs \in Seq(Messages), NEW msg \in Messages
  PROVE  UnderWay(t, view, Append(msgs, msg)) =
           NextViews(t, view, UnderWay(t, view, msgs), msg)
PROOF
  <1> DEFINE longer == Append(msgs, msg)
             n == Len(msgs)
             f == ViewsOf(t, view, msgs)
             g == ViewsOf(t, view, longer)
  <1>1. n \in Nat /\ Len(longer) = n + 1 /\ longer[n + 1] = msg /\ n + 1 \in Nat
    OBVIOUS
  <1>2. \A i \in 1 .. n : msgs[i] = longer[i]
    OBVIOUS
  <1>3. AreViews(t, view, msgs, n, f)
    BY <1>1, ViewsOfAre
  <1>4. AreViews(t, view, longer, n + 1, g)
    <2>1. AreViews(t, view, longer, Len(longer), g)
      BY <1>1, ViewsOfAre
    <2> QED BY <1>1, <2>1
  <1> HIDE DEF f, g, longer
  <1>5. f[n] = g[n]
    <2>1. n <= n + 1 /\ n \in 0 .. n
      BY <1>1
    <2> HIDE DEF n
    <2> QED BY <1>1, <1>2, <1>3, <1>4, <2>1, ViewsAgree
  <1>6. g[n + 1] = NextViews(t, view, g[n], longer[n + 1])
    <2> DEFINE m == n + 1
    <2>1. m \in Nat /\ n < m /\ m <= n + 1 /\ n \in Nat /\ AreViews(t, view, longer, m, g)
      BY <1>1, <1>4
    <2> HIDE DEF m, n
    <2>2. \A p, q \in Nat : q = p + 1 /\ q <= m => g[q] = NextViews(t, view, g[p], longer[q])
      BY <2>1, ViewsStep
    <2> QED BY <2>1, <2>2
  <1> QED BY <1>1, <1>5, <1>6 DEF UnderWay, f, g, longer

\* A message that is read takes away the first of the views, if it is about
\* the token.
AfterReading(t, view, msg) == IF msg.token = t THEN ViewAfter(view, msg) ELSE view

FirstViews(t, view, msg) == IF msg.token = t THEN <<ViewAfter(view, msg)>> ELSE <<>>

\* The views after the first one, which the provers need not take apart.
Joined(first, views) == first \o views

LEMMA LatestAfterFirst ==
  ASSUME NEW t, NEW view, NEW msg, NEW V, AfterReading(t, view, msg) \in V, NEW views \in Seq(V)
  PROVE  Latest(view, Joined(FirstViews(t, view, msg), views)) =
           Latest(AfterReading(t, view, msg), views)
PROOF
  <1>1. CASE msg.token = t
    <2> DEFINE v == ViewAfter(view, msg)
    <2>1. v \in V /\ AfterReading(t, view, msg) = v /\ FirstViews(t, view, msg) = <<v>>
      BY <1>1 DEF AfterReading, FirstViews
    <2> HIDE DEF v
    <2>2. /\ <<v>> \o views \in Seq(V) /\ Len(<<v>> \o views) = Len(views) + 1
          /\ <<v>> \o views # <<>> /\ Len(views) \in Nat
          /\ views # <<>> => (<<v>> \o views)[Len(views) + 1] = views[Len(views)]
          /\ views = <<>> => (<<v>> \o views)[Len(views) + 1] = v
      BY <2>1
    <2> QED BY <2>1, <2>2 DEF Latest, Joined
  <1>2. CASE msg.token # t
    BY <1>2 DEF AfterReading, FirstViews, Joined
  <1> QED BY <1>1, <1>2

LEMMA AppendAfterFirst ==
  ASSUME NEW t, NEW view, NEW msg, NEW V, AfterReading(t, view, msg) \in V,
         NEW views \in Seq(V), NEW w \in V
  PROVE  Append(Joined(FirstViews(t, view, msg), views), w) =
           Joined(FirstViews(t, view, msg), Append(views, w))
PROOF
  <1>1. FirstViews(t, view, msg) \in Seq(V)
    BY DEF AfterReading, FirstViews
  <1> QED BY <1>1 DEF Joined

IsRest(rest, msgs, n) ==
  /\ \A i, j \in Nat : j = i + 1 /\ i <= n /\ i # 0 => rest[i] = msgs[j]
  /\ \A i \in 1 .. n : rest[i] \in Messages

\* The views along the whole wire are those along the rest of it, one later.
LEMMA ReadFirst ==
  ASSUME NEW t \in Tokens, NEW view \in ViewsFor(t), NEW msg \in Messages,
         NEW msgs, NEW rest, NEW n \in Nat, NEW m \in Nat, n < m, m <= n + 1,
         msgs[1] = msg, IsRest(rest, msgs, n),
         NEW f, NEW g, AreViews(t, view, msgs, m, f),
         AreViews(t, AfterReading(t, view, msg), rest, n, g)
  PROVE  f[m] = Joined(FirstViews(t, view, msg), g[n])
PROOF
  <1> DEFINE first == FirstViews(t, view, msg)
             after == AfterReading(t, view, msg)
             V == ViewsFor(t)
             S == {i \in Nat : \A j \in Nat : i <= n /\ j = i + 1 => f[j] = Joined(first, g[i])}
  <1>1. after \in V
    BY ViewAfterType DEF AfterReading
  <1>2. \A i \in 0 .. n : g[i] \in Seq(V)
    BY <1>1, ViewsTyped DEF IsRest
  <1>3. f[0] = <<>> /\ g[0] = <<>>
    BY ViewsStart
  <1>8. \A p, q \in Nat : q = p + 1 /\ q <= m => f[q] = NextViews(t, view, f[p], msgs[q])
    BY ViewsStep
  <1>9. \A p, q \in Nat : q = p + 1 /\ q <= n => g[q] = NextViews(t, after, g[p], rest[q])
    BY ViewsStep
  <1>4. 0 \in S
    <2>1. f[1] = NextViews(t, view, f[0], msgs[1])
      <3>1. 0 \in Nat /\ 1 \in Nat /\ 1 = 0 + 1 /\ 1 <= m
        OBVIOUS
      <3> QED BY <1>8, <3>1
    <2>2. f[1] = first
      <3>1. Latest(view, <<>>) = view
        BY DEF Latest
      <3>2. \A v : Append(<<>>, v) = <<v>>
        OBVIOUS
      <3> QED BY <1>3, <2>1, <3>1, <3>2 DEF NextViews, FirstViews
    <2>3. Joined(first, <<>>) = first
      <3>1. first \in Seq(V)
        BY <1>1 DEF FirstViews, AfterReading
      <3> HIDE DEF first
      <3> QED BY <3>1 DEF Joined
    <2>4. f[1] = Joined(first, g[0])
      BY <1>3, <2>2, <2>3
    <2>5. \A j \in Nat : j = 0 + 1 => j = 1
      OBVIOUS
    <2> HIDE DEF first
    <2> QED BY <2>4, <2>5
  <1>5. ASSUME NEW i \in Nat, i \in S PROVE i + 1 \in S
    <2> DEFINE j == i + 1
    <2>1. j \in Nat /\ j = i + 1
      OBVIOUS
    <2> HIDE DEF j
    <2> SUFFICES ASSUME NEW k \in Nat, j <= n, k = j + 1 PROVE f[k] = Joined(first, g[j])
      BY <2>1
    <2>2. i <= n /\ i \in 0 .. n /\ j \in 1 .. n /\ k <= m /\ j # 0
      BY <2>1
    <2>3. f[j] = Joined(first, g[i]) /\ g[i] \in Seq(V)
      BY <1>2, <1>5, <2>1, <2>2
    <2>4. rest[j] = msgs[k] /\ rest[j] \in Messages
      BY <2>1, <2>2 DEF IsRest
    <2> HIDE DEF S, V, first, after
    <2>5. f[k] = NextViews(t, view, f[j], msgs[k])
      BY <1>8, <2>1, <2>2
    <2>6. g[j] = NextViews(t, after, g[i], rest[j])
      BY <1>9, <2>1
    <2>7. Latest(view, Joined(first, g[i])) = Latest(after, g[i])
      <3>1. AfterReading(t, view, msg) \in V
        BY <1>1 DEF after
      <3>2. Latest(view, Joined(FirstViews(t, view, msg), g[i])) = Latest(AfterReading(t, view, msg), g[i])
        BY <2>3, <3>1, LatestAfterFirst
      <3> QED BY <3>2 DEF first, after
    <2>8. Latest(after, g[i]) \in V
      BY <1>1, <2>3, LatestType
    <2>9. rest[j].token = t => ViewAfter(Latest(after, g[i]), rest[j]) \in V
      BY <2>4, <2>8, ViewAfterType DEF V
    <2>10. ASSUME NEW v \in V PROVE Append(Joined(first, g[i]), v) = Joined(first, Append(g[i], v))
      <3>1. AfterReading(t, view, msg) \in V
        BY <1>1 DEF after
      <3> QED BY <2>3, <2>10, <3>1, AppendAfterFirst DEF first
    <2> QED BY <2>3, <2>4, <2>5, <2>6, <2>7, <2>9, <2>10 DEF NextViews
  <1>6. S = Nat
    <2>1. S \subseteq Nat
      OBVIOUS
    <2> HIDE DEF S
    <2> QED BY <1>4, <1>5, <2>1, NumbersInTurn
  <1>7. n \in S
    BY <1>6
  <1> HIDE DEF first
  <1> QED BY <1>7 DEF first

LEMMA ReadUnderWay ==
  ASSUME NEW t \in Tokens, NEW view \in ViewsFor(t), NEW msgs \in Seq(Messages), msgs # <<>>
  PROVE  UnderWay(t, view, msgs) =
           FirstViews(t, view, Head(msgs))
             \o UnderWay(t, AfterReading(t, view, Head(msgs)), Tail(msgs))
PROOF
  <1> DEFINE msg == Head(msgs)
             rest == Tail(msgs)
             n == Len(rest)
             m == Len(msgs)
             f == ViewsOf(t, view, msgs)
             g == ViewsOf(t, AfterReading(t, view, msg), rest)
  <1>1. /\ n \in Nat /\ n < m /\ m <= n + 1 /\ m \in Nat
        /\ rest \in Seq(Messages) /\ msg \in Messages /\ msgs[1] = msg
    OBVIOUS
  <1>2. \A i, j \in Nat : j = i + 1 /\ i <= n /\ i # 0 => rest[i] = msgs[j]
    OBVIOUS
  <1>3. IsRest(rest, msgs, n)
    BY <1>1, <1>2 DEF IsRest
  <1>4. AreViews(t, view, msgs, m, f)
    BY <1>1, ViewsOfAre
  <1>5. AreViews(t, AfterReading(t, view, msg), rest, n, g)
    BY <1>1, ViewsOfAre
  <1>6. f[m] = Joined(FirstViews(t, view, msg), g[n])
    <2> HIDE DEF f, g, n, m, rest, msg
    <2> QED BY <1>1, <1>3, <1>4, <1>5, ReadFirst
  <1> QED BY <1>6 DEF UnderWay, Joined

\* Of a wire that is cut the first views are left.
IsPrefix(a, b) == Len(a) <= Len(b) /\ a = SubSeq(b, 1, Len(a))

LEMMA PrefixOfItself == ASSUME NEW V, NEW a \in Seq(V) PROVE IsPrefix(a, a)
PROOF
  BY DEF IsPrefix

LEMMA PrefixOfLonger ==
  ASSUME NEW V, NEW a \in Seq(V), NEW b \in Seq(V), IsPrefix(a, b), NEW v \in V
  PROVE  IsPrefix(a, Append(b, v))
PROOF
  <1>1. Len(a) \in Nat /\ Len(b) \in Nat /\ Len(Append(b, v)) = Len(b) + 1 /\ Len(a) <= Len(b)
    BY DEF IsPrefix
  <1>2. \A i \in 1 .. Len(a) : Append(b, v)[i] = b[i]
    BY <1>1
  <1>3. SubSeq(Append(b, v), 1, Len(a)) = SubSeq(b, 1, Len(a))
    BY <1>1, <1>2
  <1> QED BY <1>1, <1>3 DEF IsPrefix

LEMMA ViewsGrow ==
  ASSUME NEW t \in Tokens, NEW view \in ViewsFor(t), NEW msgs, NEW n \in Nat,
         \A i \in 1 .. n : msgs[i] \in Messages,
         NEW f, AreViews(t, view, msgs, n, f), NEW i \in 0 .. n
  PROVE  IsPrefix(f[i], f[n])
PROOF
  <1> DEFINE V == ViewsFor(t)
             S == {k \in Nat : i <= k /\ k <= n => IsPrefix(f[i], f[k])}
  <1>1. \A k \in 0 .. n : f[k] \in Seq(V)
    BY ViewsTyped
  <1>2. \A p, q \in Nat : q = p + 1 /\ q <= n => f[q] = NextViews(t, view, f[p], msgs[q])
    BY ViewsStep
  <1>3. f[i] \in Seq(V) /\ IsPrefix(f[i], f[i]) /\ i \in Nat
    BY <1>1, PrefixOfItself
  <1>4. 0 \in S
    BY <1>3
  <1>5. ASSUME NEW k \in Nat, k \in S PROVE k + 1 \in S
    <2> DEFINE j == k + 1
    <2>1. j \in Nat /\ j = k + 1
      OBVIOUS
    <2> HIDE DEF j
    <2> SUFFICES ASSUME i <= j, j <= n PROVE IsPrefix(f[i], f[j])
      BY <2>1
    <2>2. CASE i = j
      BY <1>3, <2>2
    <2>3. CASE i # j
      <3>1. i <= k /\ k <= n /\ k \in 0 .. n /\ j \in 1 .. n
        BY <1>3, <2>1, <2>3
      <3>2. IsPrefix(f[i], f[k]) /\ f[k] \in Seq(V) /\ msgs[j] \in Messages
        BY <1>1, <1>5, <3>1
      <3>3. f[j] = NextViews(t, view, f[k], msgs[j])
        BY <1>2, <2>1, <3>1
      <3> HIDE DEF V
      <3>4. Latest(view, f[k]) \in V
        BY <3>2, LatestType DEF V
      <3>5. msgs[j].token = t => ViewAfter(Latest(view, f[k]), msgs[j]) \in V
        BY <3>2, <3>4, ViewAfterType DEF V
      <3>6. \A v \in V : IsPrefix(f[i], Append(f[k], v))
        BY <1>3, <3>2, PrefixOfLonger
      <3> QED BY <3>2, <3>3, <3>5, <3>6 DEF NextViews
    <2> QED BY <2>2, <2>3
  <1>6. S = Nat
    <2>1. S \subseteq Nat
      OBVIOUS
    <2> HIDE DEF S
    <2> QED BY <1>4, <1>5, <2>1, NumbersInTurn
  <1>7. n \in S
    BY <1>6
  <1> QED BY <1>7

LEMMA CutUnderWay ==
  ASSUME NEW t \in Tokens, NEW view \in ViewsFor(t), NEW msgs \in Seq(Messages),
         NEW n \in 0 .. Len(msgs)
  PROVE  IsPrefix(UnderWay(t, view, SubSeq(msgs, 1, n)), UnderWay(t, view, msgs))
PROOF
  <1> DEFINE cut == SubSeq(msgs, 1, n)
             m == Len(msgs)
             f == ViewsOf(t, view, msgs)
             g == ViewsOf(t, view, cut)
  <1>1. n \in Nat /\ m \in Nat /\ n <= m /\ n \in 0 .. m /\ n \in 0 .. n /\ Len(cut) = n
    OBVIOUS
  <1>2. \A i \in 1 .. n : cut[i] = msgs[i]
    OBVIOUS
  <1>3. \A i \in 1 .. m : msgs[i] \in Messages
    OBVIOUS
  <1>4. AreViews(t, view, msgs, m, f)
    BY <1>1, ViewsOfAre
  <1>5. AreViews(t, view, cut, n, g)
    <2>1. AreViews(t, view, cut, Len(cut), g)
      BY <1>1, ViewsOfAre
    <2> QED BY <1>1, <2>1
  <1>6. g[n] = f[n]
    <2> HIDE DEF f, g, m, cut
    <2>1. \A i \in 0 .. n : g[i] = f[i]
      BY <1>1, <1>2, <1>4, <1>5, ViewsAgree
    <2> QED BY <1>1, <2>1
  <1>7. IsPrefix(f[n], f[m])
    <2> HIDE DEF f, g, m, cut
    <2> QED BY <1>1, <1>3, <1>4, ViewsGrow
  <1> QED BY <1>1, <1>6, <1>7 DEF UnderWay

-----------------------------------------------------------------------------
(* What snapshots and updates make of a view. *)

LEMMA SnapshotMeans ==
  ASSUME NEW t \in Tokens, NEW b \in BooksOf(t), NEW view
  PROVE  /\ Snapshot(t, b) \in Messages /\ Snapshot(t, b).token = t
         /\ ViewAfter(view, Snapshot(t, b)) = IF b = Blank(t) THEN Unsure ELSE b
PROOF
  <1> DEFINE msg == Snapshot(t, b)
  <1>1. b \in [Levels[t] -> Sizes] /\ Sizes \subseteq Nat
    BY CacheAssumption DEF BooksOf, Sizes
  <1>2. Held(b) \subseteq Levels[t]
    BY <1>1 DEF Held
  <1>3. msg.token = t /\ msg.kind = "book" /\ msg.levels = Restricted(b, Held(b))
    BY DEF Snapshot
  <1>4. Restricted(b, Held(b)) \in [Held(b) -> Sizes]
    BY <1>1, <1>2 DEF Restricted
  <1>5. msg \in Messages
    <2>1. Held(b) \in SUBSET (UNION {Levels[u] : u \in Tokens})
      BY <1>2
    <2>2. Restricted(b, Held(b)) \in Sayings
      BY <1>4, <2>1 DEF Sayings
    <2> QED BY <2>2 DEF Snapshot, Messages, Kinds
  <1>6. DOMAIN msg.levels = Held(b)
    BY <1>3, <1>4
  <1>7. \A l \in Levels[t] : b[l] \in Nat /\ (l \in Held(b) <=> b[l] # 0)
    <2>1. \A l \in Levels[t] : b[l] \in Nat /\ (l \in Held(b) <=> b[l] > 0)
      BY <1>1 DEF Held
    <2>2. \A k \in Nat : k > 0 <=> k # 0
      OBVIOUS
    <2> QED BY <2>1, <2>2
  <1>8. Held(b) = {} <=> b = Blank(t)
    <2>1. Held(b) = {} => \A l \in Levels[t] : b[l] = 0
      BY <1>7
    <2>2. b = Blank(t) => Held(b) = {}
      BY <1>2, <1>7 DEF Blank
    <2>3. (\A l \in Levels[t] : b[l] = 0) => b = Blank(t)
      BY <1>1 DEF Blank
    <2> QED BY <2>1, <2>2, <2>3
  <1>9. Applied(Blank(t), msg) = b
    <2>1. DOMAIN Blank(t) = Levels[t]
      BY DEF Blank
    <2>2. \A l \in Levels[t] : (IF l \in Held(b) THEN msg.levels[l] ELSE 0) = b[l]
      BY <1>1, <1>3, <1>7 DEF Restricted
    <2>3. ApplySnapshot(Blank(t), msg.levels) = b
      BY <1>1, <1>6, <2>1, <2>2 DEF ApplySnapshot
    <2> QED BY <1>3, <2>3 DEF Applied
  <1>10. Parsed(msg) <=> b # Blank(t)
    BY <1>6, <1>8 DEF Parsed
  <1> QED BY <1>3, <1>5, <1>9, <1>10 DEF ViewAfter

LEMMA UpdateMeans ==
  ASSUME NEW t \in Tokens, NEW b \in BooksOf(t), NEW ls \in SUBSET Levels[t], ls # {},
         NEW view \in {Unsure} \cup {old \in BooksOf(t) : \A l \in Levels[t] \ ls : old[l] = b[l]}
  PROVE  /\ Update(t, b, ls) \in Messages /\ Update(t, b, ls).token = t
         /\ ViewAfter(view, Update(t, b, ls)) = IF view = Unsure THEN Unsure ELSE b
PROOF
  <1> DEFINE msg == Update(t, b, ls)
  <1>1. b \in [Levels[t] -> Sizes]
    BY DEF BooksOf
  <1>2. msg.token = t /\ msg.kind = "update" /\ msg.levels = Restricted(b, ls)
    BY DEF Update
  <1>3. Restricted(b, ls) \in [ls -> Sizes]
    BY <1>1 DEF Restricted
  <1>4. msg \in Messages
    <2>1. ls \in SUBSET (UNION {Levels[u] : u \in Tokens})
      OBVIOUS
    <2>2. Restricted(b, ls) \in Sayings
      BY <1>3, <2>1 DEF Sayings
    <2> QED BY <2>2 DEF Update, Messages, Kinds
  <1>5. DOMAIN msg.levels = ls
    BY <1>2, <1>3
  <1>6. ASSUME view # Unsure PROVE Applied(view, msg) = b
    <2>1. view \in [Levels[t] -> Sizes] /\ \A l \in Levels[t] \ ls : view[l] = b[l]
      BY <1>6 DEF BooksOf
    <2>2. \A l \in Levels[t] : (IF l \in ls THEN msg.levels[l] ELSE view[l]) = b[l]
      BY <1>2, <2>1 DEF Restricted
    <2>3. ApplyUpdate(view, msg.levels) = b
      BY <1>1, <1>5, <2>1, <2>2 DEF ApplyUpdate
    <2> QED BY <1>2, <2>3 DEF Applied
  <1> QED BY <1>2, <1>4, <1>5, <1>6 DEF ViewAfter, Parsed

\* A delta taken for a snapshot: nobody knows what the cache shows.
LEMMA DeltaMeans ==
  ASSUME NEW t \in Tokens, NEW b \in BooksOf(t), NEW ls \in SUBSET Levels[t], NEW view
  PROVE  /\ Delta(t, b, ls) \in Messages /\ Delta(t, b, ls).token = t
         /\ ViewAfter(view, Delta(t, b, ls)) = Unsure
PROOF
  <1>1. Delta(t, b, ls) = [token |-> t, kind |-> "delta", levels |-> Restricted(b, ls)]
    BY DEF Delta, Update
  <1>2. Restricted(b, ls) \in [ls -> Sizes]
    BY DEF Restricted, BooksOf
  <1>3. Restricted(b, ls) \in Sayings
    <2>1. ls \in SUBSET (UNION {Levels[u] : u \in Tokens})
      OBVIOUS
    <2> QED BY <1>2, <2>1 DEF Sayings
  <1> QED BY <1>1, <1>3 DEF Messages, Kinds, ViewAfter

-----------------------------------------------------------------------------
(* The inductive invariant: what a served token's cache will show at last  *)
(* is its book, or nothing that anybody would believe.                     *)

Eventually(t) == Latest(View(t), ViewsUnderWay(t))

ServedSeeTheirBook == \A t \in served : Eventually(t) \in {Unsure, truth[t]}

BookInv ==
  /\ CacheTypeOK
  /\ wire \in Seq(Messages)
  /\ link # "up" => served = {}
  /\ ServedSeeTheirBook

LEMMA ReplicaLatest == ASSUME NEW t \in Tokens PROVE Replica!Latest(t) = Eventually(t)
PROOF
  BY DEF Replica!Latest, Eventually, Latest

LEMMA ViewsOfTypes ==
  ASSUME CacheTypeOK, wire \in Seq(Messages), NEW t \in Tokens
  PROVE  /\ View(t) \in ViewsFor(t) /\ ViewsUnderWay(t) \in Seq(ViewsFor(t))
         /\ Eventually(t) \in ViewsFor(t)
         /\ ViewsUnderWay(t) = UnderWay(t, View(t), wire)
PROOF
  <1>1. View(t) \in ViewsFor(t)
    BY DEF CacheTypeOK, AreBooks, View, ViewsFor
  <1>2. ViewsUnderWay(t) = UnderWay(t, View(t), wire)
    BY DEF ViewsUnderWay, UnderWay
  <1>3. ViewsUnderWay(t) \in Seq(ViewsFor(t))
    BY <1>1, <1>2, UnderWayType
  <1> QED BY <1>1, <1>2, <1>3, LatestType DEF Eventually

-----------------------------------------------------------------------------
(* Steps that send nothing, and steps that send one message. *)

LEMMA SilentViews ==
  ASSUME UNCHANGED <<wire, book, based>>, NEW t \in Tokens
  PROVE  View(t)' = View(t) /\ ViewsUnderWay(t)' = ViewsUnderWay(t)
PROOF
  <1>1. View(t)' = View(t)
    BY DEF View
  <1>2. ViewsUnderWay(t)' = ViewsUnderWay(t)
    BY <1>1 DEF ViewsUnderWay
  <1> QED BY <1>1, <1>2

LEMMA SpokenViews ==
  ASSUME wire \in Seq(Messages), NEW msg \in Messages, Says(msg), UNCHANGED <<book, based>>,
         NEW t \in Tokens
  PROVE  /\ View(t)' = View(t)
         /\ ViewsUnderWay(t)' = NextViews(t, View(t), ViewsUnderWay(t), msg)
PROOF
  <1>1. View(t)' = View(t)
    BY DEF View
  <1>2. ViewsUnderWay(t)' = UnderWay(t, View(t), Append(wire, msg))
    BY <1>1 DEF ViewsUnderWay, UnderWay, Says
  <1>3. ViewsUnderWay(t) = UnderWay(t, View(t), wire)
    BY DEF ViewsUnderWay, UnderWay
  <1> QED BY <1>1, <1>2, <1>3, SentUnderWay

LEMMA WireType ==
  ASSUME NEW msgs \in Seq(Messages)
  PROVE  \A i \in DOMAIN msgs : msgs[i].token \in Tokens /\ msgs[i].kind \in Kinds
PROOF
  <1>1. \A i \in DOMAIN msgs : msgs[i] \in Messages
    OBVIOUS
  <1>2. \A msg \in Messages : msg.token \in Tokens /\ msg.kind \in Kinds
    BY DEF Messages
  <1> QED BY <1>1, <1>2

LEMMA LatestOfMore ==
  ASSUME NEW V, NEW views \in Seq(V), NEW v \in V, NEW view
  PROVE  Latest(view, Append(views, v)) = v
PROOF
  BY DEF Latest

\* A message about a token makes it see what the message says; others see
\* what they saw.
LEMMA SpokenTo ==
  ASSUME CacheTypeOK, wire \in Seq(Messages), NEW t \in Tokens, NEW msg \in Messages,
         msg.token = t, Says(msg), UNCHANGED <<book, based>>
  PROVE  /\ Eventually(t)' = ViewAfter(Eventually(t), msg)
         /\ ViewsUnderWay(t)' = Append(ViewsUnderWay(t), ViewAfter(Eventually(t), msg))
PROOF
  <1>1. ViewsUnderWay(t) \in Seq(ViewsFor(t)) /\ Eventually(t) \in ViewsFor(t)
    BY ViewsOfTypes
  <1>2. ViewAfter(Eventually(t), msg) \in ViewsFor(t)
    BY <1>1, ViewAfterType
  <1>3. View(t)' = View(t)
         /\ ViewsUnderWay(t)' = NextViews(t, View(t), ViewsUnderWay(t), msg)
    BY SpokenViews
  <1>4. ViewsUnderWay(t)' = Append(ViewsUnderWay(t), ViewAfter(Eventually(t), msg))
    BY <1>3 DEF NextViews, Eventually
  <1>5. Latest(View(t), Append(ViewsUnderWay(t), ViewAfter(Eventually(t), msg)))
          = ViewAfter(Eventually(t), msg)
    BY <1>1, <1>2, LatestOfMore
  <1>6. Eventually(t)' = Latest(View(t), ViewsUnderWay(t)')
    BY <1>3 DEF Eventually
  <1> QED BY <1>4, <1>5, <1>6

LEMMA NotSpokenTo ==
  ASSUME wire \in Seq(Messages), NEW t \in Tokens, UNCHANGED <<book, based>>,
         UNCHANGED wire \/ \E msg \in Messages : msg.token # t /\ Says(msg)
  PROVE  /\ View(t)' = View(t) /\ ViewsUnderWay(t)' = ViewsUnderWay(t)
         /\ Eventually(t)' = Eventually(t)
PROOF
  <1>1. View(t)' = View(t) /\ ViewsUnderWay(t)' = ViewsUnderWay(t)
    <2>1. CASE UNCHANGED wire
      BY <2>1, SilentViews
    <2>2. CASE \E msg \in Messages : msg.token # t /\ Says(msg)
      <3> PICK msg \in Messages : msg.token # t /\ Says(msg)
        BY <2>2
      <3> QED BY SpokenViews DEF NextViews
    <2> QED BY <2>1, <2>2
  <1> QED BY <1>1 DEF Eventually

-----------------------------------------------------------------------------
(* Every step of the caches is a step of the replicas or none. *)

\* The books change, or are told again.
PublishedTo(t, b) ==
  IF t \in served
    THEN \E msg \in Messages : /\ msg.token = t /\ Says(msg)
                              /\ ViewAfter(Eventually(t), msg) \in Replica!Views(t, b)
    ELSE UNCHANGED wire

LEMMA PublishStep ==
  ASSUME BookInv, NEW t \in Tokens, NEW b \in BooksOf(t), PublishedTo(t, b),
         truth' = [truth EXCEPT ![t] = b], UNCHANGED <<served, book, based>>
  PROVE  Replica!Publish(t) /\ ServedSeeTheirBook' /\ (wire \in Seq(Messages))'
PROOF
  <1>1. CacheTypeOK /\ wire \in Seq(Messages) /\ ServedSeeTheirBook /\ AreBooks(truth)
    BY DEF BookInv, CacheTypeOK
  <1>2. ASSUME NEW u \in Tokens, u # t
        PROVE  View(u)' = View(u) /\ ViewsUnderWay(u)' = ViewsUnderWay(u)
               /\ Eventually(u)' = Eventually(u)
    <2>1. UNCHANGED wire \/ \E msg \in Messages : msg.token # u /\ Says(msg)
      BY <1>2 DEF PublishedTo
    <2> QED BY <1>1, <2>1, NotSpokenTo
  <1>3. View(t)' = View(t)
    BY DEF View
  <1>4. CASE t \in served
    <2> PICK msg \in Messages : /\ msg.token = t /\ Says(msg)
                                /\ ViewAfter(Eventually(t), msg) \in Replica!Views(t, b)
      BY <1>4 DEF PublishedTo
    <2> DEFINE view == ViewAfter(Eventually(t), msg)
    <2>1. Eventually(t)' = view /\ ViewsUnderWay(t)' = Append(ViewsUnderWay(t), view)
      BY <1>1, SpokenTo
    <2>2. view \in {b, Unsure}
      BY DEF Replica!Views
    <2> HIDE DEF view
    <2>3. [u \in Tokens |-> ViewsUnderWay(u)]'
            = [[u \in Tokens |-> ViewsUnderWay(u)] EXCEPT ![t] = Append(@, view)]
      BY <1>2, <2>1
    <2>4. [u \in Tokens |-> View(u)]' = [u \in Tokens |-> View(u)]
      BY <1>2, <1>3
    <2>5. Replica!Publish(t)
      BY <1>4, <2>3, <2>4 DEF Replica!Publish, view
    <2>6. ServedSeeTheirBook'
      BY <1>1, <1>2, <2>1, <2>2 DEF ServedSeeTheirBook, AreBooks, CacheTypeOK
    <2>7. (wire \in Seq(Messages))'
      BY <1>1 DEF Says
    <2> QED BY <2>5, <2>6, <2>7
  <1>5. CASE t \notin served
    <2>1. UNCHANGED wire
      BY <1>5 DEF PublishedTo
    <2>2. ViewsUnderWay(t)' = ViewsUnderWay(t)
      BY <2>1, SilentViews
    <2>3. [u \in Tokens |-> ViewsUnderWay(u)]' = [u \in Tokens |-> ViewsUnderWay(u)]
      BY <1>2, <2>2
    <2>4. [u \in Tokens |-> View(u)]' = [u \in Tokens |-> View(u)]
      BY <1>2, <1>3
    <2>5. Replica!Publish(t)
      BY <1>5, <2>3, <2>4 DEF Replica!Publish
    <2>6. ServedSeeTheirBook'
      BY <1>1, <1>2, <1>5 DEF ServedSeeTheirBook, AreBooks, CacheTypeOK
    <2> QED BY <1>1, <2>1, <2>5, <2>6
  <1> QED BY <1>4, <1>5

\* What a served token is told of a book that was the old one but for some
\* levels, or of the whole of it, is that book; or the cache is unsure.
LEMMA ToldTheBook ==
  ASSUME BookInv, NEW t \in served, NEW b \in BooksOf(t),
         NEW ls \in SUBSET Levels[t], ls # {}, \A l \in Levels[t] \ ls : truth[t][l] = b[l],
         \/ Says(Update(t, b, ls)) \/ Says(Snapshot(t, b))
         \/ "delta" \in Forms /\ Says(Delta(t, b, ls))
  PROVE  PublishedTo(t, b)
PROOF
  <1>1. t \in Tokens /\ Eventually(t) \in {Unsure, truth[t]} /\ truth[t] \in BooksOf(t)
    BY DEF BookInv, CacheTypeOK, AreBooks, ServedSeeTheirBook
  <1>2. Replica!Latest(t) = Eventually(t)
    BY <1>1, ReplicaLatest
  <1>3. [u \in Tokens |-> Blank(u)][t] = Blank(t)
    BY <1>1
  <1>4. CASE Says(Update(t, b, ls))
    <2> DEFINE msg == Update(t, b, ls)
    <2>1. Eventually(t) \in {Unsure} \cup {old \in BooksOf(t) : \A l \in Levels[t] \ ls : old[l] = b[l]}
      BY <1>1
    <2>2. /\ msg \in Messages /\ msg.token = t
          /\ ViewAfter(Eventually(t), msg) = IF Eventually(t) = Unsure THEN Unsure ELSE b
      BY <1>1, <2>1, UpdateMeans
    <2> HIDE DEF msg
    <2>3. ViewAfter(Eventually(t), msg) \in Replica!Views(t, b)
      BY <1>2, <2>2 DEF Replica!Views
    <2>4. Says(msg)
      BY <1>4 DEF msg
    <2> QED BY <2>2, <2>3, <2>4 DEF PublishedTo
  <1>5. CASE Says(Snapshot(t, b))
    <2> DEFINE msg == Snapshot(t, b)
    <2>1. /\ msg \in Messages /\ msg.token = t
          /\ ViewAfter(Eventually(t), msg) = IF b = Blank(t) THEN Unsure ELSE b
      BY <1>1, SnapshotMeans
    <2> HIDE DEF msg
    <2>2. ViewAfter(Eventually(t), msg) \in Replica!Views(t, b)
      BY <1>3, <2>1 DEF Replica!Views
    <2>3. Says(msg)
      BY <1>5 DEF msg
    <2> QED BY <2>1, <2>2, <2>3 DEF PublishedTo
  <1>6. CASE "delta" \in Forms /\ Says(Delta(t, b, ls))
    <2> PICK msg \in Messages : /\ Says(msg) /\ msg.token = t
                                /\ ViewAfter(Eventually(t), msg) = Unsure
      BY <1>1, <1>6, DeltaMeans
    <2>1. ViewAfter(Eventually(t), msg) \in Replica!Views(t, b)
      BY <1>6 DEF Replica!Views
    <2> QED BY <2>1 DEF PublishedTo
  <1> QED BY <1>4, <1>5, <1>6

LEMMA BookChangesStep ==
  ASSUME BookInv, NEW t \in Tokens, BookChanges(t)
  PROVE  BookInv' /\ Replica!Publish(t)
PROOF
  <1>1. /\ AreBooks(truth) /\ truth[t] \in BooksOf(t)
        /\ UNCHANGED <<served, clientVars, cacheVars, subscriptionVars>>
    BY DEF BookInv, CacheTypeOK, AreBooks, BookChanges
  <1>2. PICK l \in Levels[t], size \in Sizes :
          /\ truth' = [truth EXCEPT ![t][l] = size]
          /\ IF t \in served
               THEN \E form \in Forms : Says(Telling(form, t, truth'[t], l))
               ELSE UNCHANGED wire
    BY DEF BookChanges
  <1> DEFINE b == [truth[t] EXCEPT ![l] = size]
  <1>3. b \in BooksOf(t) /\ \A k \in Levels[t] \ {l} : truth[t][k] = b[k]
    BY <1>1 DEF BooksOf
  <1>4. truth' = [truth EXCEPT ![t] = b] /\ truth'[t] = b
    BY <1>1, <1>2 DEF AreBooks
  <1> HIDE DEF b
  <1>5. PublishedTo(t, b)
    <2>1. CASE t \in served
      <3>1. {l} \in SUBSET Levels[t] /\ {l} # {}
        OBVIOUS
      <3>2. \/ Says(Update(t, b, {l})) \/ Says(Snapshot(t, b))
            \/ "delta" \in Forms /\ Says(Delta(t, b, {l}))
        <4> PICK form \in Forms : Says(Telling(form, t, b, l))
          BY <1>2, <1>4, <2>1
        <4>1. form \in {"book", "update", "delta"}
          BY CacheAssumption DEF Kinds
        <4> QED BY <4>1 DEF Telling
      <3> QED BY <1>3, <2>1, <3>1, <3>2, ToldTheBook
    <2>2. CASE t \notin served
      BY <1>2, <2>2 DEF PublishedTo
    <2> QED BY <2>1, <2>2
  <1>6. Replica!Publish(t) /\ ServedSeeTheirBook' /\ (wire \in Seq(Messages))'
    <2>1. UNCHANGED <<served, book, based>>
      BY <1>1 DEF cacheVars
    <2> QED BY <1>3, <1>4, <1>5, <2>1, PublishStep
  <1>7. CacheTypeOK'
    <2>1. AreBooks(truth)'
      BY <1>1, <1>3, <1>4 DEF AreBooks
    <2>2. (\A i \in DOMAIN wire : wire[i].token \in Tokens /\ wire[i].kind \in Kinds)'
      BY <1>6, WireType
    <2> QED BY <1>1, <2>1, <2>2
            DEF BookInv, CacheTypeOK, AreBooks, clientVars, taskVars, cacheVars, subscriptionVars
  <1> QED BY <1>1, <1>6, <1>7 DEF BookInv, clientVars

LEMMA TicksStep ==
  ASSUME BookInv, NEW t \in Tokens, Ticks(t)
  PROVE  BookInv' /\ Replica!Publish(t)
PROOF
  <1>1. /\ AreBooks(truth) /\ truth[t] \in BooksOf(t) /\ t \in served
        /\ UNCHANGED <<exchangeVars, clientVars, cacheVars, subscriptionVars>>
    BY DEF BookInv, CacheTypeOK, AreBooks, Ticks
  <1>2. PICK ls \in SUBSET Held(truth[t]) : ls # {} /\ Says(Update(t, truth[t], ls))
    BY DEF Ticks
  <1>3. ls \in SUBSET Levels[t]
    BY <1>1 DEF Held, BooksOf
  <1>4. PublishedTo(t, truth[t])
    BY <1>1, <1>2, <1>3, ToldTheBook
  <1>5. truth' = [truth EXCEPT ![t] = truth[t]]
    BY <1>1 DEF AreBooks, exchangeVars
  <1>6. Replica!Publish(t) /\ ServedSeeTheirBook' /\ (wire \in Seq(Messages))'
    <2>1. UNCHANGED <<served, book, based>>
      BY <1>1 DEF cacheVars, exchangeVars
    <2> QED BY <1>1, <1>4, <1>5, <2>1, PublishStep
  <1>7. CacheTypeOK'
    <2>1. (\A i \in DOMAIN wire : wire[i].token \in Tokens /\ wire[i].kind \in Kinds)'
      BY <1>6, WireType
    <2> QED BY <1>1, <2>1
            DEF BookInv, CacheTypeOK, AreBooks, exchangeVars, clientVars, taskVars, cacheVars,
                subscriptionVars
  <1> QED BY <1>1, <1>6, <1>7 DEF BookInv, exchangeVars, clientVars

\* A step that touches neither the books nor the wire nor the caches.
LEMMA QuietStep ==
  ASSUME UNCHANGED <<truth, served, wire, book, based>>
  PROVE  UNCHANGED Replica!replicaVars /\ (BookInv => ServedSeeTheirBook')
PROOF
  <1>1. \A t \in Tokens : View(t)' = View(t) /\ ViewsUnderWay(t)' = ViewsUnderWay(t)
    BY SilentViews
  <1>2. UNCHANGED Replica!replicaVars
    BY <1>1 DEF Replica!replicaVars
  <1>3. ASSUME BookInv PROVE ServedSeeTheirBook'
    BY <1>1, <1>3 DEF BookInv, CacheTypeOK, ServedSeeTheirBook, Eventually
  <1> QED BY <1>2, <1>3

LEMMA ServeStep ==
  ASSUME BookInv, NEW t \in Tokens, Says(Snapshot(t, truth[t])), served' = served \cup {t},
         UNCHANGED <<truth, book, based>>
  PROVE  Replica!Serve(t) /\ ServedSeeTheirBook' /\ (wire \in Seq(Messages))'
PROOF
  <1> DEFINE msg == Snapshot(t, truth[t])
  <1>1. CacheTypeOK /\ wire \in Seq(Messages) /\ ServedSeeTheirBook /\ truth[t] \in BooksOf(t)
    BY DEF BookInv, CacheTypeOK, AreBooks
  <1>2. /\ msg \in Messages /\ msg.token = t
        /\ ViewAfter(Eventually(t), msg) = IF truth[t] = Blank(t) THEN Unsure ELSE truth[t]
    BY <1>1, SnapshotMeans
  <1>3. Says(msg)
    OBVIOUS
  <1> HIDE DEF msg
  <1>4. ASSUME NEW u \in Tokens, u # t
        PROVE  View(u)' = View(u) /\ ViewsUnderWay(u)' = ViewsUnderWay(u)
               /\ Eventually(u)' = Eventually(u)
    <2>1. UNCHANGED wire \/ \E other \in Messages : other.token # u /\ Says(other)
      BY <1>2, <1>3, <1>4
    <2> QED BY <1>1, <2>1, NotSpokenTo
  <1> DEFINE view == ViewAfter(Eventually(t), msg)
  <1>5. Eventually(t)' = view /\ ViewsUnderWay(t)' = Append(ViewsUnderWay(t), view)
    BY <1>1, <1>2, <1>3, SpokenTo
  <1>6. View(t)' = View(t)
    BY DEF View
  <1>7. view \in {truth[t], Unsure} /\ view \in Replica!WholeViews(t, truth[t])
    <2>1. [u \in Tokens |-> Blank(u)][t] = Blank(t)
      OBVIOUS
    <2> QED BY <1>2, <2>1 DEF Replica!WholeViews
  <1> HIDE DEF view
  <1>8. [u \in Tokens |-> ViewsUnderWay(u)]'
          = [[u \in Tokens |-> ViewsUnderWay(u)] EXCEPT ![t] = Append(@, view)]
    BY <1>4, <1>5
  <1>9. [u \in Tokens |-> View(u)]' = [u \in Tokens |-> View(u)]
    BY <1>4, <1>6
  <1>10. Replica!Serve(t)
    BY <1>7, <1>8, <1>9 DEF Replica!Serve
  <1>11. ServedSeeTheirBook'
    BY <1>1, <1>4, <1>5, <1>7 DEF ServedSeeTheirBook, CacheTypeOK
  <1>12. (wire \in Seq(Messages))'
    BY <1>1, <1>2, <1>3 DEF Says
  <1> QED BY <1>10, <1>11, <1>12

LEMMA SendBatchStep ==
  ASSUME BookInv, NEW k \in Subscribers, SendBatch(k)
  PROVE  /\ BookInv'
         /\ (\E t \in Tokens : Replica!Serve(t)) \/ UNCHANGED Replica!replicaVars
PROOF
  <1> PICK t \in todo[k] :
        /\ todo' = [todo EXCEPT ![k] = @ \ {t}]
        /\ \/ /\ link = "up"
              /\ Says(Snapshot(t, truth[t]))
              /\ served' = served \cup {t}
              /\ subscribed' = subscribed \cup {t}
           \/ /\ link = "broken"
              /\ subscribed' = subscribed \cup {t}
              /\ UNCHANGED <<served, wire>>
           \/ /\ link # "up"
              /\ UNCHANGED <<served, wire, subscribed>>
    BY DEF SendBatch
  <1>1. UNCHANGED <<truth, link, connected, isRunning, connecting, outdated, former, book, based,
                    maxSubscriptions>>
    BY DEF SendBatch, clientVars, taskVars, cacheVars
  <1>2. t \in Tokens /\ todo' \in [Subscribers -> SUBSET Tokens] /\ subscribed' \subseteq Tokens
        /\ served' \subseteq Tokens
    BY DEF BookInv, CacheTypeOK
  <1>3. CASE link = "up" /\ Says(Snapshot(t, truth[t])) /\ served' = served \cup {t}
    <2>1. Replica!Serve(t) /\ ServedSeeTheirBook' /\ (wire \in Seq(Messages))'
      BY <1>1, <1>2, <1>3, ServeStep
    <2>2. CacheTypeOK'
      <3>1. (\A i \in DOMAIN wire : wire[i].token \in Tokens /\ wire[i].kind \in Kinds)'
        BY <2>1, WireType
      <3> QED BY <1>1, <1>2, <3>1 DEF BookInv, CacheTypeOK
    <2> QED BY <1>1, <1>2, <1>3, <2>1, <2>2 DEF BookInv
  <1>4. CASE UNCHANGED <<served, wire>>
    <2>1. UNCHANGED Replica!replicaVars /\ ServedSeeTheirBook'
      BY <1>1, <1>4, QuietStep
    <2> QED BY <1>1, <1>2, <1>4, <2>1 DEF BookInv, CacheTypeOK
  <1> QED BY <1>3, <1>4

LEMMA BreakStep ==
  ASSUME BookInv, Break
  PROVE  BookInv' /\ Replica!Cut
PROOF
  <1> PICK n \in 0 .. Len(wire) : wire' = SubSeq(wire, 1, n)
    BY DEF Break
  <1>1. /\ served' = {} /\ UNCHANGED <<truth, taskVars, book, based, subscriptionVars>>
        /\ CacheTypeOK /\ wire \in Seq(Messages) /\ link' = "broken"
    BY DEF Break, cacheVars, BookInv
  <1>2. wire' \in Seq(Messages)
    BY <1>1
  <1>3. ASSUME NEW t \in Tokens
        PROVE  /\ View(t)' = View(t)
               /\ \E k \in 0 .. Len(ViewsUnderWay(t)) :
                     ViewsUnderWay(t)' = SubSeq(ViewsUnderWay(t), 1, k)
    <2>1. View(t)' = View(t)
      BY <1>1 DEF View
    <2>2. View(t) \in ViewsFor(t) /\ ViewsUnderWay(t) = UnderWay(t, View(t), wire)
          /\ ViewsUnderWay(t) \in Seq(ViewsFor(t))
      BY <1>1, ViewsOfTypes
    <2>3. ViewsUnderWay(t)' = UnderWay(t, View(t), wire')
      BY <2>1 DEF ViewsUnderWay, UnderWay
    <2>4. IsPrefix(UnderWay(t, View(t), SubSeq(wire, 1, n)), UnderWay(t, View(t), wire))
      BY <1>1, <2>2, CutUnderWay
    <2>5. IsPrefix(ViewsUnderWay(t)', ViewsUnderWay(t))
      BY <2>2, <2>3, <2>4
    <2>6. UnderWay(t, View(t), wire') \in Seq(ViewsFor(t))
      BY <1>2, <2>2, UnderWayType
    <2> QED BY <2>1, <2>2, <2>3, <2>5, <2>6 DEF IsPrefix
  <1>4. Replica!Cut
    BY <1>1, <1>3 DEF Replica!Cut
  <1>5. CacheTypeOK'
    <2>1. (\A i \in DOMAIN wire : wire[i].token \in Tokens /\ wire[i].kind \in Kinds)'
      BY <1>2, WireType
    <2> QED BY <1>1, <2>1 DEF CacheTypeOK, taskVars, subscriptionVars
  <1> QED BY <1>1, <1>2, <1>4, <1>5 DEF BookInv, ServedSeeTheirBook

LEMMA ReconnectStep ==
  ASSUME BookInv, Reconnect
  PROVE  BookInv' /\ Replica!Forget
PROOF
  <1>1. /\ wire' = <<>> /\ served' = {} /\ based' = {} /\ link' = "up"
        /\ subscribed' = {} /\ connected' = TRUE /\ isRunning' = TRUE
        /\ UNCHANGED <<truth, book, maxSubscriptions>>
    BY DEF Reconnect, Clear
  <1>2. ASSUME NEW t \in Tokens PROVE View(t)' = Unsure /\ ViewsUnderWay(t)' = <<>>
    <2>1. View(t)' = Unsure
      BY <1>1 DEF View
    <2>2. ViewsUnderWay(t)' = UnderWay(t, Unsure, <<>>)
      BY <1>1, <2>1 DEF ViewsUnderWay, UnderWay
    <2> QED BY <2>1, <2>2, NothingUnderWay
  <1>3. Replica!Forget
    BY <1>1, <1>2 DEF Replica!Forget
  <1>4. connecting' \in Nat /\ outdated' \in Nat /\ former' \subseteq Tokens
    <2>1. connecting' \in Nat /\ outdated' \in Nat
      BY DEF Reconnect, BookInv, CacheTypeOK
    <2>2. Mentioned \subseteq Tokens
      BY DEF Mentioned, BookInv, CacheTypeOK
    <2> QED BY <2>1, <2>2 DEF Reconnect, BookInv, CacheTypeOK
  <1>5. todo' \in [Subscribers -> SUBSET Tokens]
    BY DEF Reconnect, CanSubscribe, BookInv, CacheTypeOK
  <1>6. CacheTypeOK'
    BY <1>1, <1>4, <1>5 DEF BookInv, CacheTypeOK
  <1> QED BY <1>1, <1>3, <1>6 DEF BookInv, ServedSeeTheirBook

\* A cache after a message is what its view was to become.
LEMMA ReadView ==
  ASSUME BookInv, Receive, NEW t \in Tokens
  PROVE  View(t)' = AfterReading(t, View(t), Head(wire))
PROOF
  <1> DEFINE msg == Head(wire)
             u == msg.token
  <1>1. wire # <<>> /\ wire \in Seq(Messages) /\ CacheTypeOK
    BY DEF Receive, BookInv
  <1>2. msg \in Messages /\ u \in Tokens /\ msg.kind \in Kinds
    <2>1. msg \in Messages
      BY <1>1
    <2> HIDE DEF msg
    <2> QED BY <2>1 DEF Messages
  <1>3. /\ book' = IF Parsed(msg) THEN [book EXCEPT ![u] = Applied(@, msg)] ELSE book
        /\ based' = IF ~Parsed(msg) \/ msg.kind = "delta" THEN based \ {u}
                   ELSE IF msg.kind = "book" THEN based \cup {u} ELSE based
    BY DEF Receive, Applies, Follows
  <1>4. /\ book \in [Tokens -> UNION {BooksOf(v) : v \in Tokens}]
        /\ book[t] \in [Levels[t] -> Sizes] /\ book[t] # Unsure
    BY <1>1, CacheAssumption DEF CacheTypeOK, AreBooks, BooksOf, Sizes
  <1> HIDE DEF msg
  <1>5. CASE u # t
    <2>1. book'[t] = book[t] /\ (t \in based' <=> t \in based)
      BY <1>3, <1>4, <1>5
    <2>2. View(t)' = View(t)
      BY <2>1 DEF View
    <2> QED BY <1>5, <2>2 DEF AfterReading, msg
  <1>6. CASE u = t
    <2>1. CASE ~Parsed(msg) \/ msg.kind = "delta"
      <3>1. View(t)' = Unsure
        BY <1>3, <1>6, <2>1 DEF View
      <3> QED BY <1>6, <2>1, <3>1 DEF AfterReading, ViewAfter, msg
    <2>2. CASE Parsed(msg) /\ msg.kind = "book"
      <3>1. t \in based' /\ book'[t] = Applied(book[t], msg)
        BY <1>3, <1>4, <1>6, <2>2
      <3>2. DOMAIN book[t] = Levels[t] /\ DOMAIN Blank(t) = Levels[t]
        BY <1>4 DEF Blank
      <3>3. Applied(book[t], msg) = Applied(Blank(t), msg)
        BY <2>2, <3>2 DEF Applied, ApplySnapshot
      <3>4. View(t)' = Applied(Blank(t), msg)
        BY <3>1, <3>3 DEF View
      <3>5. ViewAfter(View(t), msg) = Applied(Blank(t), msg)
        BY <1>6, <2>2 DEF ViewAfter
      <3> QED BY <1>6, <3>4, <3>5 DEF AfterReading, msg
    <2>3. CASE Parsed(msg) /\ msg.kind = "update"
      <3>1. based' = based /\ book'[t] = Applied(book[t], msg)
        BY <1>3, <1>4, <1>6, <2>3
      <3>2. View(t)' = IF t \in based THEN Applied(book[t], msg) ELSE Unsure
        BY <3>1 DEF View
      <3>3. ViewAfter(View(t), msg) = IF View(t) = Unsure THEN Unsure ELSE Applied(View(t), msg)
        BY <2>3 DEF ViewAfter
      <3>4. View(t) = IF t \in based THEN book[t] ELSE Unsure
        BY DEF View
      <3>5. ViewAfter(View(t), msg) = View(t)'
        BY <1>4, <3>2, <3>3, <3>4
      <3> QED BY <1>6, <3>5 DEF AfterReading, msg
    <2> QED BY <1>2, <2>1, <2>2, <2>3 DEF Kinds
  <1> QED BY <1>5, <1>6

\* The caches stay books, whichever message is applied.
LEMMA AppliesTypes ==
  ASSUME AreBooks(book), NEW msg \in Messages, Applies(msg)
  PROVE  AreBooks(book)'
PROOF
  <1> PICK u \in Tokens : u = msg.token
    BY DEF Messages
  <1>1. PICK ls : msg.levels \in [ls -> Sizes]
    <2>1. msg.levels \in Sayings
      BY DEF Messages
    <2> QED BY <2>1 DEF Sayings
  <1>2. book[u] \in [Levels[u] -> Sizes] /\ 0 \in Sizes
    BY CacheAssumption DEF Sizes, AreBooks, BooksOf
  <1>3. Applied(book[u], msg) \in BooksOf(u)
    <2>1. ApplySnapshot(book[u], msg.levels) \in BooksOf(u)
      BY <1>1, <1>2 DEF ApplySnapshot, BooksOf
    <2>2. ApplyUpdate(book[u], msg.levels) \in BooksOf(u)
      BY <1>1, <1>2 DEF ApplyUpdate, BooksOf
    <2> QED BY <2>1, <2>2 DEF Applied
  <1>4. CASE book' = [book EXCEPT ![u] = Applied(@, msg)]
    BY <1>3, <1>4 DEF AreBooks
  <1>5. CASE book' = book
    BY <1>5 DEF AreBooks
  <1> QED BY <1>4, <1>5 DEF Applies

LEMMA ReceiveTypes == ASSUME BookInv, Receive PROVE CacheTypeOK' /\ (wire \in Seq(Messages))'
PROOF
  <1>1. wire # <<>> /\ wire \in Seq(Messages) /\ CacheTypeOK /\ wire' = Tail(wire)
        /\ UNCHANGED <<exchangeVars, clientVars, subscriptionVars>>
    BY DEF Receive, BookInv
  <1>2. PICK msg \in Messages : msg = Head(wire)
    BY <1>1
  <1>3. wire' \in Seq(Messages)
    BY <1>1
  <1>4. AreBooks(book)'
    BY <1>1, <1>2, AppliesTypes DEF Receive, CacheTypeOK
  <1>5. (based \subseteq Tokens)'
    BY <1>1, <1>2 DEF Receive, Follows, CacheTypeOK, Messages
  <1>6. \A i \in DOMAIN wire' : wire'[i].token \in Tokens /\ wire'[i].kind \in Kinds
    BY <1>3, WireType
  <1> QED BY <1>1, <1>3, <1>4, <1>5, <1>6
          DEF CacheTypeOK, AreBooks, exchangeVars, clientVars, taskVars, subscriptionVars

LEMMA ReceiveStep ==
  ASSUME BookInv, Receive
  PROVE  BookInv' /\ \E t \in Tokens : Replica!Deliver(t)
PROOF
  <1>1. wire # <<>> /\ wire \in Seq(Messages) /\ CacheTypeOK /\ wire' = Tail(wire)
        /\ UNCHANGED <<truth, served, link>> /\ ServedSeeTheirBook
    BY DEF Receive, BookInv, exchangeVars, clientVars
  <1>2. PICK msg \in Messages : msg = Head(wire)
    BY <1>1
  <1>3. PICK t \in Tokens : msg.token = t
    BY DEF Messages
  <1>4. CacheTypeOK' /\ (wire \in Seq(Messages))'
    BY ReceiveTypes
  <1>5. ASSUME NEW u \in Tokens
        PROVE  /\ View(u)' = AfterReading(u, View(u), msg)
               /\ View(u)' \in ViewsFor(u) /\ ViewsUnderWay(u)' \in Seq(ViewsFor(u))
               /\ ViewsUnderWay(u) = FirstViews(u, View(u), msg) \o ViewsUnderWay(u)'
               /\ Eventually(u)' = Eventually(u)
    <2>1. View(u)' = AfterReading(u, View(u), msg)
      BY <1>2, ReadView
    <2>2. View(u) \in ViewsFor(u) /\ ViewsUnderWay(u) = UnderWay(u, View(u), wire)
      BY <1>1, ViewsOfTypes
    <2>3. ViewsUnderWay(u)' = UnderWay(u, View(u)', wire')
      BY DEF ViewsUnderWay, UnderWay
    <2>4. UnderWay(u, View(u), wire)
            = FirstViews(u, View(u), msg) \o UnderWay(u, AfterReading(u, View(u), msg), wire')
      BY <1>1, <1>2, <2>2, ReadUnderWay
    <2>5. View(u)' \in ViewsFor(u)
      BY <1>2, <2>1, <2>2, ViewAfterType DEF AfterReading
    <2>6. ViewsUnderWay(u)' \in Seq(ViewsFor(u))
      BY <1>4, <2>3, <2>5, UnderWayType
    <2>7. ViewsUnderWay(u) = FirstViews(u, View(u), msg) \o ViewsUnderWay(u)'
      BY <2>1, <2>2, <2>3, <2>4
    <2>8. ViewsUnderWay(u) = Joined(FirstViews(u, View(u), msg), ViewsUnderWay(u)')
      BY <2>7 DEF Joined
    <2>9. Eventually(u)' = Eventually(u)
      <3>1. Latest(View(u), Joined(FirstViews(u, View(u), msg), ViewsUnderWay(u)'))
              = Latest(AfterReading(u, View(u), msg), ViewsUnderWay(u)')
        BY <2>1, <2>5, <2>6, LatestAfterFirst
      <3>2. Eventually(u)' = Latest(View(u)', ViewsUnderWay(u)')
        BY DEF Eventually
      <3> QED BY <2>1, <2>8, <3>1, <3>2 DEF Eventually
    <2> QED BY <2>1, <2>5, <2>6, <2>7, <2>9
  <1>6. ViewsUnderWay(t) # <<>> /\ View(t)' = Head(ViewsUnderWay(t))
        /\ ViewsUnderWay(t)' = Tail(ViewsUnderWay(t))
    <2> PICK first, rest : first = View(t)' /\ rest = ViewsUnderWay(t)'
      OBVIOUS
    <2> DEFINE V == ViewsFor(t)
    <2>1. first \in V /\ rest \in Seq(V) /\ ViewsUnderWay(t) = <<first>> \o rest
      <3>1. AfterReading(t, View(t), msg) = ViewAfter(View(t), msg)
            /\ FirstViews(t, View(t), msg) = <<ViewAfter(View(t), msg)>>
        BY <1>3 DEF AfterReading, FirstViews
      <3>2. first = AfterReading(t, View(t), msg) /\ first \in V /\ rest \in Seq(V)
            /\ ViewsUnderWay(t) = FirstViews(t, View(t), msg) \o rest
        BY <1>3, <1>5
      <3>3. FirstViews(t, View(t), msg) = <<first>>
        BY <3>1, <3>2
      <3> QED BY <3>2, <3>3
    <2> HIDE DEF V
    <2>2. <<first>> \o rest # <<>> /\ Head(<<first>> \o rest) = first
          /\ Tail(<<first>> \o rest) = rest
      BY <2>1
    <2> QED BY <2>1, <2>2
  <1>7. ASSUME NEW u \in Tokens, u # t
        PROVE  View(u)' = View(u) /\ ViewsUnderWay(u)' = ViewsUnderWay(u)
    <2>1. AfterReading(u, View(u), msg) = View(u) /\ FirstViews(u, View(u), msg) = <<>>
      BY <1>3, <1>7 DEF AfterReading, FirstViews
    <2>2. View(u)' = View(u) /\ ViewsUnderWay(u) = <<>> \o ViewsUnderWay(u)'
          /\ ViewsUnderWay(u)' \in Seq(ViewsFor(u))
      BY <1>5, <2>1
    <2>3. \A s \in Seq(ViewsFor(u)) : <<>> \o s = s
      OBVIOUS
    <2> QED BY <2>2, <2>3
  <1>8. [u \in Tokens |-> View(u)]'
          = [[u \in Tokens |-> View(u)] EXCEPT ![t] = Head(ViewsUnderWay(t))]
    BY <1>3, <1>6, <1>7
  <1>9. [u \in Tokens |-> ViewsUnderWay(u)]'
          = [[u \in Tokens |-> ViewsUnderWay(u)] EXCEPT ![t] = Tail(@)]
    BY <1>3, <1>6, <1>7
  <1>10. Replica!Deliver(t)
    BY <1>1, <1>3, <1>6, <1>8, <1>9 DEF Replica!Deliver
  <1>11. ServedSeeTheirBook'
    BY <1>1, <1>5 DEF ServedSeeTheirBook, CacheTypeOK
  <1> QED BY <1>1, <1>3, <1>4, <1>10, <1>11 DEF BookInv

-----------------------------------------------------------------------------
(* A replaced socket speaks of a token: its cache is unsure, and so are the *)
(* views under way up to the next snapshot.                                 *)

Doubtful(n, views) == [i \in 1 .. Len(views) |-> IF i <= n THEN Unsure ELSE views[i]]

AreDoubtful(g, f) == \E n \in 0 .. Len(f) : g = Doubtful(n, f)

\* The doubtful views of g come before the views it shares with f, if any.
ShareTheRest(view, f, g) ==
  /\ AreDoubtful(g, f)
  /\ Latest(Unsure, g) \in {Unsure, Latest(view, f)}

LEMMA DoubtfulGrows ==
  ASSUME NEW V, Unsure \in V, NEW f \in Seq(V), NEW n \in 0 .. Len(f), NEW v \in V, NEW w \in V,
         w = v \/ (w = Unsure /\ n = Len(f))
  PROVE  AreDoubtful(Append(Doubtful(n, f), w), Append(f, v))
PROOF
  <1>1. Len(f) \in Nat /\ n \in Nat /\ n <= Len(f) /\ Len(Append(f, v)) = Len(f) + 1
        /\ \A i \in 1 .. Len(f) : Append(f, v)[i] = f[i] /\ f[i] \in V
    OBVIOUS
  <1>2. Append(f, v)[Len(f) + 1] = v
    OBVIOUS
  <1>3. Doubtful(n, f) \in Seq(V) /\ Len(Doubtful(n, f)) = Len(f)
    <2>1. Doubtful(n, f) \in [1 .. Len(f) -> V]
      BY <1>1 DEF Doubtful
    <2> QED BY <1>1, <2>1
  <1>4. /\ Append(Doubtful(n, f), w) = [i \in 1 .. Len(f) + 1 |->
                                          IF i <= Len(f) THEN Doubtful(n, f)[i] ELSE w]
    <2> PICK d \in Seq(V) : d = Doubtful(n, f) /\ Len(d) = Len(f)
      BY <1>3
    <2> DEFINE longer == Append(d, w)
    <2>1. /\ longer \in Seq(V) /\ Len(longer) = Len(d) + 1
          /\ \A i \in 1 .. Len(d) : longer[i] = d[i]
          /\ longer[Len(d) + 1] = w
      OBVIOUS
    <2> HIDE DEF longer
    <2>2. longer \in [1 .. Len(d) + 1 -> V]
      <3>1. \A views \in Seq(V) : views \in [1 .. Len(views) -> V]
        OBVIOUS
      <3>2. longer \in [1 .. Len(longer) -> V]
        BY <2>1, <3>1
      <3> QED BY <2>1, <3>2
    <2>3. \A i \in 1 .. Len(d) + 1 : longer[i] = IF i <= Len(d) THEN d[i] ELSE w
      <3>1. \A i \in 1 .. Len(d) + 1 : i \in 1 .. Len(d) \/ i = Len(d) + 1
        BY <1>1
      <3>2. ~(Len(d) + 1 <= Len(d))
        BY <1>1
      <3> QED BY <2>1, <3>1, <3>2
    <2>4. longer = [i \in 1 .. Len(d) + 1 |-> IF i <= Len(d) THEN d[i] ELSE w]
      BY <2>2, <2>3
    <2> QED BY <2>4 DEF longer
  <1>5. \A i \in 1 .. Len(f) : Doubtful(n, f)[i] = IF i <= n THEN Unsure ELSE f[i]
    BY DEF Doubtful
  <1>6. CASE w = v
    <2>1. Append(Doubtful(n, f), w) = Doubtful(n, Append(f, v))
      BY <1>1, <1>2, <1>4, <1>5, <1>6 DEF Doubtful
    <2> QED BY <1>1, <2>1 DEF AreDoubtful
  <1>7. CASE w = Unsure /\ n = Len(f)
    <2>1. Append(Doubtful(n, f), w) = Doubtful(n + 1, Append(f, v))
      BY <1>1, <1>2, <1>4, <1>5, <1>7 DEF Doubtful
    <2> QED BY <1>1, <1>7, <2>1 DEF AreDoubtful
  <1> QED BY <1>6, <1>7

LEMMA DoubtfulLatest ==
  ASSUME NEW V, NEW f \in Seq(V), NEW n \in 0 .. Len(f), NEW view
  PROVE  /\ n # Len(f) => Latest(Unsure, Doubtful(n, f)) = Latest(view, f)
         /\ n = Len(f) => Latest(Unsure, Doubtful(n, f)) = Unsure
PROOF
  <1>1. Len(f) \in Nat /\ n \in Nat /\ n <= Len(f)
    OBVIOUS
  <1>2. Len(Doubtful(n, f)) = Len(f)
    <2>1. Doubtful(n, f) \in Seq(V \cup {Unsure})
      BY <1>1 DEF Doubtful
    <2> QED BY <1>1, <2>1 DEF Doubtful
  <1>3. (Doubtful(n, f) = <<>> <=> Len(f) = 0) /\ (f = <<>> <=> Len(f) = 0)
    <2>1. Doubtful(n, f) \in Seq(V \cup {Unsure})
      BY <1>1 DEF Doubtful
    <2> QED BY <1>1, <1>2, <2>1
  <1>4. Len(f) # 0 => Doubtful(n, f)[Len(f)] = IF Len(f) <= n THEN Unsure ELSE f[Len(f)]
    BY <1>1 DEF Doubtful
  <1> QED BY <1>1, <1>2, <1>3, <1>4 DEF Latest

\* A message after doubtful views keeps to what follows them.
LEMMA DoubtfulStep ==
  ASSUME NEW t \in Tokens, NEW view \in ViewsFor(t), NEW msg \in Messages,
         NEW f \in Seq(ViewsFor(t)), NEW g, ShareTheRest(view, f, g)
  PROVE  ShareTheRest(view, NextViews(t, view, f, msg), NextViews(t, Unsure, g, msg))
PROOF
  <1>1. CASE msg.token # t
    BY <1>1 DEF NextViews
  <1>2. CASE msg.token = t
    <2> PICK n \in 0 .. Len(f) : g = Doubtful(n, f)
      BY DEF ShareTheRest, AreDoubtful
    <2> DEFINE V == ViewsFor(t)
               v == ViewAfter(Latest(view, f), msg)
               w == ViewAfter(Latest(Unsure, g), msg)
    <2>1. Unsure \in V /\ Latest(view, f) \in V
      BY LatestType DEF ViewsFor
    <2>2. Latest(Unsure, g) \in {Unsure, Latest(view, f)}
      BY DEF ShareTheRest
    <2>3. v \in V /\ w \in V
      BY <1>2, <2>1, <2>2, ViewAfterType
    <2>4. w = v \/ (w = Unsure /\ n = Len(f))
      <3>1. n # Len(f) => Latest(Unsure, g) = Latest(view, f)
        BY DoubtfulLatest
      <3>2. Latest(Unsure, g) = Unsure => w \in {v, Unsure}
        BY DEF ViewAfter
      <3> QED BY <2>2, <3>1, <3>2
    <2>5. NextViews(t, view, f, msg) = Append(f, v) /\ NextViews(t, Unsure, g, msg) = Append(g, w)
      BY <1>2 DEF NextViews
    <2> HIDE DEF V, v, w
    <2>6. f \in Seq(V)
      BY DEF V
    <2>10. AreDoubtful(Append(Doubtful(n, f), w), Append(f, v))
      BY <2>1, <2>3, <2>4, <2>6, DoubtfulGrows
    <2>7. PICK m \in 0 .. Len(Append(f, v)) : Append(g, w) = Doubtful(m, Append(f, v))
      BY <2>10 DEF AreDoubtful
    <2>8. Append(f, v) \in Seq(V)
      BY <2>3, <2>6
    <2>9. Latest(Unsure, Append(g, w)) \in {Unsure, Latest(view, Append(f, v))}
      <3> PICK longer \in Seq(V) : longer = Append(f, v)
        BY <2>8
      <3>1. m \in 0 .. Len(longer) /\ Append(g, w) = Doubtful(m, longer)
        BY <2>7
      <3>2. Latest(Unsure, Doubtful(m, longer)) \in {Unsure, Latest(view, longer)}
        BY <3>1, DoubtfulLatest
      <3> QED BY <3>1, <3>2
    <2> QED BY <2>5, <2>7, <2>9 DEF ShareTheRest, AreDoubtful
  <1> QED BY <1>1, <1>2

LEMMA DoubtUnderWay ==
  ASSUME NEW t \in Tokens, NEW view \in ViewsFor(t), NEW msgs \in Seq(Messages)
  PROVE  ShareTheRest(view, UnderWay(t, view, msgs), UnderWay(t, Unsure, msgs))
PROOF
  <1> DEFINE n == Len(msgs)
             f == ViewsOf(t, view, msgs)
             g == ViewsOf(t, Unsure, msgs)
             S == {i \in Nat : i <= n => ShareTheRest(view, f[i], g[i])}
  <1>1. n \in Nat /\ AreViews(t, view, msgs, n, f) /\ AreViews(t, Unsure, msgs, n, g)
        /\ \A i \in 1 .. n : msgs[i] \in Messages
    BY ViewsOfAre
  <1>2. \A i \in 0 .. n : f[i] \in Seq(ViewsFor(t))
    BY UnderWayType
  <1> HIDE DEF n, f, g
  <1>3. \A p, q \in Nat : q = p + 1 /\ q <= n => f[q] = NextViews(t, view, f[p], msgs[q])
    BY <1>1, ViewsStep
  <1>4. \A p, q \in Nat : q = p + 1 /\ q <= n => g[q] = NextViews(t, Unsure, g[p], msgs[q])
    BY <1>1, ViewsStep
  <1>5. 0 \in S
    <2>1. f[0] = <<>> /\ g[0] = <<>>
      BY <1>1, ViewsStart
    <2>2. Doubtful(0, <<>>) = <<>> /\ Len(<<>>) = 0
      BY DEF Doubtful
    <2>3. ShareTheRest(view, <<>>, <<>>)
      BY <2>2 DEF ShareTheRest, AreDoubtful, Latest
    <2> QED BY <2>1, <2>3
  <1>6. ASSUME NEW i \in Nat, i \in S PROVE i + 1 \in S
    <2> DEFINE j == i + 1
    <2>1. j \in Nat /\ j = i + 1
      OBVIOUS
    <2> HIDE DEF j
    <2> SUFFICES ASSUME j <= n PROVE ShareTheRest(view, f[j], g[j])
      BY <2>1
    <2>2. i <= n /\ i \in 0 .. n /\ j \in 1 .. n
      BY <1>1, <2>1
    <2>3. f[j] = NextViews(t, view, f[i], msgs[j]) /\ g[j] = NextViews(t, Unsure, g[i], msgs[j])
      BY <1>3, <1>4, <2>1
    <2>4. ShareTheRest(view, f[i], g[i]) /\ f[i] \in Seq(ViewsFor(t)) /\ msgs[j] \in Messages
      BY <1>1, <1>2, <1>6, <2>2
    <2> HIDE DEF S
    <2> QED BY <2>3, <2>4, DoubtfulStep
  <1>7. S = Nat
    <2>1. S \subseteq Nat
      OBVIOUS
    <2> HIDE DEF S
    <2> QED BY <1>5, <1>6, <2>1, NumbersInTurn
  <1>8. n \in S
    BY <1>1, <1>7
  <1> QED BY <1>1, <1>8 DEF UnderWay, n, f, g

\* The cache becomes doubtful for t; what it will show at last is the book or
\* unknown.
LEMMA DoubtStep ==
  ASSUME BookInv, NEW t \in Tokens, based' = based \ {t}, UNCHANGED <<truth, served, wire>>,
         \A u \in Tokens \ {t} : book'[u] = book[u]
  PROVE  Replica!Doubt(t) /\ ServedSeeTheirBook'
PROOF
  <1>1. CacheTypeOK /\ wire \in Seq(Messages) /\ ServedSeeTheirBook
    BY DEF BookInv
  <1>2. ASSUME NEW u \in Tokens, u # t
        PROVE  View(u)' = View(u) /\ ViewsUnderWay(u)' = ViewsUnderWay(u)
               /\ Eventually(u)' = Eventually(u)
    <2>1. View(u)' = View(u)
      BY <1>2 DEF View
    <2>2. ViewsUnderWay(u)' = ViewsUnderWay(u)
      BY <2>1 DEF ViewsUnderWay
    <2> QED BY <2>1, <2>2 DEF Eventually
  <1>3. View(t)' = Unsure
    BY DEF View
  <1>4. ViewsUnderWay(t)' = UnderWay(t, Unsure, wire)
    BY <1>3 DEF ViewsUnderWay, UnderWay
  <1>5. View(t) \in ViewsFor(t) /\ ViewsUnderWay(t) = UnderWay(t, View(t), wire)
    BY <1>1, ViewsOfTypes
  <1>6. ShareTheRest(View(t), ViewsUnderWay(t), ViewsUnderWay(t)')
    BY <1>1, <1>4, <1>5, DoubtUnderWay
  <1>7. PICK n \in 0 .. Len(ViewsUnderWay(t)) : ViewsUnderWay(t)' = Doubtful(n, ViewsUnderWay(t))
    BY <1>6 DEF ShareTheRest, AreDoubtful
  <1>8. Eventually(t)' \in {Unsure, Eventually(t)}
    BY <1>3, <1>6 DEF ShareTheRest, Eventually
  <1>9. [u \in Tokens |-> ViewsUnderWay(u)]'
          = [[u \in Tokens |-> ViewsUnderWay(u)] EXCEPT ![t] =
               [i \in 1 .. Len(ViewsUnderWay(t)) |-> IF i <= n THEN Unsure ELSE ViewsUnderWay(t)[i]]]
    BY <1>2, <1>7 DEF Doubtful
  <1>10. [u \in Tokens |-> View(u)]' = [[u \in Tokens |-> View(u)] EXCEPT ![t] = Unsure]
    BY <1>2, <1>3
  <1>11. Replica!Doubt(t)
    <2>1. [u \in Tokens |-> ViewsUnderWay(u)][t] = ViewsUnderWay(t)
      OBVIOUS
    <2>2. \E k \in 0 .. Len([u \in Tokens |-> ViewsUnderWay(u)][t]) :
            [u \in Tokens |-> ViewsUnderWay(u)]'
              = [[u \in Tokens |-> ViewsUnderWay(u)] EXCEPT ![t] =
                   [i \in 1 .. Len([u \in Tokens |-> ViewsUnderWay(u)][t]) |->
                      IF i <= k THEN Unsure ELSE [u \in Tokens |-> ViewsUnderWay(u)][t][i]]]
      BY <1>7, <1>9, <2>1, Zenon
    <2> QED BY <1>10, <2>2, Zenon DEF Replica!Doubt
  <1>12. ServedSeeTheirBook'
    BY <1>1, <1>2, <1>8 DEF ServedSeeTheirBook, CacheTypeOK
  <1> QED BY <1>11, <1>12

\* What a replaced socket says is a message about one of its tokens.
LEMMA TellingType ==
  ASSUME NEW t \in Tokens, NEW form \in Forms, NEW b \in BooksOf(t), NEW l \in Levels[t]
  PROVE  Telling(form, t, b, l) \in Messages /\ Telling(form, t, b, l).token = t
PROOF
  <1>1. Snapshot(t, b) \in Messages /\ Snapshot(t, b).token = t
    BY SnapshotMeans
  <1>2. {l} \in SUBSET Levels[t] /\ {l} # {}
    OBVIOUS
  <1>3. Update(t, b, {l}) \in Messages /\ Update(t, b, {l}).token = t
    BY <1>2, UpdateMeans
  <1>4. Delta(t, b, {l}) \in Messages /\ Delta(t, b, {l}).token = t
    BY <1>2, DeltaMeans
  <1>5. form \in {"book", "update", "delta"}
    BY CacheAssumption DEF Kinds
  <1> QED BY <1>1, <1>3, <1>4, <1>5 DEF Telling

LEMMA HandlerTypes ==
  ASSUME CacheTypeOK, StartHandler \/ UNCHANGED <<connected, connecting>>
  PROVE  connected' \in BOOLEAN /\ connecting' \in Nat
PROOF
  <1>1. connected' \in BOOLEAN
    BY Zenon DEF StartHandler, CacheTypeOK
  <1>2. connecting \in Nat /\ connecting' \in {connecting, connecting + 0, connecting + 1}
    BY Zenon DEF StartHandler, CacheTypeOK
  <1>3. connecting' \in Nat
    BY <1>2
  <1> QED BY <1>1, <1>3

LEMMA WakeStep ==
  ASSUME BookInv, Wake
  PROVE  /\ BookInv'
         /\ (\E t \in Tokens : Replica!Doubt(t)) \/ UNCHANGED Replica!replicaVars
PROOF
  <1>1. /\ UNCHANGED <<truth, served, wire, link, isRunning, subscribed, todo, maxSubscriptions>>
        /\ connected' \in BOOLEAN /\ connecting' \in Nat /\ outdated' \in Nat
        /\ former' \subseteq Tokens
    <2>1. /\ outdated > 0 /\ outdated' = outdated - 1
          /\ former' = IF outdated = 1 THEN {} ELSE former
          /\ StartHandler \/ UNCHANGED <<connected, connecting>>
          /\ UNCHANGED <<truth, served, wire, link, isRunning, subscribed, todo, maxSubscriptions>>
      BY DEF Wake, exchangeVars, subscriptionVars
    <2>2. CacheTypeOK /\ outdated \in Nat /\ former \subseteq Tokens
      BY DEF BookInv, CacheTypeOK
    <2>3. connected' \in BOOLEAN /\ connecting' \in Nat
      BY <2>1, <2>2, HandlerTypes
    <2>4. outdated' \in Nat /\ former' \subseteq Tokens
      BY <2>1, <2>2
    <2> QED BY <2>1, <2>3, <2>4
  <1>2. ASSUME AreBooks(book)', based' \subseteq Tokens, ServedSeeTheirBook' PROVE BookInv'
    BY <1>1, <1>2 DEF BookInv, CacheTypeOK, AreBooks
  <1>3. CASE UNCHANGED cacheVars
    <2>1. UNCHANGED Replica!replicaVars /\ ServedSeeTheirBook'
      BY <1>1, <1>3, QuietStep DEF cacheVars
    <2>2. AreBooks(book)' /\ based' \subseteq Tokens
      BY <1>3 DEF cacheVars, BookInv, CacheTypeOK, AreBooks
    <2> QED BY <1>2, <2>1, <2>2
  <1>4. CASE \E t \in former : \E form \in Forms, b \in BooksOf(t), l \in Levels[t] :
               Applies(Telling(form, t, b, l)) /\ based' = based \ {t}
    <2> PICK t \in Tokens :
            \E form \in Forms, b \in BooksOf(t), l \in Levels[t] :
              Applies(Telling(form, t, b, l)) /\ based' = based \ {t}
      BY <1>4 DEF BookInv, CacheTypeOK
    <2>1. PICK form \in Forms, b \in BooksOf(t), l \in Levels[t] :
            Applies(Telling(form, t, b, l)) /\ based' = based \ {t}
      OBVIOUS
    <2>2. PICK msg \in Messages : Applies(msg) /\ msg.token = t
      BY <2>1, TellingType
    <2>3. AreBooks(book) /\ based' \subseteq Tokens
      BY <2>1 DEF BookInv, CacheTypeOK
    <2>4. AreBooks(book)'
      BY <2>2, <2>3, AppliesTypes
    <2>5. \A u \in Tokens \ {t} : book'[u] = book[u]
      BY <2>2, <2>3 DEF Applies, AreBooks
    <2>6. Replica!Doubt(t) /\ ServedSeeTheirBook'
      BY <1>1, <2>1, <2>5, DoubtStep
    <2> QED BY <1>2, <2>3, <2>4, <2>6
  <1> QED BY <1>3, <1>4 DEF Wake

-----------------------------------------------------------------------------
LEMMA BookInitInv == BookInit => BookInv /\ Replica!ReplicaInit
PROOF
  <1> SUFFICES ASSUME BookInit PROVE BookInv /\ Replica!ReplicaInit
    OBVIOUS
  <1>1. AreBooks(truth) /\ served = {} /\ wire = <<>> /\ link = "down" /\ based = {}
        /\ subscribed = {} /\ todo = [k \in Subscribers |-> {}]
        /\ connected = FALSE /\ isRunning = FALSE /\ connecting = 1 /\ outdated = 0 /\ former = {}
        /\ maxSubscriptions \in Limits
        /\ book = [t \in Tokens |-> Blank(t)]
    BY DEF BookInit
  <1>2. AreBooks(book)
    <2>1. \A t \in Tokens : Blank(t) \in BooksOf(t)
      <3>1. 0 \in Sizes
        BY CacheAssumption DEF Sizes
      <3> QED BY <3>1 DEF Blank, BooksOf
    <2> QED BY <1>1, <2>1 DEF AreBooks
  <1>3. wire \in Seq(Messages)
    BY <1>1
  <1>4. \A i \in DOMAIN wire : wire[i].token \in Tokens /\ wire[i].kind \in Kinds
    BY <1>3, WireType
  <1>5. CacheTypeOK
    BY <1>1, <1>2, <1>4 DEF CacheTypeOK
  <1>6. \A t \in Tokens : View(t) = Unsure /\ ViewsUnderWay(t) = <<>>
    BY <1>1, NothingUnderWay DEF View, ViewsUnderWay, UnderWay
  <1>7. Replica!ReplicaInit
    BY <1>1, <1>6 DEF Replica!ReplicaInit, AreBooks
  <1> QED BY <1>1, <1>3, <1>5, <1>7 DEF BookInv, ServedSeeTheirBook

LEMMA BookNextInv ==
  ASSUME BookInv, [BookNext]_bookVars
  PROVE  BookInv' /\ [Replica!ReplicaNext]_(Replica!replicaVars)
PROOF
  <1> USE DEF Replica!ReplicaNext
  <1>1. ASSUME NEW t \in Tokens, BookChanges(t) \/ Ticks(t)
        PROVE  BookInv' /\ Replica!ReplicaNext
    BY <1>1, BookChangesStep, TicksStep
  <1>2. ASSUME NEW k \in Subscribers, SendBatch(k)
        PROVE  BookInv' /\ [Replica!ReplicaNext]_(Replica!replicaVars)
    BY <1>2, SendBatchStep
  <1>3. CASE Break
    BY <1>3, BreakStep
  <1>4. CASE Reconnect
    BY <1>4, ReconnectStep
  <1>5. CASE Receive
    BY <1>5, ReceiveStep
  <1>7. CASE Wake
    BY <1>7, WakeStep
  <1>6. CASE Notice \/ PongTimeout \/ GiveUp \/ Scan \/ UNCHANGED bookVars
    <2>1. /\ UNCHANGED <<truth, served, wire, outdated, former, book, based, subscribed,
                         maxSubscriptions>>
          /\ todo' \in [Subscribers -> SUBSET Tokens] /\ link' \in {"up", "broken", "down"}
          /\ (link' # "up" => link # "up")
          /\ connected' \in BOOLEAN /\ isRunning' \in BOOLEAN /\ connecting' \in Nat
      <3>1. CacheTypeOK
        BY DEF BookInv
      <3> USE DEF exchangeVars, clientVars, taskVars, cacheVars, subscriptionVars
      <3>2. CASE Notice \/ PongTimeout
        <4>1. StartHandler
          BY <3>2 DEF Notice, PongTimeout
        <4>2. connected' \in BOOLEAN /\ connecting' \in Nat
          BY <3>1, <4>1, HandlerTypes
        <4> QED BY <3>1, <3>2, <4>2 DEF Notice, PongTimeout, CacheTypeOK
      <3>3. CASE GiveUp
        <4>1. connecting' \in Nat
          BY <3>1, <3>3 DEF GiveUp, CacheTypeOK
        <4>2. connected' \in BOOLEAN /\ isRunning' \in BOOLEAN
          BY <3>1, <3>3, Zenon DEF GiveUp, CacheTypeOK
        <4> QED BY <3>1, <3>3, <4>1, <4>2 DEF GiveUp, CacheTypeOK
      <3>4. CASE Scan
        <4> PICK tokens \in CanSubscribe(Tokens, subscribed) :
              todo' = [todo EXCEPT !["runner"] = tokens]
          BY <3>4 DEF Scan
        <4>1. tokens \subseteq Tokens
          BY DEF CanSubscribe
        <4> QED BY <3>1, <3>4, <4>1 DEF Scan, CacheTypeOK, Subscribers
      <3>5. CASE UNCHANGED bookVars
        BY <3>1, <3>5 DEF bookVars, CacheTypeOK
      <3> QED BY <1>6, <3>2, <3>3, <3>4, <3>5
    <2>2. UNCHANGED Replica!replicaVars /\ ServedSeeTheirBook'
      BY <2>1, QuietStep
    <2>3. CacheTypeOK'
      BY <2>1 DEF BookInv, CacheTypeOK, AreBooks
    <2> QED BY <2>1, <2>2, <2>3 DEF BookInv
  <1> QED BY <1>1, <1>2, <1>3, <1>4, <1>5, <1>6, <1>7 DEF BookNext

(* The invariant of the caches: their types, and that each token the        *)
(* exchange serves on this connection has, once the wire is read, its book. *)
THEOREM BookInvariant == BookSpec => []BookInv
PROOF
  BY BookInitInv, BookNextInv, PTL DEF BookSpec

(* Whatever a cache shows once the wire is read is the exchange's book, if *)
(* it rests on a snapshot of this socket, none of whose changes came as a  *)
(* delta since and to which no replaced socket has added                   *)
(* (orderbook_cache.py).                                                   *)
THEOREM SyncedBooksAreReal == BookSpec => []SyncedBookIsReal
PROOF
  <1>1. BookInv => SyncedBookIsReal
    <2> SUFFICES ASSUME BookInv PROVE SyncedBookIsReal
      OBVIOUS
    <2>1. served \subseteq Tokens
      BY DEF BookInv, CacheTypeOK
    <2>2. Replica!ServedViewIsReal
      BY <2>1, ReplicaLatest DEF Replica!ServedViewIsReal, BookInv, ServedSeeTheirBook
    <2> QED BY <2>2 DEF SyncedBookIsReal, BookInv
  <1> QED BY <1>1, BookInvariant, PTL

(* The caches implement BookReplica: each goes through the books the       *)
(* exchange had, in their order, and becomes unsure only when the          *)
(* connection is replaced, a replaced one still speaks, the book is empty  *)
(* or a change comes as a delta that is taken for a snapshot.              *)
THEOREM CachesReplicate == BookSpec => CachesAreReplicas
PROOF
  BY BookInitInv, BookNextInv, BookInvariant, PTL DEF BookSpec, CachesAreReplicas, Replica!ReplicaSpec
=============================================================================
