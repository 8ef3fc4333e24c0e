------------------------------- MODULE Account -------------------------------
(***************************************************************************)
(* The paper account ledger, polysignal/execution/account_state.py.        *)
(*                                                                         *)
(* AccountState keeps cash, the realized profit, the losing streak, one    *)
(* aggregated position per market and the list of closed trades.  Money is *)
(* counted in whole units.  A market without a position has notional 0     *)
(* (record_open only admits positive notionals, so 0 is free to mean       *)
(* "absent").  The closed trades are kept as the two sums the code takes   *)
(* of them, by UTC day and by ISO week, and their number.                  *)
(*                                                                         *)
(* AccountSpec is what the ledger promises to any caller that passes       *)
(* proceeds minus entry cost to record_close; SimBroker implements it.     *)
(*                                                                         *)
(* Definitions marked "deviation" are plausible mistakes in the definition *)
(* that follows them; they are there to show that a property notices.      *)
(***************************************************************************)
EXTENDS Integers, FiniteSets, Functions

CONSTANTS
  Markets,          \* market ids
  Strategies,       \* strategy names
  NoStrategy,       \* the attribution of a market without a position
  StartingCapital,  \* starting_capital_usd
  Costs,            \* the costs of the fills a caller may open with
  Proceeds,         \* the net proceeds a close may bring
  Days,             \* the UTC days a timestamp may fall on
  DaysPerWeek,      \* days in a week
  MaxTrades         \* bound: closed trades in a behaviour

ASSUME MarketsFinite == IsFiniteSet(Markets)
ASSUME MoneyAssumption ==
  /\ StartingCapital \in Nat \ {0}
  /\ Costs \subseteq Nat
  /\ Proceeds \subseteq Nat
ASSUME CalendarAssumption ==
  /\ Days \subseteq Nat
  /\ DaysPerWeek \in Nat \ {0}
ASSUME NoStrategyAssumption == NoStrategy \notin Strategies

VARIABLES
  cash,        \* cash_usd
  realized,    \* realized_pnl_usd
  losses,      \* consecutive_losses
  notional,    \* _open_positions: entry notional of each market, 0 when flat
  strategyOf,  \* _open_positions: strategy each market's position belongs to
  dayPnl,      \* realized profit of the closed trades of each day
  weekPnl,     \* realized profit of the closed trades of each week
  closed       \* number of closed trades

accountVars ==
  <<cash, realized, losses, notional, strategyOf, dayPnl, weekPnl, closed>>

-----------------------------------------------------------------------------
(* What the code computes from the ledger. *)

WeekOf(d) == d \div DaysPerWeek

Weeks == {WeekOf(d) : d \in Days}

\* Every unit of money that is at risk: unit k of market m's position.
UnitsAtRisk(f) == UNION {{m} \X (1 .. f[m]) : m \in Markets}

\* The sum of f over all markets, as the number of its units.
Total(f) == Cardinality(UnitsAtRisk(f))

MarketExposure(m) == notional[m]

\* f where the market belongs to strategy s, 0 elsewhere.
OfStrategy(f, s) == [m \in Markets |-> IF strategyOf[m] = s THEN f[m] ELSE 0]

StrategyExposure(s) == Total(OfStrategy(notional, s))

TotalExposure == Total(notional)

Equity == cash + TotalExposure

DailyPnl(d) == dayPnl[d]

WeeklyPnl(d) == weekPnl[WeekOf(d)]

IsOpen(m) == notional[m] # 0

-----------------------------------------------------------------------------
(* The two mutating operations.  CanOpen is the set of checks record_open  *)
(* raises ValueError on; the caller decides what a raise does.             *)

CanOpen(n) == 0 < n /\ n <= cash

OwnerAfterOpenInverted(m, s) ==    \* deviation: the condition the wrong way round
  IF IsOpen(m) THEN s ELSE strategyOf[m]

\* The first open decides; an add-on leaves the owner alone.
OwnerAfterOpen(m, s) == IF IsOpen(m) THEN strategyOf[m] ELSE s

RecordOpen(m, s, n) ==
  /\ CanOpen(n)
  /\ cash' = cash - n
  /\ notional' = [notional EXCEPT ![m] = @ + n]
  /\ strategyOf' = [strategyOf EXCEPT ![m] = OwnerAfterOpen(m, s)]
  /\ UNCHANGED <<realized, losses, dayPnl, weekPnl, closed>>

StreakAfter(pnl) ==
  CASE pnl < 0 -> losses + 1
    [] pnl > 0 -> 0
    [] pnl = 0 -> losses

CashAfterCloseForgets(m, pnl) == cash + pnl    \* deviation: the entry cost is not returned

CashAfterClose(m, pnl) == cash + notional[m] + pnl

RecordClose(m, pnl, d) ==
  /\ IsOpen(m)
  /\ cash' = CashAfterClose(m, pnl)
  /\ realized' = realized + pnl
  /\ losses' = StreakAfter(pnl)
  /\ notional' = [notional EXCEPT ![m] = 0]
  /\ strategyOf' = [strategyOf EXCEPT ![m] = NoStrategy]
  /\ dayPnl' = [dayPnl EXCEPT ![d] = @ + pnl]
  /\ weekPnl' = [weekPnl EXCEPT ![WeekOf(d)] = @ + pnl]
  /\ closed' = closed + 1

-----------------------------------------------------------------------------
AccountInit ==
  /\ cash = StartingCapital
  /\ realized = 0
  /\ losses = 0
  /\ notional = [m \in Markets |-> 0]
  /\ strategyOf = [m \in Markets |-> NoStrategy]
  /\ dayPnl = [d \in Days |-> 0]
  /\ weekPnl = [w \in Weeks |-> 0]
  /\ closed = 0

\* A caller records a filled entry or add-on.
Open ==
  \E m \in Markets, s \in Strategies, n \in Costs : RecordOpen(m, s, n)

\* A caller records a full close that brought p; the timestamp is the
\* caller's, so closes need not come in the order of their days.
Close ==
  /\ closed < MaxTrades
  /\ \E m \in Markets, p \in Proceeds, d \in Days :
        RecordClose(m, p - notional[m], d)

AccountNext == Open \/ Close

AccountSpec == AccountInit /\ [][AccountNext]_accountVars

-----------------------------------------------------------------------------
AccountTypeOK ==
  /\ cash \in Nat
  /\ realized \in Int
  /\ losses \in Nat
  /\ notional \in [Markets -> Nat]
  /\ strategyOf \in [Markets -> Strategies \cup {NoStrategy}]
  /\ dayPnl \in [Days -> Int]
  /\ weekPnl \in [Weeks -> Int]
  /\ closed \in Nat

(* Money is neither created nor destroyed: cash plus what is at risk is    *)
(* the starting capital plus the realized profit, whatever the order of    *)
(* opens, add-ons and closes (AccountState.equity_usd).                    *)
CashConserved == Equity = StartingCapital + realized

(* A position has an owner exactly while money is at risk in it, so the    *)
(* strategies' exposures miss nothing that total_exposure_usd counts.      *)
AttributionMatchesExposure ==
  \A m \in Markets : IsOpen(m) <=> strategyOf[m] # NoStrategy

(* The owner of a position never changes while it is open: a close settles *)
(* the whole market position, so a later strategy's add-on must not move   *)
(* it (AccountState, class docstring).                                     *)
AttributionFixedByFirstOpen ==
  [][\A m \in Markets :
        IsOpen(m) /\ IsOpen(m)' => strategyOf'[m] = strategyOf[m]]_accountVars

(* The losing streak is made of real losses: an account whose every close  *)
(* counts in the streak has lost at least one unit for each (a break-even   *)
(* close leaves the streak alone, AccountState.record_close).              *)
LosingStreakIsReal ==
  /\ losses <= closed
  /\ losses = closed => realized <= -losses

=============================================================================
