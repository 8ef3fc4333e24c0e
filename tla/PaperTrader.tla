---------------------------- MODULE PaperTrader ----------------------------
(***************************************************************************)
(* The paper trader, polysignal/execution/paper_trader.py: one position    *)
(* per market, on one of its two outcomes, averaged over its fills.  A     *)
(* position is kept as what it cost (size times average entry price, to    *)
(* which every fill adds its notional).  A close leaves the position in    *)
(* the table with size 0 and its outcome.  The orders stored are a log     *)
(* that no operation reads and are left out.                               *)
(***************************************************************************)
EXTENDS Integers

CONSTANTS
  Markets,     \* market ids
  OrderSize    \* default_order_size_usd, above 0

VARIABLES
  cost,       \* _positions: cost of the shares held, 0 after a close
  outcome     \* _positions: side of the position, "none" before the first fill

traderVars == <<cost, outcome>>

-----------------------------------------------------------------------------
Outcomes == {"yes", "no"}

HasPosition(m) == outcome[m] # "none"

\* The early returns of execute, up to the fill.
ExecuteRefusedUnpaired(m, side, allowed, stale) ==    \* deviation: the position's side is not checked
  \/ ~allowed
  \/ stale
  \/ side = "both"

ExecuteRefused(m, side, allowed, stale) ==
  \/ ~allowed
  \/ stale
  \/ side = "both"
  \/ HasPosition(m) /\ outcome[m] # side

\* _simulate_fill takes what is visible within the limit price, up to the
\* order's size; 0 stands for its three ways to fill nothing.
VisibleFills == 0 .. OrderSize

\* An order filled for n: a new position, or the old one averaged.
Fill(m, side, n) ==
  /\ n > 0
  /\ cost' = [cost EXCEPT ![m] = @ + n]
  /\ outcome' = [outcome EXCEPT ![m] = side]

\* close_position: the whole position is sold; what it brings is the profit's
\* matter and is recorded in the position.
ClosePosition(m, allowed) ==
  /\ allowed
  /\ cost[m] > 0
  /\ cost' = [cost EXCEPT ![m] = 0]
  /\ UNCHANGED outcome

TraderInit ==
  /\ cost = [m \in Markets |-> 0]
  /\ outcome = [m \in Markets |-> "none"]

Execute ==
  \E m \in Markets, side \in Outcomes \cup {"both"}, n \in VisibleFills :
    /\ ~ExecuteRefused(m, side, TRUE, FALSE)
    /\ Fill(m, side, n)

Close == \E m \in Markets : ClosePosition(m, TRUE)

TraderNext == Execute \/ Close

TraderSpec == TraderInit /\ [][TraderNext]_traderVars

-----------------------------------------------------------------------------
TraderTypeOK ==
  /\ cost \in [Markets -> Nat]
  /\ outcome \in [Markets -> Outcomes \cup {"none"}]

(* Shares of the two outcomes are never averaged into one position: money  *)
(* is only added to a position of the same outcome, and a position sold    *)
(* out keeps its market to that outcome (execute, the check of the         *)
(* existing position).                                                     *)
OutcomesNeverMix ==
  [][\A m \in Markets : HasPosition(m) => outcome'[m] = outcome[m]]_traderVars
=============================================================================
