----------------------------- MODULE SimBroker -----------------------------
(***************************************************************************)
(* The simulated broker, polysignal/execution/sim_broker.py: two books of  *)
(* the same positions (the account ledger's notional and the broker's own  *)
(* share book), an order sequence, and the ways an order can fail.         *)
(*                                                                         *)
(* A visible book is what the sweep of shadow/execution_cost.py finds in   *)
(* it: the depth that can be filled within the limit price and the         *)
(* price.  Times are ticks; a quote is given by its age at the decision.   *)
(***************************************************************************)
EXTENDS Account

CONSTANTS
  Notionals,       \* notionals a caller may ask to spend
  Depths,          \* fillable depth of a visible book, money or shares
  Rates,           \* shares one unit of money buys (prices below 1)
  Grosses,         \* gross proceeds a sweep of the bids may bring
  MaxFill,         \* the largest notional a fill may have
  Fee,             \* Fee[n]: the fee charged on a filled notional n
  QuoteAges,       \* age of a quote when the order is decided
  Latency,         \* submission_latency_seconds
  MaxQuoteAge,     \* max_quote_age_seconds
  FutureSkew,      \* how far ahead of the fill a quote may be (5 seconds)
  AllowPartial,    \* allow_partial_fills
  FaultSchedule,   \* sequence numbers of the orders that fail by injection
  DayTicks,        \* ticks in a UTC day
  Times,           \* decision times a caller may pass
  MaxOrders        \* bound: order attempts in a behaviour

\* bps lie in [0, 10000]: a fee never exceeds what it is charged on, and it
\* grows with it.
ASSUME FeeAssumption ==
  /\ MaxFill \in Nat
  /\ Fee \in [0 .. MaxFill -> Nat]
  /\ \A n \in 0 .. MaxFill : Fee[n] <= n /\ \A k \in 0 .. n : Fee[k] <= Fee[n]
ASSUME BookAssumption ==
  /\ Notionals \subseteq 0 .. MaxFill
  /\ Depths \subseteq Nat
  /\ Rates \subseteq Nat \ {0}
  /\ Grosses \subseteq 1 .. MaxFill
ASSUME TimeAssumption ==
  /\ QuoteAges \subseteq Int
  /\ Latency \in Nat /\ MaxQuoteAge \in Nat /\ FutureSkew \in Nat
  /\ DayTicks \in Nat \ {0}
  /\ Times \subseteq Nat
  /\ \A t \in Times : (t + Latency) \div DayTicks \in Days
ASSUME AllowPartialAssumption == AllowPartial \in BOOLEAN
\* The ledger's callers may open with any cost, and close for any proceeds,
\* that an order of this broker can have.
ASSUME LedgerAssumption ==
  /\ \A n \in Notionals : \A k \in 1 .. n : k + Fee[k] \in Costs
  /\ \A g \in Grosses : g - Fee[g] \in Proceeds

VARIABLES
  sequence,   \* _sequence
  orders,     \* len(orders): the audit trail
  lastOrder,  \* the last order appended to it
  shares,     \* _share_book: shares held per market, 0 when absent
  shareCost,  \* _share_book: total_net_cost_usd per market
  traded      \* traded_notional_usd

brokerVars == <<sequence, orders, lastOrder, shares, shareCost, traded>>

vars == <<accountVars, brokerVars>>

-----------------------------------------------------------------------------
Min2(a, b) == IF a <= b THEN a ELSE b

DayOf(t) == t \div DayTicks

FillDay(t) == DayOf(t + Latency)

\* _quote_staleness: too old, or too far in the future, at the fill.
StaleAtFill(age) ==
  \/ age + Latency < -FutureSkew
  \/ age + Latency > MaxQuoteAge

\* The sweep's outcome for a request r in a book of that depth: a book that
\* cannot fill it is rejected unless partial fills are allowed, and an empty
\* fill always is.
NotFillable(r, depth) ==
  \/ depth < r /\ ~AllowPartial
  \/ depth = 0

InjectedFault == sequence \in FaultSchedule

Status(r, depth) == IF depth < r THEN "partial" ELSE "filled"

Order(side, status, m, filled) ==
  [side |-> side, status |-> status, market |-> m, filledShares |-> filled]

NoOrder == [side |-> "none", status |-> "none", market |-> "none", filledShares |-> 0]

\* Every attempt takes a sequence number, whatever becomes of it.
TakeSequence ==
  /\ sequence < MaxOrders
  /\ sequence' = sequence + 1

Append1(order) ==
  /\ orders' = orders + 1
  /\ lastOrder' = order

RecordReject(side, m) ==
  /\ TakeSequence
  /\ Append1(Order(side, "rejected", m, 0))
  /\ UNCHANGED <<accountVars, shares, shareCost, traded>>

-----------------------------------------------------------------------------
(* submit_buy *)

BuyRefused(n, depth, age) ==
  \/ n <= 0
  \/ n > cash
  \/ InjectedFault
  \/ StaleAtFill(age)
  \/ NotFillable(n, depth)

BuyCost(n, depth) == LET filled == Min2(n, depth) IN filled + Fee[filled]

BuyRejected(m, n, depth, age) ==
  /\ BuyRefused(n, depth, age)
  /\ RecordReject("buy", m)

UpdateShareBookOnBuyReplaces(m, bought, cost) ==    \* deviation: add-ons overwrite the cost
  /\ shares' = [shares EXCEPT ![m] = @ + bought]
  /\ shareCost' = [shareCost EXCEPT ![m] = cost]

\* _update_share_book_on_buy
UpdateShareBookOnBuy(m, bought, cost) ==
  /\ shares' = [shares EXCEPT ![m] = @ + bought]
  /\ shareCost' = [shareCost EXCEPT ![m] = @ + cost]

BuyFilled(m, s, n, depth, rate, age) ==
  LET filled == Min2(n, depth)
      bought == filled * rate
  IN  /\ ~BuyRefused(n, depth, age)
      /\ TakeSequence
      /\ RecordOpen(m, s, BuyCost(n, depth))
      /\ UpdateShareBookOnBuy(m, bought, BuyCost(n, depth))
      /\ traded' = traded + filled
      /\ Append1(Order("buy", Status(n, depth), m, bought))

\* The fee is not part of the cash check: record_open raises ValueError to
\* the caller when notional plus fee exceeds the cash, after the order has
\* taken its sequence number and before anything is recorded of it.
BuyRaised(n, depth, age) ==
  /\ ~BuyRefused(n, depth, age)
  /\ ~CanOpen(BuyCost(n, depth))
  /\ TakeSequence
  /\ UNCHANGED <<accountVars, orders, lastOrder, shares, shareCost, traded>>

-----------------------------------------------------------------------------
(* submit_sell: a request for q shares of market m.                        *)

SellRefusedAnyAmount(m, q, depth, age) ==    \* deviation: no full-close check
  \/ shares[m] = 0
  \/ q <= 0
  \/ InjectedFault
  \/ StaleAtFill(age)
  \/ NotFillable(q, depth)

SellRefused(m, q, depth, age) ==
  \/ shares[m] = 0
  \/ q <= 0
  \/ q # shares[m]
  \/ InjectedFault
  \/ StaleAtFill(age)
  \/ NotFillable(q, depth)

SellRejected(m, q, depth, age) ==
  /\ SellRefused(m, q, depth, age)
  /\ RecordReject("sell", m)

DeletePositionKeepsCost(m) ==    \* deviation: the next entry inherits the cost
  /\ shares' = [shares EXCEPT ![m] = 0]
  /\ shareCost' = shareCost

DeletePosition(m) ==
  /\ shares' = [shares EXCEPT ![m] = 0]
  /\ shareCost' = [shareCost EXCEPT ![m] = 0]

\* Prices are below 1, so the gross proceeds stay below the shares sold.
SellFilled(m, q, depth, gross, age, t) ==
  LET sold == Min2(q, depth)
      net  == gross - Fee[gross]
  IN  /\ ~SellRefused(m, q, depth, age)
      /\ gross < sold
      /\ TakeSequence
      /\ RecordClose(m, net - shareCost[m], FillDay(t))
      /\ DeletePosition(m)
      /\ traded' = traded + gross
      /\ Append1(Order("sell", Status(q, depth), m, sold))

-----------------------------------------------------------------------------
BrokerInit ==
  /\ AccountInit
  /\ sequence = 0
  /\ orders = 0
  /\ lastOrder = NoOrder
  /\ shares = [m \in Markets |-> 0]
  /\ shareCost = [m \in Markets |-> 0]
  /\ traded = 0

SubmitBuy ==
  \E m \in Markets, n \in Notionals, depth \in Depths, age \in QuoteAges :
    \/ BuyRejected(m, n, depth, age)
    \/ BuyRaised(n, depth, age)
    \/ \E s \in Strategies, rate \in Rates : BuyFilled(m, s, n, depth, rate, age)

\* A caller asks for the shares it holds, or one less, or one more.
SubmitSell ==
  \E m \in Markets, depth \in Depths, age \in QuoteAges :
    \E q \in {shares[m] - 1, shares[m], shares[m] + 1} :
      \/ SellRejected(m, q, depth, age)
      \/ /\ closed < MaxTrades
         /\ \E gross \in Grosses, t \in Times :
               SellFilled(m, q, depth, gross, age, t)

BrokerNext == SubmitBuy \/ SubmitSell

BrokerSpec == BrokerInit /\ [][BrokerNext]_vars

-----------------------------------------------------------------------------
BrokerTypeOK ==
  /\ AccountTypeOK
  /\ sequence \in Nat
  /\ orders \in Nat
  /\ lastOrder \in [side : {"none", "buy", "sell"},
                    status : {"none", "rejected", "partial", "filled"},
                    market : Markets \cup {"none"}, filledShares : Nat]
  /\ shares \in [Markets -> Nat]
  /\ shareCost \in [Markets -> Nat]
  /\ traded \in Nat

(* The two books agree: a market has shares exactly when the ledger has    *)
(* money at risk in it, and the share book's cost, which a sell computes   *)
(* its result from, is the notional the ledger gives back (sim_broker.py   *)
(* submit_sell, account_state.py record_close).                            *)
BooksAgree ==
  \A m \in Markets :
    /\ shareCost[m] = notional[m]
    /\ shares[m] > 0 <=> IsOpen(m)

(* A close never loses more than the position cost: proceeds net of fees   *)
(* are never negative, whatever partial fills, add-ons or latency did.     *)
LossBoundedByCost ==
  [][\A m \in Markets :
        IsOpen(m) /\ ~IsOpen(m)' => realized' >= realized - notional[m]]_vars

(* An exit takes out of the position exactly the shares it sold.           *)
ExitTakesWhatItSold ==
  [][\A m \in Markets :
        shares'[m] < shares[m] =>
          shares'[m] = shares[m] - lastOrder'.filledShares]_vars
=============================================================================
