--------------------------- MODULE RiskChainProofs ---------------------------
(***************************************************************************)
(* What the broker guarantees for every market, price, fee and latency:    *)
(* its share book and the ledger always agree, a close never loses more    *)
(* than the position cost, and the broker implements the ledger's          *)
(* specification.  The ledger's invariant is inherited through that        *)
(* implementation; it needs BooksAgree, because submit_sell computes the   *)
(* result it books from the share book and not from the ledger.            *)
(*                                                                         *)
(* And what the composed chain guarantees for every limit and horizon: it  *)
(* implements the broker, the loop's probes are the broker's positions,    *)
(* exposure and losses are bounded, a breaker is never overridden and a    *)
(* lockout is final.                                                       *)
(*                                                                         *)
(* The losses of a day are bounded because of what is still at risk: a     *)
(* close moves money from exposure to loss, so the invariant speaks of     *)
(* profit minus exposure on the current day.  WithinReach states it for a  *)
(* function over periods, so that days and weeks share the argument.       *)
(***************************************************************************)
EXTENDS RiskChain, AccountProofs

BrokerInv ==
  /\ AccountInv
  /\ BrokerTypeOK
  /\ BooksAgree

-----------------------------------------------------------------------------
(* What a fill that was not refused costs, buys and brings. *)

LEMMA ProductPositive == \A a, b \in Nat \ {0} : a * b \in Nat \ {0}
PROOF
  OBVIOUS

LEMMA BuyFillBounds ==
  ASSUME NEW n \in Notionals, NEW depth \in Depths, NEW age \in QuoteAges,
         ~BuyRefused(n, depth, age)
  PROVE  /\ Min2(n, depth) \in 1 .. n
         /\ Min2(n, depth) \in 0 .. MaxFill
         /\ Fee[Min2(n, depth)] \in Nat
         /\ BuyCost(n, depth) \in Costs
         /\ BuyCost(n, depth) \in Nat \ {0}
PROOF
  <1> DEFINE filled == Min2(n, depth)
  <1>1. n \in Nat /\ depth \in Nat /\ MaxFill \in Nat /\ n <= MaxFill
    BY BookAssumption, FeeAssumption
  <1>2. 0 < n /\ depth # 0
    BY <1>1 DEF BuyRefused, NotFillable
  <1>3. filled \in 1 .. n /\ filled \in 0 .. MaxFill
    BY <1>1, <1>2 DEF Min2
  <1>4. Fee[filled] \in Nat
    BY <1>3, FeeAssumption
  <1>5. filled + Fee[filled] \in Costs
    BY <1>3, LedgerAssumption
  <1>6. filled + Fee[filled] \in Nat \ {0}
    <2> HIDE DEF filled
    <2> QED BY <1>1, <1>3, <1>4
  <1> QED BY <1>3, <1>4, <1>5, <1>6 DEF BuyCost

LEMMA NetProceeds ==
  ASSUME NEW gross \in Grosses
  PROVE  /\ gross \in Nat /\ gross - Fee[gross] \in Nat
         /\ gross - Fee[gross] \in Proceeds
PROOF
  <1>1. gross \in 0 .. MaxFill /\ gross \in Nat
    BY BookAssumption, FeeAssumption
  <1>2. Fee[gross] \in Nat /\ Fee[gross] <= gross
    BY <1>1, FeeAssumption
  <1> QED BY <1>1, <1>2, LedgerAssumption

-----------------------------------------------------------------------------
(* Every broker step is a ledger step or leaves the ledger alone. *)

LEMMA BuyFilledOpens ==
  ASSUME NEW m \in Markets, NEW s \in Strategies, NEW n \in Notionals,
         NEW depth \in Depths, NEW rate \in Rates, NEW age \in QuoteAges,
         BuyFilled(m, s, n, depth, rate, age)
  PROVE  Open
PROOF
  <1>1. RecordOpen(m, s, BuyCost(n, depth)) /\ ~BuyRefused(n, depth, age)
    BY DEF BuyFilled
  <1>2. BuyCost(n, depth) \in Costs
    BY <1>1, BuyFillBounds
  <1> QED BY <1>1, <1>2 DEF Open

LEMMA SellFilledCloses ==
  ASSUME BooksAgree, NEW m \in Markets, NEW q, NEW depth \in Depths,
         NEW gross \in Grosses, NEW age \in QuoteAges, NEW t \in Times,
         closed < MaxTrades, SellFilled(m, q, depth, gross, age, t)
  PROVE  Close
PROOF
  <1>1. RecordClose(m, (gross - Fee[gross]) - notional[m], FillDay(t))
    BY DEF SellFilled, BooksAgree
  <1>2. gross - Fee[gross] \in Proceeds
    BY NetProceeds
  <1>3. FillDay(t) \in Days
    BY TimeAssumption DEF FillDay, DayOf
  <1> QED BY <1>1, <1>2, <1>3 DEF Close

LEMMA BrokerStepIsLedgerStep ==
  ASSUME BooksAgree, [BrokerNext]_vars
  PROVE  [AccountNext]_accountVars
PROOF
  <1>1. CASE SubmitBuy
    <2> PICK m \in Markets, n \in Notionals, depth \in Depths, age \in QuoteAges :
          \/ BuyRejected(m, n, depth, age)
          \/ BuyRaised(n, depth, age)
          \/ \E s \in Strategies, rate \in Rates : BuyFilled(m, s, n, depth, rate, age)
      BY <1>1 DEF SubmitBuy
    <2>1. CASE BuyRejected(m, n, depth, age)
      BY <2>1 DEF BuyRejected, RecordReject, accountVars
    <2>2. CASE BuyRaised(n, depth, age)
      BY <2>2 DEF BuyRaised, accountVars
    <2>3. CASE \E s \in Strategies, rate \in Rates : BuyFilled(m, s, n, depth, rate, age)
      BY <2>3, BuyFilledOpens DEF AccountNext
    <2> QED BY <2>1, <2>2, <2>3
  <1>2. CASE SubmitSell
    <2> PICK m \in Markets, depth \in Depths, age \in QuoteAges :
          \E q \in {shares[m] - 1, shares[m], shares[m] + 1} :
            \/ SellRejected(m, q, depth, age)
            \/ /\ closed < MaxTrades
               /\ \E gross \in Grosses, t \in Times : SellFilled(m, q, depth, gross, age, t)
      BY <1>2 DEF SubmitSell
    <2> PICK q :
            \/ SellRejected(m, q, depth, age)
            \/ /\ closed < MaxTrades
               /\ \E gross \in Grosses, t \in Times : SellFilled(m, q, depth, gross, age, t)
      OBVIOUS
    <2>1. CASE SellRejected(m, q, depth, age)
      BY <2>1 DEF SellRejected, RecordReject, accountVars
    <2>2. CASE closed < MaxTrades
               /\ \E gross \in Grosses, t \in Times : SellFilled(m, q, depth, gross, age, t)
      BY <2>2, SellFilledCloses DEF AccountNext
    <2> QED BY <2>1, <2>2
  <1>3. CASE UNCHANGED vars
    BY <1>3 DEF vars, accountVars
  <1> QED BY <1>1, <1>2, <1>3 DEF BrokerNext

-----------------------------------------------------------------------------
(* The inductive invariant, one lemma for each way an order can end. *)

LEMMA BrokerInitInv == BrokerInit => BrokerInv
PROOF
  <1> SUFFICES ASSUME BrokerInit PROVE BrokerInv
    OBVIOUS
  <1>1. AccountInv
    BY AccountInitInv DEF BrokerInit
  <1>2. BrokerTypeOK
    BY <1>1 DEF BrokerInit, BrokerTypeOK, AccountInv, NoOrder
  <1>3. BooksAgree
    BY DEF BrokerInit, AccountInit, BooksAgree, IsOpen
  <1> QED BY <1>1, <1>2, <1>3 DEF BrokerInv

LEMMA RejectInv ==
  ASSUME BrokerInv, NEW side \in {"buy", "sell"}, NEW m \in Markets, RecordReject(side, m)
  PROVE  BrokerInv'
PROOF
  <1> USE DEF RecordReject
  <1>1. AccountInv'
    BY AccountStutterInv DEF BrokerInv, accountVars
  <1>2. BrokerTypeOK'
    BY <1>1 DEF BrokerInv, BrokerTypeOK, AccountInv, TakeSequence, Append1, Order
  <1>3. BooksAgree'
    BY DEF BrokerInv, BooksAgree, IsOpen, accountVars
  <1> QED BY <1>1, <1>2, <1>3 DEF BrokerInv

LEMMA BuyRaisedInv ==
  ASSUME BrokerInv, NEW n, NEW depth, NEW age, BuyRaised(n, depth, age)
  PROVE  BrokerInv'
PROOF
  <1> USE DEF BuyRaised
  <1>1. AccountInv'
    BY AccountStutterInv DEF BrokerInv, accountVars
  <1>2. BrokerTypeOK'
    BY <1>1 DEF BrokerInv, BrokerTypeOK, AccountInv, TakeSequence
  <1>3. BooksAgree'
    BY DEF BrokerInv, BooksAgree, IsOpen, accountVars
  <1> QED BY <1>1, <1>2, <1>3 DEF BrokerInv

LEMMA BuyFilledInv ==
  ASSUME BrokerInv, NEW m \in Markets, NEW s \in Strategies, NEW n \in Notionals,
         NEW depth \in Depths, NEW rate \in Rates, NEW age \in QuoteAges,
         BuyFilled(m, s, n, depth, rate, age)
  PROVE  BrokerInv'
PROOF
  <1> DEFINE filled == Min2(n, depth)
             bought == filled * rate
             cost == BuyCost(n, depth)
  <1>1. /\ RecordOpen(m, s, cost) /\ ~BuyRefused(n, depth, age) /\ TakeSequence
        /\ shares' = [shares EXCEPT ![m] = @ + bought]
        /\ shareCost' = [shareCost EXCEPT ![m] = @ + cost]
        /\ traded' = traded + filled
        /\ Append1(Order("buy", Status(n, depth), m, bought))
    BY DEF BuyFilled, UpdateShareBookOnBuy
  <1>2. cost \in Nat \ {0} /\ filled \in Nat \ {0}
    <2>1. n \in Nat
      BY BookAssumption, FeeAssumption
    <2> QED BY <1>1, <2>1, BuyFillBounds
  <1>3. bought \in Nat \ {0}
    <2>1. rate \in Nat \ {0}
      BY BookAssumption
    <2> HIDE DEF filled
    <2> QED BY <1>2, <2>1, ProductPositive
  <1> HIDE DEF filled, bought, cost
  <1>4. AccountInv'
    BY <1>1, <1>2, RecordOpenInv DEF BrokerInv
  <1>5. BrokerTypeOK'
    BY <1>1, <1>2, <1>3, <1>4
    DEF BrokerInv, BrokerTypeOK, AccountInv, TakeSequence, Append1, Order, Status
  <1>6. BooksAgree'
    BY <1>1, <1>2, <1>3
    DEF BrokerInv, BrokerTypeOK, AccountTypeOK, BooksAgree, IsOpen, RecordOpen
  <1> QED BY <1>4, <1>5, <1>6 DEF BrokerInv

LEMMA SellFilledInv ==
  ASSUME BrokerInv, NEW m \in Markets, NEW q \in Int, NEW depth \in Depths,
         NEW gross \in Grosses, NEW age \in QuoteAges, NEW t \in Times,
         SellFilled(m, q, depth, gross, age, t)
  PROVE  BrokerInv'
PROOF
  <1> DEFINE net == gross - Fee[gross]
             sold == Min2(q, depth)
  <1>1. /\ RecordClose(m, net - notional[m], FillDay(t))
        /\ gross < sold /\ TakeSequence
        /\ shares' = [shares EXCEPT ![m] = 0]
        /\ shareCost' = [shareCost EXCEPT ![m] = 0]
        /\ traded' = traded + gross
        /\ Append1(Order("sell", Status(q, depth), m, sold))
    BY DEF SellFilled, DeletePosition, BrokerInv, BooksAgree
  <1>2. gross \in Nat /\ net \in Nat
    BY NetProceeds
  <1>3. FillDay(t) \in Days
    BY TimeAssumption DEF FillDay, DayOf
  <1>4. sold \in Nat
    <2>1. sold \in Int
      BY BookAssumption DEF Min2
    <2> HIDE DEF sold
    <2> QED BY <1>1, <1>2, <2>1
  <1> HIDE DEF net, sold
  <1>5. AccountInv'
    BY <1>1, <1>2, <1>3, RecordCloseInv DEF BrokerInv
  <1>6. BrokerTypeOK'
    BY <1>1, <1>2, <1>4, <1>5
    DEF BrokerInv, BrokerTypeOK, AccountInv, TakeSequence, Append1, Order, Status
  <1>7. BooksAgree'
    BY <1>1 DEF BrokerInv, BrokerTypeOK, AccountTypeOK, BooksAgree, IsOpen, RecordClose
  <1> QED BY <1>5, <1>6, <1>7 DEF BrokerInv

LEMMA BrokerStutterInv ==
  ASSUME BrokerInv, UNCHANGED vars
  PROVE  BrokerInv'
PROOF
  <1>1. AccountInv'
    BY AccountStutterInv DEF BrokerInv, vars, accountVars
  <1>2. BrokerTypeOK'
    BY <1>1 DEF BrokerInv, BrokerTypeOK, AccountInv, vars, brokerVars
  <1>3. BooksAgree'
    BY DEF BrokerInv, BooksAgree, IsOpen, vars, brokerVars, accountVars
  <1> QED BY <1>1, <1>2, <1>3 DEF BrokerInv

LEMMA BrokerNextInv == BrokerInv /\ [BrokerNext]_vars => BrokerInv'
PROOF
  <1> SUFFICES ASSUME BrokerInv, [BrokerNext]_vars PROVE BrokerInv'
    OBVIOUS
  <1>1. CASE SubmitBuy
    <2> PICK m \in Markets, n \in Notionals, depth \in Depths, age \in QuoteAges :
          \/ BuyRejected(m, n, depth, age)
          \/ BuyRaised(n, depth, age)
          \/ \E s \in Strategies, rate \in Rates : BuyFilled(m, s, n, depth, rate, age)
      BY <1>1 DEF SubmitBuy
    <2>1. CASE BuyRejected(m, n, depth, age)
      BY <2>1, RejectInv DEF BuyRejected
    <2>2. CASE BuyRaised(n, depth, age)
      BY <2>2, BuyRaisedInv
    <2>3. CASE \E s \in Strategies, rate \in Rates : BuyFilled(m, s, n, depth, rate, age)
      BY <2>3, BuyFilledInv
    <2> QED BY <2>1, <2>2, <2>3
  <1>2. CASE SubmitSell
    <2> PICK m \in Markets, depth \in Depths, age \in QuoteAges :
          \E q \in {shares[m] - 1, shares[m], shares[m] + 1} :
            \/ SellRejected(m, q, depth, age)
            \/ /\ closed < MaxTrades
               /\ \E gross \in Grosses, t \in Times : SellFilled(m, q, depth, gross, age, t)
      BY <1>2 DEF SubmitSell
    <2> PICK q \in Int :
            \/ SellRejected(m, q, depth, age)
            \/ \E gross \in Grosses, t \in Times : SellFilled(m, q, depth, gross, age, t)
      BY DEF BrokerInv, BrokerTypeOK
    <2>1. CASE SellRejected(m, q, depth, age)
      BY <2>1, RejectInv DEF SellRejected
    <2>2. CASE \E gross \in Grosses, t \in Times : SellFilled(m, q, depth, gross, age, t)
      BY <2>2, SellFilledInv
    <2> QED BY <2>1, <2>2
  <1>3. CASE UNCHANGED vars
    BY <1>3, BrokerStutterInv
  <1> QED BY <1>1, <1>2, <1>3 DEF BrokerNext

(* The inductive invariant of the broker (sim_broker.py).                  *)
THEOREM BrokerInvariant == BrokerSpec => []BrokerInv
PROOF
  BY BrokerInitInv, BrokerNextInv, PTL DEF BrokerSpec

(* The broker's variables and the ledger's keep their types.               *)
THEOREM BrokerTyped == BrokerSpec => []BrokerTypeOK
PROOF
  <1>1. BrokerInv => BrokerTypeOK
    BY DEF BrokerInv
  <1> QED BY <1>1, BrokerInvariant, PTL

(* The share book and the ledger never disagree about what is held or what *)
(* it cost (submit_buy, submit_sell, record_open, record_close).           *)
THEOREM BooksAlwaysAgree == BrokerSpec => []BooksAgree
PROOF
  <1>1. BrokerInv => BooksAgree
    BY DEF BrokerInv
  <1> QED BY <1>1, BrokerInvariant, PTL

(* Every broker behaviour is a behaviour of the ledger's specification:    *)
(* it never opens what the ledger would not admit, and it closes with      *)
(* proceeds minus the entry cost the ledger holds.                         *)
THEOREM BrokerImplementsAccount == BrokerSpec => AccountSpec
PROOF
  <1>1. BrokerInit => AccountInit
    BY DEF BrokerInit
  <1>2. BooksAgree /\ [BrokerNext]_vars => [AccountNext]_accountVars
    BY BrokerStepIsLedgerStep
  <1> QED BY <1>1, <1>2, BooksAlwaysAgree, PTL DEF BrokerSpec, AccountSpec

(* A close loses at most the position cost, whatever the price, the fee    *)
(* and the add-ons before it (submit_sell).                                *)
THEOREM LossIsBounded == BrokerSpec => LossBoundedByCost
PROOF
  <1> DEFINE Bounded == \A m \in Markets :
                          IsOpen(m) /\ ~IsOpen(m)' => realized' >= realized - notional[m]
  <1>1. BrokerInv /\ [BrokerNext]_vars => [Bounded]_vars
    <2> SUFFICES ASSUME BrokerInv, [BrokerNext]_vars PROVE Bounded
      OBVIOUS
    <2>1. [AccountNext]_accountVars
      BY BrokerStepIsLedgerStep DEF BrokerInv
    <2>2. AccountTypeOK
      BY DEF BrokerInv, AccountInv
    <2>3. CASE Open
      BY <2>2, <2>3, MoneyAssumption DEF Open, RecordOpen, CanOpen, IsOpen, AccountTypeOK
    <2>4. CASE Close
      <3> PICK c \in Markets, p \in Proceeds, d \in Days : RecordClose(c, p - notional[c], d)
        BY <2>4 DEF Close
      <3>1. p \in Nat /\ realized \in Int /\ notional[c] \in Nat
        BY <2>2, MoneyAssumption DEF AccountTypeOK
      <3>2. realized' = realized + (p - notional[c])
        BY DEF RecordClose
      <3>3. \A m \in Markets : m # c => notional'[m] = notional[m]
        BY <2>2 DEF RecordClose, AccountTypeOK
      <3> QED BY <3>1, <3>2, <3>3 DEF IsOpen
    <2>5. CASE UNCHANGED accountVars
      BY <2>5 DEF IsOpen, accountVars
    <2> QED BY <2>1, <2>3, <2>4, <2>5 DEF AccountNext
  <1> QED BY <1>1, BrokerInvariant, PTL DEF BrokerSpec, LossBoundedByCost

(* An exit takes out of the position exactly the shares it sold, as long   *)
(* as partial fills are off, which is the default and what every caller    *)
(* runs with: with them on, submit_sell deletes the whole position after   *)
(* selling what the book could take (submit_sell, allow_partial_fills).    *)
THEOREM ExitsTakeWhatTheySold == ~AllowPartial /\ BrokerSpec => ExitTakesWhatItSold
PROOF
  <1> DEFINE Exact == \A m \in Markets :
                        shares'[m] < shares[m] =>
                          shares'[m] = shares[m] - lastOrder'.filledShares
  <1>1. ~AllowPartial /\ BrokerInv /\ [BrokerNext]_vars => [Exact]_vars
    <2> SUFFICES ASSUME ~AllowPartial, BrokerInv, BrokerNext PROVE Exact
      OBVIOUS
    <2>1. shares \in [Markets -> Nat]
      BY DEF BrokerInv, BrokerTypeOK
    <2>2. shares' = shares => Exact
      BY <2>1
    <2>3. CASE SubmitBuy
      <3> PICK m \in Markets, n \in Notionals, depth \in Depths, age \in QuoteAges :
            \/ BuyRejected(m, n, depth, age)
            \/ BuyRaised(n, depth, age)
            \/ \E s \in Strategies, rate \in Rates : BuyFilled(m, s, n, depth, rate, age)
        BY <2>3 DEF SubmitBuy
      <3>1. CASE BuyRejected(m, n, depth, age)
        BY <2>2, <3>1 DEF BuyRejected, RecordReject
      <3>2. CASE BuyRaised(n, depth, age)
        BY <2>2, <3>2 DEF BuyRaised
      <3>3. CASE \E s \in Strategies, rate \in Rates : BuyFilled(m, s, n, depth, rate, age)
        <4> PICK s \in Strategies, rate \in Rates : BuyFilled(m, s, n, depth, rate, age)
          BY <3>3
        <4> DEFINE bought == Min2(n, depth) * rate
        <4>1. shares' = [shares EXCEPT ![m] = @ + bought] /\ ~BuyRefused(n, depth, age)
          BY DEF BuyFilled, UpdateShareBookOnBuy
        <4>2. Min2(n, depth) \in Nat /\ rate \in Nat
          BY <4>1, BuyFillBounds, BookAssumption, FeeAssumption
        <4>3. bought \in Nat
          <5> DEFINE filled == Min2(n, depth)
          <5> HIDE DEF filled
          <5> QED BY <4>2
        <4> HIDE DEF bought
        <4> QED BY <2>1, <4>1, <4>3
      <3> QED BY <3>1, <3>2, <3>3
    <2>4. CASE SubmitSell
      <3> PICK m \in Markets, depth \in Depths, age \in QuoteAges :
            \E q \in {shares[m] - 1, shares[m], shares[m] + 1} :
              \/ SellRejected(m, q, depth, age)
              \/ /\ closed < MaxTrades
                 /\ \E gross \in Grosses, t \in Times : SellFilled(m, q, depth, gross, age, t)
        BY <2>4 DEF SubmitSell
      <3> PICK q \in {shares[m] - 1, shares[m], shares[m] + 1} :
            \/ SellRejected(m, q, depth, age)
            \/ /\ closed < MaxTrades
               /\ \E gross \in Grosses, t \in Times : SellFilled(m, q, depth, gross, age, t)
        OBVIOUS
      <3>1. CASE SellRejected(m, q, depth, age)
        BY <2>2, <3>1 DEF SellRejected, RecordReject
      <3>2. CASE \E gross \in Grosses, t \in Times : SellFilled(m, q, depth, gross, age, t)
        <4> PICK gross \in Grosses, t \in Times : SellFilled(m, q, depth, gross, age, t)
          BY <3>2
        <4>1. /\ ~SellRefused(m, q, depth, age)
              /\ shares' = [shares EXCEPT ![m] = 0]
              /\ lastOrder' = Order("sell", Status(q, depth), m, Min2(q, depth))
          BY DEF SellFilled, DeletePosition, Append1
        <4>2. q = shares[m] /\ ~(depth < q) /\ q \in Nat /\ depth \in Nat
          BY <2>1, <4>1, BookAssumption DEF SellRefused, NotFillable
        <4>3. Min2(q, depth) = q
          BY <4>2 DEF Min2
        <4>4. lastOrder'.filledShares = q
          BY <4>1, <4>3 DEF Order
        <4> QED BY <2>1, <4>1, <4>2, <4>4
      <3> QED BY <3>1, <3>2
    <2> QED BY <2>3, <2>4 DEF BrokerNext
  <1>2. ~AllowPartial => []~AllowPartial
    OBVIOUS
  <1> QED BY <1>1, <1>2, BrokerInvariant, PTL DEF BrokerSpec, ExitTakesWhatItSold

-----------------------------------------------------------------------------
(* The chain. *)

\* pnl is bounded in every period; what is still at risk cannot push the
\* current one past the bound; later ones have lost nothing.
WithinReach(pnl, periods, current, limit, exposure) ==
  \A d \in periods :
    /\ pnl[d] >= -(limit + ExposureBound)
    /\ d = current => pnl[d] - exposure >= -(limit + ExposureBound)
    /\ d > current => pnl[d] >= 0

OnlyProbeOwns == \A m \in Markets : strategyOf[m] \in {Probe, NoStrategy}

-----------------------------------------------------------------------------
(* Arithmetic of periods. *)

LEMMA DivMonotone ==
  ASSUME NEW a \in Nat, NEW b \in Nat, a <= b, NEW n \in Nat \ {0}
  PROVE  a \div n \in Nat /\ b \div n \in Nat /\ a \div n <= b \div n
PROOF
  OBVIOUS

LEMMA TimesMonotone ==
  ASSUME NEW a \in Nat, NEW b \in Nat, a <= b, NEW n \in Nat
  PROVE  a * n \in Nat /\ b * n \in Nat /\ a * n <= b * n
PROOF
  OBVIOUS

LEMMA BoundsAreNaturals ==
  /\ DailyLossLimit \in Nat /\ WeeklyLossLimit \in Nat
  /\ ClipCost \in Nat /\ ExposureBound \in Nat
  /\ Weeks \subseteq Nat
PROOF
  <1>1. Clip \in 0 .. MaxFill /\ MaxFill \in Nat
    BY LoopAssumption, BookAssumption, FeeAssumption
  <1>2. Fee[Clip] \in Nat
    BY <1>1, FeeAssumption
  <1>3. StrategyCap \in Nat \ {0}
    BY LimitsAssumption
  <1>4. ClipCost \in Nat /\ ExposureBound \in Nat
    BY <1>1, <1>2, <1>3 DEF ClipCost, ExposureBound
  <1>5. \A d \in Days : WeekOf(d) \in Nat
    BY CalendarAssumption DEF WeekOf
  <1> QED BY <1>4, <1>5, LimitsAssumption DEF Weeks

LEMMA ReachLater ==
  ASSUME NEW S \in SUBSET Nat, NEW pnl \in [S -> Int], NEW now \in Nat, NEW later \in Nat,
         NEW limit \in Nat, NEW exposure \in Nat, now <= later, exposure <= ExposureBound,
         WithinReach(pnl, S, now, limit, exposure)
  PROVE  WithinReach(pnl, S, later, limit, exposure)
PROOF
  BY BoundsAreNaturals DEF WithinReach

LEMMA ReachAfterEntry ==
  ASSUME NEW S \in SUBSET Nat, NEW pnl \in [S -> Int], NEW now \in Nat,
         NEW limit \in Nat, NEW exposure \in Nat, NEW larger \in Nat,
         larger <= ExposureBound, now \in S => pnl[now] >= -limit,
         WithinReach(pnl, S, now, limit, exposure)
  PROVE  WithinReach(pnl, S, now, limit, larger)
PROOF
  BY BoundsAreNaturals DEF WithinReach

LEMMA ReachAfterClose ==
  ASSUME NEW S \in SUBSET Nat, NEW pnl \in [S -> Int], NEW now \in S,
         NEW limit \in Nat, NEW exposure \in Nat, NEW entry \in Nat, NEW p \in Nat,
         entry <= exposure,
         WithinReach(pnl, S, now, limit, exposure)
  PROVE  WithinReach([pnl EXCEPT ![now] = @ + (p - entry)], S, now, limit, exposure - entry)
PROOF
  BY BoundsAreNaturals DEF WithinReach

-----------------------------------------------------------------------------
(* The loop's place in the order and in time. *)

LEMMA MarketInTurn == ChainTypeOK => Market \in Markets
PROOF
  BY LoopAssumption DEF ChainTypeOK, Market

LEMMA NowIsATime ==
  ASSUME ChainTypeOK, step < MaxSteps
  PROVE  Now \in Times /\ Today \in Days /\ FillDay(Now) = Today
PROOF
  <1>1. step \in 0 .. MaxSteps - 1
    BY LoopAssumption DEF ChainTypeOK
  <1>2. Now \in Times
    BY <1>1, LoopAssumption DEF Now
  <1>3. FillDay(Now) = Today
    BY <1>2, SameDayFills DEF Today
  <1>4. FillDay(Now) \in Days
    BY <1>2, TimeAssumption DEF FillDay, DayOf
  <1> QED BY <1>2, <1>3, <1>4

LEMMA TimeAdvances ==
  ASSUME ChainTypeOK, step' \in {step, step + 1}
  PROVE  /\ Today \in Nat /\ Today' \in Nat /\ Today <= Today'
         /\ WeekOf(Today) \in Nat /\ WeekOf(Today)' \in Nat
         /\ WeekOf(Today) <= WeekOf(Today)'
PROOF
  <1>1. step \in Nat /\ step' \in Nat /\ step <= step' /\ StepTicks \in Nat
    BY LoopAssumption DEF ChainTypeOK
  <1>2. /\ step * StepTicks \in Nat /\ step' * StepTicks \in Nat
        /\ step * StepTicks <= step' * StepTicks
    BY <1>1, TimesMonotone
  <1>3. DayTicks \in Nat \ {0} /\ DaysPerWeek \in Nat \ {0}
    BY TimeAssumption, CalendarAssumption
  <1>4. Today \in Nat /\ Today' \in Nat /\ Today <= Today'
    BY <1>2, <1>3, DivMonotone DEF Today, DayOf, Now
  <1> QED BY <1>3, <1>4, DivMonotone DEF WeekOf

-----------------------------------------------------------------------------
(* What the Governor has checked when it lets a trade through. *)

LEMMA AllowedMeansNoReason ==
  ASSUME NEW in, AllowsPaperTrade(Evaluate(in))
  PROVE  LossReasons(in.account) = {} /\ ExposureReasons(in.account) = {}
PROOF
  <1>1. HardRejectReasons(in) = {}
    BY DEF AllowsPaperTrade, Evaluate, AllowedActions
  <1> QED BY <1>1 DEF HardRejectReasons, AccountReasons

LEMMA EntryAllowedMeans ==
  ASSUME EntryAllowed
  PROVE  /\ ~BreakerActive
         /\ ~(losses >= MaxLosses)
         /\ ~(DailyPnl(Today) < -DailyLossLimit)
         /\ ~(WeeklyPnl(Today) < -WeeklyLossLimit)
         /\ ~(StrategyExposure(Probe) >= StrategyCap)
PROOF
  <1> DEFINE account == RiskContextFields(Market, Probe, Today)
  <1>1. LossReasons(account) = {} /\ ExposureReasons(account) = {}
    <2> PICK book \in Books, quality \in Qualities :
          AllowsPaperTrade(Evaluate(SignalAndContext(Market, book, quality)))
      BY DEF EntryAllowed
    <2>1. SignalAndContext(Market, book, quality).account = account
      BY DEF SignalAndContext
    <2> QED BY <2>1, AllowedMeansNoReason
  <1>2. ~(account.losses >= MaxLosses)
    BY <1>1 DEF LossReasons
  <1>3. ~(account.dailyPnl < -DailyLossLimit)
    BY <1>1 DEF LossReasons
  <1>4. ~(account.weeklyPnl < -WeeklyLossLimit)
    BY <1>1 DEF LossReasons
  <1>5. ~(account.strategyExposure >= StrategyCap)
    BY <1>1 DEF ExposureReasons
  <1>6. /\ account.losses = losses /\ account.dailyPnl = DailyPnl(Today)
        /\ account.weeklyPnl = WeeklyPnl(Today)
        /\ account.strategyExposure = StrategyExposure(Probe)
    BY DEF RiskContextFields
  <1>7. ~BreakerActive
    BY <1>2, <1>3, <1>4, <1>6 DEF BreakerActive
  <1> QED BY <1>2, <1>3, <1>4, <1>5, <1>6, <1>7

\* The probe owns every position, so its exposure is all the exposure.
LEMMA ProbeExposureIsAll ==
  ASSUME AccountInv, OnlyProbeOwns
  PROVE  StrategyExposure(Probe) = TotalExposure
PROOF
  <1>1. notional \in [Markets -> Nat]
    BY DEF AccountInv, AccountTypeOK
  <1>2. \A m \in Markets : OfStrategy(notional, Probe)[m] = notional[m]
    BY NoStrategyAssumption, LoopAssumption
    DEF OfStrategy, OnlyProbeOwns, AccountInv, AttributionMatchesExposure, IsOpen
  <1>3. OfStrategy(notional, Probe) \in [Markets -> Nat]
    BY <1>1 DEF OfStrategy
  <1>4. OfStrategy(notional, Probe) = notional
    BY <1>1, <1>2, <1>3
  <1> QED BY <1>4 DEF StrategyExposure, TotalExposure

-----------------------------------------------------------------------------
(* Every step of the chain is a step of the broker, or leaves it alone. *)

LEMMA ExitIsSell ==
  ASSUME BrokerInv, ChainTypeOK, Exit
  PROVE  \/ RecordReject("sell", Market) /\ UNCHANGED probes
         \/ /\ closed < MaxTrades
            /\ \E depth \in Depths, gross \in Grosses :
                  SellFilled(Market, shares[Market], depth, gross, 0, Now)
            /\ probes' = [probes EXCEPT ![Market] = NoProbe]
PROOF
  BY DEF Exit, SellRejected, ProbesAfterExit

LEMMA ChainStepIsBrokerStep ==
  ASSUME BrokerInv, ChainTypeOK, [ChainNext]_chainVars
  PROVE  [BrokerNext]_vars
PROOF
  <1> USE DEF vars
  <1>0. /\ Market \in Markets /\ Probe \in Strategies /\ Clip \in Notionals
        /\ 0 \in QuoteAges
    BY MarketInTurn, LoopAssumption
  <1>1. CASE NoExit
    BY <1>1 DEF NoExit
  <1>2. CASE Exit
    <2>1. Now \in Times
      BY <1>2, NowIsATime DEF Exit, Running
    <2>2. SubmitSell
      BY <1>0, <1>2, <2>1 DEF Exit, SubmitSell
    <2> QED BY <2>2 DEF BrokerNext
  <1>3. CASE NoEntry
    BY <1>3 DEF NoEntry
  <1>4. CASE EntryRefused
    BY <1>4 DEF EntryRefused
  <1>5. CASE EntrySubmitted
    <2>1. SubmitBuy
      BY <1>0, <1>5 DEF EntrySubmitted, EntryFilled, SubmitBuy
    <2> QED BY <2>1 DEF BrokerNext
  <1>6. CASE EntryRaised
    <2>1. SubmitBuy
      BY <1>0, <1>6 DEF EntryRaised, SubmitBuy
    <2> QED BY <2>1 DEF BrokerNext
  <1>7. CASE Finished
    BY <1>7 DEF Finished, chainVars
  <1>8. CASE UNCHANGED chainVars
    BY <1>8 DEF chainVars
  <1> QED BY <1>1, <1>2, <1>3, <1>4, <1>5, <1>6, <1>7, <1>8 DEF ChainNext

-----------------------------------------------------------------------------
(* The part of the invariant that speaks of money, step by step. *)

MoneyInv ==
  /\ OnlyProbeOwns
  /\ ExposureBounded
  /\ WithinReach(dayPnl, Days, Today, DailyLossLimit, TotalExposure)
  /\ WithinReach(weekPnl, Weeks, WeekOf(Today), WeeklyLossLimit, TotalExposure)
  /\ BreakerNeverOverridden

LEMMA MoneyTypes ==
  ASSUME BrokerInv
  PROVE  /\ notional \in [Markets -> Nat] /\ TotalExposure \in Nat
         /\ dayPnl \in [Days -> Int] /\ weekPnl \in [Weeks -> Int]
         /\ Days \in SUBSET Nat /\ Weeks \in SUBSET Nat
PROOF
  BY TotalType, CalendarAssumption, BoundsAreNaturals
  DEF BrokerInv, AccountInv, AccountTypeOK, TotalExposure

LEMMA ChainInitMoney == ChainInit => MoneyInv
PROOF
  <1> SUFFICES ASSUME ChainInit PROVE MoneyInv
    OBVIOUS
  <1> USE DEF ChainInit, BrokerInit, AccountInit
  <1>1. TotalExposure = 0
    BY TotalOfNothing DEF TotalExposure
  <1>2. OnlyProbeOwns /\ BreakerNeverOverridden
    BY DEF OnlyProbeOwns, BreakerNeverOverridden
  <1>3. ExposureBounded
    BY <1>1, BoundsAreNaturals DEF ExposureBounded
  <1>4. WithinReach(dayPnl, Days, Today, DailyLossLimit, TotalExposure)
    BY <1>1, BoundsAreNaturals DEF WithinReach
  <1>5. WithinReach(weekPnl, Weeks, WeekOf(Today), WeeklyLossLimit, TotalExposure)
    BY <1>1, BoundsAreNaturals DEF WithinReach
  <1> QED BY <1>2, <1>3, <1>4, <1>5 DEF MoneyInv

\* The ledger is untouched and time may pass.
LEMMA QuietStep ==
  ASSUME BrokerInv, ChainTypeOK, MoneyInv,
         UNCHANGED accountVars, step' \in {step, step + 1}, UNCHANGED whileActive
  PROVE  MoneyInv'
PROOF
  <1>1. TotalExposure' = TotalExposure
    BY DEF TotalExposure, accountVars
  <1>2. OnlyProbeOwns' /\ BreakerNeverOverridden' /\ ExposureBounded'
    BY <1>1 DEF MoneyInv, OnlyProbeOwns, BreakerNeverOverridden, ExposureBounded, accountVars
  <1>3. WithinReach(dayPnl, Days, Today', DailyLossLimit, TotalExposure)
    BY TimeAdvances, MoneyTypes, BoundsAreNaturals, ReachLater DEF MoneyInv, ExposureBounded
  <1>4. WithinReach(weekPnl, Weeks, WeekOf(Today)', WeeklyLossLimit, TotalExposure)
    BY TimeAdvances, MoneyTypes, BoundsAreNaturals, ReachLater DEF MoneyInv, ExposureBounded
  <1>5. dayPnl' = dayPnl /\ weekPnl' = weekPnl
    BY DEF accountVars
  <1> QED BY <1>1, <1>2, <1>3, <1>4, <1>5 DEF MoneyInv

\* An entry the Governor allowed: its cost goes on top of an exposure below
\* the cap, on a day and in a week that are still within their limits.
LEMMA EntryStep ==
  ASSUME BrokerInv, ChainTypeOK, MoneyInv, step < MaxSteps, EntryAllowed,
         NEW depth \in Depths, NEW rate \in Rates, EntryFilled(depth, rate),
         step' \in {step, step + 1}
  PROVE  MoneyInv'
PROOF
  <1> DEFINE cost == BuyCost(Clip, depth)
  <1>1. /\ Market \in Markets /\ Clip \in Notionals /\ 0 \in QuoteAges
        /\ RecordOpen(Market, Probe, cost) /\ ~BuyRefused(Clip, depth, 0)
    BY MarketInTurn, LoopAssumption DEF EntryFilled, BuyFilled
  <1>2. cost \in Nat /\ cost <= ClipCost
    <2>1. /\ Min2(Clip, depth) \in 1 .. Clip
          /\ Fee[Min2(Clip, depth)] \in Nat /\ cost \in Nat
      BY <1>1, BuyFillBounds
    <2>2. Clip \in 0 .. MaxFill /\ Clip \in Nat /\ Fee[Clip] \in Nat
      BY <1>1, BookAssumption, FeeAssumption
    <2>3. Fee[Min2(Clip, depth)] <= Fee[Clip]
      BY <2>1, <2>2, FeeAssumption
    <2> QED BY <2>1, <2>2, <2>3 DEF BuyCost, ClipCost
  <1>3. TotalExposure' = TotalExposure + cost
    BY <1>1, <1>2, MoneyTypes, TotalRaised DEF RecordOpen, TotalExposure
  <1>4. TotalExposure <= StrategyCap - 1
    <2>1. ~(TotalExposure >= StrategyCap)
      BY EntryAllowedMeans, ProbeExposureIsAll DEF MoneyInv, BrokerInv
    <2> QED BY <2>1, MoneyTypes, LimitsAssumption
  <1>5. TotalExposure' \in Nat /\ TotalExposure' <= ExposureBound
    BY <1>2, <1>3, <1>4, MoneyTypes, BoundsAreNaturals, LimitsAssumption DEF ExposureBound
  <1>6. /\ dayPnl' = dayPnl /\ weekPnl' = weekPnl /\ Today \in Days
        /\ WeekOf(Today) \in Weeks
    BY <1>1, NowIsATime, WeekOfDay DEF RecordOpen
  <1>7. dayPnl[Today] >= -DailyLossLimit /\ weekPnl[WeekOf(Today)] >= -WeeklyLossLimit
    <2> DEFINE day == dayPnl[Today]
               week == weekPnl[WeekOf(Today)]
    <2>1. day \in Int /\ week \in Int
      BY <1>6, MoneyTypes
    <2>2. ~(day < -DailyLossLimit) /\ ~(week < -WeeklyLossLimit)
      BY EntryAllowedMeans DEF DailyPnl, WeeklyPnl
    <2> HIDE DEF day, week
    <2>3. day >= -DailyLossLimit /\ week >= -WeeklyLossLimit
      BY <2>1, <2>2, BoundsAreNaturals
    <2> QED BY <2>3 DEF day, week
  <1>8. WithinReach(dayPnl, Days, Today, DailyLossLimit, TotalExposure')
    BY <1>5, <1>7, TimeAdvances, MoneyTypes, BoundsAreNaturals, ReachAfterEntry DEF MoneyInv
  <1>9. WithinReach(weekPnl, Weeks, WeekOf(Today), WeeklyLossLimit, TotalExposure')
    BY <1>5, <1>7, TimeAdvances, MoneyTypes, BoundsAreNaturals, ReachAfterEntry DEF MoneyInv
  <1>10. WithinReach(dayPnl, Days, Today', DailyLossLimit, TotalExposure')
    BY <1>5, <1>8, TimeAdvances, MoneyTypes, BoundsAreNaturals, ReachLater
  <1>11. WithinReach(weekPnl, Weeks, WeekOf(Today)', WeeklyLossLimit, TotalExposure')
    BY <1>5, <1>9, TimeAdvances, MoneyTypes, BoundsAreNaturals, ReachLater
  <1>12. OnlyProbeOwns'
    BY <1>1
    DEF MoneyInv, OnlyProbeOwns, RecordOpen, OwnerAfterOpen, BrokerInv, AccountInv, AccountTypeOK
  <1>13. BreakerNeverOverridden'
    BY EntryAllowedMeans DEF MoneyInv, BreakerNeverOverridden, EntryFilled
  <1> QED BY <1>5, <1>6, <1>10, <1>11, <1>12, <1>13 DEF MoneyInv, ExposureBounded

\* A close turns exposure into a result of the same day and week.
LEMMA ExitStep ==
  ASSUME BrokerInv, ChainTypeOK, MoneyInv, step < MaxSteps,
         NEW q, NEW depth \in Depths, NEW gross \in Grosses,
         SellFilled(Market, q, depth, gross, 0, Now),
         UNCHANGED <<step, whileActive>>
  PROVE  MoneyInv'
PROOF
  <1> DEFINE p == gross - Fee[gross]
             entry == notional[Market]
  <1>1. /\ Market \in Markets /\ Today \in Days /\ WeekOf(Today) \in Weeks
        /\ RecordClose(Market, p - entry, Today)
    BY MarketInTurn, NowIsATime, WeekOfDay DEF SellFilled, BrokerInv, BooksAgree
  <1>2. p \in Nat /\ entry \in Nat
    BY <1>1, NetProceeds, MoneyTypes
  <1>3. TotalExposure' = TotalExposure - entry /\ entry <= TotalExposure
    BY <1>1, MoneyTypes, TotalCleared, TotalCoversShare DEF RecordClose, TotalExposure
  <1>4. /\ dayPnl' = [dayPnl EXCEPT ![Today] = @ + (p - entry)]
        /\ weekPnl' = [weekPnl EXCEPT ![WeekOf(Today)] = @ + (p - entry)]
    BY <1>1 DEF RecordClose
  <1>5. Today' = Today /\ WeekOf(Today)' = WeekOf(Today)
    BY DEF Today, Now
  <1> HIDE DEF p, entry
  <1>6. WithinReach(dayPnl', Days, Today, DailyLossLimit, TotalExposure')
    BY <1>1, <1>2, <1>3, <1>4, MoneyTypes, BoundsAreNaturals, ReachAfterClose DEF MoneyInv
  <1>7. WithinReach(weekPnl', Weeks, WeekOf(Today), WeeklyLossLimit, TotalExposure')
    BY <1>1, <1>2, <1>3, <1>4, MoneyTypes, BoundsAreNaturals, ReachAfterClose DEF MoneyInv
  <1>8. ExposureBounded'
    BY <1>2, <1>3, MoneyTypes, BoundsAreNaturals DEF MoneyInv, ExposureBounded
  <1>9. OnlyProbeOwns'
    BY <1>1 DEF MoneyInv, OnlyProbeOwns, RecordClose, BrokerInv, AccountInv, AccountTypeOK
  <1>10. BreakerNeverOverridden'
    BY DEF MoneyInv, BreakerNeverOverridden
  <1> QED BY <1>5, <1>6, <1>7, <1>8, <1>9, <1>10 DEF MoneyInv

-----------------------------------------------------------------------------
(* The loop's own variables. *)

LEMMA NextMarketTypes ==
  ASSUME ChainTypeOK, step < MaxSteps, NextMarket
  PROVE  /\ step' \in {step, step + 1} /\ step' \in 0 .. MaxSteps
         /\ turn' \in 1 .. Len(MarketOrder) /\ phase' = "exit"
PROOF
  <1>1. Len(MarketOrder) \in Nat /\ Len(MarketOrder) > 0 /\ MaxSteps \in Nat
    BY LoopAssumption
  <1> QED BY <1>1 DEF ChainTypeOK, NextMarket

LoopInv == ChainTypeOK /\ ProbesMatchBook

LEMMA ChainInitLoop == ChainInit => BrokerInv /\ LoopInv
PROOF
  <1> SUFFICES ASSUME ChainInit PROVE BrokerInv /\ LoopInv
    OBVIOUS
  <1>1. BrokerInv
    BY BrokerInitInv DEF ChainInit
  <1>2. Len(MarketOrder) \in Nat /\ Len(MarketOrder) > 0 /\ MaxSteps \in Nat
    BY LoopAssumption
  <1>3. ChainTypeOK
    <2>1. probes \in [Markets -> -1 .. MaxSteps]
      BY <1>2 DEF ChainInit, NoProbe
    <2>2. step \in 0 .. MaxSteps /\ turn \in 1 .. Len(MarketOrder)
      BY <1>2 DEF ChainInit
    <2>3. BrokerTypeOK /\ afterBreaker \in Nat /\ whileActive \in Nat
      BY <1>1 DEF ChainInit, BrokerInv
    <2>4. phase \in {"exit", "entry"} /\ fired \in BOOLEAN /\ halted \in BOOLEAN
      BY Zenon DEF ChainInit
    <2> QED BY <2>1, <2>2, <2>3, <2>4, Zenon DEF ChainTypeOK
  <1>4. ProbesMatchBook
    BY DEF ChainInit, BrokerInit, ProbesMatchBook, NoProbe
  <1> QED BY <1>1, <1>3, <1>4 DEF LoopInv

LEMMA NoExitLoop ==
  ASSUME BrokerInv, BrokerInv', LoopInv, NoExit
  PROVE  LoopInv'
PROOF
  <1>1. Market \in Markets /\ MaxSteps \in Nat
    BY MarketInTurn, LoopAssumption DEF LoopInv
  <1>2. ChainTypeOK'
    BY <1>1 DEF LoopInv, ChainTypeOK, NoExit, BrokerInv, NoProbe
  <1>3. ProbesMatchBook'
    BY <1>1 DEF LoopInv, ChainTypeOK, ProbesMatchBook, NoExit, brokerVars, NoProbe
  <1> QED BY <1>2, <1>3 DEF LoopInv

LEMMA ExitLoop ==
  ASSUME BrokerInv, BrokerInv', LoopInv, Exit
  PROVE  LoopInv'
PROOF
  <1>1. Market \in Markets /\ MaxSteps \in Nat
    BY MarketInTurn, LoopAssumption DEF LoopInv
  <1>2. probes' \in [Markets -> -1 .. MaxSteps]
    BY <1>1, ExitIsSell DEF LoopInv, ChainTypeOK, NoProbe
  <1>3. ChainTypeOK'
    BY <1>2 DEF LoopInv, ChainTypeOK, Exit, BrokerInv
  <1>4. CASE RecordReject("sell", Market) /\ UNCHANGED probes
    BY <1>3, <1>4 DEF LoopInv, ProbesMatchBook, RecordReject
  <1>5. CASE /\ \E depth \in Depths, gross \in Grosses :
                  SellFilled(Market, shares[Market], depth, gross, 0, Now)
             /\ probes' = [probes EXCEPT ![Market] = NoProbe]
    <2>1. shares' = [shares EXCEPT ![Market] = 0]
      BY <1>5 DEF SellFilled, DeletePosition
    <2>2. shares \in [Markets -> Nat] /\ probes \in [Markets -> -1 .. MaxSteps]
      BY DEF BrokerInv, BrokerTypeOK, LoopInv, ChainTypeOK
    <2>3. ProbesMatchBook'
      BY <1>1, <1>5, <2>1, <2>2 DEF LoopInv, ProbesMatchBook
    <2> QED BY <1>3, <2>3 DEF LoopInv
  <1> QED BY <1>4, <1>5, ExitIsSell DEF LoopInv

LEMMA EntryFilledLoop ==
  ASSUME BrokerInv, BrokerInv', LoopInv, step < MaxSteps,
         NEW depth \in Depths, NEW rate \in Rates, EntryFilled(depth, rate),
         NextMarket, UNCHANGED <<fired, halted>>
  PROVE  LoopInv'
PROOF
  <1>1. Market \in Markets /\ MaxSteps \in Nat /\ step \in 0 .. MaxSteps
    BY MarketInTurn, LoopAssumption DEF LoopInv, ChainTypeOK
  <1>2. probes' = [probes EXCEPT ![Market] = step]
    BY DEF EntryFilled
  <1>3. afterBreaker' \in Nat /\ whileActive' \in Nat
    BY DEF EntryFilled, LoopInv, ChainTypeOK
  <1>4. ChainTypeOK'
    BY <1>1, <1>2, <1>3, NextMarketTypes DEF LoopInv, ChainTypeOK, BrokerInv
  <1>5. shares'[Market] > 0 /\ \A m \in Markets : m # Market => shares'[m] = shares[m]
    <2>1. RecordOpen(Market, Probe, BuyCost(Clip, depth)) /\ notional \in [Markets -> Nat]
      BY MoneyTypes DEF EntryFilled, BuyFilled
    <2>2. ~BuyRefused(Clip, depth, 0) /\ Clip \in Notionals /\ 0 \in QuoteAges
      BY LoopAssumption DEF EntryFilled, BuyFilled
    <2>3. BuyCost(Clip, depth) \in Nat \ {0}
      BY <2>2, BuyFillBounds
    <2>4. notional'[Market] # 0
      BY <1>1, <2>1, <2>3 DEF RecordOpen
    <2>5. shares'[Market] > 0
      BY <1>1, <2>4 DEF BrokerInv, BooksAgree, IsOpen
    <2>6. \A m \in Markets : m # Market => shares'[m] = shares[m]
      BY <1>1 DEF EntryFilled, BuyFilled, UpdateShareBookOnBuy, BrokerInv, BrokerTypeOK
    <2> QED BY <2>5, <2>6
  <1>6. ProbesMatchBook'
    <2>1. probes \in [Markets -> -1 .. MaxSteps] /\ step # NoProbe
      BY <1>1 DEF LoopInv, ChainTypeOK, NoProbe
    <2> QED BY <1>1, <1>2, <1>5, <2>1 DEF LoopInv, ProbesMatchBook
  <1> QED BY <1>4, <1>6 DEF LoopInv

-----------------------------------------------------------------------------
(* The inductive invariant and what follows from it. *)

ChainInv == BrokerInv /\ LoopInv /\ MoneyInv

LEMMA ChainInitInv == ChainInit => ChainInv
PROOF
  BY ChainInitLoop, ChainInitMoney DEF ChainInv

LEMMA ChainNextInv == ChainInv /\ [ChainNext]_chainVars => ChainInv'
PROOF
  <1> SUFFICES ASSUME ChainInv, [ChainNext]_chainVars PROVE ChainInv'
    OBVIOUS
  <1>0. BrokerInv /\ LoopInv /\ MoneyInv /\ ChainTypeOK
    BY DEF ChainInv, LoopInv
  <1>1. BrokerInv'
    BY <1>0, ChainStepIsBrokerStep, BrokerNextInv
  <1>2. CASE NoExit
    <2>1. LoopInv'
      BY <1>0, <1>1, <1>2, NoExitLoop
    <2>2. MoneyInv'
      BY <1>0, <1>2, QuietStep DEF NoExit
    <2> QED BY <1>1, <2>1, <2>2 DEF ChainInv
  <1>3. CASE Exit
    <2>1. LoopInv'
      BY <1>0, <1>1, <1>3, ExitLoop
    <2>2. step < MaxSteps /\ UNCHANGED <<step, whileActive>>
      BY <1>3 DEF Exit, Running
    <2>3. MoneyInv'
      <3>1. CASE RecordReject("sell", Market)
        BY <1>0, <2>2, <3>1, QuietStep DEF RecordReject
      <3>2. CASE \E depth \in Depths, gross \in Grosses :
                   SellFilled(Market, shares[Market], depth, gross, 0, Now)
        BY <1>0, <2>2, <3>2, ExitStep
      <3> QED BY <1>0, <1>3, <3>1, <3>2, ExitIsSell
    <2> QED BY <1>1, <2>1, <2>3 DEF ChainInv
  <1>4. CASE NoEntry \/ EntryRefused
    <2>1. /\ step < MaxSteps /\ NextMarket
          /\ UNCHANGED <<accountVars, brokerVars, probes, afterBreaker, whileActive, halted>>
      BY <1>4 DEF NoEntry, EntryRefused, Running
    <2>2. step' \in {step, step + 1}
      BY <1>0, <2>1, NextMarketTypes
    <2>3. fired' \in BOOLEAN
      BY <1>0, <1>4 DEF NoEntry, EntryRefused, ChainTypeOK
    <2>4. ChainTypeOK'
      BY <1>0, <1>1, <2>1, <2>3, NextMarketTypes DEF ChainTypeOK, BrokerInv
    <2>5. ProbesMatchBook'
      BY <1>0, <2>1 DEF LoopInv, ProbesMatchBook, brokerVars
    <2>6. MoneyInv'
      BY <1>0, <2>1, <2>2, QuietStep
    <2> QED BY <1>1, <2>4, <2>5, <2>6 DEF ChainInv, LoopInv
  <1>5. CASE EntrySubmitted
    <2>1. /\ step < MaxSteps /\ EntryAllowed /\ NextMarket /\ UNCHANGED <<fired, halted>>
      BY <1>5 DEF EntrySubmitted, Running
    <2>2. step' \in {step, step + 1}
      BY <1>0, <2>1, NextMarketTypes
    <2> PICK depth \in Depths :
          \/ BuyRejected(Market, Clip, depth, 0)
             /\ UNCHANGED <<probes, afterBreaker, whileActive>>
          \/ \E rate \in Rates : EntryFilled(depth, rate)
      BY <1>5 DEF EntrySubmitted
    <2>3. CASE BuyRejected(Market, Clip, depth, 0)
               /\ UNCHANGED <<probes, afterBreaker, whileActive>>
      <3>1. UNCHANGED <<accountVars, shares>>
        BY <2>3 DEF BuyRejected, RecordReject
      <3>2. ChainTypeOK'
        BY <1>0, <1>1, <2>1, <2>3, NextMarketTypes DEF ChainTypeOK, BrokerInv
      <3>3. ProbesMatchBook'
        BY <1>0, <2>3, <3>1 DEF LoopInv, ProbesMatchBook
      <3>4. MoneyInv'
        BY <1>0, <2>2, <2>3, <3>1, QuietStep
      <3> QED BY <1>1, <3>2, <3>3, <3>4 DEF ChainInv, LoopInv
    <2>4. CASE \E rate \in Rates : EntryFilled(depth, rate)
      <3>1. LoopInv'
        BY <1>0, <1>1, <2>1, <2>4, EntryFilledLoop
      <3>2. MoneyInv'
        BY <1>0, <2>1, <2>2, <2>4, EntryStep
      <3> QED BY <1>1, <3>1, <3>2 DEF ChainInv
    <2> QED BY <2>3, <2>4
  <1>6. CASE EntryRaised
    <2>1. /\ UNCHANGED <<accountVars, shares, step, turn, phase, probes, fired, afterBreaker,
                         whileActive>>
          /\ halted' = TRUE
      BY <1>6 DEF EntryRaised, BuyRaised
    <2>2. LoopInv'
      BY <1>0, <1>1, <2>1 DEF LoopInv, ChainTypeOK, ProbesMatchBook, BrokerInv
    <2>3. MoneyInv'
      BY <1>0, <2>1, QuietStep
    <2> QED BY <1>1, <2>2, <2>3 DEF ChainInv
  <1>7. CASE UNCHANGED chainVars
    <2>1. LoopInv'
      BY <1>0, <1>1, <1>7 DEF LoopInv, ChainTypeOK, ProbesMatchBook, BrokerInv,
                              chainVars, loopVars, brokerVars
    <2>2. MoneyInv'
      BY <1>0, <1>7, QuietStep DEF chainVars, loopVars
    <2> QED BY <1>1, <2>1, <2>2 DEF ChainInv
  <1> QED BY <1>2, <1>3, <1>4, <1>5, <1>6, <1>7 DEF ChainNext, Finished

(* The inductive invariant of the composed chain.                          *)
THEOREM ChainInvariant == ChainSpec => []ChainInv
PROOF
  BY ChainInitInv, ChainNextInv, PTL DEF ChainSpec

(* The chain's variables keep their types.                                 *)
THEOREM ChainTyped == ChainSpec => []ChainTypeOK
PROOF
  <1>1. ChainInv => ChainTypeOK
    BY DEF ChainInv, LoopInv
  <1> QED BY <1>1, ChainInvariant, PTL

(* The loop only ever drives the broker through its operations, so all     *)
(* that is proved of the broker and of the ledger holds of the chain.      *)
THEOREM ChainImplementsBroker == ChainSpec => BrokerSpec
PROOF
  <1>1. ChainInit => BrokerInit
    BY DEF ChainInit
  <1>2. ChainInv /\ [ChainNext]_chainVars => [BrokerNext]_vars
    BY ChainStepIsBrokerStep DEF ChainInv, LoopInv
  <1> QED BY <1>1, <1>2, ChainInvariant, PTL DEF ChainSpec, BrokerSpec

(* No position is without a probe and no probe without a position          *)
(* (run_regime_stress, open_probes against the share book).                *)
THEOREM ProbesAlwaysMatch == ChainSpec => []ProbesMatchBook
PROOF
  <1>1. ChainInv => ProbesMatchBook
    BY DEF ChainInv, LoopInv
  <1> QED BY <1>1, ChainInvariant, PTL

(* The money at risk never exceeds the strategy cap by a whole entry.      *)
THEOREM ExposureIsBounded == ChainSpec => []ExposureBounded
PROOF
  <1>1. ChainInv => ExposureBounded
    BY DEF ChainInv, MoneyInv
  <1> QED BY <1>1, ChainInvariant, PTL

(* No day and no week loses more than its limit plus what may be at risk   *)
(* when its breaker fires, for every market behaviour.                     *)
THEOREM LossesAreBounded == ChainSpec => []LossesBounded
PROOF
  <1>1. ChainInv => LossesBounded
    BY DEF ChainInv, MoneyInv, WithinReach, LossesBounded
  <1> QED BY <1>1, ChainInvariant, PTL

(* Invariant I3 of the stress test: no entry is filled while a breaker's   *)
(* condition holds.                                                        *)
THEOREM BreakerIsNeverOverridden == ChainSpec => []BreakerNeverOverridden
PROOF
  <1>1. ChainInv => BreakerNeverOverridden
    BY DEF ChainInv, MoneyInv
  <1> QED BY <1>1, ChainInvariant, PTL

(* A losing streak at its limit with no position left freezes the account  *)
(* for good: there is nothing to win and nothing may be opened.            *)
THEOREM LockoutIsFinal == ChainSpec => LockoutIsPermanent
PROOF
  <1> DEFINE Frozen == losses >= MaxLosses /\ TotalExposure = 0 => UNCHANGED accountVars
  <1>1. ChainInv /\ [ChainNext]_chainVars => [Frozen]_chainVars
    <2> SUFFICES ASSUME ChainInv, ChainNext, losses >= MaxLosses, TotalExposure = 0
                 PROVE  UNCHANGED accountVars
      OBVIOUS
    <2>0. BrokerInv /\ ChainTypeOK
      BY DEF ChainInv, LoopInv
    <2>1. ~EntryAllowed
      BY EntryAllowedMeans
    <2>2. ~Exit
      <3>1. Market \in Markets
        BY <2>0, MarketInTurn
      <3>2. notional[Market] <= 0 /\ notional[Market] \in Nat
        BY <2>0, <3>1, MoneyTypes, TotalCoversShare DEF TotalExposure
      <3>3. ~(shares[Market] > 0)
        BY <2>0, <3>1, <3>2 DEF BrokerInv, BooksAgree, IsOpen
      <3> QED BY <3>3 DEF Exit
    <2>3. CASE NoExit
      BY <2>3 DEF NoExit
    <2>4. CASE NoEntry \/ EntryRefused
      BY <2>4 DEF NoEntry, EntryRefused
    <2>5. CASE Finished
      BY <2>5 DEF Finished, chainVars
    <2> QED BY <2>1, <2>2, <2>3, <2>4, <2>5 DEF ChainNext, EntrySubmitted, EntryRaised
  <1> QED BY <1>1, ChainInvariant, PTL DEF ChainSpec, LockoutIsPermanent
=============================================================================
