------------------------------ MODULE Engines ------------------------------
(***************************************************************************)
(* What the engines and the strategy make of a market and its book:        *)
(* market_microstructure.py, resolution_lifecycle.py, wallet_intelligence  *)
(* .py, yes_no_mispricing.py and the metrics of models/orderbook.py.       *)
(*                                                                         *)
(* Prices are in thousandths of a dollar, depths in dollars, spreads in    *)
(* basis points, scores in points (fractions of a point rounded down).     *)
(* A best price of 0 stands for a side without levels.                     *)
(***************************************************************************)
EXTENDS Integers

Tokens == {"yes", "no"}

SmallerOf(a, b) == IF a < b THEN a ELSE b
Points(x) == IF x < 0 THEN 0 ELSE SmallerOf(x, 100)

-----------------------------------------------------------------------------
(* Metrics of a snapshot: calculate_metrics.                               *)

SpreadKnown(book) == book.yes.bid > 0 /\ book.yes.ask > 0
SpreadBp(book) ==    \* rounded up
  IF SpreadKnown(book)
  THEN -((20000 * (book.yes.bid - book.yes.ask)) \div (book.yes.ask + book.yes.bid))
  ELSE 0

CombinedKnown(book) == book.yes.ask > 0 /\ book.no.ask > 0
CombinedAsk(book) == book.yes.ask + book.no.ask

TotalDepth(book) ==
  book.yes.bidUsd + book.yes.askUsd + book.no.bidUsd + book.no.askUsd

-----------------------------------------------------------------------------
(* Microstructure.                                                         *)

\* From good at 200 bp, falling linearly, to bad at 500 bp.
SpreadPoints(bp, weight) ==
  IF bp <= 200 THEN weight
  ELSE IF bp >= 500 THEN -weight
  ELSE (weight * (500 - bp)) \div 300

Mispriced(book) ==
  CombinedKnown(book) /\ CombinedAsk(book) < 985 /\ TotalDepth(book) >= 50

\* More than 80 or less than 20 percent of YES's depth on the bid side.
Lopsided(book) ==
  LET both == book.yes.bidUsd + book.yes.askUsd
  IN  \/ 10 * book.yes.bidUsd > 8 * both
      \/ 10 * book.yes.bidUsd < 2 * both

MicrostructureScore(book) ==
  Points(50 + SpreadPoints(SpreadBp(book), 20)
            + (IF Lopsided(book) THEN 10 ELSE 0)
            + (IF Mispriced(book) THEN 25 ELSE 0))

DepthPoints(usd) ==
  IF usd >= 1000 THEN 25
  ELSE IF usd <= 50 THEN -25
  ELSE (25 * (usd - 50)) \div 950

LiquidityScore(book) ==
  Points(50 + DepthPoints(TotalDepth(book)) + SpreadPoints(SpreadBp(book), 25))

\* analyze_snapshot and get_component_scores: the other engines neutral.
BookScores(book) ==
  [microstructure |-> MicrostructureScore(book), liquidity |-> LiquidityScore(book),
   event |-> 50, wallet |-> 50, lifecycle |-> 50]

-----------------------------------------------------------------------------
(* Lifecycle.  A market's times are hours: left until it closes, life from *)
(* its creation to its close, each known or not.                           *)

PastClose(market) == market.closeKnown /\ market.left <= 0

\* The share of its life that is left, compared with a percentage.
LifeKnown(market) == market.closeKnown /\ market.lifeKnown /\ market.life > 0
LeftAtMost(market, percent) == 100 * market.left <= percent * market.life
LeftAtLeast(market, percent) == 100 * market.left >= percent * market.life

PhaseByShare(market) ==
  CASE LeftAtLeast(market, 90) -> "early"
    [] LeftAtMost(market, 5)   -> "closing"
    [] LeftAtMost(market, 20) /\ ~LeftAtMost(market, 5) -> "late"
    [] OTHER -> "mid"

PhaseByHours(market) ==
  CASE market.left <= 1 -> "closing"
    [] 1 < market.left /\ market.left <= 24 -> "late"
    [] OTHER -> "mid"

Phase(market) ==
  CASE market.status # "open" \/ PastClose(market) -> "closed"
    [] market.status = "open" /\ ~PastClose(market) ->
         IF ~market.closeKnown THEN "mid"
         ELSE IF LifeKnown(market) THEN PhaseByShare(market)
         ELSE IF market.lifeKnown THEN "mid" ELSE PhaseByHours(market)

\* A market said to be created in the future has more than all of its life
\* left, which the assessment's validation refuses.
Assessable(market) ==
  ~(/\ Phase(market) # "closed"
    /\ LifeKnown(market)
    /\ market.left > market.life)

PhaseScore == [early |-> 80, mid |-> 90, late |-> 70, closing |-> 50, closed |-> 0]
CloseTimeRisk == [early |-> 10, mid |-> 0, late |-> 50, closing |-> 90, closed |-> 100]

\* The first cause of ambiguity that is found decides.
AmbiguityRisk(market) ==
  CASE market.ambiguous -> 100
    [] ~market.ambiguous /\ market.source = "none" -> 80
    [] ~market.ambiguous /\ market.source = "vague" -> 50
    [] ~market.ambiguous /\ market.source \notin {"none", "vague"} ->
         IF ~market.criteria THEN 20
         ELSE CASE market.text = "vague_title" -> 50
                [] market.text = "vague_description" -> 30
                [] market.text = "clear" -> 0

ResolutionRisk(market) ==
  IF market.forbidden THEN 70
  ELSE CASE market.source = "high" -> 0
         [] market.source = "medium" -> 30
         [] market.source \in {"unknown", "vague"} -> 50
         [] market.source = "none" -> 60

LifecycleScore(market) ==
  Points((100 * PhaseScore[Phase(market)] - 40 * AmbiguityRisk(market)
            - 25 * ResolutionRisk(market)
            - 20 * CloseTimeRisk[Phase(market)]) \div 100)

AutoAllowed(market) == ~market.forbidden

-----------------------------------------------------------------------------
(* Wallets.  Neither the runner nor main.py is given a watchlist: without  *)
(* an active wallet that has a profile the score is neutral and nothing is *)
(* flagged.                                                                *)

WalletScoreUnwatched == 100    \* deviation: full marks when nobody is watched

WalletScore == 50

-----------------------------------------------------------------------------
(* The strategy: buy both tokens when their asks add up to less than a     *)
(* dollar by enough.                                                       *)

ShallowDepth(book) == SmallerOf(book.yes.askUsd, book.no.askUsd)

MispricingFound(book, market) ==
  /\ CombinedKnown(book)
  /\ CombinedAsk(book) <= 985
  /\ ShallowDepth(book) >= 20
  /\ SpreadBp(book) <= 500
  /\ market.volume >= 100000

MispricingScore(book) ==
  LET base  == SmallerOf(1000 - CombinedAsk(book), 100)
      bonus == CASE ShallowDepth(book) >= 100 -> 10
                 [] 50 <= ShallowDepth(book) /\ ShallowDepth(book) < 100 -> 5
                 [] OTHER -> 0
  IN  Points(base + bonus)

MispricingLiquidity(book) ==
  CASE ShallowDepth(book) >= 100 -> 90
    [] 50 <= ShallowDepth(book) /\ ShallowDepth(book) < 100 -> 80
    [] 20 <= ShallowDepth(book) /\ ShallowDepth(book) < 50 -> 70
    [] OTHER -> 50

\* compute_signal on a mispriced book: the engines' scores of the book are
\* replaced by the strategy's own.
MispricingSignal(book, market, scores) ==
  [side   |-> "both",
   scores |-> [scores EXCEPT !.microstructure = MispricingScore(book),
                             !.liquidity = MispricingLiquidity(book)],
   flags  |-> {f \in {"forbidden_auto_category", "ambiguous_market"} :
                 \/ f = "forbidden_auto_category" /\ ~AutoAllowed(market)
                 \/ f = "ambiguous_market" /\ market.ambiguous}]
=============================================================================
