---------------------------- MODULE TradablePool ----------------------------
(***************************************************************************)
(* From the lists of Intelligence to priced shadow candidates: the pool    *)
(* (polysignal/shadow/tradable_candidates.py), the token ids its markets   *)
(* are given (forward_observations.py, backfill_shadow_token_ids.py,       *)
(* improve_tradable_token_coverage.py) and the prices that are read for    *)
(* them (refresh_tradable_candidate_prices.py).                            *)
(*                                                                         *)
(* Units are those of Intelligence: asks and spreads of a candidate are in *)
(* hundredths of thousandths, risks and scores in hundredths of points.    *)
(***************************************************************************)
EXTENDS Intelligence

LOCAL Least(a, b) == IF a <= b THEN a ELSE b
LOCAL Most(a, b) == IF a <= b THEN b ELSE a
LOCAL ValueOf(o) == IF o = None THEN 0 ELSE o[1]

-----------------------------------------------------------------------------
(* What may become a candidate.                                            *)

Strong == {<<"tier1_mispricing">>, <<"tier2_strong_near_miss">>}

\* Of an ask over one, the excess is taken for the spread; how often a market
\* was seen is taken for its liquidity and its depth.
Candidate(m, source, ask, ambiguity, seen, volume, tier, evidence, avoids, reasons) ==
  LET liquidity == Most(seen, 10 * volume)
  IN  [market |-> m, source |-> source, ask |-> ask, ambiguity |-> ambiguity,
       spread |-> Most(0, ask - 100000), liquidity |-> liquidity, depth |-> liquidity,
       tier |-> tier, appearances |-> seen, evidence |-> evidence,
       avoided |-> m \in avoids, reasons |-> reasons]

FromWatchlist(rows, avoids, hits) ==
  [i \in DOMAIN rows |->
     LET r == rows[i]
         tier == IF r.tier = None /\ r.market \in DOMAIN hits /\ hits[r.market] > 0
                 THEN <<"tier2_strong_near_miss">> ELSE r.tier
     IN  Candidate(r.market, "watchlist", ValueOf(r.ask), ValueOf(r.ambiguity), r.appearances, 0, tier,
                   r.evidence, avoids, {"non_avoid_watchlist", "watchlist_persistence"})]

FromAlphas(rows, avoids, lastAsk) ==
  [i \in DOMAIN rows |->
     LET r == rows[i]
         ask == IF r.ask = None /\ r.market \in DOMAIN lastAsk THEN lastAsk[r.market] ELSE ValueOf(r.ask)
     IN  Candidate(r.market, "alpha_candidate", ask, ValueOf(r.ambiguity), r.appearances,
                   ValueOf(r.volume), None, r.evidence, avoids, {"alpha_quality_passed"})]

\* The last observation with an ask gives the price, the first with one what it
\* is compared to.
PricedObservations(t) == SelectSeq(t.observations, LAMBDA o : o.ask # None)

Improving(t) ==
  LET priced == PricedObservations(t)
  IN  0 < Last(priced).ask[1] /\ Last(priced).ask[1] <= priced[1].ask[1]

TrajectoryTier(t) ==
  IF Last(PricedObservations(t)).mode \in {<<"alert">>, <<"alert_only">>}
  THEN <<"tier2_strong_near_miss">> ELSE None

FromTrajectories(trajectories, avoids) ==
  LET kept == SelectSeq(trajectories, LAMBDA t : /\ PricedObservations(t) # <<>>
                                                 /\ TrajectoryTier(t) # None \/ Improving(t))
  IN  [i \in DOMAIN kept |->
         LET t == kept[i]
             risk == Mean([n \in DOMAIN t.observations |-> t.observations[n].ambiguity])
         IN  Candidate(t.market, "near_miss_trajectory", 100 * Last(PricedObservations(t)).ask[1],
                       ValueOf(risk), Len(t.observations), 0, TrajectoryTier(t), "trajectory", avoids,
                       {"near_miss_trajectory"} \cup
                       (IF TrajectoryTier(t) = None /\ Improving(t) THEN {"improving_combined_ask"} ELSE {}))]

\* The samples of the control groups by market; a missing ask counts as 0.
FromControlGroup(samples, avoids) ==
  LET markets == SetToSeq({samples[i].market : i \in DOMAIN samples})
  IN  [i \in DOMAIN markets |->
         LET own == SelectSeq(samples, LAMBDA s : s.market = markets[i])
         IN  Candidate(markets[i], "control_group",
                       ValueOf(Mean([n \in DOMAIN own |-> <<ValueOf(own[n].ask)>>])),
                       ValueOf(Mean([n \in DOMAIN own |-> own[n].ambiguity])),
                       Len(own), 0, None, "control_group", avoids, {"low_risk_control_group"})]

Hint(c) == IF c.source \in {"watchlist", "near_miss_trajectory"} /\ c.tier \in Strong
           THEN "eligible_shadow_entry" ELSE "watch_only"

Limits == [ambiguity |-> 3000, liquidity |-> 1, spread |-> 5000, depth |-> 1, topN |-> 50]

HardExclusions(c, limits) ==
  {r \in {"avoid_candidate", "high_ambiguity", "low_liquidity", "missing_combined_ask",
          "spread_too_wide", "insufficient_orderbook_depth", "stale_data", "llm_only",
          "risk_hard_reject", "alpha_score_only"} :
     CASE r = "avoid_candidate"              -> c.avoided
       [] r = "high_ambiguity"               -> c.ambiguity > limits.ambiguity
       [] r = "low_liquidity"                -> c.liquidity < limits.liquidity
       [] r = "missing_combined_ask"         -> c.ask <= 0
       [] r = "spread_too_wide"              -> c.spread > limits.spread
       [] r = "insufficient_orderbook_depth" -> c.depth < limits.depth
       [] r = "stale_data"                   -> "stale" \in c.reasons
       [] r = "alpha_score_only"             -> c.source = "alpha_score_only"
       [] OTHER                              -> r \in c.reasons}

TierScore(tier) ==
  CASE tier = <<"tier1_mispricing">>       -> 4000
    [] tier = <<"tier2_strong_near_miss">> -> 2500
    [] tier = <<"tier3_weak_near_miss">>   -> 1000
    [] OTHER                               -> 0

PersistenceScore(evidence, appearances) ==
  CASE evidence = "strong"   -> 1500
    [] evidence = "moderate" -> 800
    [] evidence = "weak"     -> 300
    [] OTHER -> IF appearances >= 5 THEN 1000 ELSE IF appearances >= 2 THEN 500 ELSE 0

TradableScore(c) ==
  TierScore(c.tier) + Least(500 * c.liquidity, 2000) + Least(200 * c.appearances, 1500)
    + PersistenceScore(c.evidence, c.appearances)
    - Least(c.ambiguity \div 2, 3000) - Least(c.spread \div 10, 2000)

\* Of a market's candidates without a reason against them the best, the first
\* of equals; the best of these by score, then by appearances.
Tradable(raw, limits) ==
  LET allowed == SelectSeq(raw, LAMBDA c : HardExclusions(c, limits) = {})
      Better(i, j) == \/ TradableScore(allowed[i]) > TradableScore(allowed[j])
                      \/ TradableScore(allowed[i]) = TradableScore(allowed[j]) /\ i < j
      best == SelectSeq([i \in DOMAIN allowed |-> i],
                LAMBDA i : ~\E j \in DOMAIN allowed : allowed[j].market = allowed[i].market /\ Better(j, i))
  IN  FirstOf(Ranked([n \in DOMAIN best |-> allowed[best[n]]],
                     [n \in DOMAIN best |-> 1000 * TradableScore(allowed[best[n]])
                                              + allowed[best[n]].appearances]), limits.topN)

\* The pool of the lists that a comparison of markets leaves behind.
Pool(markets, total, topN, samples, hits, lastAsk, limits) ==
  LET avoided == AvoidCandidatesOf(markets, topN)
      avoids == {avoided[i].market : i \in DOMAIN avoided}
  IN  Tradable(FromWatchlist(PersistentWatchlist(markets, topN), avoids, hits)
               \o FromAlphas(AlphaCandidatesOf(markets, total, topN), avoids, lastAsk)
               \o FromTrajectories(Trajectories(markets), avoids)
               \o FromControlGroup(samples, avoids), limits)

-----------------------------------------------------------------------------
(* Token ids.  A record names a market, maybe up to five pairs of ids      *)
(* under different names, a list of ids with their outcomes, or one id     *)
(* with its outcome.                                                       *)

NoToken == ""

ValidToken(t, m) == t # NoToken /\ t # m
ValidPair(p, m) == ValidToken(p[1], m) /\ ValidToken(p[2], m)

\* By the outcomes when they name both sides, by their place otherwise.
PairFromOutcomes(tokens, outcomes) ==
  LET Of(label) == {i \in DOMAIN outcomes : outcomes[i] = label}
      LastOf(label) == tokens[CHOOSE i \in Of(label) : \A j \in Of(label) : j <= i]
  IN  IF Len(outcomes) = Len(tokens) /\ Of("yes") # {} /\ Of("no") # {}
      THEN <<LastOf("yes"), LastOf("no")>> ELSE <<tokens[1], tokens[2]>>

ListedPair(r) ==
  IF Len(r.tokens) < 2 THEN None
  ELSE LET p == PairFromOutcomes(r.tokens, r.outcomes) IN IF ValidPair(p, r.market) THEN <<p>> ELSE None

\* backfill: the first pair that is valid.
ExtractedPair(r) ==
  LET valid == SelectSeq(r.pairs, LAMBDA p : ValidPair(p, r.market))
  IN  CASE r.market = NoToken -> None
        [] r.market # NoToken /\ valid # <<>> -> <<valid[1]>>
        [] OTHER -> ListedPair(r)

\* ShadowTokenIdResolver: the first pair that names an id, valid or not.
StoredPair(r) ==
  LET named == SelectSeq(r.pairs, LAMBDA p : p # <<NoToken, NoToken>>)
  IN  CASE r.market = NoToken -> None
        [] r.market # NoToken /\ named # <<>> -> IF ValidPair(named[1], r.market) THEN <<named[1]>> ELSE None
        [] OTHER -> ListedPair(r)

\* The first record of a market that gives a pair.
ResolvedTokens(records, m) ==
  LET giving == SelectSeq(records, LAMBDA r : r.market = m /\ StoredPair(r) # None)
  IN  IF giving = <<>> THEN None ELSE StoredPair(giving[1])

\* The same with every pair tried; a market without one may be given ids of
\* single outcomes, the last of each.
IndexedTokens(records, m) ==
  LET own == SelectSeq(records, LAMBDA r : r.market = m)
      giving == SelectSeq(own, LAMBDA r : ExtractedPair(r) # None)
      Single(side) == SelectSeq(own, LAMBDA r : ValidToken(r.token, m) /\ r.outcome = side)
  IN  CASE m = NoToken -> None
        [] m # NoToken /\ giving # <<>> -> ExtractedPair(giving[1])
        [] OTHER -> IF Single("yes") # <<>> /\ Single("no") # <<>>
                    THEN <<<<Last(Single("yes")).token, Last(Single("no")).token>>>> ELSE None

\* What the public API says of a market counts only if it leaves no doubt.
GammaTokens(payload, m) ==
  IF /\ payload.market = m /\ Len(payload.tokens) = 2
     /\ Len(payload.outcomes) = 2 /\ ToSet(payload.outcomes) = {"yes", "no"}
  THEN ListedPair(payload) ELSE None

\* By id or, when there is no such market, by a question only one market asks.
LookedUpTokens(m, question, byId, found) ==
  LET exact == SelectSeq(found, LAMBDA p : p.question = question)
      Asks(p) == question = None \/ p.question = None \/ p.question = question
  IN  IF byId # None THEN IF Asks(byId[1]) THEN GammaTokens(byId[1], m) ELSE None
      ELSE IF question # None /\ Len(exact) = 1 THEN GammaTokens(exact[1], m) ELSE None

\* A lookup for every market without a pair, while calls are left; a search
\* after a miss may take one more.
Lookups(requested, known, maxCalls, costs) ==
  FoldLeft(LAMBDA done, m : IF m \in known \/ done.calls >= maxCalls THEN done
                            ELSE [calls |-> done.calls + costs[m], asked |-> Append(done.asked, m)],
           [calls |-> 0, asked |-> <<>>], requested)

\* backfill fills what is empty, coverage replaces both.
Backfilled(row, pair) ==
  IF pair = None THEN row
  ELSE [row EXCEPT !.yes = IF @ = NoToken THEN pair[1][1] ELSE @,
                   !.no = IF @ = NoToken THEN pair[1][2] ELSE @]

Covered(row, pair) == IF pair = None THEN row ELSE [row EXCEPT !.yes = pair[1][1], !.no = pair[1][2]]

-----------------------------------------------------------------------------
(* Prices.  A book is <<bids, asks>>, each a list of <<price, size>>.      *)

BestBid(book) ==
  LET prices == {book[1][i][1] : i \in DOMAIN book[1]} \ {0}
  IN  IF prices = {} THEN 0 ELSE CHOOSE p \in prices : \A q \in prices : q <= p

BestAsk(book) ==
  LET prices == {book[2][i][1] : i \in DOMAIN book[2]} \ {0}
  IN  IF prices = {} THEN 0 ELSE CHOOSE p \in prices : \A q \in prices : p <= q

Spread(book) ==
  IF BestBid(book) = 0 \/ BestAsk(book) = 0 THEN 0 ELSE Most(0, BestAsk(book) - BestBid(book))

\* The gap of the asks to one, less the wider spread, is the edge.
PriceSnapshot(yes, no) ==
  LET both == BestAsk(yes) # 0 /\ BestAsk(no) # 0
      ask == IF both THEN BestAsk(yes) + BestAsk(no) ELSE 0
      wider == Most(Spread(yes), Spread(no))
  IN  [ask |-> ask, spread |-> wider, yesAsk |-> BestAsk(yes), noAsk |-> BestAsk(no),
       edge |-> IF both THEN Most(0, Most(0, 1000 - ask) - wider) ELSE 0,
       status |-> IF both THEN "priced" ELSE "empty_orderbook"]

EmptyBook == <<<<>>, <<>>>>

\* A row's own ids are used if both are valid, else those of a resolver.
RowTokens(row, records) ==
  IF ValidPair(<<row.yes, row.no>>, row.market) THEN <<<<row.yes, row.no>>>>
  ELSE ResolvedTokens(records, row.market)

Refreshed(row, records, answer) ==
  CASE RowTokens(row, records) = None -> [status |-> "missing_token_id"]
    [] RowTokens(row, records) # None /\ answer = None -> [status |-> "api_error"]
    [] OTHER -> PriceSnapshot(answer[1][1], answer[1][2])

\* Rows are read up to a number of them, and of errors.
RefreshedRows(rows, records, answers, maxRows, maxErrors) ==
  FoldLeft(LAMBDA done, i :
             IF Len(SelectSeq(done, LAMBDA r : r.status = "api_error")) >= Most(1, maxErrors) THEN done
             ELSE Append(done, Refreshed(rows[i], records, answers[i])),
           <<>>, FirstOf([i \in DOMAIN rows |-> i], maxRows))

\* The file with token ids is preferred to the pool it was made from, which
\* may be newer.
CandidateFile(pool, withTokens) == IF withTokens # None THEN withTokens ELSE pool
=============================================================================
