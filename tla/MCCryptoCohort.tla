---------------------------- MODULE MCCryptoCohort ----------------------------
(***************************************************************************)
(* One touch market and a minute of one tick.  The clock reaches the       *)
(* expiry, so that a batch may enter an expired market, and a trade may be *)
(* observed twice after its horizon, the second time by a poller that      *)
(* started before it was closed.                                           *)
(***************************************************************************)
EXTENDS CryptoCohort, SequencesExt

MCMarkets == {"touch"}
MCExpiry == [m \in MCMarkets |-> 4]
------------------------------------------------------------------------------
(* The rules of the validator, over small inputs *)

MCLag == [UTC |-> 0, ET |-> 4]
Rules == INSTANCE CohortRules WITH Lag <- MCLag, Grace <- 1

\* The command line, with ages and a horizon as short as the run's.
MCArgs == [inputsExist |-> TRUE, output |-> "isolated", maxAge |-> MaxAge, horizon |-> Horizon, skew |-> 0,
           tolerance |-> -1, notional |-> 100, fee |-> 0, slippage |-> 100, minSample |-> 2, minClusters |-> 2,
           maxSpread |-> 5, minConfidence |-> 60]
Skewed == [MCArgs EXCEPT !.skew = 5, !.tolerance = 1]

\* A book at a time; the YES ask of 50 cents buys two shares.
Quote(bid, ask, at) == [bid |-> bid, ask |-> ask, bidSize |-> 2, askSize |-> 2, at |-> at]

MCRulesText(expiry) ==
    [sources |-> {"binance"}, ruleSource |-> "binance", faults |-> {}, zones |-> {"UTC"}, cutoff |-> "date",
     clauses |-> {"cutoff"}, expiry |-> expiry, endDate |-> expiry]

Candidate(at, oldest, expiry) ==
    [action |-> "shadow_entry", hint |-> "eligible_shadow_entry", edgePass |-> TRUE, flags |-> {},
     resolution |-> Rules!Resolution(MCRulesText(expiry)), expiry |-> Rules!ExpiryRow(MCRulesText(expiry)),
     clauses |-> {"cutoff"}, historyReasons |-> {},
     schema |-> "v5", parser |-> "v4", model |-> "normal", kind |-> "touch_before_expiry", barrier |-> "up",
     direction |-> "hit_before_expiry", threshold |-> 2, spot |-> 1, asset |-> "BTC",
     historyTexts |-> {}, historyCounts |-> <<>>, missingRanges |-> {},
     market |-> "touch", side |-> "YES", tokens |-> [yes |-> "1", no |-> "2"],
     quotes |-> [yes |-> Quote(48, 50, oldest), no |-> Quote(50, 52, oldest)],
     at |-> at, spotAt |-> oldest, quoteAt |-> at,
     numbers |-> [combined_ask |-> 102, liquidity_score |-> 10, expected_edge |-> 6, confidence |-> 80, depth |-> 4, spread |-> 2]]

Observation(c, at) ==
    [market |-> c.market, trade |-> <<Rules!TradeId(c, 100)>>, at |-> at, source |-> "clob_rest_readonly",
     stale |-> "false", error |-> "", side |-> c.side, tokens |-> c.tokens,
     quotes |-> [yes |-> Quote(60, 62, at), no |-> Quote(38, 40, at)]]

\* CryptoCohort takes a row, and an observation, exactly when the rules find
\* nothing against what the row and the observation stand for.
ASSUME CohortFollowsTheRules ==
    \A entry, oldest \in 0..MaxClock, evaluation \in 0..MaxClock, verifiable, reused, avoided, complete \in BOOLEAN :
       oldest \in Evidence(entry) =>
          LET row == Row("touch", entry, oldest, verifiable)
              c == [Candidate(entry, oldest, MCExpiry["touch"]) EXCEPT
                        !.historyReasons = IF verifiable THEN {} ELSE {"historical_evidence_source_mismatch"}]
              marked == IF avoided THEN {"touch"} ELSE {}
          IN  /\ Acceptable(row, evaluation, marked, reused)
                    <=> Rules!EntryReasons(c, evaluation, MCArgs, marked, reused) = {}
              /\ \A at \in 0..MaxClock :
                    LET o == [Observation(c, at) EXCEPT !.quotes.no.ask = IF complete THEN @ ELSE 0]
                    IN  Valid(row, [row |-> row, at |-> at, complete |-> complete], evaluation)
                          <=> Rules!ObservationError(c, o, evaluation, MCArgs) = ""

\* Each thing that can be wrong with a row is a reason of its own.
ASSUME EveryFaultExcludes ==
    LET c == Candidate(1, 1, 4)
        settled == [c EXCEPT !.kind = "settlement_threshold", !.direction = "above"]
        faulty == {[c EXCEPT !.action = "watch_only"], [c EXCEPT !.hint = "watch_only"], [c EXCEPT !.edgePass = FALSE],
                   [c EXCEPT !.flags = {"spread"}], [c EXCEPT !.schema = "v4"], [c EXCEPT !.parser = ""],
                   [c EXCEPT !.model = ""], [c EXCEPT !.kind = "settlement_threshold"], [c EXCEPT !.barrier = "unknown"],
                   [c EXCEPT !.direction = "above"], [c EXCEPT !.spot = 2], [c EXCEPT !.threshold = 0], [c EXCEPT !.market = "1"],
                   [c EXCEPT !.side = ""], [c EXCEPT !.tokens.no = "1"], [c EXCEPT !.tokens.yes = ""],
                   [c EXCEPT !.quotes.yes.askSize = 1], [c EXCEPT !.quotes.no.bid = 53], [c EXCEPT !.quotes.no.bidSize = 0],
                   [c EXCEPT !.quotes.yes.ask = 101], [c EXCEPT !.quotes.no.at = -1], [c EXCEPT !.spotAt = -1],
                   [settled EXCEPT !.historyTexts = {"source"}], [settled EXCEPT !.historyCounts = <<0, 3>>],
                   [c EXCEPT !.resolution.rules.source = "many"], [c EXCEPT !.expiry.time = 3]}
    IN  /\ \A good \in {c, settled} : Rules!EntryReasons(good, 1, MCArgs, {}, FALSE) = {}
        /\ \A bad \in faulty : \A reused \in BOOLEAN : Rules!EntryReasons(bad, 1, MCArgs, {}, reused) # {}

\* The books are a minute older than the entry at most, the entry a minute
\* older than the evaluation: a position may rest on books two minutes old, and
\* one prepared earlier on books as old as it is.
ASSUME BooksMayBeTwiceAsOld ==
    LET accepted(age, bookAge, reused) ==
            LET c == [Candidate(10 - age, 10 - age, 20) EXCEPT !.quotes.yes.at = 10 - age - bookAge]
            IN  Rules!EntryReasons(c, 10, Skewed, {}, reused) = {}
    IN  /\ \A age \in -2..4, bookAge \in -2..4 :
              accepted(age, bookAge, FALSE) <=> age \in -1..MaxAge /\ bookAge \in -1..MaxAge
        /\ \A age \in 0..9 : accepted(age, 0, TRUE)

\* A trade prepared earlier is found again only by the row that it was made of,
\* at the same notional; not even by that row if a number of it is missing, for
\* 0 was written in its place (validate_crypto_threshold_shadow_pnl.py:744).
ASSUME PreparedFoundExactly ==
    LET rows == {Candidate(at, oldest, 4) : at \in 1..2, oldest \in 1..2}
        all == rows \union {[c EXCEPT !.numbers.liquidity_score = -1] : c \in rows}
    IN  \A c, d \in all, n, k \in {100, 200} :
           Rules!PreparedMatches(c, Rules!PreparedRecord(d, n), k) <=> c = d /\ n = k /\ c \in rows

\* One position for a market and side, the first row's if that is accepted; a
\* row that is not accepted keeps the ones behind it out.
ASSUME FirstOfMarketAndSide ==
    LET rows == [market : {"m", "n"}, side : {"YES"}, allowed : BOOLEAN, reasons : {{}, {"stale_snapshot"}}]
    IN  \A list \in SeqOf(rows, 3) :
           LET result == Rules!EvaluateRows(list)
               first(i) == \A j \in 1..(i - 1) : list[j].market # list[i].market
               good == {i \in DOMAIN list : first(i) /\ list[i].allowed /\ list[i].reasons = {}}
           IN  /\ ToSet(result.positions) = {list[i] : i \in good} /\ Len(result.positions) = Cardinality(good)
               /\ Len(result.positions) + Len(result.excluded) = Len(list)

\* An observation that comes later, or is no exit, leaves the exit that was
\* chosen, whose bid takes all that was bought; a reason is given only for want
\* of an exit.
ASSUME ChoiceStands ==
    LET c == Candidate(1, 1, 9)
        offered == {Observation(c, at) : at \in {2, 4, 5}}
                   \union {[Observation(c, 3) EXCEPT !.quotes.yes.bidSize = 1], [Observation(c, 3) EXCEPT !.trade = <<>>]}
        choose(list) == Rules!Choose(c, list, 8, MCArgs)
    IN  \A list \in SeqOf(offered, 3), o \in offered :
           LET chosen == choose(list)
               next == choose(Append(list, o))
           IN  /\ chosen.exit = <<>> <=> chosen.reason # ""
               /\ chosen.exit # <<>> => chosen.exit[1].quotes.yes.bidSize * 50 >= 100
               /\ chosen.exit # <<>> => next.exit = chosen.exit \/ (next.exit = <<o>> /\ o.at < chosen.exit[1].at)

\* The drawdown is the worst sum of consecutive gains.
ASSUME DrawdownIsTheWorstRun ==
    \A gains \in SeqOf({-2, -1, 1, 3}, 4) :
       LET sum(i, j) == FoldLeft(LAMBDA a, g : a + g, 0, SubSeq(gains, i, j))
       IN  Rules!Drawdown(gains) = Min({sum(i, j) : i, j \in DOMAIN gains} \union {0})

\* What the cohort concludes: a positive sample needs enough closed positions,
\* of enough clusters, that gained after costs; a position closed at the prices
\* it was entered at has lost.
ASSUME PositiveOnlyWhenEarned ==
    LET position(expiry, bid) ==
            LET c == Candidate(1, 1, expiry)
                o == [Observation(c, 4) EXCEPT !.quotes.yes.bid = bid]
            IN  Rules!Position(c, Rules!Choose(c, IF bid = 0 THEN <<>> ELSE <<o>>, 8, MCArgs), MCArgs)
        cohort == {position(expiry, bid) : expiry \in {8, 9}, bid \in {0, 40, 50, 60}}
    IN  \A list \in SeqOf(cohort, 3) :
           LET performance == Rules!Performance(list)
               result == [positions |-> list, excluded |-> IF list = <<>> THEN <<{"stale_snapshot"}>> ELSE <<>>]
               closed == {i \in DOMAIN list : list[i].closed}
           IN  /\ \A p \in ToSet(list) : p.closed => p.gain # 0
               /\ Rules!Conclusion(Len(list), result, performance, MCArgs) = "research_only_positive_sample"
                    <=> /\ Cardinality(closed) >= 2 /\ Cardinality({list[i].cluster : i \in closed}) >= 2
                        /\ FoldLeft(LAMBDA a, p : a + p.gain, 0, list) > 0
               /\ performance.drawdown <= Min({performance.sum, 0}) /\ performance.wins <= performance.closed

\* A horizon of four hours at least, and a skew of five seconds at most,
\* however the two options for it are set (validate_configuration).
ASSUME ConfigurationBounds ==
    \A horizon \in {60, 14400}, skew \in 0..7, tolerance \in -1..7, output \in {"isolated", "protected"} :
       LET args == [MCArgs EXCEPT !.horizon = horizon, !.skew = skew, !.tolerance = tolerance, !.output = output]
       IN  Rules!Configured(args) => /\ horizon = 14400 /\ output = "isolated"
                                     /\ Rules!EffectiveSkew(args) \in 0..Rules!MaxSkew /\ Rules!EffectiveSkew(args) <= skew
==============================================================================
