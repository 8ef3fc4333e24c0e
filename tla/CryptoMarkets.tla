---------------------------- MODULE CryptoMarkets ----------------------------
(***************************************************************************)
(* What discover_crypto_threshold_edges.py makes of the markets Gamma      *)
(* lists: which it lists at all, what it reads in a title and in the rules *)
(* of a market, which it asks books and history for, and how it prices     *)
(* one.  A market is the record of what its texts say; prices are levels,  *)
(* probabilities and edges per cent, times ticks.                          *)
(***************************************************************************)
EXTENDS Provenance

CONSTANTS
    Text,           \* what Gamma says of every market
    PageSize, MaxMarkets, MinVolume,    \* --page_size, --max_markets, --min_volume
    EndsAbove,      \* the normal distribution's per cent for a level to end above another
    FullHorizon,    \* ticks of the week that gives full confidence
    MinEdge, MinConfidence              \* --min_edge, --min_confidence, per cent

Either(value, low, high) == IF value < low THEN low ELSE IF value > high THEN high ELSE value

------------------------------------------------------------------------------
(* fetch_market_universe *)

\* Markets are taken once, up to the maximum.
Taken(markets, rows) ==
    FoldLeft(LAMBDA acc, m : IF m \in ToSet(acc) \/ Len(acc) >= MaxMarkets THEN acc ELSE Append(acc, m), markets, rows)

\* Page k, until one fails, comes short, or enough are there.
ReadPage(read, listing, k, fails) ==
    LET limit == IF PageSize < MaxMarkets - Len(read.markets) THEN PageSize ELSE MaxMarkets - Len(read.markets)
        rows == SubSeq(listing, (k - 1) * PageSize + 1, Min({(k - 1) * PageSize + limit, Len(listing)}))
    IN  IF read.done THEN read
        ELSE IF fails THEN [read EXCEPT !.done = TRUE, !.errors = @ \union {"gamma_page"}]
        ELSE [read EXCEPT !.served = @ \union ToSet(rows), !.markets = Taken(@, rows),
                          !.done = Len(rows) < limit \/ Len(Taken(read.markets, rows)) >= MaxMarkets]

\* A search that fails is passed over.
Searched(read, rows) ==
    IF Len(read.markets) >= MaxMarkets THEN read
    ELSE IF rows = <<"failed">> THEN [read EXCEPT !.errors = @ \union {"gamma_search"}]
    ELSE [read EXCEPT !.served = @ \union ToSet(rows), !.markets = Taken(@, rows)]

Universe(listing, failing, searches) ==
    FoldLeft(Searched,
             FoldLeft(LAMBDA read, k : ReadPage(read, listing, k, k \in failing),
                      [markets |-> <<>>, served |-> {}, done |-> FALSE, errors |-> {}],
                      [k \in 1..(Len(listing) \div PageSize + 1) |-> k]),
             searches)

\* What the manifest of the raw snapshots says of the listing.
TerminalStatus(read) ==
    IF "gamma_page" \in read.errors THEN "pagination_error"
    ELSE IF "gamma_search" \in read.errors THEN "partial_with_search_errors"
    ELSE IF Len(read.markets) >= MaxMarkets THEN "max_markets_reached" ELSE "complete"

\* filter_markets
Listed(read) == {m \in DOMAIN Text : m \in ToSet(read.markets) /\ Text[m].active /\ Text[m].volume >= MinVolume}

------------------------------------------------------------------------------
(* The title *)

\* parse_threshold_price: amounts in dollars first, then those with a suffix,
\* then bare numbers of three digits, years excepted.
Scaled(n) == n.value * (CASE n.suffix = "k" -> 1000 [] n.suffix = "m" -> 1000000 [] OTHER -> 1)

IsPrice(n) ==
    /\ Scaled(n) > 0
    /\ n.suffix = "" /\ ~ n.dollar => Scaled(n) \notin 1900..2100
    /\ n.dollar \/ Scaled(n) >= 10

PriceIn(numbers) ==
    LET inOrder == SelectSeq(numbers, LAMBDA n : n.dollar)
                   \o SelectSeq(numbers, LAMBDA n : ~ n.dollar /\ n.suffix # "")
                   \o SelectSeq(numbers, LAMBDA n : ~ n.dollar /\ n.suffix = "" /\ n.value >= 100)
        first == SelectInSeq(inOrder, IsPrice)
    IN  IF first = 0 THEN 0 ELSE Scaled(inOrder[first])

\* The price of an all-time high is not in the title.
ThresholdPrice(m) == IF "ath" \in Text[m].words THEN 0 ELSE PriceIn(Text[m].numbers)

\* parse_contract_semantics: what the words promise, and which way the barrier
\* lies.
Kind(m) ==
    LET words == Text[m].words
    IN  IF words \intersect {"ath", "rise", "dip", "touch"} # {} THEN "touch_before_expiry"
        ELSE IF words \intersect {"above", "below"} # {} THEN "settlement_threshold" ELSE ""

Barrier(m) ==
    LET words == Text[m].words
    IN  CASE "ath" \in words -> "up"
          [] "ath" \notin words /\ Kind(m) = "touch_before_expiry" ->
                IF "rise" \in words THEN IF {"dip", "below"} \intersect words = {} THEN "up" ELSE "unknown"
                ELSE IF "dip" \in words /\ "above" \notin words THEN "down" ELSE "unknown"
          [] OTHER -> IF "above" \in words /\ "below" \notin words THEN "up"
                      ELSE IF "below" \in words /\ "above" \notin words THEN "down" ELSE "unknown"

HasDirection(m) ==
    \/ Kind(m) = "touch_before_expiry"
    \/ Kind(m) = "settlement_threshold" /\ Barrier(m) # "unknown"

\* parse_expiry_time: a date is surer than a weekday, an end of the week or a
\* year.
CutoffScore(m) == CASE Text[m].cutoff = "date" -> 20 [] Text[m].cutoff = "none" -> 0 [] OTHER -> 15

\* parse_crypto_threshold_market; without asset or context it is no threshold
\* market, below 75 it is left out.
ParserConfidence(m) ==
    LET threshold == ThresholdPrice(m) > 0
    IN  IF ~ Text[m].asset \/ Text[m].words = {} THEN 0
        ELSE Either(25 + (IF threshold THEN 25 ELSE 0) + (IF HasDirection(m) THEN 20 ELSE 0) + CutoffScore(m)
                    + (IF threshold /\ HasDirection(m) /\ CutoffScore(m) > 0 THEN 20 ELSE 0), 0, 100)

------------------------------------------------------------------------------
(* The rules *)

Expiries == [m \in DOMAIN Text |-> ExpiryRow(Text[m])]
Resolutions == [m \in DOMAIN Text |-> Resolution(Text[m])]

ExpiryTime(m) == Expiries[m].time
ExpiryStatus(m) == Expiries[m].status
ResolutionStatus(m) == Resolutions[m].status

\* parse_rule_observation_window: only an explicit window in the rules counts.
Window(m) ==
    [from |-> Text[m].ruleStart, expiry |-> Text[m].ruleEnd,
     status |-> StatusAfter(<<
                        <<Text[m].ruleStart = NoTime, "missing_explicit_rule_start_time">>,
                        <<"two_windows" \in Text[m].faults, "conflicting_explicit_rule_windows">>,
                        <<ExpiryTime(m) = NoTime, "missing_or_invalid_expected_expiry">>,
                        <<Text[m].ruleEnd # ExpiryTime(m), "rule_window_expiry_mismatch">> >>)]

\* historical_barrier_plan: history is worth reading.
Planned(m) ==
    /\ Kind(m) = "touch_before_expiry"
    /\ ResolutionStatus(m) = "verified" /\ ExpiryStatus(m) = "verified" /\ Window(m).status = "verified"
    /\ Barrier(m) # "unknown" /\ ThresholdPrice(m) > 0

\* market_safety_reject_reason, extract_token_pair
Safe(m, avoid) == m \notin avoid /\ Text[m].category # "forbidden" /\ ~ Text[m].ambiguous
HasTokenPair(m) == Text[m].outcomes = "yes_no"

EligibleAmong(listed, avoid) == {m \in listed : ParserConfidence(m) >= 75 /\ Safe(m, avoid) /\ HasTokenPair(m)}

------------------------------------------------------------------------------
(* The price *)

\* book_features: no book, or a book without a side, is zero.
NoQuote == [bid |-> 0, ask |-> 0, levels |-> 0, size |-> 0]
NoQuotes == [yes |-> NoQuote, no |-> NoQuote]
Spread(q) == IF q.bid > 0 /\ q.ask > q.bid THEN q.ask - q.bid ELSE 0

\* estimate_probability: nothing is known of a market that has expired.
Probability(m, spot, now) ==
    LET above == EndsAbove[spot][ThresholdPrice(m)]
    IN  IF spot <= 0 \/ ThresholdPrice(m) <= 0 \/ ExpiryTime(m) <= now THEN 0
        ELSE CASE Barrier(m) = "unknown" -> 50
               [] Barrier(m) = "up" /\ Kind(m) = "settlement_threshold" -> Either(above, 2, 98)
               [] Barrier(m) = "down" /\ Kind(m) = "settlement_threshold" -> Either(100 - above, 2, 98)
               [] Barrier(m) = "up" /\ Kind(m) = "touch_before_expiry" -> Either((135 * above) \div 100, 2, 98)
               [] OTHER -> Either((135 * (100 - above)) \div 100, 2, 98)

\* build_candidate: the better side after one per cent of costs.
EdgeOf(chance, ask) == IF ask > 0 THEN chance - ask - 1 ELSE -100
YesEdge(m, quotes, spot, now) == EdgeOf(Probability(m, spot, now), quotes.yes.ask)
NoEdge(m, quotes, spot, now) == EdgeOf(100 - Probability(m, spot, now), quotes.no.ask)

Edge(m, quotes, spot, now) ==
    IF YesEdge(m, quotes, spot, now) >= NoEdge(m, quotes, spot, now)
    THEN [side |-> "YES", edge |-> YesEdge(m, quotes, spot, now), ask |-> quotes.yes.ask]
    ELSE [side |-> "NO", edge |-> NoEdge(m, quotes, spot, now), ask |-> quotes.no.ask]

WiderSpread(quotes) == IF Spread(quotes.yes) > Spread(quotes.no) THEN Spread(quotes.yes) ELSE Spread(quotes.no)
Depth(quotes) == quotes.yes.levels + quotes.no.levels

\* confidence_score, in parts of a hundred.
Confidence(m, quotes, spot, now) ==
    LET part(weight, value, full) == (weight * Either(value, 0, full)) \div full
    IN  part(25, ParserConfidence(m), 100) + (IF spot > 0 THEN 20 ELSE 0)
        + part(15, Either(ExpiryTime(m) - now, 0, FullHorizon), FullHorizon)
        + part(20, 10 - WiderSpread(quotes), 10)
        + part(10, Depth(quotes), 8) + part(10, quotes.yes.size + quotes.no.size, 200)

\* barrier_failure_reason: the spot price is already there.
BarrierFailure(m, spot) ==
    FirstFailure(<< <<Barrier(m) = "unknown", "unverifiable_barrier_direction">>,
                    <<Kind(m) = "touch_before_expiry" /\ spot > 0
                        /\ (IF Barrier(m) = "up" THEN spot >= ThresholdPrice(m) ELSE spot <= ThresholdPrice(m)),
                      "already_crossed_barrier">> >>)

\* action_for_candidate and what build_candidate makes of it: "shadow_entry", or
\* the reason for watching or rejecting.
Action(m, quotes, spot, now, history, timing) ==
    LET edge == Edge(m, quotes, spot, now)
    IN  FirstOf(<<
            <<spot <= 0, "missing_spot_price">>,
            <<BarrierFailure(m, spot) # "", BarrierFailure(m, spot)>>,
            <<Kind(m) = "touch_before_expiry" /\ history # "verified", history>>,
            <<timing # "", timing>>,
            <<edge.ask <= 0, "missing_side_ask">>,
            <<ParserConfidence(m) < 75, "low_parser_confidence">>,
            <<Depth(quotes) < 1, "insufficient_depth">>,
            <<WiderSpread(quotes) > 5, "spread_too_wide">>,
            <<edge.edge <= MinEdge, "edge_too_low">>,
            <<Confidence(m, quotes, spot, now) < MinConfidence, "confidence_too_low">>,
            <<ExpiryStatus(m) # "verified", ExpiryStatus(m)>>,
            <<ResolutionStatus(m) # "verified", ResolutionStatus(m)>> >>, "shadow_entry")
==============================================================================
