------------------------------ MODULE CohortRules ------------------------------
(***************************************************************************)
(* The rules of validate_crypto_threshold_shadow_pnl.py: why a candidate   *)
(* is no entry, why an observation is no exit, which observation closes a  *)
(* position and at what return, and what the closed positions support.     *)
(* Prices are cents, times seconds, sizes shares; a number or time that is   *)
(* missing or cannot be read is 0 or NoTime.  A candidate c is the row of  *)
(* discovery, an observation o the row of the poller, args the command     *)
(* line.                                                                   *)
(***************************************************************************)
EXTENDS Provenance

Outcomes == {"yes", "no"}
Selected(c) == IF c.side = "NO" THEN "no" ELSE "yes"
Opposite(c) == IF c.side = "NO" THEN "yes" ELSE "no"
EntryPrice(c) == c.quotes[Selected(c)].ask

IsPrice(p) == 0 < p /\ p <= 100
IsCrossed(q) == IsPrice(q.bid) /\ IsPrice(q.ask) /\ q.bid > q.ask

------------------------------------------------------------------------------
(* validate_configuration *)

Hour == 3600
MaxSkew == 5

\* effective_max_clock_skew_seconds: the older option may only lower it.
EffectiveSkew(args) == IF args.tolerance = NoTime THEN args.skew ELSE Min({args.skew, args.tolerance})

Configured(args) ==
    /\ args.inputsExist /\ args.output = "isolated"
    /\ args.maxAge > 0 /\ args.horizon >= 4 * Hour
    /\ args.skew \in 0..MaxSkew /\ args.tolerance \in {NoTime} \union 0..MaxSkew
    /\ args.notional > 0 /\ args.fee >= 0 /\ args.slippage >= 0
    /\ args.minSample > 0 /\ args.minClusters > 0
    /\ args.maxSpread > 0 /\ args.minConfidence \in 0..100

------------------------------------------------------------------------------
(* entry_integrity_reasons *)

GateReasons(c) ==
    ReasonsOf({<<c.action # "shadow_entry", "discovery_action_not_shadow_entry">>,
               <<c.hint # "eligible_shadow_entry", "discovery_hint_not_eligible">>,
               <<~ c.edgePass, "edge_pass_false">>,
               <<c.flags # {}, "risk_flags_present">>})

\* settlement_historical_artifact_fields_present: a market that settles at its
\* expiry has no history, and no field left that pretends one.
PretendsHistory(c) == c.historyTexts # {} \/ c.historyCounts \notin {<<>>, <<0, 0>>} \/ c.missingRanges # {}

AlreadyCrossed(c) ==
    /\ c.kind = "touch_before_expiry" /\ c.threshold > 0 /\ c.spot > 0
    /\ \/ c.barrier = "up" /\ c.spot >= c.threshold
       \/ c.barrier = "down" /\ c.spot <= c.threshold

ContractReasons(c) ==
    ReasonsOf({<<c.schema # "v5", "unsupported_candidate_schema_version">>,
               <<c.parser # "v4", "missing_or_unsupported_parser_version">>,
               <<c.model = "", "missing_model_version">>,
               <<c.kind \notin {"settlement_threshold", "touch_before_expiry"}, "unsupported_or_missing_contract_kind">>,
               <<c.kind = "settlement_threshold" /\ PretendsHistory(c), "settlement_historical_barrier_artifact_fields_present">>,
               <<c.barrier \notin {"up", "down"}, "unverifiable_barrier_direction">>,
               <<c.kind = "settlement_threshold" /\ c.direction # (IF c.barrier = "up" THEN "above" ELSE "below"),
                 "settlement_direction_mismatch">>,
               <<c.kind = "touch_before_expiry" /\ c.direction # "hit_before_expiry", "touch_direction_mismatch">>,
               <<c.threshold <= 0, "invalid_threshold_price">>, <<c.spot <= 0, "invalid_spot_price">>,
               <<AlreadyCrossed(c), "already_crossed_barrier">>})

IdentityReasons(c, avoid) ==
    LET yes == c.tokens.yes
        no == c.tokens.no
    IN  ReasonsOf({<<c.market = "", "missing_market_id">>,
                   <<c.side \notin {"YES", "NO"}, "invalid_side">>,
                   <<c.market \in avoid, "current_avoid_candidate">>,
                   <<yes = "" \/ no = "", "missing_token_id">>,
                   <<yes # "" /\ yes = no, "token_pair_not_distinct">>,
                   <<c.market # "" /\ c.market \in {yes, no}, "market_id_used_as_token_id">>})

\* Both books are looked at, the chosen side's must be able to fill the
\* notional: notional / ask shares.
QuoteReasons(c, notional) ==
    UNION {ReasonsOf({<<~ IsPrice(q.bid), "invalid_entry_best_bid">>,
                      <<~ IsPrice(q.ask), "invalid_entry_best_ask">>,
                      <<IsCrossed(q), "entry_bid_above_ask">>,
                      <<q.bidSize <= 0 \/ q.askSize <= 0, "missing_or_invalid_entry_size">>}) :
           q \in {c.quotes[o] : o \in Outcomes}}
    \union ReasonsOf({<<IsPrice(EntryPrice(c)) /\ c.quotes[Selected(c)].askSize * EntryPrice(c) < notional,
                         "insufficient_selected_entry_ask_size">>})

\* orderbook_timestamp_integrity: a book's own time, against the time at which
\* it was read.
BookTimeError(at, read, args) ==
    FirstFailure(<<
        <<at = NoTime, "missing_or_invalid_orderbook_timestamp">>,
        <<read # NoTime /\ at - read > EffectiveSkew(args), "orderbook_timestamp_in_future">>,
        <<read # NoTime /\ read - at > args.maxAge, "stale_orderbook_snapshot">> >>)

\* Entry, spot price and quote are measured from the evaluation, the books from
\* the entry.
TimeReasons(c, evaluation, args, reused) ==
    LET read == {c.at, c.spotAt, c.quoteAt}
    IN  ReasonsOf({<<NoTime \in read, "missing_or_invalid_timestamp">>,
                   <<c.at # NoTime /\ c.spotAt > c.at, "spot_timestamp_after_entry">>,
                   <<c.at # NoTime /\ c.quoteAt > c.at, "entry_quote_timestamp_after_entry">>,
                   <<c.expiry.time = NoTime, "missing_or_invalid_expiry_time">>,
                   <<c.expiry.time # NoTime /\ c.expiry.time <= evaluation, "market_expired_at_evaluation">>,
                   <<\E t \in read \ {NoTime} : t - evaluation > EffectiveSkew(args), "timestamp_in_future">>,
                   <<~ reused /\ \E t \in read \ {NoTime} : evaluation - t > args.maxAge, "stale_snapshot">>})
        \union ({BookTimeError(c.quotes[o].at, c.at, args) : o \in Outcomes} \ {""})

EntryReasons(c, evaluation, args, avoid, reused) ==
    GateReasons(c)
    \union ResolutionReasons(c.resolution) \union ExpiryReasons(c.expiry, c.clauses) \union c.historyReasons
    \union ContractReasons(c) \union IdentityReasons(c, avoid) \union QuoteReasons(c, args.notional)
    \union TimeReasons(c, evaluation, args, reused)

------------------------------------------------------------------------------
(* to_shadow_trade_dict, prepared_entry_matches *)

Missing == -1
Written(number) == IF number = Missing THEN 0 ELSE number

\* stable_trade_id: the digest binds the row and the notional.
TradeId(c, notional) == <<c, notional>>

\* The record of an accepted trade, as shadow_trades.csv keeps it.
PreparedRecord(c, notional) ==
    [id |-> TradeId(c, notional), market |-> c.market, side |-> c.side, at |-> c.at, price |-> EntryPrice(c),
     quotes |-> [o \in Outcomes |-> <<c.quotes[o].bid, c.quotes[o].ask>>], tokens |-> c.tokens,
     numbers |-> [n \in DOMAIN c.numbers |-> Written(c.numbers[n])]]

\* A number that was missing is never equal to what was written for it.
PreparedMatches(c, prepared, notional) ==
    /\ prepared.id = TradeId(c, notional)
    /\ prepared.market = c.market /\ prepared.side = c.side /\ prepared.at = c.at
    /\ prepared.price = EntryPrice(c) /\ prepared.tokens = c.tokens
    /\ \A o \in Outcomes : prepared.quotes[o] = <<c.quotes[o].bid, c.quotes[o].ask>>
    /\ \A n \in DOMAIN c.numbers : c.numbers[n] # Missing /\ prepared.numbers[n] = c.numbers[n]

------------------------------------------------------------------------------
(* evaluate_candidate_rows *)

\* allowed: the shared gate's verdict (ShadowRules); reasons: those of the row.
\* The first row of a market and side holds it, accepted or not.
EvaluateRow(acc, r) ==
    LET key == <<r.market, r.side>>
        reasons == r.reasons \union (IF key \in acc.seen THEN {"duplicate_market_side"} ELSE {})
                             \union (IF r.allowed THEN {} ELSE {"shared_entry_gate_not_eligible"})
    IN  [seen |-> acc.seen \union {key},
         positions |-> IF reasons = {} THEN Append(acc.positions, r) ELSE acc.positions,
         excluded |-> IF reasons = {} THEN acc.excluded ELSE Append(acc.excluded, reasons),
         strict |-> acc.strict + (IF r.allowed THEN 1 ELSE 0)]

EvaluateRows(rows) ==
    FoldLeft(EvaluateRow, [seen |-> {}, positions |-> <<>>, excluded |-> <<>>, strict |-> 0], rows)

ExcludedFor(result, reason) == Cardinality({i \in DOMAIN result.excluded : reason \in result.excluded[i]})

------------------------------------------------------------------------------
(* choose_forward_observation *)

\* forward_observation_metadata_error
MetadataError(o) ==
    FirstFailure(<<<<o.source = "", "missing_forward_observation_source">>,
                   <<o.source # "clob_rest_readonly", "untrusted_forward_observation_source">>,
                   <<o.stale # "false", "stale_forward_observation">>,
                   <<o.error # "", "forward_observation_error">>>>)

\* observation_token_error
TokenError(c, o) ==
    FirstFailure(<<<<"" \in {o.tokens.yes, o.tokens.no}, "missing_observation_token_ids">>,
                   <<o.tokens # c.tokens, "observation_token_mismatch">>>>)

\* selected_exit_quote_error, opposite_exit_quote_error
QuoteError(q) ==
    FirstFailure(<<<<~ IsPrice(q.bid), "missing_or_invalid_forward_best_bid">>,
                   <<~ IsPrice(q.ask), "missing_or_invalid_forward_best_ask">>,
                   <<q.bid > q.ask, "crossed_forward_orderbook">>>>)

\* selected_exit_size_error, remaining_forward_size_error: the bid takes all the
\* shares the notional bought.
SizeError(c, o, notional) ==
    LET bidSize == o.quotes[Selected(c)].bidSize
    IN  FirstFailure(<<
            <<bidSize <= 0, "missing_side_specific_exit_bid_size">>,
            <<bidSize * EntryPrice(c) < notional, "insufficient_selected_exit_bid_size">>,
            <<\E out \in Outcomes : o.quotes[out].bidSize <= 0 \/ o.quotes[out].askSize <= 0,
              "missing_or_invalid_forward_size">> >>)

ObservationError(c, o, evaluation, args) ==
    LET times == {BookTimeError(o.quotes[out].at, o.at, args) : out \in Outcomes} \ {""}
        expiry == c.expiry.time
    IN  FirstFailure(<<
            <<o.trade = <<>>, "missing_shadow_trade_id">>,
            <<o.trade # <<TradeId(c, args.notional)>>, "shadow_trade_id_mismatch">>,
            <<o.at = NoTime, "invalid_observation_timestamp">>,
            <<c.at = NoTime \/ o.at <= c.at, "observation_not_strictly_post_entry">>,
            <<o.at > evaluation, "observation_after_evaluation_time">>,
            <<o.at - c.at < args.horizon, "observation_before_min_forward_horizon">>,
            <<expiry # NoTime /\ o.at > expiry, "observation_after_market_expiry">>,
            <<MetadataError(o) # "", MetadataError(o)>>,
            <<o.side = "", "missing_observation_side">>,
            <<o.side # c.side, "observation_side_mismatch">>,
            <<TokenError(c, o) # "", TokenError(c, o)>>,
            <<QuoteError(o.quotes[Selected(c)]) # "", QuoteError(o.quotes[Selected(c)])>>,
            <<QuoteError(o.quotes[Opposite(c)]) # "", QuoteError(o.quotes[Opposite(c)])>>,
            <<times # {}, "orderbook_timestamp_of_observation">>,
            <<SizeError(c, o, args.notional) # "", SizeError(c, o, args.notional)>> >>)

\* The reason most of them were rejected for, the one met first among equals.
MostCommon(reasons) ==
    LET count(i) == Cardinality({j \in DOMAIN reasons : reasons[j] = reasons[i]})
    IN  reasons[SelectInSeq([i \in DOMAIN reasons |-> i], LAMBDA i : \A j \in DOMAIN reasons : count(j) <= count(i))]

\* Of the market's observations the earliest that is an exit.
Choose(c, observations, evaluation, args) ==
    LET ofMarket == SelectSeq(observations, LAMBDA o : o.market = c.market)
        errors == [i \in DOMAIN ofMarket |-> ObservationError(c, ofMarket[i], evaluation, args)]
        valid == {i \in DOMAIN ofMarket : errors[i] = ""}
        earliest == {i \in valid : \A j \in valid : ofMarket[i].at <= ofMarket[j].at}
    IN  CASE ofMarket = <<>> -> [exit |-> <<>>, reason |-> "missing_forward_observation"]
          [] ofMarket # <<>> /\ valid = {} -> [exit |-> <<>>, reason |-> MostCommon(errors)]
          [] OTHER -> [exit |-> <<ofMarket[Min(earliest)]>>, reason |-> ""]

------------------------------------------------------------------------------
(* build_position, performance_summary, validation_conclusion *)

BasisPoints == 10000

\* From ask to bid on the entry's side, and costs of the entry, per cent times
\* a hundred, rounded down.
Return(c, bid, args) ==
    ((bid - EntryPrice(c)) * BasisPoints - EntryPrice(c) * (args.fee + args.slippage)) \div EntryPrice(c)

Position(c, chosen, args) ==
    [cluster |-> <<c.asset, c.expiry.time, c.kind>>, closed |-> chosen.exit # <<>>, reason |-> chosen.reason,
     exitAt |-> IF chosen.exit = <<>> THEN NoTime ELSE chosen.exit[1].at,
     gain |-> IF chosen.exit = <<>> THEN 0 ELSE Return(c, chosen.exit[1].quotes[Selected(c)].bid, args)]

\* max_drawdown: the deepest fall of the sum from its highest point so far.
Drawdown(gains) ==
    FoldLeft(LAMBDA acc, g :
                LET equity == acc.equity + g
                    peak == Max({acc.peak, equity})
                IN  [equity |-> equity, peak |-> peak, fall |-> Min({acc.fall, equity - peak})],
             [equity |-> 0, peak |-> 0, fall |-> 0], gains).fall

\* grouped_performance, concentration_summary
GroupsOf(positions) == {positions[i].cluster : i \in DOMAIN positions}
Largest(positions) ==
    Max({Cardinality({i \in DOMAIN positions : positions[i].cluster = g}) : g \in GroupsOf(positions)} \union {0})

Performance(positions) ==
    LET closed == SelectSeq(positions, LAMBDA p : p.closed)
        gains == [i \in DOMAIN closed |-> closed[i].gain]
        inTime == SortSeq(closed, LAMBDA p, q : p.exitAt < q.exitAt)
    IN  [total |-> Len(positions), closed |-> Len(closed), clusters |-> Cardinality(GroupsOf(closed)),
         largest |-> Largest(positions), sum |-> FoldLeft(LAMBDA a, g : a + g, 0, gains),
         wins |-> Len(SelectSeq(gains, LAMBDA g : g > 0)),
         drawdown |-> Drawdown([i \in DOMAIN inTime |-> inTime[i].gain])]

\* targets: the rows of this kind of edge.
Conclusion(targets, result, performance, args) ==
    LET created == Len(result.positions)
    IN  FirstOf(<<
            <<created = 0 /\ targets > 0 /\ ExcludedFor(result, "missing_historical_barrier_evidence") = targets,
              "historical_barrier_evidence_required">>,
            <<created = 0, "entry_snapshot_refresh_required">>,
            <<performance.closed = 0, "insufficient_forward_data">>,
            <<performance.closed < args.minSample, "insufficient_sample">>,
            <<performance.clusters < args.minClusters, "insufficient_independent_clusters">>,
            <<performance.sum <= 0, "negative_expectancy_observed">> >>, "research_only_positive_sample")
==============================================================================
