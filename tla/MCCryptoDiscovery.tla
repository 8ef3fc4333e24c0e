--------------------------- MODULE MCCryptoDiscovery ---------------------------
(***************************************************************************)
(* Two touch markets of one barrier, that expire at different times, beside *)
(* a settlement market and markets that each fail one test of discovery;   *)
(* two ticks a minute, the exchange's clock half a minute behind: ahead or *)
(* right, it would have closed every candle that is read.  With two moves  *)
(* the price can touch the barrier and fall back.                          *)
(***************************************************************************)
EXTENDS CryptoDiscovery

MCMarkets == {"early", "late", "settle", "quiet", "paused", "vague", "banned", "multiple"}
MCOffsets == {-1}

MCLag == [UTC |-> 0, ET |-> 4]

Dollars(n) == <<[value |-> n, dollar |-> TRUE, suffix |-> ""]>>
Touch(expiry) ==
    [active |-> TRUE, volume |-> 10, asset |-> TRUE, words |-> {"rise"}, numbers |-> Dollars(2),
     cutoff |-> "date", expiry |-> expiry - MCLag.ET, endDate |-> expiry, zones |-> {"ET"}, clauses |-> {"cutoff"}, faults |-> {},
     sources |-> {"binance"}, ruleSource |-> "binance", ruleStart |-> 0, ruleEnd |-> expiry,
     category |-> "crypto", ambiguous |-> FALSE, outcomes |-> "yes_no"]

MCText ==
    [m \in MCMarkets |->
        CASE m = "early" -> Touch(4)
          [] m = "late" -> Touch(8)
          [] m = "settle" -> [Touch(8) EXCEPT !.words = {"above"}, !.ruleStart = NoTime]
          [] m = "quiet" -> [Touch(8) EXCEPT !.volume = 1]
          [] m = "paused" -> [Touch(8) EXCEPT !.active = FALSE]
          [] m = "vague" -> [Touch(8) EXCEPT !.cutoff = "none", !.numbers = <<>>]
          [] m = "banned" -> [Touch(8) EXCEPT !.category = "forbidden"]
          [] m = "multiple" -> [Touch(8) EXCEPT !.outcomes = "many"]]

MCListings ==
    {[listing |-> <<"early", "quiet", "banned", "late", "paused">>, failing |-> {}, searches |-> <<<<"early", "multiple">>>>],
     [listing |-> <<"quiet", "vague", "late">>, failing |-> {2}, searches |-> <<<<"failed">>, <<"settle">>>>]}

MCEndsAbove == [spot \in 1..2 |-> [level \in {2} |-> IF spot = 1 THEN 30 ELSE 50]]
Side(bid, ask) == [bid |-> bid, ask |-> ask, levels |-> 8, size |-> 100]
MCQuotes == {[yes |-> Side(28, 30), no |-> Side(63, 65)]}

Answering(time, replies, kind) == [time |-> time, timeAfter |-> <<"ok">>, replies |-> replies, kind |-> kind]
Wrong == Answering(<<"timeout", "timeout">>, <<"ok">>, "whole")
MCAnswers ==
    {[binance |-> Answering(<<"ok">>, <<"http_busy", "ok">>, "whole"), coinbase |-> Wrong],
     [binance |-> Wrong, coinbase |-> Answering(<<>>, <<"ok">>, "newest_first")],
     [binance |-> Answering(<<"ok">>, <<"ok">>, "short"), coinbase |-> Wrong]}
------------------------------------------------------------------------------
(* The pure parts, over small inputs *)

\* What may come back for a page: well, or wrong in one of the ways the clients
\* look for.
Payloads(range) ==
    LET row(m) == [open |-> m, high |-> 1, sound |-> TRUE]
        whole == [i \in 1..(range.to - range.from) |-> row(range.from + i - 1)]
        page(replies, listed, rows) == [replies |-> replies, listed |-> listed, rows |-> rows]
    IN  {page(<<"ok">>, TRUE, rows) :
            rows \in {whole, Reverse(whole), Tail(whole), whole \o <<Head(whole)>>, <<row(range.to)>> \o whole,
                      [whole EXCEPT ![1].sound = FALSE], <<>>}}
        \union {page(<<"timeout", "ok">>, TRUE, whole), page(<<"http_refused">>, TRUE, whole), page(<<"ok">>, FALSE, whole)}

Answers2 ==
    {[time |-> t, timeAfter |-> <<"ok">>, pages |-> <<first, second>>] :
        t \in {<<"ok">>, <<"timeout">>},
        first \in Payloads([from |-> 0, to |-> 2]), second \in Payloads([from |-> 2, to |-> 3])}

\* A result is complete only if it has every minute of the range once, in
\* order, however its pages were answered; a result that the exchange's clock
\* does not close is not (BinanceHistoricalKlineClient.fetch_klines).
ASSUME CompleteIsWhole ==
    \A answer \in Answers2, after \in {5, 6} :
       \A r \in {BinanceResult(0, 3, answer, 5, after), CoinbaseResult(0, 3, answer, 5, after)} :
          r.status = "complete" =>
              /\ r.candles = [i \in 1..3 |-> [open |-> i - 1, high |-> 1, sound |-> TRUE]] /\ r.missing = {}
              /\ r.source = "binance" => PagesHold(r, 0, 3) /\ after = 6

Whole(source, from, to, high) ==
    LET answer == [time |-> <<"ok">>, timeAfter |-> <<"ok">>,
                   pages |-> [i \in DOMAIN Pages(from, to) |->
                        [replies |-> <<"ok">>, listed |-> TRUE,
                         rows |-> [j \in 1..(Pages(from, to)[i].to - Pages(from, to)[i].from) |->
                                      [open |-> Pages(from, to)[i].from + j - 1,
                                       high |-> high[Pages(from, to)[i].from + j - 1], sound |-> TRUE]]]]]
    IN  IF source = "binance" THEN BinanceResult(from, to, answer, PerMinute * to, PerMinute * to)
        ELSE CoinbaseResult(from, to, answer, PerMinute * to, PerMinute * to)

\* A base and a tail merge exactly when they are of one source, leave no gap
\* and agree on every minute both have; the merged history is then both.
ASSUME MergeAgrees ==
    \A sources \in [1..2 -> {"binance", "coinbase"}], end \in 1..3, start \in 0..3 :
    \A old \in [0..3 -> 1..2], new \in [0..3 -> 1..2] :
       start < 4 =>
          LET merged == Merge(Whole(sources[1], 0, end, old), Whole(sources[2], start, 4, new), 0, 4)
          IN  /\ merged.status = "complete"
                    <=> /\ sources[1] = sources[2] /\ start <= end
                        /\ \A m \in 0..3 : start <= m /\ m < end => old[m] = new[m]
              /\ merged.status = "complete" =>
                    \A m \in 0..3 : ByOpen(merged.candles)[m] = IF m < start THEN old[m] ELSE new[m]

\* The validator believes a row exactly when discovery verified it, on
\* Binance's candles, and both files are still whole (ADR-027).
ASSUME BelievedExactly ==
    LET window(start) == [status |-> IF start = NoTime THEN "missing_explicit_rule_start_time" ELSE "verified", from |-> start, expiry |-> 8]
    IN  \A start \in {NoTime, 0, 1}, source \in {"binance", "coinbase"}, high \in [0..2 -> 1..2] :
        \A entry \in {6, 8, 10}, threshold \in 0..2 :
           LET result == Whole(source, IF start = NoTime THEN 0 ELSE start, 3, high)
               e == Evidence(window(start), threshold, entry, result)
               row == [entry |-> entry, threshold |-> threshold, expiry |-> 8, window |-> window(start), evidence |-> e]
           IN  /\ \A files \in SUBSET (FilesOf(e) \union {File("candles", result, FALSE)}) :
                     IntegrityReasons(row, files) = {} <=>
                        e.status = "verified" /\ source = "binance" /\ FilesOf(e) \subseteq files
               /\ e.status = "verified" <=>
                     start # NoTime /\ entry = 6 /\ threshold > 0 /\ \A m \in start..2 : high[m] < threshold

\* A title's price is the first amount in dollars if it has one, and never a
\* bare year or a count (parse_threshold_price).
ASSUME PricesOfTitles ==
    \A numbers \in SeqOf([value : {2, 40, 150, 2026}, dollar : BOOLEAN, suffix : {"", "k"}], 2) :
       LET dollarsIn(i) == \E j \in 1..i : numbers[j].dollar
       IN  /\ \A i \in DOMAIN numbers :
                 numbers[i].dollar /\ ~ dollarsIn(i - 1) => PriceIn(numbers) = Scaled(numbers[i])
           /\ (\A i \in DOMAIN numbers : ~ numbers[i].dollar /\ numbers[i].suffix = "")
                 => PriceIn(numbers) \in {0, 150}
\* The validator believes the source of a row exactly when discovery could have
\* resolved it, with these fields, from the texts of some market
\* (resolution_integrity_reasons).
SourceTexts ==
    [sources : {u \in SUBSET {"binance", "coinbase", "untrusted"} : Cardinality(u) <= 2},
     ruleSource : {"none", "context", "no_url", "many", "untrusted", "binance", "coinbase"},
     faults : {{}, {"short"}, {"asset"}, {"two_rules"}}]
ASSUME SourcesBelievedExactly ==
    LET resolved == {r \in {Resolution(t) : t \in SourceTexts} : r.status = "verified"}
        rules == {RulesOf(t) : t \in SourceTexts}
        origins == {"", "market_field", "resolution_rules_url"}
    IN  \A source \in {"", "binance", "coinbase", "untrusted"}, origin \in origins, locator \in origins,
           version \in {0, 1}, text \in rules, hash \in {<<>>} \union {<<q>> : q \in rules}, status \in {"verified", "short"} :
           LET row == [source |-> source, origin |-> origin, locator |-> locator, version |-> version,
                       rules |-> text, rulesHash |-> hash, status |-> status]
           IN  \A digest \in {<<>>, Bound(row), Bound([row EXCEPT !.source = "kraken"])} :
                  ResolutionReasons(row @@ [digest |-> digest]) = {} <=> row @@ [digest |-> digest] \in resolved

\* A row's expiry is believed if discovery verified it, and then no field of
\* it can have been changed (expiry_integrity_reasons).
ASSUME ExpiriesBelieved ==
    \A zones \in SUBSET {"ET", "UTC"}, cutoff \in {"none", "date", "relative"}, clauses \in {{}, {"cutoff"}},
       faults \in {{}, {"metadata"}}, end \in {NoTime} \union 4..10 :
       LET row == ExpiryRow([zones |-> zones, cutoff |-> cutoff, clauses |-> clauses, faults |-> faults, expiry |-> 4, endDate |-> end])
       IN  /\ ExpiryReasons(row, clauses) = {} <=> row.status = "verified"
           /\ row.status = "verified" =>
                 \A changed \in {[row EXCEPT !.zone = "UTC"], [row EXCEPT !.zone = "ET"], [row EXCEPT !.local.at = @ + 1],
                                  [row EXCEPT !.time = @ + 1], [row EXCEPT !.end = @ + 1], [row EXCEPT !.version = 0]} :
                    ExpiryReasons(changed, clauses) = {} => changed = row
==============================================================================
