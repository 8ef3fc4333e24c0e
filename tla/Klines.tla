-------------------------------- MODULE Klines --------------------------------
(***************************************************************************)
(* The one-minute candles of historical_barrier_provenance.py: requests    *)
(* that are repeated, pages that are checked row by row, the results of    *)
(* Binance and of Coinbase, the choice between them, and what becomes of a *)
(* base and a tail read later.  Minutes are numbered; a candle is its      *)
(* minute and its high, and whether its row is well formed.                *)
(***************************************************************************)
EXTENDS Integers, Checks

CONSTANTS
    PerMinute,      \* ticks of the clock in a minute
    PageLimit,      \* minutes of one page
    MaxPages        \* pages of one request

ASSUME KlinesAssumption == PerMinute \in Nat \ {0} /\ PageLimit \in Nat \ {0} /\ MaxPages \in Nat \ {0}

Span(from, to) == from..(to - 1)
Opens(candles) == [i \in DOMAIN candles |-> candles[i].open]

\* The minutes of the pages of a range, in order.
Pages(from, to) ==
    [i \in 1..((to - from + PageLimit - 1) \div PageLimit) |->
        [from |-> from + (i - 1) * PageLimit,
         to |-> IF from + i * PageLimit < to THEN from + i * PageLimit ELSE to]]

------------------------------------------------------------------------------
(* Requests *)

\* A request is repeated while it times out, cannot be sent or meets a busy or
\* broken server (429, 5xx); replies are those it would get, in order.
Transient == {"timeout", "request_error", "http_busy"}
Failures == Transient \union {"http_refused", "invalid_json", "invalid_binance_server_time"}
Replies == Failures \union {"ok"}

Request(replies) ==
    LET first == SelectInSeq(replies, LAMBDA r : r \notin Transient)
    IN  IF first = 0 THEN [error |-> Last(replies), attempts |-> Len(replies)]
        ELSE [error |-> IF replies[first] = "ok" THEN "" ELSE replies[first], attempts |-> first]

\* The rows before the first that parse_binance_kline or _parse_coinbase_candle
\* refuses.
WellFormed(rows) ==
    LET bad == SelectInSeq(rows, LAMBDA r : ~ r.sound)
    IN  IF bad = 0 THEN rows ELSE SubSeq(rows, 1, bad - 1)

Increasing(opens) == \A i, j \in DOMAIN opens : i < j => opens[i] <= opens[j]

\* fetch_chunk: a page's rows, and the first thing wrong with them.  Coinbase
\* serves the newest first, and a page it leaves incomplete is no error yet.
PageError(source, range, request, listed, rows, candles) ==
    LET opens == Opens(candles)
        minutes == Span(range.from, range.to)
    IN  FirstOf(<< <<request.error # "", request.error>>,
                   <<~ listed, "invalid_page_payload">>,
                   <<Len(candles) # Len(rows), "invalid_row">>,
                   <<Cardinality(ToSet(opens)) # Len(opens), "duplicate_klines">>,
                   <<source = "binance" /\ ~ Increasing(opens), "non_monotonic_klines">>,
                   <<ToSet(opens) \ minutes # {}, "out_of_range_klines">>,
                   <<source = "binance" /\ minutes \ ToSet(opens) # {}, "partial_kline_page">> >>, "")

PageRead(source, sequence, range, request, rows, candles, error) ==
    LET missing == Span(range.from, range.to) \ ToSet(Opens(candles))
    IN  [audit |-> [sequence |-> sequence, from |-> range.from, to |-> range.to,
                    expected |-> range.to - range.from,
                    received |-> IF source = "binance" THEN Len(rows) ELSE Len(candles),
                    attempts |-> request.attempts, error |-> error,
                    status |-> IF error = "" /\ missing = {} THEN "complete"
                               ELSE IF error \in {"", "partial_kline_page"} THEN "partial" ELSE "error"],
         candles |-> candles, missing |-> missing]

RowsRead(request, reply) == IF request.error = "" /\ reply.listed THEN reply.rows ELSE <<>>

PageOf(source, sequence, range, reply) ==
    LET request == Request(reply.replies)
        rows == RowsRead(request, reply)
        candles == WellFormed(rows)
    IN  PageRead(source, sequence, range, request, rows, candles,
                 PageError(source, range, request, reply.listed, rows, candles))

------------------------------------------------------------------------------
(* Results *)

\* empty_result: nothing was read.
Empty(source, status, error, from, to) ==
    [source |-> source, status |-> status, error |-> error, from |-> from, to |-> to, before |-> -1, after |-> -1,
     pages |-> <<>>, candles |-> <<>>, missing |-> {}]

BadRange(from, to) ==
    FirstOf(<< <<from >= to, "invalid_kline_fetch_range">>,
               <<Len(Pages(from, to)) > MaxPages, "kline_page_limit_exceeded">> >>, "")

\* The pages a client numbers from "start" on, with what they were answered.
Fetched(source, start, from, to, replies) ==
    [i \in DOMAIN Pages(from, to) |-> PageOf(source, i + start - 1, Pages(from, to)[i], replies[i])]

FirstError(fetched) ==
    LET failed == SelectInSeq(fetched, LAMBDA page : page.audit.error # "")
    IN  IF failed = 0 THEN "" ELSE fetched[failed].audit.error

Missing(fetched) == UNION {fetched[i].missing : i \in DOMAIN fetched}
Contiguous(candles, from, to) == Opens(candles) = [i \in 1..(to - from) |-> from + i - 1]

Result(source, status, error, from, to, before, after, fetched, sorted) ==
    [source |-> source, status |-> status, error |-> error, from |-> from, to |-> to, before |-> before, after |-> after,
     pages |-> [i \in DOMAIN fetched |-> fetched[i].audit], candles |-> FlattenSeq(sorted), missing |-> Missing(fetched)]

\* Binance is asked for its time before the pages and after them, and must have
\* passed the end of the range.
BinanceStatus(from, to, last, before, after, fetched, error) ==
    FirstOf(<< <<last # "", last>>,
               <<after < before, "binance_server_time_regressed">>,
               <<PerMinute * to > after, "entry_after_binance_server_time">>,
               <<\E i \in DOMAIN fetched : fetched[i].audit.error \notin {"", "partial_kline_page"}, error>>,
               <<error # "" \/ Missing(fetched) # {}, "partial_coverage">>,
               <<~ Contiguous(FlattenSeq([i \in DOMAIN fetched |-> fetched[i].candles]), from, to),
                 "non_contiguous_kline_coverage">> >>,
            "complete")

BinancePages(from, to, last, before, after, fetched) ==
    LET error == FirstError(fetched)
        status == BinanceStatus(from, to, last, before, after, fetched, error)
    IN  Result("binance", status,
               IF status = "complete" THEN "" ELSE IF status = "partial_coverage" /\ error # "" THEN error ELSE status,
               from, to, before, after, fetched, [i \in DOMAIN fetched |-> fetched[i].candles])

BinanceResult(from, to, answer, before, after) ==
    LET first == Request(answer.time).error
    IN  IF BadRange(from, to) # "" THEN Empty("binance", BadRange(from, to), "", from, to)
        ELSE IF first # "" THEN Empty("binance", first, first, from, to)
        ELSE BinancePages(from, to, Request(answer.timeAfter).error, before, after,
                          Fetched("binance", 1, from, to, answer.pages))

\* The candles of a page, the earliest first.
Sorted(candles) ==
    LET earlier(i, j) == candles[i].open < candles[j].open \/ (candles[i].open = candles[j].open /\ i < j)
    IN  [n \in DOMAIN candles |->
            candles[CHOOSE i \in DOMAIN candles : Cardinality({j \in DOMAIN candles : earlier(j, i)}) = n - 1]]

\* Coinbase has no clock to ask: its times are those of the machine itself.
\* Its pages are numbered from 0.
CoinbaseStatus(from, to, fetched, sorted, error) ==
    FirstOf(<< <<error # "", "error">>,
               <<Missing(fetched) # {}, "partial_coverage">>,
               <<~ Contiguous(FlattenSeq(sorted), from, to), "non_contiguous_kline_coverage">> >>, "complete")

CoinbasePages(from, to, before, after, fetched, sorted) ==
    LET error == FirstError(fetched)
        status == CoinbaseStatus(from, to, fetched, sorted, error)
    IN  Result("coinbase", status, IF status = "complete" THEN "" ELSE IF error # "" THEN error ELSE status,
               from, to, before, after, fetched, sorted)

CoinbaseResult(from, to, answer, before, after) ==
    LET fetched == Fetched("coinbase", 0, from, to, answer.pages)
    IN  IF BadRange(from, to) # "" THEN Empty("coinbase", BadRange(from, to), "", from, to)
        ELSE CoinbasePages(from, to, before, after, fetched, [i \in DOMAIN fetched |-> Sorted(fetched[i].candles)])

\* MultiSourceHistoricalKlineClient: Coinbase is asked when Binance failed as a
\* source, and believed when it has everything.
SourceFailed(result) == result.error \in Failures

Chosen(primary, fallback) ==
    IF primary.status # "complete" /\ SourceFailed(primary) /\ fallback.status = "complete" THEN fallback ELSE primary

------------------------------------------------------------------------------
(* merge_kline_fetch_results *)

ByOpen(candles) == [m \in ToSet(Opens(candles)) |-> (CHOOSE c \in ToSet(candles) : c.open = m).high]

InOrder(minutes) ==
    [n \in 1..Cardinality(minutes) |-> CHOOSE m \in minutes : Cardinality({k \in minutes : k < m}) = n - 1]

\* The candles of a base and of a tail that starts in or at the end of it, from
\* one source, later, that agree where they overlap.
Merge(base, tail, from, to) ==
    LET old == ByOpen(base.candles)
        new == ByOpen(tail.candles)
        both == [m \in DOMAIN old \union DOMAIN new |-> IF m \in DOMAIN new THEN new[m] ELSE old[m]]
        missing == Span(from, to) \ DOMAIN both
        status == FirstOf(<< <<base.status # "complete", base.status>>,
                             <<tail.status # "complete", tail.status>>,
                             <<base.source # tail.source, "merged_kline_source_mismatch">>,
                             <<base.from # from, "merged_kline_start_mismatch">>,
                             <<tail.to # to, "merged_kline_end_mismatch">>,
                             <<tail.from < from \/ tail.from > base.to \/ base.to > to, "merged_kline_overlap_range_mismatch">>,
                             <<base.after < base.before \/ tail.after < tail.before \/ tail.after < base.after
                                    \/ tail.after < PerMinute * to, "merged_kline_server_time_mismatch">>,
                             <<Cardinality(DOMAIN old) # Len(base.candles) \/ Cardinality(DOMAIN new) # Len(tail.candles),
                               "merged_kline_duplicate_klines">>,
                             <<\E m \in DOMAIN old \intersect DOMAIN new : old[m] # new[m], "merged_kline_overlap_conflict">>,
                             <<missing # {}, "partial_coverage">> >>, "complete")
        pages == base.pages \o tail.pages
    IN  [source |-> base.source, status |-> status, error |-> IF status = "complete" THEN "" ELSE status,
         from |-> from, to |-> to, before |-> base.before, after |-> tail.after, missing |-> missing,
         pages |-> [i \in DOMAIN pages |-> [pages[i] EXCEPT !.sequence = i]],
         candles |-> LET kept == InOrder(Span(from, to) \intersect DOMAIN both)
                     IN  [i \in DOMAIN kept |-> [open |-> kept[i], high |-> both[kept[i]], sound |-> TRUE]]]

------------------------------------------------------------------------------
(* The evidence that no candle has touched a barrier: what discovery       *)
(* concludes from a fetch result, the two content-addressed files it       *)
(* leaves, and the reconstruction by which the validator believes a row    *)
(* without asking an exchange.  A digest is the content it stands for.     *)
(* All barriers are above and all candles of one asset.                    *)

Never == -1     \* no first touch, no clock read

------------------------------------------------------------------------------
(* _recompute_candles *)

\* The candles must be those of the minutes from..to-1, each once, in order,
\* the last one closed at the entry.
AuditStatus(candles, from, to) ==
    LET opens == Opens(candles)
    IN  FirstOf(<< <<from >= to, "invalid_historical_barrier_evidence_range">>,
                   <<WellFormed(candles) # candles, "invalid_row">>,
                   <<Cardinality(ToSet(opens)) # Len(opens), "duplicate_klines">>,
                   <<~ Increasing(opens), "non_monotonic_klines">>,
                   <<ToSet(opens) \ Span(from, to) # {}, "out_of_range_klines">>,
                   <<ToSet(opens) # Span(from, to), "partial_coverage">>,
                   <<opens = <<>>, "historical_barrier_uncovered_entry_tail">> >>, "complete")

Audit(candles, from, to, threshold) ==
    LET touching == {i \in DOMAIN candles : candles[i].high >= threshold}
        opens == ToSet(Opens(candles))
    IN  [status |-> AuditStatus(candles, from, to),
         expected |-> IF to > from THEN to - from ELSE 0, observed |-> Len(candles),
         missing |-> Span(from, to) \ opens,
         repeated |-> {m \in opens : Cardinality({i \in DOMAIN candles : candles[i].open = m}) > 1},
         ordered |-> Increasing(Opens(candles)),
         high |-> IF candles = <<>> THEN Never ELSE Max({candles[i].high : i \in DOMAIN candles}),
         closed |-> AuditStatus(candles, from, to) = "complete",
         touch |-> IF touching = {} THEN Never ELSE candles[Min(touching)].open]

------------------------------------------------------------------------------
(* evaluate_historical_barrier *)

\* The fields both files and the row repeat.
Findings(audit, result) ==
    [expected |-> audit.expected, count |-> Len(result.candles), missing |-> result.missing,
     high |-> audit.high, closed |-> audit.closed, touch |-> audit.touch]

\* window: what the rules say is observed, [status, from, expiry].
Verdict(window, threshold, entry, result) ==
    LET audit == Audit(result.candles, window.from, entry \div PerMinute, threshold)
    IN  FirstOf(<< <<window.status # "verified", window.status>>,
                   <<threshold <= 0, "invalid_barrier_threshold">>,
                   <<result.status # "complete", result.status>>,
                   <<result.source \notin {"binance", "coinbase"}, "historical_evidence_source_mismatch">>,
                   <<result.from # window.from, "historical_evidence_start_mismatch">>,
                   <<PerMinute * result.to # entry, "historical_evidence_end_mismatch">>,
                   <<entry > window.expiry, "historical_evidence_after_expiry">>,
                   <<result.after < entry, "historical_evidence_server_time_before_entry">>,
                   <<result.missing # {}, "partial_coverage">>,
                   <<audit.status # "complete", audit.status>>,
                   <<audit.touch # Never, "barrier_already_crossed">> >>, "verified")

\* The candle snapshot is the result as it is; the artifact binds it to the
\* market's barrier and rules.  The evidence that goes into the row names
\* Binance, whoever served the candles.
Artifact(window, threshold, entry, result) ==
    LET audit == Audit(result.candles, window.from, entry \div PerMinute, threshold)
    IN  [source |-> result.source, window |-> window, threshold |-> threshold, entry |-> entry,
         fetchStatus |-> result.status, snapshot |-> result, status |-> Verdict(window, threshold, entry, result),
         audit |-> audit, findings |-> Findings(audit, result)]

Evidence(window, threshold, entry, result) ==
    LET artifact == Artifact(window, threshold, entry, result)
    IN  [status |-> artifact.status, source |-> "binance", from |-> window.from, to |-> entry,
         window |-> window, artifact |-> artifact, snapshot |-> result, findings |-> artifact.findings]

\* The files of an evidence, written whole and never twice under one name.
File(directory, content, whole) == [directory |-> directory, digest |-> content, whole |-> whole]
FilesOf(evidence) == {File("candles", evidence.snapshot, TRUE), File("evidence", evidence.artifact, TRUE)}

------------------------------------------------------------------------------
(* historical_evidence_integrity_reasons *)

\* _read_hashed_json: the file stands under the digest's name and is it.
ReadError(files, directory, digest) ==
    LET named == {f \in files : f.directory = directory /\ f.digest = digest}
    IN  IF named = {} THEN "read_error" ELSE IF \E f \in named : f.whole THEN "" ELSE "content_digest_mismatch"

\* What the row itself must say.
RowReasons(row) ==
    LET e == row.evidence
    IN  ReasonsOf({
            <<e.source # "binance", "historical_barrier_evidence_source_mismatch">>,
            <<row.threshold <= 0, "invalid_barrier_threshold">>,
            <<PerMinute * e.from >= e.to, "invalid_historical_barrier_evidence_range">>,
            <<e.to > row.expiry, "historical_barrier_evidence_after_expiry">>,
            <<row.entry # e.to, "historical_barrier_entry_time_mismatch">>,
            <<e.findings.count <= 0, "invalid_historical_barrier_evidence_candle_count">>,
            <<e.findings.expected <= 0, "invalid_historical_barrier_expected_candle_count">>,
            <<e.findings.missing # {}, "historical_barrier_evidence_has_missing_ranges">>,
            <<e.findings.touch # Never, "verified_historical_barrier_evidence_has_crossing">>})

\* _manifest_binding_reasons: the rules in the row give the artifact's window.
WindowReasons(row) ==
    LET artifact == row.evidence.artifact
    IN  ReasonsOf({
            <<row.window.status # "verified", row.window.status>>,
            <<row.window # artifact.window \/ row.evidence.window # artifact.window,
              "historical_barrier_rule_window_artifact_binding_mismatch">>,
            <<row.window.from # row.evidence.from, "historical_barrier_evidence_start_mismatch">>,
            <<row.window.expiry # row.expiry, "historical_barrier_rule_window_expiry_mismatch">>})

\* _page_audit_reasons: pages numbered from 1, whole, that cover the range.
PagesHold(result, from, to) ==
    /\ result.pages # <<>>
    /\ \A i \in DOMAIN result.pages :
          LET p == result.pages[i]
          IN  /\ p.sequence = i /\ from <= p.from /\ p.from < p.to /\ p.to <= to
              /\ p.expected = p.to - p.from
              /\ p.received = Cardinality({j \in DOMAIN result.candles : result.candles[j].open \in Span(p.from, p.to)})
              /\ p.attempts >= 1 /\ p.status = "complete" /\ p.error = ""
    /\ UNION {Span(result.pages[i].from, result.pages[i].to) : i \in DOMAIN result.pages} = Span(from, to)

\* The artifact and the candles against the row, and everything that follows
\* from the candles computed anew.
FileReasons(row) ==
    LET e == row.evidence
        a == e.artifact
        s == e.snapshot
        audit == Audit(s.candles, e.from, e.to \div PerMinute, row.threshold)
    IN  ReasonsOf({
            <<a.source # "binance" \/ a.entry # e.to \/ a.snapshot # s \/ a.status # "verified"
                \/ a.findings.count # e.findings.count \/ a.findings.expected # e.findings.expected
                \/ a.findings.missing # e.findings.missing \/ a.findings.touch # Never,
              "historical_barrier_evidence_artifact_binding_mismatch">>,
            <<a.threshold # row.threshold, "historical_barrier_evidence_threshold_mismatch">>,
            <<s.source # "binance" \/ s.from # e.from \/ PerMinute * s.to # e.to \/ s.error # "",
              "historical_barrier_candle_snapshot_binding_mismatch">>,
            <<s.after < s.before \/ s.after < e.to, "historical_barrier_candle_server_time_mismatch">>,
            <<~ PagesHold(s, e.from, e.to \div PerMinute), "historical_barrier_candle_page_audit_mismatch">>,
            <<audit.status # "complete", audit.status>>,
            <<s.status # audit.status \/ a.fetchStatus # s.status, "historical_barrier_candle_snapshot_status_mismatch">>,
            <<s.missing # audit.missing \/ a.audit # audit, "historical_barrier_evidence_report_mismatch">>,
            <<audit.touch # Never, "barrier_already_crossed">>,
            <<e.findings # Findings(audit, s), "historical_barrier_candidate_mismatch">>})

IntegrityReasons(row, files) ==
    LET unread == ReasonsOf({<<ReadError(files, "evidence", row.evidence.artifact) # "", "historical_barrier_evidence_artifact_mismatch">>,
                             <<ReadError(files, "candles", row.evidence.snapshot) # "", "historical_barrier_candle_snapshot_mismatch">>})
    IN  IF row.evidence.status # "verified" THEN {row.evidence.status}
        ELSE RowReasons(row) \union unread \union
             (IF unread # {} THEN {} ELSE WindowReasons(row) \union FileReasons(row))
==============================================================================
