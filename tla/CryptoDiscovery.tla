--------------------------- MODULE CryptoDiscovery ---------------------------
(***************************************************************************)
(* The discovery of crypto threshold edges                                 *)
(* (discover_crypto_threshold_edges.py) and the price history it rests on  *)
(* (historical_barrier_provenance.py).  A batch lists and parses markets   *)
(* (CryptoMarkets), reads the bulk of the one-minute candles (Klines),     *)
(* commits to an entry at the next minute, observes books and spot prices  *)
(* before it, waits for it, reads the last candles with an overlap, and    *)
(* recommends entries into markets whose barrier no candle has touched.    *)
(* Every fetch takes time, the market moves meanwhile and the local clock  *)
(* is not the exchange's.                                                  *)
(*                                                                         *)
(* Time is counted in ticks, PerMinute of them a minute; prices are levels *)
(* of one asset and every barrier is above.                                *)
(***************************************************************************)
EXTENDS CryptoMarkets, Klines

CONSTANTS
    Markets,        \* all that Gamma may list
    Avoided,        \* avoid_candidates.csv
    Listings,       \* what a batch may be served: pages, failing pages, searches
    Flaky,          \* markets whose books may fail, and whose raw snapshot an earlier batch may have torn
    Quotes,         \* the books a market may have
    Answers,        \* how a request for candles may go, at Binance and at Coinbase
    Offsets,        \* by how much the exchange's clock may be ahead, in ticks
    Levels,
    MaxStart, MaxClock, MaxLate, MaxMoves, MaxBatches    \* bounds

ASSUME DiscoveryAssumption ==
    /\ Flaky \subseteq Markets /\ DOMAIN Text = Markets
    /\ Levels \subseteq Nat \ {0} /\ Levels # {}
    /\ \A o \in Offsets : o \in Int /\ -PerMinute < o /\ o < PerMinute
    /\ MaxStart \in Nat /\ MaxClock \in Nat /\ MaxLate \in Nat /\ MaxStart <= MaxClock
    /\ \A m \in Markets : ThresholdPrice(m) \in Nat /\ Text[m].ruleStart \in Nat \union {NoTime}
    /\ \A a \in Answers :
          \A replies \in {a.binance.time, a.binance.timeAfter, a.binance.replies, a.coinbase.replies} :
             replies \in Seq(Replies) /\ replies # <<>>

VARIABLES
    clock,          \* of the machine the scripts run on
    offset,         \* exchange time is clock + offset, unknown to the scripts
    price, peak,    \* the level, and the highest level of every minute of the exchange
    batch,          \* the discovery running
    candidates,     \* crypto_threshold_edge_candidates.csv: the rows that recommend an entry
    torn,           \* gamma_raw_markets: markets whose snapshot is half written
    moves, batches  \* bounded

market == <<offset, price, peak, moves>>
discoveryVars == <<clock, market, batch, candidates, torn, batches>>

\* What a candidate can be of.
Tradable == EligibleAmong(Markets, Avoided)
TouchMarkets == {m \in Tradable : Kind(m) = "touch_before_expiry"}
Feed == INSTANCE CandidateFeed WITH Markets <- Tradable

Minute(t) == t \div PerMinute
Floor(t) == PerMinute * Minute(t)
ExchangeTime == clock + offset
Minutes == 0..Minute(MaxClock + 2 * PerMinute + MaxLate)

------------------------------------------------------------------------------
(* The exchange *)

\* A price move, and the passing of time: a minute's candle starts at the
\* level the one before ended at.  Moves matter while a batch runs.
Move ==
    /\ batch.stage # "idle" /\ moves < MaxMoves
    /\ \E level \in Levels \ {price} :
          /\ price' = level
          /\ peak' = IF level > peak[Minute(ExchangeTime)]
                     THEN [peak EXCEPT ![Minute(ExchangeTime)] = level] ELSE peak
    /\ moves' = moves + 1
    /\ UNCHANGED <<clock, offset, batch, candidates, torn, batches>>

Tick ==
    /\ clock < (IF batch.stage = "observing" THEN batch.entry + MaxLate ELSE MaxClock)
    /\ clock' = clock + 1
    /\ peak' = IF Minute(ExchangeTime + 1) # Minute(ExchangeTime)
               THEN [peak EXCEPT ![Minute(ExchangeTime + 1)] = price] ELSE peak
    /\ UNCHANGED <<offset, price, batch, candidates, torn, moves, batches>>

------------------------------------------------------------------------------
(* The exchanges, asked for candles *)

\* A page as it is served: well, or not.
Served(kind, range) ==
    LET whole == [i \in 1..(range.to - range.from) |->
                     [open |-> range.from + i - 1, high |-> peak[range.from + i - 1], sound |-> TRUE]]
    IN  CASE kind = "whole" -> whole
          [] kind = "newest_first" -> Reverse(whole)
          [] kind = "short" -> Front(whole)
          [] OTHER -> <<>>

Answered(answer, from, to) ==
    [time |-> answer.time, timeAfter |-> answer.timeAfter,
     pages |-> [i \in DOMAIN Pages(from, to) |->
                   [replies |-> answer.replies, listed |-> TRUE, rows |-> Served(answer.kind, Pages(from, to)[i])]]]

\* A request: the pages as they stand when they are read, and when that was.
Asked(from, to, answer) ==
    [from |-> from, to |-> to,
     binance |-> Answered(answer.binance, from, to), coinbase |-> Answered(answer.coinbase, from, to),
     exchangeTime |-> ExchangeTime, at |-> clock]

NotAsked == Empty("none", "not_requested", "", 0, 0)

\* What the request comes to when the exchanges have answered.
Concluded(asked) ==
    IF asked = NotAsked THEN NotAsked
    ELSE Chosen(BinanceResult(asked.from, asked.to, asked.binance, asked.exchangeTime, ExchangeTime),
                CoinbaseResult(asked.from, asked.to, asked.coinbase, asked.at, clock))

\* Of an incomplete base nothing but its status is looked at later, and of the
\* clocks read for a complete one that they had passed its end.
Kept(result) ==
    IF result.status = "complete" THEN [result EXCEPT !.before = PerMinute * result.to, !.after = PerMinute * result.to]
    ELSE [NotAsked EXCEPT !.status = result.status]

------------------------------------------------------------------------------
(* discover_crypto_threshold_edges.py *)

Starts == {Window(m).from : m \in {t \in Markets : Planned(t)}}
NotObserved == [at |-> -1, level |-> 0]
NoBook == [at |-> -1, quotes |-> NoQuotes]
Idle == [stage |-> "idle", eligible |-> {}, preloadEnd |-> 0, base |-> [s \in Starts |-> NotAsked], entry |-> 0,
         spot |-> NotObserved, books |-> [m \in Markets |-> NoBook], tail |-> NotAsked, rows |-> {}]

\* The listing: every raw market is kept under the digest of its content, and a
\* half-written file of that name stops the batch.  The preload ends at the
\* minute just begun.
BatchStart ==
    /\ batch.stage = "idle" /\ batches < MaxBatches /\ clock <= MaxStart
    /\ batches' = batches + 1
    /\ \E l \in Listings :
          LET read == Universe(l.listing, l.failing, l.searches)
          IN  batch' = IF read.served \intersect torn # {} THEN batch
                       ELSE [Idle EXCEPT !.stage = "preloading", !.preloadEnd = Floor(clock),
                                         !.eligible = EligibleAmong(Listed(read), Avoided)]
    /\ UNCHANGED <<clock, market, candidates, torn>>

\* It dies inside a raw snapshot.
ListingDies ==
    /\ batch.stage = "idle" /\ batches < MaxBatches /\ clock <= MaxStart
    /\ batches' = batches + 1
    /\ \E m \in Flaky \ torn : torn' = torn \union {m}
    /\ UNCHANGED <<clock, market, batch, candidates>>

\* One request for every start that lies before the end.
Wanted ==
    {Window(m).from : m \in {t \in batch.eligible : Planned(t) /\ Window(t).from < Minute(batch.preloadEnd)}}

PreloadRead ==
    /\ batch.stage = "preloading"
    /\ \E answers \in [Wanted -> Answers] :
          batch' = [batch EXCEPT !.stage = "preloaded",
                       !.base = [s \in Starts |->
                                    IF s \in Wanted THEN Asked(s, Minute(batch.preloadEnd), answers[s]) ELSE NotAsked]]
    /\ UNCHANGED <<clock, market, candidates, torn, batches>>

\* The entry is the minute to come, committed to before any quote exists.
NextEntry == Floor(clock) + PerMinute

PreloadDone ==
    /\ batch.stage = "preloaded"
    /\ batch' = [batch EXCEPT !.stage = "observing", !.entry = NextEntry,
                    !.base = [s \in Starts |-> Kept(Concluded(batch.base[s]))]]
    /\ UNCHANGED <<clock, market, candidates, torn, batches>>

Observing == batch.stage = "observing"

\* Spot and books are fetched concurrently, and either may fail.
ReadSpot ==
    /\ Observing /\ batch.spot.at = -1
    /\ \E level \in {0, price} : batch' = [batch EXCEPT !.spot = [at |-> clock, level |-> level]]
    /\ UNCHANGED <<clock, market, candidates, torn, batches>>

ReadBook(m) ==
    /\ Observing /\ m \in batch.eligible /\ batch.books[m].at = -1
    /\ \E quotes \in Quotes \union (IF m \in Flaky THEN {NoQuotes} ELSE {}) :
          batch' = [batch EXCEPT !.books[m] = [at |-> clock, quotes |-> quotes]]
    /\ UNCHANGED <<clock, market, candidates, torn, batches>>

AllObserved == batch.spot.at # -1 /\ \A m \in batch.eligible : batch.books[m].at # -1

AskedStarts == {s \in Starts : batch.base[s] # NotAsked}

TailStartNoOverlap ==    \* deviation: the tail starts where the preload ended
    Max(AskedStarts \union {Minute(batch.preloadEnd)})

\* The last minute of the preload is read again, unless a rule starts later.
TailStart == Max(AskedStarts \union {Minute(batch.preloadEnd) - 1})

EntryReachedExactly == clock = batch.entry    \* deviation: an entry time that has passed is waited for
EntryReached == clock >= batch.entry

\* wait_for_batch_entry, then one tail for the asset, if any preload was asked.
TailRead ==
    /\ Observing /\ AllObserved /\ EntryReached
    /\ \E answer \in Answers :
          batch' = [batch EXCEPT !.stage = "closing",
                       !.tail = IF AskedStarts = {} THEN NotAsked ELSE Asked(TailStart, Minute(batch.entry), answer)]
    /\ UNCHANGED <<clock, market, candidates, torn, batches>>

TimelyByAge(observed) == batch.entry - observed.at <= PerMinute    \* deviation: only old evidence is refused

\* entry_evidence_failure: observed before the entry, and at most a minute.
Timely(observed) == observed.at <= batch.entry /\ batch.entry - observed.at <= PerMinute

\* entry_evidence_failure, the spot price's first.
Timing(m) ==
    FirstFailure(<< <<~ Timely(batch.spot), "spot_timestamp">>, <<~ Timely(batch.books[m]), "orderbook_timestamp">> >>)

\* historical_evidence_from_entry_result: the merged history of the markets
\* whose rules deserve one.
HaveHistory == {m \in batch.eligible : Planned(m) /\ batch.base[Window(m).from] # NotAsked}

Histories(tail) ==
    [m \in HaveHistory |->
        Evidence(Window(m), ThresholdPrice(m), batch.entry,
                 Merge(batch.base[Window(m).from], tail, Window(m).from, Minute(batch.entry)))]

HistoryStatus(m, histories) ==
    IF m \in DOMAIN histories THEN histories[m].status ELSE "historical_entry_coverage_unavailable"

Recommended(m, histories) ==
    Action(m, batch.books[m].quotes, batch.spot.level, batch.entry, HistoryStatus(m, histories), Timing(m)) = "shadow_entry"

Oldest(m) == Min({batch.spot.at, batch.books[m].at})

\* A row can be believed when the files it leaves reconstruct it.
Verifiable(m, histories) ==
    m \in TouchMarkets =>
        IntegrityReasons([entry |-> batch.entry, threshold |-> ThresholdPrice(m), expiry |-> ExpiryTime(m),
                          window |-> Window(m), evidence |-> histories[m]], FilesOf(histories[m])) = {}

Rows(histories) ==
    {Feed!Row(m, batch.entry, Oldest(m), Verifiable(m, histories)) :
        m \in {e \in batch.eligible : Recommended(e, histories)}}

TailDone ==
    /\ batch.stage = "closing"
    /\ batch' = [Idle EXCEPT !.stage = "writing", !.entry = batch.entry, !.rows = Rows(Histories(Concluded(batch.tail)))]
    /\ UNCHANGED <<clock, market, candidates, torn, batches>>

BatchEnd ==
    /\ batch.stage = "writing"
    /\ candidates' = batch.rows /\ batch' = Idle
    /\ UNCHANGED <<clock, market, torn, batches>>

\* A discovery that dies leaves the file of the one before, or a part of its
\* own.
BatchDies ==
    /\ batch.stage # "idle"
    /\ batch' = Idle
    /\ \/ UNCHANGED candidates
       \/ /\ batch.stage = "writing"
          /\ candidates' \in (SUBSET batch.rows) \ {batch.rows}
    /\ UNCHANGED <<clock, market, torn, batches>>

------------------------------------------------------------------------------
BatchStep ==
    \/ PreloadRead \/ PreloadDone \/ ReadSpot
    \/ \E m \in Markets : ReadBook(m)
    \/ TailRead \/ TailDone \/ BatchEnd

DiscoveryInit ==
    /\ clock = PerMinute /\ offset \in Offsets
    /\ price = Min(Levels) /\ peak = [m \in Minutes |-> Min(Levels)]
    /\ batch = Idle /\ candidates = {}
    /\ torn \in {{}} \union {{m} : m \in Flaky}
    /\ moves = 0 /\ batches = 0

DiscoveryNext == Tick \/ Move \/ BatchStart \/ ListingDies \/ BatchStep \/ BatchDies

\* A batch goes on, unless it waits for its entry.
BatchCanStep == batch.stage # "idle" /\ (Observing /\ AllObserved => EntryReached)

\* Requests have timeouts and bounded retries, and time passes: a batch that can
\* go on does, or dies (weak fairness, with the ENABLED written out).
DiscoverySpec ==
    /\ DiscoveryInit /\ [][DiscoveryNext]_discoveryVars
    /\ []<>(~ BatchCanStep) \/ []<><<batch' # batch>>_discoveryVars
    /\ WF_discoveryVars(Tick)

------------------------------------------------------------------------------
(* Properties *)

\* A batch goes through its stages with what they need, and every row has
\* evidence that precedes its entry by a minute at most.
DiscoveryTypeOK ==
    /\ batch.stage \in {"idle", "preloading", "preloaded", "observing", "closing", "writing"}
    /\ peak \in [Minutes -> Levels] /\ price \in Levels
    /\ batch.stage \in {"observing", "closing"} => batch.entry > batch.preloadEnd
    /\ \A row \in candidates : row.oldest \in Feed!Evidence(row.entry)

\* An entry into a touch market is recommended only if the barrier had not
\* been touched in any minute from the start of the rule to the one that
\* precedes the last before the entry, although the candles were read in two
\* parts, from a preload whose last candle may have been open: the last minute
\* itself is open to doubt while the local clock is ahead of the exchange's.
EntriesUncrossed ==
    DiscoveryTypeOK /\ \A c \in candidates : c.market \in TouchMarkets =>
        \A m \in Window(c.market).from..(Minute(c.entry) - 2) : peak[m] < ThresholdPrice(c.market)

\* Its readers see a file that is replaced by later entries on timely evidence,
\* whatever happens inside a batch (CandidateFeed).
FeedsAsPromised == Feed!FeedSpec

\* A discovery ends, however slow or failing its fetches: an entry minute that
\* passed while it was observing does not leave it waiting.
BatchEnds == batch.stage # "idle" ~> batch.stage = "idle"
==============================================================================
