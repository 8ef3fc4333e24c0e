---------------------------- MODULE Intelligence ----------------------------
(***************************************************************************)
(* What earlier research runs leave for the next: the report each run is   *)
(* turned into (scripts/analyze_run_intelligence.py), the watchlist, alpha *)
(* and avoid candidates and trajectories that several runs are compared    *)
(* into (scripts/compare_run_intelligence.py), what the next run's         *)
(* WatchlistLoader reads of them (polysignal/runner/watchlist.py), and the *)
(* loop that runs these programs one after the other                       *)
(* (scripts/run_validation_loop.py).  Each is a function of its inputs.    *)
(*                                                                         *)
(* Asks are in thousandths, volumes in thousands, scores and risks in      *)
(* points; means and the scores made of them are in hundredths of those.   *)
(* A question is a record of its normalized text, the category its         *)
(* keywords tell, and the commas in it.  <<>> is None, <<x>> the value x.  *)
(***************************************************************************)
EXTENDS Integers, SequencesExt

None == <<>>

LOCAL Least(a, b) == IF a <= b THEN a ELSE b
LOCAL Most(a, b) == IF a <= b THEN b ELSE a
LOCAL Total(s) == FoldLeft(LAMBDA sum, x : sum + x, 0, s)
LOCAL Distinct(s) ==
  FoldLeft(LAMBDA seen, x : IF x \in ToSet(seen) THEN seen ELSE Append(seen, x), <<>>, s)

\* The first n of a list.
FirstOf(s, n) == SubSeq(s, 1, Least(n, Len(s)))

\* A list sorted by falling keys; equals stay in their order.
Ranked(s, key) ==
  LET Place(i) == 1 + Cardinality({j \in DOMAIN s : \/ key[j] > key[i]
                                                    \/ key[j] = key[i] /\ j < i})
  IN  [p \in DOMAIN s |-> s[CHOOSE i \in DOMAIN s : Place(i) = p]]

\* What Python takes for true of an optional number.
Truthy(o) == o # None /\ o # <<0>>

\* The mean of the values that are there.
Mean(values) ==
  LET there == SelectSeq(values, LAMBDA o : o # None)
  IN  IF there = <<>> THEN None
                      ELSE <<(100 * Total([i \in DOMAIN there |-> there[i][1]])) \div Len(there)>>

-----------------------------------------------------------------------------
(* One run: the report of its samples.                                     *)

\* Samples may lack anything but whether they succeeded.
NearMissTier(ask) ==
  IF ask < 985 THEN <<"tier1_mispricing">>
  ELSE IF ask < 1000 THEN <<"tier2_strong_near_miss">>
  ELSE IF ask < 1010 THEN <<"tier3_weak_near_miss">>
  ELSE IF ask < 1030 THEN <<"tier4_normal_monitor">>
  ELSE None

NearMisses == {<<"tier1_mispricing">>, <<"tier2_strong_near_miss">>, <<"tier3_weak_near_miss">>}

Category(question) == IF question = None THEN "Other" ELSE question[1].category

\* A market keeps the ask and the question of its first sample, the tier of
\* its last sample with an ask, and the rest of its last sample.
ObservedMarket(samples, m) ==
  LET own == SelectSeq(samples, LAMBDA s : s.market = <<m>>)
      priced == SelectSeq(own, LAMBDA s : Truthy(s.ask))
  IN  [Last(own) EXCEPT !.ask = IF Truthy(own[1].ask) THEN own[1].ask ELSE <<0>>,
                        !.question = own[1].question]
      @@ [category |-> Category(own[1].question),
          tier |-> IF priced = <<>> THEN None ELSE NearMissTier(Last(priced).ask[1])]

ObservedMarkets(samples) ==
  LET named == SelectSeq(samples, LAMBDA s : s.market # None)
      ids == Distinct([i \in DOMAIN named |-> named[i].market[1]])
  IN  [i \in DOMAIN ids |-> ObservedMarket(samples, ids[i])]

\* How much a correlation of scores and asks says; unpriced markets count as 0.
CorrelationNote(observed) ==
  LET pairs == SelectSeq(observed, LAMBDA o : o.success = <<TRUE>> /\ o.score # None)
      Varies(field) == Cardinality({pairs[i][field] : i \in DOMAIN pairs}) > 1
  IN  IF Len(pairs) < 10 THEN "insufficient"
      ELSE IF ~Varies("score") \/ ~Varies("ask") THEN "zero_variance"
      ELSE IF Len(pairs) < 30 THEN "exploratory" ELSE "based_on_samples"

\* The ten of a list with the highest, or the lowest, of a value.
TopTen(list, field, sign) ==
  FirstOf(Ranked(list, [i \in DOMAIN list |-> IF list[i][field] = None THEN 0
                                                 ELSE sign * list[i][field][1]]), 10)

TopCandidates(observed) ==
  [nearMiss |-> TopTen(SelectSeq(observed, LAMBDA o : o.tier \in NearMisses), "ask", -1),
   score |-> TopTen(SelectSeq(observed, LAMBDA o : o.score # None), "score", 1),
   ambiguity |-> TopTen(SelectSeq(observed, LAMBDA o : o.ambiguity # None), "ambiguity", 1),
   research |-> TopTen(SelectSeq(observed, LAMBDA o : o.mode = <<"research">>), "score", 1),
   avoid |-> TopTen(SelectSeq(observed, LAMBDA o : o.mode = <<"avoid">>), "ambiguity", 1),
   monitor |-> TopTen(SelectSeq(observed, LAMBDA o : o.tier \in {<<"tier3_weak_near_miss">>,
                                                                <<"tier4_normal_monitor">>}), "ask", -1)]

Report(samples, summary) ==
  LET observed == ObservedMarkets(samples)
      named == SelectSeq(samples, LAMBDA s : s.market # None)
      succeeded == SelectSeq(named, LAMBDA s : s.success = <<TRUE>>)
  IN  [observed |-> Len(observed), samples |-> Len(named), succeeded |-> Len(succeeded),
       failed |-> Len(named) - Len(succeeded),
       tiers |-> [t \in {observed[i].tier : i \in DOMAIN observed} \ {None} |->
                    Cardinality({i \in DOMAIN observed : observed[i].tier = t})],
       correlation |-> CorrelationNote(observed), top |-> TopCandidates(observed),
       live |-> summary.live, auto |-> summary.auto]

\* sampled_markets.csv writes nothing for what is false or zero, and no volume.
SampledRow(o) ==
  [o EXCEPT !.score = IF Truthy(@) THEN @ ELSE None,
            !.ambiguity = IF Truthy(@) THEN @ ELSE None,
            !.success = IF @ = <<TRUE>> THEN @ ELSE None,
            !.volume = None]

Missing == [is |-> "missing"]
Torn == [is |-> "torn"]
Whole(data) == [is |-> "whole", data |-> data]

\* The directory of a run after its analysis; without its two files, or with
\* one of them torn, the program fails before it writes.
Analyzed(dir) ==
  IF dir.events.is # "whole" \/ dir.summary.is # "whole" THEN dir
  ELSE LET observed == ObservedMarkets(dir.events.data)
       IN  [dir EXCEPT !.report = Whole(Report(dir.events.data, dir.summary.data)),
                       !.sampled = IF observed = <<>> THEN @
                                   ELSE [i \in DOMAIN observed |-> SampledRow(observed[i])]]

-----------------------------------------------------------------------------
(* Several runs: which are compared, and what is read of them.             *)

ValidRun(dir) ==
  \/ dir.report.is # "missing"
  \/ dir.summary.is # "missing" /\ dir.events.is # "missing"

\* The directories, newest first.  Runs named by the user are not validated;
\* of the others the newest are taken before the invalid ones are dropped.
DiscoverRuns(archive, named, since, latest) ==
  IF named # {} THEN Reverse(SelectSeq(archive, LAMBDA d : d.name \in named))
  ELSE LET recent == Reverse(SelectSeq(archive, LAMBDA d : d.day >= since))
       IN  SelectSeq(IF latest = 0 THEN recent ELSE FirstOf(recent, latest), ValidRun)

\* A file that cannot be read is as if it were not there: one torn line loses
\* every event of a run.  summary.json has the last word on the safety flags.
LoadRun(dir) ==
  LET reported == dir.report.is = "whole"
      summed == dir.summary.is = "whole"
      Flag(name) == IF summed THEN dir.summary.data[name]
                    ELSE reported /\ dir.report.data[name]
      counted == IF reported /\ dir.report.data.samples # 0 THEN <<dir.report.data>>
                 ELSE IF summed THEN <<dir.summary.data>> ELSE None
  IN  [name |-> dir.name, sampled |-> dir.sampled,
       events |-> IF dir.events.is = "whole" THEN dir.events.data ELSE <<>>,
       samples |-> IF counted = None THEN 0 ELSE counted[1].samples,
       succeeded |-> IF counted = None THEN 0 ELSE counted[1].succeeded,
       live |-> Flag("live"), auto |-> Flag("auto")]

\* Events and rows in the order they are aggregated.
Items(runs) ==
  FlattenSeq([i \in DOMAIN runs |->
    LET Tagged(list, kind) ==
          [j \in DOMAIN list |-> [run |-> runs[i].name, from |-> kind, of |-> list[j]]]
    IN  Tagged(runs[i].events, "event") \o Tagged(runs[i].sampled, "row")])

\* The market an item belongs to: its id or, for an event without one, what
\* the first event with its question was taken for.
MarketKey(items, i) ==
  LET it == items[i].of
      Asks(j) == items[j].from = "event" /\ items[j].of.question = it.question
      first == CHOOSE j \in DOMAIN items : Asks(j) /\ \A k \in DOMAIN items : Asks(k) => j <= k
      from == items[first].of
  IN  CASE it.market # None -> <<"market_id", it.market[1]>>
        [] it.market = None /\ (items[i].from = "row" \/ it.question = None) -> None
        [] OTHER -> IF from.market # None THEN <<"market_id", from.market[1]>>
                                          ELSE <<"normalized_question", from.question[1].text>>

\* Every sample is an appearance; a row is one if its run has no other.
Counts(items, keys, i) ==
  items[i].from = "row" =>
    ~\E j \in 1 .. i - 1 : keys[j] = keys[i] /\ items[j].run = items[i].run

EvidenceLevel(appearances, total) ==
  IF appearances >= 3 /\ total >= 5 THEN "strong"
  ELSE IF appearances >= 2 /\ total >= 3 THEN "moderate" ELSE "weak"

MarketSummary(items, keys, key, total) ==
  LET mine == SelectSeq([i \in DOMAIN items |-> i], LAMBDA i : keys[i] = key)
      counted == SelectSeq(mine, LAMBDA i : Counts(items, keys, i))
      observations == [n \in DOMAIN counted |-> items[counted[n]].of]
      asked == SelectSeq(mine, LAMBDA i : items[i].of.question # None)
      founder == items[mine[1]]
      told == SelectSeq(observations, LAMBDA o : o.success # None)
      MeanOf(field) == Mean([n \in DOMAIN observations |-> observations[n][field]])
  IN  [market |-> key[2], matchedBy |-> key[1],
       question |-> IF asked = <<>> THEN None ELSE items[asked[1]].of.question,
       category |-> IF founder.from = "event" THEN Category(founder.of.question)
                                              ELSE founder.of.category,
       appearances |-> Len(counted), observations |-> observations,
       runs |-> Distinct([n \in DOMAIN counted |-> items[counted[n]].run]),
       ask |-> MeanOf("ask"), score |-> MeanOf("score"),
       ambiguity |-> MeanOf("ambiguity"), volume |-> MeanOf("volume"),
       successRate |-> Mean([n \in DOMAIN told |-> <<IF told[n].success[1] THEN 1 ELSE 0>>]),
       tier |-> None,    \* the most frequent of no tiers
       evidence |-> EvidenceLevel(Len(counted), total)]

ComparedMarkets(runs) ==
  LET items == Items(runs)
      keys == [i \in DOMAIN items |-> MarketKey(items, i)]
      found == Distinct(SelectSeq(keys, LAMBDA k : k # None))
  IN  [n \in DOMAIN found |-> MarketSummary(items, keys, found[n], Len(runs))]

-----------------------------------------------------------------------------
(* The lists the comparison ends in.                                       *)

Neutral == 5000

\* Samples of a market that were near misses: neither an event nor a row
\* carries its tier into an observation.
NearMissHits(m) == 0

LOCAL Clipped(x) == Most(0, Least(10000, x))

AlphaScore(m, total) ==
  LET Or(value, score) == IF value = None THEN Neutral ELSE score
      nearMiss == Least(10000, (10000 * NearMissHits(m)) \div Most(1, total))
      lowAsk == Or(m.ask, Clipped(110000 - (IF m.ask = None THEN 0 ELSE m.ask[1])))
      liquid == Or(m.volume, Least(10000, IF m.volume = None THEN 0 ELSE m.volume[1]))
      clear == Or(m.ambiguity, Most(0, 10000 - (IF m.ambiguity = None THEN 0 ELSE m.ambiguity[1])))
      event == Or(m.score, Least(10000, IF m.score = None THEN 0 ELSE m.score[1]))
      repeated == Least(10000, 2000 * m.appearances)
  IN  (25 * nearMiss + 20 * lowAsk + 15 * (liquid + clear + event) + 10 * repeated) \div 100

CategoryRisk(category) ==
  CASE category \in {"Politics", "Geopolitics"} -> 2500
    [] category = "Crypto"                      -> 1500
    [] category \in {"Sports", "Gaming"}        -> 500
    [] OTHER                                    -> 1000

Avoided(m) == Len(SelectSeq(m.observations, LAMBDA o : o.mode = <<"avoid">>))

Below(value, bound) == value # None /\ value[1] < bound

AvoidReasons(m) ==
  {r \in {"high_ambiguity", "category_risk", "repeated_avoid_mode", "poor_liquidity", "high_error_rate"} :
     CASE r = "high_ambiguity"      -> m.ambiguity # None /\ m.ambiguity[1] >= 5000
       [] r = "category_risk"       -> CategoryRisk(m.category) >= 2000
       [] r = "repeated_avoid_mode" -> Avoided(m) >= 2
       [] r = "poor_liquidity"      -> Below(m.volume, 1000)
       [] OTHER                     -> Below(m.successRate, 50)}

AvoidScore(m) ==
  LET reasons == AvoidReasons(m)
      ambiguity == IF m.ambiguity = None THEN 0
                   ELSE IF "high_ambiguity" \in reasons THEN m.ambiguity[1] ELSE m.ambiguity[1] \div 2
      repeated == IF Avoided(m) >= 2 THEN Least(10000, 3000 * Avoided(m)) ELSE 0
      illiquid == IF Below(m.volume, 1000) THEN 8000 ELSE IF Below(m.volume, 5000) THEN 4000 ELSE 0
      failing == IF "high_error_rate" \in reasons THEN 7000 ELSE 0
  IN  (30 * ambiguity + 25 * CategoryRisk(m.category) + 20 * repeated + 15 * illiquid + 10 * failing)
        \div 100

AlphaCandidatesOf(markets, total, topN) ==
  FirstOf(Ranked(markets, [i \in DOMAIN markets |-> AlphaScore(markets[i], total)]), topN)

AvoidCandidatesOf(markets, topN) ==
  FirstOf(Ranked(markets, [i \in DOMAIN markets |-> AvoidScore(markets[i])]), topN)

\* Two appearances, which may be of one run, and a low ask or an event score.
Persistent(m) ==
  /\ m.appearances >= 2
  /\ m.tier \in NearMisses \/ Below(m.ask, 101500) \/ (m.score # None /\ m.score[1] >= 3000)

\* By appearances, then by the ask; no ask, or one of 0, comes last.
PersistentWatchlist(markets, topN) ==
  LET kept == SelectSeq(markets, Persistent)
      Price(m) == IF Truthy(m.ask) THEN Least(m.ask[1], 999999) ELSE 999999
  IN  FirstOf(Ranked(kept, [i \in DOMAIN kept |-> kept[i].appearances * 1000000 - Price(kept[i])]), topN)

CategoryStats(markets) ==
  [c \in {markets[i].category : i \in DOMAIN markets} |->
     LET own == SelectSeq(markets, LAMBDA m : m.category = c)
         Count(T(_)) == Len(SelectSeq(own, T))
         MeanOf(field) == LET there == SelectSeq(own, LAMBDA m : m[field] # None)
                          IN  IF there = <<>> THEN None
                              ELSE <<Total([i \in DOMAIN there |-> there[i][field][1]]) \div Len(there)>>
     IN  [markets |-> Len(own), score |-> MeanOf("score"), ambiguity |-> MeanOf("ambiguity"),
          nearMisses |-> Count(LAMBDA m : m.tier \in NearMisses),
          failing |-> Count(LAMBDA m : Below(m.successRate, 50)), risk |-> CategoryRisk(c)]]

\* A market's asks from run to run, newest run first, and the trend they are
\* said to have.
Trend(asks) ==
  IF Len(asks) < 2 THEN None
  ELSE CASE Last(asks) < asks[1] -> <<"decreasing">>
         [] Last(asks) > asks[1] -> <<"increasing">>
         [] Last(asks) = asks[1] -> <<"stable">>

Trajectories(markets) ==
  LET kept == SelectSeq(markets, LAMBDA m : Len(m.observations) >= 2)
      Asks(m) == LET there == SelectSeq(m.observations, LAMBDA o : o.ask # None)
                 IN  [i \in DOMAIN there |-> there[i].ask[1]]
  IN  Ranked([i \in DOMAIN kept |->
               [market |-> kept[i].market, question |-> kept[i].question, category |-> kept[i].category,
                observations |-> kept[i].observations, trend |-> Trend(Asks(kept[i]))]],
             [i \in DOMAIN kept |-> kept[i].appearances])

-----------------------------------------------------------------------------
(* The files of the lists, and what the next run reads of them.            *)

\* A cell of a line cut at its commas: a number or a word.
Number(n) == <<"number", n>>
Word(w) == <<"word", w>>
Reasons(S) == <<"reasons", S>>
Empty == Word("")
LOCAL Cell(o) == IF o = None THEN Empty ELSE Number(o[1])

\* A question is as many cells as its commas cut it into.
LOCAL QuestionCells(question) ==
  IF question = None THEN <<Empty>> ELSE [i \in 1 .. question[1].commas + 1 |-> Word("question")]

LOCAL Leading(m) == <<Word(m.market), Word(m.matchedBy)>> \o QuestionCells(m.question)
                      \o <<Word(m.category), Number(m.appearances)>>

WatchlistLine(m) ==
  Leading(m) \o <<Cell(m.ask), Cell(m.score), Cell(m.ambiguity), Empty, Word("mode"),
                  Word(m.evidence), Word("runs")>>

AlphaLine(m, total) ==
  Leading(m) \o <<Cell(m.ask), Cell(m.score), Cell(m.ambiguity), Cell(m.volume),
                  Number(AlphaScore(m, total)), Word(m.evidence), Word("runs")>>

AvoidLine(m) ==
  Leading(m) \o <<Cell(m.ambiguity), Cell(m.volume), Cell(m.successRate), Number(AvoidScore(m)),
                  Word(m.evidence), Reasons(AvoidReasons(m)), Word("runs")>>

\* A list that is empty leaves the file of the last comparison as it is.
Rewritten(file, lines) == IF lines = <<>> THEN file ELSE lines

Exported(files, markets, total, topN) ==
  LET watchlist == PersistentWatchlist(markets, topN)
      alphas == AlphaCandidatesOf(markets, total, topN)
      avoids == AvoidCandidatesOf(markets, topN)
  IN  [watchlist |-> Rewritten(files.watchlist, [i \in DOMAIN watchlist |-> WatchlistLine(watchlist[i])]),
       alphas |-> Rewritten(files.alphas, [i \in DOMAIN alphas |-> AlphaLine(alphas[i], total)]),
       avoids |-> Rewritten(files.avoids, [i \in DOMAIN avoids |-> AvoidLine(avoids[i])]),
       trajectories |-> Trajectories(markets)]

ExecutionDisabled(runs, flag) == \A i \in DOMAIN runs : ~runs[i][flag]

ComparisonSummary(runs, markets) ==
  [categories |-> CategoryStats(markets), live |-> ~ExecutionDisabled(runs, "live"),
   auto |-> ~ExecutionDisabled(runs, "auto")]

\* compare_run_intelligence: too few runs end it before anything is written.
Compared(files, archive, named, since, latest, minRuns, topN) ==
  LET dirs == DiscoverRuns(archive, named, since, latest)
      runs == [i \in DOMAIN dirs |-> LoadRun(dirs[i])]
      markets == ComparedMarkets(runs)
  IN  IF Len(dirs) < minRuns THEN files
      ELSE Exported(files, markets, Len(runs), topN) @@ [summary |-> ComparisonSummary(runs, markets)]

\* A cell read as an optional float; a word that is not one loses the line.
LOCAL IsFloat(cell) == cell = Empty \/ cell[1] = "number"
LOCAL Float(cell) == IF cell = Empty THEN None ELSE <<cell[2]>>

\* The loaders cut lines at every comma, quoted or not, and take columns by
\* their place in the header.
ReadWatchlistLine(line) ==
  IF ~IsFloat(line[6]) THEN None
  ELSE <<[market |-> line[1][2], evidence |-> line[11],
          appearances |-> IF line[5][1] = "number" THEN line[5][2] ELSE 1,
          ask |-> Float(line[6]), category |-> line[4]]>>

ReadAlphaLine(line) ==
  IF \E i \in {6, 7, 10} : ~IsFloat(line[i]) THEN None
  ELSE <<[market |-> line[1][2], score |-> IF line[10] = Empty THEN <<0>> ELSE Float(line[10]),
          category |-> line[4], ask |-> Float(line[6]), eventScore |-> Float(line[7]),
          tier |-> None]>>

ReadAvoidLine(line) ==
  LET reasons == CASE line[11] = Empty          -> {}
                   [] line[11][1] = "reasons"  -> line[11][2]
                   [] OTHER                    -> {"another column"}
  IN  IF ~IsFloat(line[9]) THEN None
      ELSE <<[market |-> line[1][2], score |-> IF line[9] = Empty THEN <<0>> ELSE Float(line[9]),
              category |-> line[4], reasons |-> reasons,
              risk |-> IF "high_ambiguity" \in reasons THEN "high" ELSE "medium"]>>

\* The entries of the lines that could be read.
Entries(read) == {read[i][1] : i \in {j \in DOMAIN read : read[j] # None}}

WatchlistEntries(files) ==
  Entries([i \in DOMAIN files.watchlist |-> ReadWatchlistLine(files.watchlist[i])])
AlphaEntries(files) == Entries([i \in DOMAIN files.alphas |-> ReadAlphaLine(files.alphas[i])])
AvoidEntries(files) == Entries([i \in DOMAIN files.avoids |-> ReadAvoidLine(files.avoids[i])])

\* The loader takes the trajectories for an object of markets; they are a list.
TrajectoryEntries(files) == {}

EvidencePriority(level) ==
  CASE level = Word("strong")   -> 100
    [] level = Word("moderate") -> 70
    [] level = Word("weak")     -> 40
    [] OTHER                    -> 30

TierPriority(tier) ==
  CASE tier = <<"Tier1">> -> 90
    [] tier = <<"Tier2">> -> 70
    [] tier = <<"Tier3">> -> 50
    [] tier = <<"Tier4">> -> 30
    [] OTHER              -> 20

\* AvoidAnnotator: said of a market, and never a bar to it.
Annotation(files, m) ==
  {[score |-> e.score, risk |-> e.risk, reasons |-> e.reasons, forbidden |-> FALSE] :
     e \in {a \in AvoidEntries(files) : a.market = m}}

\* TrajectoryTracker: how an observation differs from the last of a trajectory.
DetectedChanges(trajectory, now) ==
  LET last == Last(trajectory)
      Moved == /\ last.ask # None /\ now.ask # None
               /\ LET d == now.ask[1] - last.ask[1] IN d > 10 \/ -d > 10
  IN  IF trajectory = <<>> THEN {}
      ELSE {c \in {"combined_ask_change", "tier_change", "mode_change"} :
              CASE c = "combined_ask_change" -> Moved
                [] c = "tier_change"         -> last.tier # now.tier
                [] OTHER                     -> last.mode # now.mode}

-----------------------------------------------------------------------------
(* The validation loop: a run, then the programs that read it.             *)

\* It refuses to start under a configuration that could trade.
SafeToRun(risk, llm) == ~risk.live /\ ~risk.auto /\ risk.paper /\ llm = "mock"

Steps == <<"run", "validation", "analysis", "comparison">>

\* The steps that are run: all that are not skipped, up to the first that fails.
StepsRun(skipped, failing) ==
  {i \in DOMAIN Steps : /\ Steps[i] \notin skipped
                        /\ \A j \in 1 .. i - 1 : Steps[j] \in skipped \/ Steps[j] \notin failing}

\* The run that is analyzed: the newest with a summary.
LatestRun(archive) ==
  LET over == SelectSeq(archive, LAMBDA d : d.summary.is # "missing")
  IN  IF over = <<>> THEN None ELSE <<Last(over).name>>

\* One turn of the loop over the runs so far, the last being the one it made;
\* the analysis fails if it cannot read its run.
LoopTurn(files, archive, skipped, failing) ==
  LET latest == LatestRun(archive)
      Readable(dir) == dir.events.is = "whole" /\ dir.summary.is = "whole"
      unread == {i \in DOMAIN archive : <<archive[i].name>> = latest /\ ~Readable(archive[i])}
      failed == failing \cup (IF unread = {} THEN {} ELSE {"analysis"})
      ran == IF latest = None THEN {} ELSE {Steps[i] : i \in StepsRun(skipped, failed)} \ failed
      analyzed == [i \in DOMAIN archive |->
                     IF "analysis" \in ran /\ <<archive[i].name>> = latest
                     THEN Analyzed(archive[i]) ELSE archive[i]]
  IN  [archive |-> analyzed,
       files |-> IF "comparison" \in ran THEN Compared(files, analyzed, {}, 0, 30, 2, 20) ELSE files]
=============================================================================
