---------------------------- MODULE MCResearchRun ----------------------------
(* Three earlier runs leave the lists that a research run starts from: two  *)
(* alpha candidates that compete for one slot, one of them to be avoided,   *)
(* and a watchlist market; a fourth market is in none of them.  The scans   *)
(* have room for three, and ratios that may make four of it.  The functions *)
(* that make the lists, and those that make shadow candidates of them, are  *)
(* checked on small inputs.                                                 *)
EXTENDS ResearchRun, TradablePool

CONSTANTS a1, a2, w1, d1

-----------------------------------------------------------------------------
(* The earlier runs, analyzed and compared as the validation loop does it,  *)
(* with lists of two.                                                       *)

Asks(text, category, commas) == <<[text |-> text, category |-> category, commas |-> commas]>>

Sampled(m, question, ask, score, mode, ambiguity, volume, success) ==
  [market |-> m, question |-> question, ask |-> ask, score |-> score, mode |-> mode,
   ambiguity |-> ambiguity, volume |-> volume, success |-> success]

Answered(m, ask, ambiguity, volume) ==
  Sampled(<<m>>, Asks(m, "Other", 0), <<ask>>, <<40>>, <<"research">>, <<ambiguity>>, <<volume>>, <<TRUE>>)

Dir(name, day, samples) ==
  [name |-> name, day |-> day, events |-> Whole(samples), report |-> Missing, sampled |-> <<>>,
   summary |-> Whole([samples |-> Len(samples), succeeded |-> Len(samples), live |-> FALSE, auto |-> FALSE])]

MCArchive ==
  <<Dir("r1", 1, <<Answered(w1, 1040, 20, 5), Answered(a1, 1001, 10, 90)>>),
    Dir("r2", 2, <<Answered(w1, 1050, 20, 5)>>),
    Dir("r3", 3, <<Answered(a2, 1002, 60, 90), Answered(w1, 1060, 20, 5)>>)>>

NoFiles == [watchlist |-> <<>>, alphas |-> <<>>, avoids |-> <<>>, trajectories |-> <<>>]

MCFiles ==
  Compared(NoFiles, [i \in DOMAIN MCArchive |-> Analyzed(MCArchive[i])], {}, 0, 30, 2, 2)

IdsOf(entries) == {e.market : e \in entries}

\* Ratios that leave discovery its share, and ratios that add up to more than
\* the whole, which makes the alphas' quota negative.
MCRatios == {[watchlist |-> 40, alpha |-> 40, discovery |-> 20],
             [watchlist |-> 80, alpha |-> 0, discovery |-> 60]}

MCMarkets == {a1, a2, w1, d1}
MCEvidence == w1 :> 70
MCTier == (a1 :> 20) @@ (a2 :> 20)

\* The constants of the run are what the loader and the prioritizer make of
\* these files: no tier is ever loaded, so the alphas rank alike.
ASSUME TheListsOfTheRun ==
  /\ Watchlist = IdsOf(WatchlistEntries(MCFiles)) /\ Alphas = IdsOf(AlphaEntries(MCFiles))
  /\ Avoids = IdsOf(AvoidEntries(MCFiles))
  /\ \A e \in WatchlistEntries(MCFiles) : Evidence[e.market] = EvidencePriority(e.evidence)
  /\ \A e \in AlphaEntries(MCFiles) : Tier[e.market] = TierPriority(e.tier)

-----------------------------------------------------------------------------
(* What holds of the lists, over small archives.                            *)

\* How MarketAggregator goes through the runs, item by item, with a table of
\* the markets and one of the keys of the questions it has met.
Keyed(seen, it) ==
  LET o == it.of
      known == SelectSeq(seen.asks, LAMBDA a : a.question = o.question)
      key == CASE o.market # None -> <<"market_id", o.market[1]>>
               [] o.market = None /\ (it.from = "row" \/ o.question = None) -> None
               [] OTHER -> IF known # <<>> THEN known[1].key ELSE <<"normalized_question", o.question[1].text>>
  IN  [key |-> key,
       asks |-> IF it.from = "row" \/ o.question = None \/ known # <<>> THEN seen.asks
                ELSE Append(seen.asks, [question |-> o.question, key |-> key])]

Met(seen, it) ==
  LET keyed == Keyed(seen, it)
      at == SelectInSeq(seen.markets, LAMBDA m : m.key = keyed.key)
      fresh == [key |-> keyed.key, question |-> None, observations |-> <<>>, runs |-> <<>>]
      old == IF at = 0 THEN fresh ELSE seen.markets[at]
      told == [old EXCEPT !.question = IF @ = None THEN it.of.question ELSE @]
      new == IF it.from = "row" /\ it.run \in ToSet(old.runs) THEN told
             ELSE [told EXCEPT !.observations = Append(@, it.of),
                               !.runs = IF it.run \in ToSet(@) THEN @ ELSE Append(@, it.run)]
  IN  IF keyed.key = None THEN seen
      ELSE [asks |-> keyed.asks,
            markets |-> IF at = 0 THEN Append(seen.markets, new) ELSE [seen.markets EXCEPT ![at] = new]]

Aggregated(runs) == FoldLeft(Met, [asks |-> <<>>, markets |-> <<>>], Items(runs)).markets

Q1 == Asks("q1", "Crypto", 0)
Q2 == Asks("q2", "Politics", 1)

Seen(m, question, ask) ==
  Sampled(m, question, ask, <<30>>, <<"monitor">>, <<20>>, <<20>>, <<TRUE>>)
    @@ [category |-> "Crypto", tier |-> None]

SomeEvents == {Seen(<<a1>>, Q1, <<1000>>), Seen(<<a1>>, None, None), Seen(None, Q1, <<990>>),
               Seen(None, Q2, None), Seen(<<w1>>, Q1, <<1010>>), Seen(None, None, <<1>>)}
SomeRows == {Seen(<<a1>>, Q1, <<1000>>), Seen(<<w1>>, None, None)}

LoadedRun(name, events, rows) == [name |-> name, events |-> events, sampled |-> rows]

SomeRuns ==
  {<<LoadedRun("r2", e, r), LoadedRun("r1", f, q)>> :
     e \in SeqOf(SomeEvents, 2), r \in SeqOf(SomeRows, 1), f \in SeqOf(SomeEvents, 1), q \in SeqOf(SomeRows, 1)}

\* The markets of a comparison are those the aggregator ends with, in the
\* order it met them.
ASSUME ComparisonIsTheAggregation ==
  \A runs \in SomeRuns :
    LET markets == ComparedMarkets(runs)
    IN  Aggregated(runs) =
          [i \in DOMAIN markets |->
             [key |-> <<markets[i].matchedBy, markets[i].market>>, question |-> markets[i].question,
              observations |-> markets[i].observations, runs |-> markets[i].runs]]

\* An ask that rose from one run to the next is called decreasing, and the
\* last of a trajectory's observations is the oldest: runs come newest first.
ASSUME TrajectoriesRunBackwards ==
  \A before, after \in {990, 1000, 1010} :
    LET archive == <<Dir("r1", 1, <<Answered(a1, before, 10, 9)>>), Dir("r2", 2, <<Answered(a1, after, 10, 9)>>)>>
        t == Compared(NoFiles, archive, {}, 0, 30, 2, 20).trajectories[1]
    IN  /\ t.trend = IF after > before THEN <<"decreasing">>
                     ELSE IF after < before THEN <<"increasing">> ELSE <<"stable">>
        /\ Last(t.observations).ask = <<before>>

\* Of questions without commas every line of a list is read back; a comma in
\* one moves the columns, so that the volume is taken for the score, and two
\* lose a watchlist line.
Listed(commas, seen) ==
  LET said == [Answered(a1, 1000, 60, 7) EXCEPT !.question = Asks("q", "Other", commas)]
  IN  Compared(NoFiles, [i \in 1 .. seen |-> Dir(ToString(i), i, <<said>>)], {}, 0, 30, 1, 20)

ASSUME ReadAsWritten ==
  \A seen \in 1 .. 3 :
    /\ {[market |-> e.market, score |-> e.score, ask |-> e.ask] : e \in AlphaEntries(Listed(0, seen))}
         = {[market |-> a1, score |-> <<3305 + 200 * seen>>, ask |-> <<100000>>]}
    /\ {e.risk : e \in AvoidEntries(Listed(0, seen))} = {"high"}
    /\ {e.appearances : e \in WatchlistEntries(Listed(0, seen))} = IF seen = 1 THEN {} ELSE {seen}
    /\ {e.score : e \in AlphaEntries(Listed(1, seen))} = {<<700>>}
    /\ {e.evidence : e \in WatchlistEntries(Listed(1, seen))} = IF seen = 1 THEN {} ELSE {Word("mode")}
    /\ WatchlistEntries(Listed(2, seen)) = {}
    /\ TrajectoryEntries(Listed(0, seen)) = {}

\* The avoid list ranks the markets that the alpha list ranks: while there are
\* no more of them than it has lines, every one is to be avoided and none is
\* tradable, however good it is.
ASSUME FewMarketsAreNeverTradable ==
  \A runs \in {r \in SomeRuns : Len(r[1].events) > 1} :
    \A markets \in {ComparedMarkets(runs)} :
      /\ Pool(markets, 2, Len(markets), <<>>, <<>>, <<>>, Limits) = <<>>
      /\ \A i \in DOMAIN markets :
           Annotation(Exported(NoFiles, markets, 2, 20), markets[i].market) # {} \/ markets[i].question[1].commas > 0

\* With fewer lines than markets others are, once each, none of them with a
\* reason against it; and none to be entered, no run having alerted of one.
ASSUME TradableHasNoReasonAgainstIt ==
  \A runs \in {r \in SomeRuns : Len(r[1].events) > 1} :
    \A markets \in {ComparedMarkets(runs)} :
      \A pool \in {Pool(markets, 2, 1, <<>>, <<>>, <<>>, Limits)} :
        /\ \A i, j \in DOMAIN pool : pool[i].market = pool[j].market => i = j
        /\ \A i \in DOMAIN pool : /\ HardExclusions(pool[i], Limits) = {} /\ Hint(pool[i]) = "watch_only"
                                /\ pool[i].market # AvoidCandidatesOf(markets, 1)[1].market

\* One run that could trade is told of, whatever its report said of it.
ASSUME UnsafeRunsAreTold ==
  \A live, reported \in BOOLEAN :
    LET archive == [MCArchive EXCEPT ![2].summary.data.live = live,
                                     ![2].report = Whole([samples |-> 1, succeeded |-> 1, live |-> reported, auto |-> FALSE])]
        summary == Compared(NoFiles, archive, {}, 0, 30, 2, 20).summary
    IN  summary.live = live /\ ~summary.auto /\ summary.categories["Other"].markets = 3

-----------------------------------------------------------------------------
(* Token ids and prices.                                                    *)

Ids == {NoToken, "m", "y", "n"}
Record(pairs, tokens, outcomes, token, outcome) ==
  [market |-> "m", pairs |-> pairs, tokens |-> tokens, outcomes |-> outcomes, token |-> token,
   outcome |-> outcome, question |-> None]
SomeRecords ==
  {Record(pairs, <<>>, <<>>, NoToken, "") : pairs \in SeqOf(Ids \X Ids, 2)}
    \cup {Record(<<>>, <<t, u>>, outcomes, NoToken, "") :
            t \in Ids, u \in Ids, outcomes \in {<<>>, <<"yes", "no">>, <<"no", "yes">>, <<"a", "b">>}}
    \cup {Record(<<>>, <<>>, <<>>, t, side) : t \in Ids, side \in {"yes", "no"}}

\* What the resolver finds the index finds too, in the same record.
ASSUME IndexFindsMore ==
  \A r \in SomeRecords :
    ResolvedTokens(<<r>>, "m") # None => IndexedTokens(<<r>>, "m") = ResolvedTokens(<<r>>, "m")

\* Ids of the public API are never guessed from their place; local ones are.
ASSUME OnlyLocalIdsAreGuessed ==
  /\ \A t, u \in {"y", "n"}, a, b \in {"yes", "no", "a"} :
       LET payload == Record(<<>>, <<t, u>>, <<a, b>>, NoToken, "")
       IN  /\ GammaTokens(payload, "m") =
                CASE <<a, b>> = <<"yes", "no">> -> <<<<t, u>>>>
                  [] <<a, b>> = <<"no", "yes">> -> <<<<u, t>>>>
                  [] OTHER -> None
           /\ GammaTokens(payload, "other") = None
           /\ IndexedTokens(<<payload>>, "m") # None

\* Every market without ids is looked up while there are calls left; the last
\* lookup may take one call more than there are.
ASSUME LookupsAreCounted ==
  \A known \in SUBSET MCMarkets, most \in 0 .. 5, costs \in [MCMarkets -> 1 .. 2] :
    LET done == Lookups(<<a1, a2, w1, d1>>, known, most, costs)
    IN  /\ done.calls <= most + 1 /\ ToSet(done.asked) \cap known = {}
        /\ done.calls < most => ToSet(done.asked) = MCMarkets \ known

\* A market whose question is not the one asked for gets no ids, nor does one
\* of several with the same question.
ASSUME LookupsLeaveNoDoubt ==
  LET Payload(q) == [Record(<<>>, <<"y", "n">>, <<"yes", "no">>, NoToken, "") EXCEPT !.question = q]
      pair == <<<<"y", "n">>>>
  IN  /\ LookedUpTokens("m", Q1, <<Payload(Q2)>>, <<Payload(Q1)>>) = None
      /\ LookedUpTokens("m", Q1, None, <<Payload(Q2), Payload(Q1)>>) = pair
      /\ LookedUpTokens("m", Q1, None, <<Payload(Q1), Payload(Q1)>>) = None
      /\ LookedUpTokens("m", None, <<Payload(Q2)>>, <<>>) = pair

\* A pair that is filled up may be of two sources; one that is covered is not.
ASSUME FilledPairsMayMix ==
  LET row == [market |-> "m", yes |-> "y", no |-> NoToken]
  IN  Backfilled(row, <<<<"p", "q">>>>) = [row EXCEPT !.no = "q"]
      /\ Covered(row, <<<<"p", "q">>>>) = [row EXCEPT !.yes = "p", !.no = "q"]

\* A refresh reads no row after its last error, and prices only full books.
Books == {EmptyBook, <<<<<<40, 5>>>>, <<<<50, 5>>, <<45, 2>>>>>>}
ASSUME RefreshStopsAtErrors ==
  \A answers \in [1 .. 3 -> {None} \cup {<<<<y, n>>>> : y \in Books, n \in Books}], most \in 1 .. 2, rows \in 0 .. 3 :
    LET row == [market |-> "m", yes |-> "y", no |-> "n"]
        done == RefreshedRows(<<row, row, row>>, <<>>, answers, rows, most)
        errors == {i \in DOMAIN done : done[i].status = "api_error"}
    IN  /\ Len(done) <= rows /\ Cardinality(errors) <= most
        /\ Len(done) < rows => Cardinality(errors) = most /\ Len(done) \in errors
        /\ \A i \in DOMAIN done \ errors :
             done[i].status = "priced" <=> \A side \in {1, 2} : answers[i][1][side] # EmptyBook

-----------------------------------------------------------------------------
(* The loop: a step that fails leaves the lists of the last turn; a run that *)
(* cannot be analyzed ends the turn before the comparison, but a later turn  *)
(* compares its directory all the same.                                      *)
Old == [NoFiles EXCEPT !.trajectories = <<"old">>]
ASSUME FailuresLeaveTheLists ==
  \A failing \in SUBSET ToSet(Steps), skipped \in SUBSET ToSet(Steps), torn \in BOOLEAN :
    LET archive == [MCArchive EXCEPT ![3].events = IF torn THEN Torn ELSE @]
        turn == LoopTurn(Old, archive, skipped, failing)
    IN  /\ turn.files # Old <=> /\ failing \ skipped = {} /\ "comparison" \notin skipped
                                /\ ~torn \/ "analysis" \in skipped
        /\ turn.archive # archive <=> /\ (failing \ skipped) \cap {"run", "validation", "analysis"} = {}
                                      /\ ~torn /\ "analysis" \notin skipped
=============================================================================
