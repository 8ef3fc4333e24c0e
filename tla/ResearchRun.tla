----------------------------- MODULE ResearchRun -----------------------------
(***************************************************************************)
(* A run of the paper runner with a real LLM provider, as research: scan   *)
(* after scan it reads prioritised markets, samples some of them and a     *)
(* control group with the LLM, within an hourly budget                     *)
(* (polysignal/runner: paper_runner.py _run_loop, _run_scan and _cleanup,  *)
(* llm_sampling.py, control_group.py).                                     *)
(*                                                                         *)
(* One asyncio task; the rest of the world is the clock, the markets on    *)
(* offer and the signals that ask the run to stop.  A market's turn in a   *)
(* scan, and a sample, is one action: what may happen meanwhile is only    *)
(* looked at between scans.                                                *)
(***************************************************************************)
EXTENDS Prioritizer, Sequences, TLC

CONSTANTS
  Avoids,        \* ids of the avoid candidates file
  Samplable,     \* open, unambiguous markets with the volume sampling asks for
  Controllable,  \* open, unambiguous markets of no forbidden category
  ExcludeAvoids, \* exclude_avoid_from_control_group
  MaxMarkets,    \* max_markets
  PerScan,       \* llm_sampling_per_scan
  MaxRepeats,    \* llm_sampling_max_repeats_per_market
  MaxControl,    \* size of the control group drawn in a scan
  MaxCalls       \* max_llm_calls_per_hour

ASSUME RunAssumption ==
  /\ Avoids \subseteq Markets /\ Samplable \subseteq Markets /\ Controllable \subseteq Markets
  /\ ExcludeAvoids \in BOOLEAN
  /\ MaxMarkets \in Nat /\ PerScan \in Nat /\ MaxRepeats \in Nat
  /\ MaxControl \in Nat \ {0} /\ MaxCalls \in Nat \ {0}

VARIABLES
  ratios,     \* the ratios on the command line
  pc,         \* where the run is
  asked,      \* _shutdown_requested, or the time is over
  todo,       \* markets of the scan, or of the samples, still to be worked on
  sources,    \* market_sources of the scan
  books,      \* markets of the scan whose order book was read
  observed,   \* _alpha_observation_counts
  history,    \* sampled_market_history: samples of each market
  cooling,    \* markets whose last sample is within the cooldown
  control,    \* _control_group_ids
  budget,     \* llm_calls_this_hour
  hourOver,   \* an hour has passed since hour_start
  sampled,    \* auxiliary: sampling calls made about each market
  saved       \* what the clean-up has done

scanVars == <<todo, sources, books>>
groupVars == <<observed, history, cooling, control>>
hourVars == <<budget, hourOver>>
runVars == <<ratios, pc, asked, scanVars, groupVars, hourVars, sampled, saved>>

-----------------------------------------------------------------------------
NoSources == [watchlist |-> {}, alpha |-> {}, discovery |-> {}]

Scanned == sources.watchlist \cup sources.alpha \cup sources.discovery

BudgetLeft == budget < MaxCalls

-----------------------------------------------------------------------------
(* The clock and the signals.  That an hour or a cooldown is over is looked  *)
(* at in one place of a scan: it may as well happen before the scan.         *)

HourPasses ==
  /\ pc = "between" /\ ~hourOver
  /\ hourOver' = TRUE
  /\ UNCHANGED <<ratios, pc, asked, scanVars, groupVars, budget, sampled, saved>>

CooldownEnds(m) ==
  /\ pc = "between" /\ m \in cooling
  /\ cooling' = cooling \ {m}
  /\ UNCHANGED <<ratios, pc, asked, scanVars, observed, history, control, hourVars, sampled, saved>>

AskToStop ==
  /\ ~asked
  /\ asked' = TRUE
  /\ UNCHANGED <<ratios, pc, scanVars, groupVars, hourVars, sampled, saved>>

-----------------------------------------------------------------------------
(* A scan *)

StopNever == FALSE    \* deviation: the request is not looked at

MayStop == asked

CheckHourlyLimits ==
  IF hourOver
    THEN budget' = 0 /\ hourOver' = FALSE
    ELSE UNCHANGED hourVars

BeginScan ==
  /\ pc = "between" /\ ~MayStop
  /\ pc' = "markets"
  /\ CheckHourlyLimits
  /\ UNCHANGED <<ratios, asked, scanVars, groupVars, sampled, saved>>

GetMarkets(offered) ==
  /\ pc = "markets"
  /\ sources' \in Prioritized(offered, MaxMarkets, observed, ratios)
  /\ todo' = Scanned'
  /\ books' = {}
  /\ pc' = "scan"
  /\ UNCHANGED <<ratios, asked, groupVars, hourVars, sampled, saved>>

\* get_markets raises or has nothing: the scan is saved all the same.
NoMarkets ==
  /\ pc = "markets"
  /\ pc' = "between"
  /\ UNCHANGED <<ratios, asked, scanVars, groupVars, hourVars, sampled, saved>>

\* A market without a book.
SkipMarket(m) ==
  /\ pc = "scan" /\ m \in todo
  /\ todo' = todo \ {m}
  /\ UNCHANGED <<ratios, pc, asked, sources, books, groupVars, hourVars, sampled, saved>>

\* A market with a book: an alpha read as one counts as observed (counts from
\* the target on are alike), and _process_market asks the LLM for the event
\* score, which the budget does not count, before the strategy, the Governor
\* and the paper trader, any of which may raise.
ReadMarket(m) ==
  /\ pc = "scan" /\ m \in todo
  /\ todo' = todo \ {m}
  /\ books' = books \cup {m}
  /\ observed' = IF m \in sources.alpha /\ NeedsObservation(m, observed)
                 THEN [observed EXCEPT ![m] = @ + 1] ELSE observed
  /\ UNCHANGED <<ratios, pc, asked, sources, history, cooling, control, hourVars, sampled, saved>>

-----------------------------------------------------------------------------
(* Samples *)

\* Some of a set, as many as there are up to a limit; how they are ranked is
\* the sampling strategy's, or the spread over the categories.
Chosen(S, n) == Top(S, n, [m \in S |-> 0])

SampleCandidates ==
  {m \in Samplable \cap books : history[m] < MaxRepeats /\ m \notin cooling}

SelectSamples ==
  /\ pc = "scan" /\ todo = {}
  /\ todo' \in Chosen(SampleCandidates, PerScan)
  /\ pc' = "sample"
  /\ UNCHANGED <<ratios, asked, sources, books, groupVars, hourVars, sampled, saved>>

\* _perform_llm_sampling, if the budget allows it.
Perform(m) ==
  /\ budget' = budget + 1
  /\ sampled' = [sampled EXCEPT ![m] = @ + 1]
  /\ UNCHANGED hourOver

\* A sample the budget refuses is noted like any other.
Sample(m) ==
  /\ pc = "sample" /\ m \in todo
  /\ todo' = todo \ {m}
  /\ IF BudgetLeft THEN Perform(m) ELSE UNCHANGED <<hourVars, sampled>>
  /\ history' = [history EXCEPT ![m] = @ + 1]
  /\ cooling' = cooling \cup {m}
  /\ UNCHANGED <<ratios, pc, asked, sources, books, observed, control, saved>>

\* An avoid candidate may be a control unless the run is told otherwise.
Excluded == Alphas \cup Watchlist \cup (IF ExcludeAvoids THEN Avoids ELSE {})

ControlCandidatesAgain == (Controllable \cap books) \ Excluded    \* deviation: drawn again in later scans

\* Unlike a sample a control needs no volume.
ControlCandidates == (Controllable \cap books) \ (Excluded \cup control)

SelectControl ==
  /\ pc = "sample" /\ todo = {}
  /\ todo' \in Chosen(ControlCandidates, MaxControl)
  /\ pc' = "control"
  /\ UNCHANGED <<ratios, asked, sources, books, groupVars, hourVars, sampled, saved>>

SampleControl(m) ==
  /\ pc = "control" /\ m \in todo
  /\ BudgetLeft
  /\ Perform(m)
  /\ todo' = todo \ {m}
  /\ control' = control \cup {m}
  /\ UNCHANGED <<ratios, pc, asked, sources, books, observed, history, cooling, saved>>

\* The group is done, or the budget is; the scan is saved.
EndScan ==
  /\ pc = "control"
  /\ todo = {} \/ ~BudgetLeft
  /\ todo' = {} /\ sources' = NoSources /\ books' = {}
  /\ pc' = "between"
  /\ UNCHANGED <<ratios, asked, groupVars, hourVars, sampled, saved>>

-----------------------------------------------------------------------------
(* The clean-up *)

Leave ==
  /\ pc = "between" /\ MayStop
  /\ pc' = "cleanup"
  /\ UNCHANGED <<ratios, asked, scanVars, groupVars, hourVars, sampled, saved>>

CleanupOrder == <<"run", "reports", "database">>

\* The run's end is saved, the reports are written, the database is closed; a
\* step that raises ends the clean-up.
CleanupStep ==
  /\ pc = "cleanup"
  /\ LET done == Cardinality(saved)
     IN  \/ /\ saved' = saved \cup {CleanupOrder[done + 1]}
            /\ pc' = IF done + 1 = Len(CleanupOrder) THEN "done" ELSE pc
         \/ /\ UNCHANGED saved
            /\ pc' = "failed"
  /\ UNCHANGED <<ratios, asked, scanVars, groupVars, hourVars, sampled>>

Over == pc \in {"done", "failed"} /\ UNCHANGED runVars

-----------------------------------------------------------------------------
RunInit ==
  /\ ratios \in Ratios
  /\ pc = "between" /\ asked = FALSE
  /\ todo = {} /\ sources = NoSources /\ books = {}
  /\ observed = [m \in Markets |-> 0]
  /\ history = [m \in Markets |-> 0]
  /\ cooling = {} /\ control = {}
  /\ budget = 0 /\ hourOver = FALSE
  /\ sampled = [m \in Markets |-> 0]
  /\ saved = {}

ScanStep ==
  \/ BeginScan \/ NoMarkets
  \/ \E offered \in (SUBSET Markets) \ {{}} : GetMarkets(offered)
  \/ \E m \in Markets : SkipMarket(m) \/ ReadMarket(m) \/ Sample(m) \/ SampleControl(m)
  \/ SelectSamples \/ SelectControl \/ EndScan \/ Leave \/ CleanupStep

RunNext ==
  \/ ScanStep \/ Over
  \/ HourPasses \/ AskToStop
  \/ \E m \in Markets : CooldownEnds(m)

\* The run goes on; now and then all markets are on offer, and no alpha is
\* without a book for ever when it is read as one.
RunFairness ==
  /\ WF_runVars(ScanStep)
  /\ SF_runVars(GetMarkets(Markets))
  /\ \A m \in Alphas : SF_runVars(m \in sources.alpha /\ ReadMarket(m))

RunSpec == RunInit /\ [][RunNext]_runVars /\ RunFairness

-----------------------------------------------------------------------------
RunTypeOK ==
  /\ ratios \in Ratios
  /\ pc \in {"between", "markets", "scan", "sample", "control", "cleanup", "done", "failed"}
  /\ asked \in BOOLEAN /\ hourOver \in BOOLEAN
  /\ sources \in [{"watchlist", "alpha", "discovery"} -> SUBSET Markets]
  /\ todo \subseteq Scanned /\ books \subseteq Scanned
  /\ observed \in [Markets -> 0 .. RepeatTarget]
  /\ history \in [Markets -> 0 .. MaxRepeats] /\ sampled \in [Markets -> Nat]
  /\ cooling \subseteq Markets /\ control \subseteq Markets
  /\ budget \in 0 .. MaxCalls
  /\ saved \subseteq {"run", "reports", "database"}

\* What the alphas' ratio is in the end.
AlphaShare(r) ==
  IF Repeats(r) THEN Smaller(r.alpha, 80) ELSE 100 - r.watchlist - DiscoveryPct(r.discovery)

\* A share below zero: a quota of -k takes all but k of a list, and leaves
\* discovery k markets more.
Overshoot(pct, listed) ==
  IF pct < 0 THEN Greater((MaxMarkets * (-pct)) \div 100, Cardinality(listed)) ELSE 0

ScanLimit(r) == MaxMarkets + Overshoot(r.watchlist, Watchlist) + Overshoot(AlphaShare(r), Alphas)

(* None of a scan's markets is read as two things, and a scan reads at     *)
(* most max_markets of them while no share is negative.  Ratios that add   *)
(* up to more than one make the alphas' share negative, a slice from the   *)
(* end: then a scan is larger, by no more than the slice can be wrong      *)
(* (prioritize, which cuts nothing off in the end).                        *)
ScansWithinMaxMarkets ==
  /\ RunTypeOK
  /\ \A s, t \in DOMAIN sources : s # t => sources[s] \cap sources[t] = {}
  /\ Cardinality(sources.watchlist) + Cardinality(sources.alpha) + Cardinality(sources.discovery)
       <= ScanLimit(ratios)
  /\ Cardinality(books) <= ScanLimit(ratios)

(* A market is asked about at most as often as llm_sampling allows and     *)
(* once for the control group, over all scans, whatever the cooldown and   *)
(* the budget did in between (_select_llm_sampling_candidates and          *)
(* _select_control_group_candidates, which know nothing of each other).    *)
NotAskedTooOften ==
  \A m \in Markets :
    sampled[m] <= history[m] + (IF m \in control THEN 1 ELSE 0) /\ history[m] <= MaxRepeats

(* Every alpha candidate outside the watchlist is observed as often as the *)
(* target asks, if the run lasts and repeats its alphas at all: those      *)
(* observed less come first, those at the target leave their slots         *)
(* (MarketPrioritizer.prioritize, CONTEXT "alpha_repeat_target").          *)
AlphasReachTarget ==
  \A m \in Alphas \ Watchlist : Repeats(ratios) => <>(observed[m] = RepeatTarget \/ asked)

(* A run that is asked to stop finishes its scan, whatever the scan is at, *)
(* and is over with everything saved, unless a step of the clean-up raises *)
(* (_signal_handler sets a flag that the loop must come back to).          *)
StopsWhenAsked ==
  asked ~> (pc = "failed" \/ saved = {"run", "reports", "database"})
=============================================================================
