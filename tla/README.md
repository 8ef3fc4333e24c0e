# PolySignal Pro: specification, model checking and proofs

This directory holds TLA+ modules for the core of PolySignal Pro, a program that
watches prediction markets, scores signals, lets a Risk Governor decide on each of
them, trades on paper and researches, by scripts that share files, whether its edges
are real. Each module is a translation of the source; `PROJECT.json` maps every
definition to the lines it stands for.

`tlc -config X.cfg M` checks a run, `tlapm M.tla` checks the proofs of a module.

## 1. The system

| Part | State | Operations | What makes it hard |
| --- | --- | --- | --- |
| Account ledger (`execution/account_state.py`) | cash, realized profit, losing streak, one position per market with its owner strategy, closed trades | `record_open`, `record_close`, sums read by the Governor | add-ons by another strategy; closes booked by the caller's timestamp |
| Simulated broker (`execution/sim_broker.py`) | order sequence, share book, audit trail | `submit_buy`, `submit_sell` | keeps the same position a second time; many ways to fail, some after state has changed |
| Risk Governor (`risk/risk_governor.py`, guards) | none | `evaluate` | rejections, penalties and bands that interact |
| Circuit breaker (`risk/circuit_breaker.py`) | failure counters, tripped flags | record failure or success, reset | what counts as consecutive |
| Regime stress loop (`scripts/run_regime_stress_test.py`) | step, open probes, breaker counters | exit, then entry, market by market | Governor, broker and ledger together, exits that fail |
| Main cycle (`main.py`), paper trader | positions, orders, database | `run_cycle`, `_process_signal` | a failure or a kill between two writes |
| WebSocket feed (`ingestion/websocket_client.py`, subscriptions, reconnection) | socket, flags, attempt counter, subscribed tokens, background tasks | connect, disconnect, receive and ping loops, reconnect handlers | tasks interleave at every await; two handlers may run at once |
| Order book cache, message parser | per-token books | snapshot, delta, tick | a delta on an outdated book, a lost subscription |
| REST clients, providers, converters | retries | requests, fall back to mock data | which failure is an error, nothing, or an invented answer |
| LLM providers, router, event engine | retries, chain | one question, one answer | errors of different kinds, a default that reads like an answer |
| Engines, mispricing strategy | none | scores, flags, one signal | caps and missing-data rules that decide what a sum can reach |
| Paper runner (`runner/`) | history of samples, control group, hourly budget, alpha repeats | scan, sample, control group, clean-up | limits reset by the clock, quotas of truncated floats |
| Research feedback (analyze, compare, loaders, pool, backfill, refresh) | files | each program reads what the one before wrote | what is written is not what is read |
| Shadow loop (scripts and `shadow/`) | candidates, trades, observations, feedback | discovery, paper loop, poller, collector, calibration | nothing locks the files; any script may die between or inside writes |
| Crypto discovery, provenance | candles, candidates, proof files | batch of fetches around an entry minute | the clock is not the exchange's, the price moves during the batch |
| Crypto cohort (validator, poller) | prepared trades, snapshots, observations | accept, close, observe | two programs and a discovery over the same files |

How they interact: the main cycle, the paper runner and the stress loop each take a
market and its book from a provider or the feed's cache, build a signal from the engines'
scores, fill a risk context from the ledger and the health flags, and call
`RiskGovernor.evaluate`. Only the stress loop and the replay scripts go on to the
simulated broker, which calls the ledger; the main cycle fills through the paper
trader and records in the ledger itself; the paper runner judges without an account.
The feed calls back into the runner, whose copy of the connection's state is the health
the Governor is shown. The runner's reports become the lists the next run prioritises
by, and those of several runs the pool that shadow trades are found in; discovery's candidate
file is what validator and poller read.

`PROJECT.json` lists every part with its status, and the hazards of this code
at their lines. Two hazards are worth naming here although the list has no room for
them: events are saved by tasks nobody awaits (`paper_runner.py:946`), and two validators
started at once each write the whole prepared file (`validate_crypto_threshold_shadow_pnl.py:2131`).

## 2. Modules

    Account <- SimBroker <- RiskChain -> RiskRules <- RiskDecision <- SignalPath -> Engines, MarketData, LlmCalls
       ^                                    ^
       +------------- MainCycle ------------+      (instances PaperTrader and CircuitBreaker)

    BookReplica <= BookCache            FeedClient

    Prioritizer <- ResearchRun          Intelligence <- TradablePool
    ShadowRules <- ShadowLoop

    Checks <- Provenance <- CryptoMarkets <- CryptoDiscovery => CandidateFeed <- CryptoCohort
    Checks <- Klines     <-----------------------'   Provenance <- CohortRules (checked against CryptoCohort)

(`A <- B`: B extends A. `A <= B`, `B => A`: B implements A by a refinement mapping.)

**Account** is the ledger. `RecordOpen` and `RecordClose` are the two mutating methods;
`CanOpen` is the set of checks that make `record_open` raise, and the caller decides
what a raise does. A market without a position has notional 0, which `record_open` never
admits. The list of closed trades is kept as what the code computes of it, the sums by
UTC day and by week. `Total` counts units of money: the sum of a function over the
markets is the cardinality of the set of its units, a definition without
recursion that lemmas can be proved about. `AccountSpec` is also the *abstract
specification* for the broker: any caller that closes for proceeds minus entry cost.

**SimBroker**: `submit_buy` is `BuyRejected`, `BuyFilled` or `BuyRaised`
(the ledger's `ValueError`, which no code catches); `submit_sell` is `SellRejected` or
`SellFilled`. `BuyRefused` and `SellRefused` list the early returns; which of several
came first shows only in the wording of the record, so they are a disjunction.
A book is what the sweep finds in it: its fillable depth, the shares a unit
of money buys, the gross proceeds of a sale. A fill is at decision time plus latency,
and a close is booked on the UTC day of the fill.

**RiskRules** is the Governor: `HardRejectReasons`, the score times 100 (so that
weights and half points are whole numbers), `DecideAction`, `AllowedActions`, `Evaluate`.
**RiskDecision** evaluates a signal, makes one thing worse (a health
flag, the market, the book, the account, a risk flag, a score, the LLM call), and
evaluates it again. Flags of the engines and flags of the model's answer are kept apart, because a call
that fails replaces the whole assessment: the score becomes 50 and the answer's flags give way to one
error flag (`LlmFails`).

**RiskChain** composes ledger, broker and Governor the way the stress test does. At
each step the loop visits the markets in order; in each it manages the exit of the
open probe (`NoExit`, `Exit`) and then, if the market is flat, asks for an entry
(`NoEntry`, `EntryRefused`, `EntrySubmitted`, `EntryRaised`). Generated prices are
not modelled: what they decide (a stop, a target, what a book holds and an exit brings)
is chosen freely, so the results hold for every regime, not only the five generated ones.

**FeedClient**: an action is what a task does between two awaits. Connect
number n yields socket n and the tasks `Receive(n)` and `Ping(n)`; the old tasks are
kept, as in `connect`. `_handle_disconnect` runs inside the task that noticed the loss.
`NextReceive` reads the client's current socket, so that a task that outlived a
reconnect meets the new one's receive there. `Disconnect`, `CancelPing` and `CloseSocket`
are the three stretches of `disconnect` between its awaits. Time is left open:
any wait may end at any moment.

**BookCache** has the caches of the markets' tokens, the messages on their way, the sockets and the
subscriptions; the exchange is external. A socket may break (`Break`, `Notice`) or be replaced while it
lives, because a pong is missing (`PongTimeout`, `Reconnect`): the receive loop of the replaced one waits on
and may still write to the caches (`Wake`). `Reconnect` forgets all subscriptions and sends them again,
`Scan` adds the markets' tokens, both cut to the free slots (`CanSubscribe`, a slice that may be from the
end). A change comes as a whole book, as an update, or as a delta in the fields `bids` and `asks`, which
the parser takes for a snapshot (`Applied`). **BookReplica** is what the caches promise: each token's view
goes through the books the exchange had since the subscription, all of them and in their order, or is
`Unsure`, and becomes unsure only by a replaced connection, by what such a connection still says, by an empty
book or by a misread delta. The refinement maps the messages on the wire to the views still to come.
The code has no notion of being unsure: `based`, the tokens whose cache has followed the exchange so far, is an
auxiliary variable, and a cache that is not based is used like any other.

**MainCycle** is `run`, `run_cycle` and `_process_signal` await by await: every read and
write may raise, the process may be killed at any await (`Crash`) and started again with
what the database holds. It uses the actions of **PaperTrader** and **CircuitBreaker**
through INSTANCE, and those of Account.

**Prioritizer** and **ResearchRun** are the runner as research: quotas of truncated floats from
ratios that nothing validates, scan, samples, control group, hourly budget, clean-up. **Intelligence** and **TradablePool**
are the programs between two runs, as operators from files to files.

**Engines**, **MarketData**, **LlmCalls** and **SignalPath** follow one market through the
dry-run and the two smoke tests: listed, book read in two requests with their own retries,
model asked, signal made, judged, saved. Books, markets
and answers carry where they came from. Beside them `RiskDecision`'s worsening world is run as a disjunct of its own.

**ShadowRules** and **ShadowLoop** are the scripts that share files: an action reads some,
writes one or more, and has a `...Dies` twin for a death between two writes or inside one.

**Checks**, **Klines**, **Provenance**, **CryptoMarkets** and **CryptoDiscovery** are a batch
of crypto discovery: list and parse, read candles with failover, commit to the next minute,
observe books and spot prices, wait, read the last candles with an overlap, judge, write.
**CandidateFeed** is what its readers may rely on. **CryptoCohort** is validator and poller over
that feed; **CohortRules** has the validator's rules on whole rows, and
`MCCryptoCohort` checks that CryptoCohort takes exactly what they take.

Definitions marked "deviation" are plausible mistakes, one for each property; with the
deviation in place of the definition it follows, the property fails. They are listed under
"mutants".

## 3. Runs

| Run | Question | Bounds, and why they are enough |
| --- | --- | --- |
| `broker` | Do share book and ledger agree through add-ons, faults, stale quotes, thin books and fees, and is every order a step of the ledger's specification? | 2 markets, 2 strategies, capital 8, notionals 0, 2 and 4, 6 orders, 3 closes, one injected fault, 2 days: two positions opened, added to, closed and opened again. Fill days differ from decision days. |
| `chain` | Can failed exits and several markets overshoot the cap by more than one entry, how much can a day lose, does a breaker hold once fired? | 3 markets, cap 5, entries of 3: the second overshoots, the third must be refused. 5 steps of 2 ticks in days of 6, limits of 3: every breaker fires, the streak breaker releases on a win and locks out. |
| `feed` | Do racing handlers, the runner and the shutdown leave the feed consistent, and does every outage end? | 3 connects, 2 attempts per outage: three generations of loops, handlers of different generations at once, one exhausted while another succeeds. |
| `feed_given_up` | expects a violation, see below | the same |
| `main_cycle` | What do trader, database, ledger and breaker know of each trade when anything may fail? | 2 markets, order 2, cap 3, breaker at 2 failures, 2 cycles, 2 lives: a second order overshoots the cap, a death between any two writes is followed by a start. |
| `book_cache` | Does a cache follow the exchange's book until it stops in one of the known ways, and are lost subscriptions regained? | a token with a bid and an ask of size 0 or 1, and one with an empty book that only competes for the slots; 1 or 2 slots; one message on the wire; 2 tasks beside each other, that is a socket and one more task (a handler, a second socket's loop): snapshot, update, delta, tick, loss, replacement and late message in every order. |
| `research_run` | How large is a scan, what is sampled how often, within which budget, and how does a run end? | 4 markets of four kinds, scans of 3, one sample a scan, one call an hour; ratios of 40/40/20 and, adding up to more than one, 80/0/60, with which a scan does read 4. |
| `shadow_loop` | Do gate, exits and lock-out hold whatever dies when? | 2 markets, horizon 2, time 2, 3 runs, gate on 2 trades, one poller. |
| `shadow_exit_price` | expects a violation, see below | the same |
| `crypto_discovery` | Does any entry rest on a barrier touched before its last minute? Do readers see the promised feed? | 8 markets of different texts, 2 ticks a minute, clock up to 4 at commitment, 2 moves of the price (a touch and a fall), one batch. |
| `crypto_cohort` | Do positions start fresh, respect the expiry, keep exits and records? | one touch market and side, clock 4, 2 batches, 2 polls, 3 validations, each dying anywhere. |
| `signal_path` | Can any of the three programs decide to trade, does anything invented reach a decision, does every path end, does a worse world ever get a more permissive decision? | all three provider modes, 2 retries of data, 1 of models, 2 adverse events, so that a failing call may take back a flag its answer had raised. |

Every run checks one type invariant at most; the others are the properties of the
hazards in `PROJECT.json`. *ExposureBounded* says the money at
risk stays below the strategy cap plus the cost of one entry: the Governor compares the
exposure *before* an entry with the cap, so the sharper `exposure <= cap` that
`docs/risk_policy.md` (section 2) reads like does not hold, and the overshoot is exactly one
entry. *LossesBounded* says that a day loses at most the daily limit plus
what was at risk when the breaker fired. *ScansWithinMaxMarkets* has `max_markets` as its bound while
no share of a scan is negative; ratios that add up to more than one make the alphas' share negative
(`watchlist.py:440, 462`), a slice from the end of the list, and then a scan is larger by what that slice may be
wrong by (`ScanLimit`). *WorseNeverPermits* compares a decision after a failed call with the one before it without
the answer's own objections (`StillObjected`): those a failure does take back, and so it can open a paper
trade that the answer stood against, though never a live one. *ExitsStand* says that a validator that closed a
trade never finds another exit for it, unless the observation it was closed on is lost: a
poller that dies inside the file takes rows away for good, and a validator that read them before
writes an exit that a later one may have to replace. The property as it was first
written did not make that exception and TLC had not refuted it within its bounds; the attempt to prove it
did, and with a third poll TLC shows the loss as well.

Runs whose property the code violates, each stating what a comment or a log line says:

| Run | Statement | What the code does |
| --- | --- | --- |
| `feed_given_up` (`GivenUpMeansDown`) | "reconnection failed, giving up" | A second handler uses up the attempts after the first has reconnected, and stops the client while it is connected and reported healthy. |
| `shadow_exit_price` (`ExitsAreForwardSideBids`) | "Return side-specific executable exit bid" (`exit_rules.py:51`) | A point of the research runs' trajectories carries the combined ask of both sides; without a bid of the trade's side the exit falls back to it. |

The MC modules also evaluate assumptions, which compare pure algorithms with what they should
compute, over all small inputs:

| Module | What is compared |
| --- | --- |
| `MCCryptoDiscovery` | A complete kline result has every minute of its range once (`CompleteIsWhole`); base and tail merge exactly when they agree (`MergeAgrees`); the validator believes a row exactly when discovery verified it on Binance's candles and its files are whole (`BelievedExactly`), and so for resolution and expiry (`SourcesBelievedExactly`, `ExpiriesBelieved`); what amounts a title's price may be (`PricesOfTitles`). |
| `MCCryptoCohort` | CryptoCohort takes what CohortRules take (`CohortFollowsTheRules`); every fault excludes a row by a reason of its own (`EveryFaultExcludes`); books may be twice the allowed age (`BooksMayBeTwiceAsOld`); which prepared trade is found again (`PreparedFoundExactly`); one position a market and side (`FirstOfMarketAndSide`); later observations leave a chosen exit (`ChoiceStands`); drawdown and verdict of a cohort (`DrawdownIsTheWorstRun`, `PositiveOnlyWhenEarned`); `ConfigurationBounds`. |
| `MCResearchRun` | The run's constants are what the loader makes of the files (`TheListsOfTheRun`); a comparison is the aggregation of its runs (`ComparisonIsTheAggregation`); lists are read as they were written except where they are not (`ReadAsWritten`); trends and trajectories run backwards (`TrajectoriesRunBackwards`); with few markets none is tradable (`FewMarketsAreNeverTradable`, `TradableHasNoReasonAgainstIt`); `UnsafeRunsAreTold`; token ids are looked up, counted and never guessed from outside (`IndexFindsMore`, `OnlyLocalIdsAreGuessed`, `LookupsAreCounted`, `LookupsLeaveNoDoubt`, `FilledPairsMayMix`); `RefreshStopsAtErrors`, `FailuresLeaveTheLists`. |

**Fairness.**
*FeedClient*: weak fairness of `Reconnect(t)`, because the delay is `asyncio.sleep` and the connect is
under `asyncio.wait_for`; and of `SendBatch(t)`, because a send ends or raises. Nothing is assumed of
the network, the receive loops or the runner.
*BookCache*: scans go on, messages are read while the client runs (its loops may end once it has stopped),
sends end, and the keepalive makes `recv` raise on a broken connection; nothing makes a connection break or last.
*MainCycle*: weak fairness of the one task, not of deaths or signals.
*ResearchRun*: weak fairness of the run's step; that now and then all markets are on offer, and
that an alpha read as one is not without a book for ever (strong fairness of those choices), without
which no target could be reached.
*ShadowLoop*: weak fairness of `Collect` alone: an operator who lets it run to its end now and then.
*CryptoDiscovery*: a batch that can go on does or dies, because requests have timeouts and
bounded retries (weak fairness with its ENABLED written out, `BatchCanStep`), and time passes.
*SignalPath*: weak fairness of the path, not of the world's worsening.
The other specifications make safety statements only.

**Deadlock** is not checked where a bound ends the run: `broker` (orders), `shadow_loop`,
`crypto_discovery`, `crypto_cohort` (clock and runs) and `signal_path` (events). The loops that
go on or end explicitly (`Finished`, `Stopped`, `Over`) do check it.

## 4. Proofs

All for every value of the constants that meets the named assumptions, with no bound on
markets, capital, prices, limits, steps, tokens, connects, pollers or runs, except where the
specification itself counts (lives, cycles, runs of a poller). Each `*Proofs` module begins
with the argument in words.

| Module | Stated for the runs' properties | Besides |
| --- | --- | --- |
| `AccountProofs` | `CashConserved`, `AttributionMatchesExposure` | `LosingStreakIsReal`, `AttributionFixedByFirstOpen` |
| `RiskChainProofs` | `BooksAgree`, `AccountSpec`, `ExitTakesWhatItSold`, `ExposureBounded`, `LossesBounded`, `BreakerNeverOverridden`, `LockoutIsPermanent` | `LossBoundedByCost`, the chain implements `BrokerSpec`, `ProbesMatchBook` |
| `OutsideDataProofs` | `HealthNotOverstated`, `UpMeansListening`, `EntriesUncrossed`, `FeedsAsPromised` | `DiscoveryInv`, `PromiseInv` |
| `MainCycleProofs` | `TradesAreAudited`, `LedgeredIsSaved`, `PositionsBounded`, `TrippedNeverTrades`, `OutcomesNeverMix`, `SyncedBookIsReal`, `CachesAreReplicas` | `FlagsFollowStreaks`; trader, breaker and ledger are used as their specifications allow |
| `ResearchRunProofs` | `ScansWithinMaxMarkets`, `NotAskedTooOften` | `RunInv` |
| `ShadowLoopProofs` | `ProbabilityEntriesPassedTheGate`, `TriggeredExitsStand`, `LockoutLasts` | `LoopInv` |
| `CryptoCohortProofs` | `NoPositionPastExpiry`, `PositionsStartFresh`, `ExitsStand`, `PreparedRecordsPreserved` | `CohortInv`; the cohort reads the promised feed |
| `SignalPathProofs` | `RunnerNeverTrades`, `NothingInvented`, `WorseNeverPermits` | `PathInv` |

*AccountProofs*. The lemmas count units: what `Total` does when a market's share is raised or
cleared. `AccountInv` (types, `CashConserved`, `AttributionMatchesExposure`,
`LosingStreakIsReal`) is inductive as a conjunction; the types carry the arithmetic of
the rest.

*RiskChainProofs*. A broker step is a ledger step or leaves the ledger alone. That needs
`BooksAgree`: `submit_sell` computes its result from the share book's cost, so if the two books
disagreed the close would not be "proceeds minus what the ledger holds". With it the ledger's
invariant carries over for free. `ExitTakesWhatItSold` is proved for `~AllowPartial`, the
default and what every caller configures: with partial fills `submit_sell` deletes the whole
position (`sim_broker.py:327`) and the statement is false. For the chain, `LoopInv` ties probes to
positions with the phase of the loop. `MoneyInv` bounds exposure and losses together: a close turns
exposure into loss, so for the current day (and week) it bounds *profit minus exposure*
from below, for earlier ones the profit, and says that later ones have lost nothing.
An entry is allowed only while the limit holds, which restores the bound
with the larger exposure; a close moves from one term to the other; time only forgets.
A lockout follows from the Governor's refusal and the absence of anything to close.

*OutsideDataProofs*, the feed. Two facts make the invariants inductive. `LaterTasksUnborn`: the tasks of
connects to come do not exist yet, so a connect replaces none that is
under way. `ConnectedHasSocket`: a connected client has a socket until it is shut down, so
the latest receive loop never finds its loop condition false while the client is up.

*OutsideDataProofs*, crypto discovery. What a request asks for is either not believed or has one
candle of every minute of its range, in order; all but the last minute of the range are over when
the page is read, so their highs are the exchange's for good (`ResultHolds`, for each of the two
sources and for the one that is chosen). The last minute of the preload may still be open, and the tail starts with it
(`TailStartIs`), so a merge that is complete has the true high of every minute up to the last but one before
the entry (`MergedHigh`), and the verdict is made on those. `DiscoveryInv` carries that from step to
step: `MarketTyped`, `BatchTyped`, the order of the times (`Timeline`), what base and tail claim
(`BaseHolds`, `TailHolds`), what rows rest on (`RowsHold`). Pages are put together by `FlattenSeq`, whose
recursive function is shown to exist by induction over numbers.

*OutsideDataProofs*, the feed that discovery promises (`DiscoveryFeeds`). The hard part of the refinement of
`CandidateFeed` is that a row can be verified exactly when Binance served its history
(`VerifiableWhenBinance`): a complete result's page audits cover its range (`PagesCover`); those of
base and tail, numbered anew, stand before `_page_audit_reasons`, which recounts the candles of every page
(`MergedPages`, `CountIn`); so of all the reasons of `historical_evidence_integrity_reasons` none applies
(`RowSays`, `RulesBind`, `FilesBind`) but the binding of the artifact, which carries the true
source where the row says Binance. `PromiseInv` adds that the entry is a whole minute, later than all rows on file
when it is committed to, and that the rows being written are one file's; what a death leaves of them is too
(`PartPublishable`).

*MainCycleProofs*. `StageInv` is what is known of the signal in hand at each await (what is saved,
that the breaker has not tripped, that the cap was free when it was judged); `RecordsInv` how far
ledger, order rows and positions may be apart, market by market: the ledger
hears of a fill last, so its notional is at most what trader and database hold; `MoneyInv` bounds the
position that is built on a check made before it. A crash restarts trader and ledger empty and leaves
the rows.

*The order book caches* (last part of `MainCycleProofs`). `BookInv`: types; the wire carries messages about
books of their tokens; nobody is served unless the socket is up; and who is served sees the exchange's book once
the wire is read, or is unsure (`ServedSeeTheirBook`). That is why a snapshot or an update can be applied at any delay. The
refinement maps the wire to the views it will produce, a recursive function of its length; that a message at
its end only adds a view at the end is an induction over numbers, and that a message of a replaced
socket only makes a prefix of the views unsure (`DoubtUnderWay`) is another: what follows a snapshot does not depend on
what was there before.

*ResearchRunProofs*. Whatever the floats are truncated to, the three shares add up to the size of the scan
(`QuotasFit`), and a share is below zero only if its ratio is, by no more than the product rounds to
(`PartBounds`). A list sliced by a negative share gives at most the list, and leaves discovery that share more
(`SliceAndShare`): hence `ScanLimit`, for all integer ratios. `RunInv` adds
that the three sources are apart, that what waits to be sampled may still be asked about, that no
control was asked about before as a control, and that a run saves in its order.

*ShadowLoopProofs*. An exit stands because no two observations that can meet in a file have the same
time and trade. `Sightings` is the set of those that can still meet, wherever they are: on file, in the memory
of a poller, or in a trajectory not yet read for the trades of today; `LoopInv` says that they are
distinct, that identifiers are given once, that a closed trade was decided on some of them, and that
rows and trades of the probability types have passed their gate. The first of the observations a decision is made on
exists because a set of numbers has a least one (`LeastNumber`).

*CryptoCohortProofs*. `CohortInv`: one position a market and side, on file and in the validator; nothing
that is on file or in a poller's memory was observed before the exit of a prepared trade; what a
poller has seen and not written is later than all that is on file; a pending validator may hold a later exit than
the file only if the observation behind the file's is gone. See *ExitsStand* in section 3 for what this
found.

*SignalPathProofs*. `PathInv` follows the data (`DataInv`, `SourcesInv`: an answer is of the source
that was asked), the model (`ChainInv`, `AnswerInv`) and the input of the Governor
(`InputInv`, `Measured`). `RunnerNeverTrades` is then arithmetic: the strategy caps its
own liquidity score, the best lifecycle phase is worth 90, nobody's wallet is watched (50), so the score times 100 is at most
30·100 + 20·90 + 20·100 + 15·50 + 15·90 = 8900 and a paper trade takes 9000. `WorseNeverPermits`
needs the score only to fall with every adverse event, except where a falling score clears a
"signal only" rejection: then it is too low for anything else. Two events replace one objection by another, and
the lemmas compare with the input without the first (`LlmWorse`, `FlagWorse`): a failing call, whose
error flag stands in place of its answer; and `llm_low_confidence`, which takes 3 points in an `elif` chain
(`risk_governor.py:419-423`) and keeps `llm_error` from taking 5. The flags of an answer are a free list
(`schemas.py:59`), so both may be among them.

Assumptions of note: `FeeAssumption` (a fee is at most its notional and grows with
it; basis points within [0, 10000]); `SameDayFills` in `RiskChain`: the latency is shorter than
what is left of the day at each decision. Without it a close may be booked on a day the breaker
has not looked at yet, and the bound is not claimed. All assumptions are evaluated by the runs.

**What stays with TLC.** The liveness properties (`ReconnectsOrGivesUp`, `ShutdownStops`,
`LostBooksComeBack`, `AlphasReachTarget`, `StopsWhenAsked`, `EvidenceIsUsed`, `BatchEnds`,
`PathEnds`): fairness and ENABLED are beyond the prover. The operators of the MC modules' assumptions, and all of Intelligence, TradablePool and CohortRules:
bounded inputs only. The library's induction theorems take an operator as a parameter, which the
installed provers cannot instantiate; where a proof needs induction over numbers it goes through the
set of counterexamples, which has a least element.

## 5. What is not modelled, and what the models leave out

Not modelled: Telegram, dashboards and command line (presentation and transport; their flags are read by no trading
code), monitoring and metrics (statistics over floats), configuration and logging. The reasons are in
`PROJECT.json`. The market maker and the router's smoke script are reached by no program.

Simplifications that no property depends on: the main cycle sleeps by one count of cycles; its Telegram messages
are not awaits of their own; a missing pong is found and handled in one step of `FeedClient`; sends to the socket
do not suspend between message and bookkeeping in `BookCache`; `LlmCalls` leaves out branches that end
like those it has.

Abstractions of single modules: one asset, barriers above the price and candles reduced to their high
in discovery, and a base's clock readings recorded as its end; a time zone's lag is constant (no daylight saving);
wallet statistics; the arithmetic of the execution sweep (its outcome is the book); the replay scripts
(the broker admits any caller).

Divergences between code and documents that were met and have no run of their own:

- *Broker and stress test*: partial exits close the whole position (`sim_broker.py:327`, docstring 17-18); a buy whose
  fee exceeds the cash leaves no record though it takes a number (`sim_broker.py:194`, `:98`); an entry may follow
  a breaker that has released (`run_regime_stress_test.py:284`, docstring 15-16).
- *Risk policy*: daily and market caps (`docs/risk_policy.md:93-95`); a score from 90 is a paper trade where
  line 566 asks for a person; recovery is automatic where section 8 has it manual; the concentration penalty is dead
  (`risk_governor.py:390`).
- *Feed*: the check of `max_subscriptions` races (`subscription_manager.py:77`, `:38`); caches called stale on a
  disconnect are not marked (`websocket_client.py:391`); a message with `bids` or `asks` is read as a
  snapshot (`websocket_message_handler.py:82`, pinned by `tests/test_websocket_message_handler.py:184-197`) although
  the docstring (6-10) calls `book_update` and `delta` incremental: after such a message the cache lacks the levels it
  does not name, and nothing repairs it until the exchange repeats the book; without the websocket `websocket_healthy` is False and every
  signal is rejected.
- *Data and models*: hybrid mode puts an invented book under a real market when the read fails (by design,
  `README.md:125`); in real_readonly `get_market_orderbook` swallows errors that its docstring raises, so the breaker
  never counts them; the two books of a market may be 33 s apart, and a model's minutes lie between book and signal
  (`llm_sampling.py:182`); 429 and 5xx are not retried; the router's fall back to the mock looks like an answer; an empty API key counts as
  configured; a failed call *lifts* an event score below 50 to 50 and withdraws the answer's risk flags, so that
  with high other scores it can still lead to a paper trade, which its documentation excludes (`event_intelligence.py:166-170`); the LLM budget (`docs/phase_5_dry_run.md:217-219`).
- *Runner*: the order of saving in `alpha_repeat.py:205-222`; `smoke_real_readonly.py` compares with "PAPER_TRADE" where
  the values are lower case; `telegram_handler.is_blacklisted` is never called.
- *Ratios*: `run_paper.py:240-251` validates nothing, and the prioritizer lets the parts of a scan exceed `max_markets` (`watchlist.py:440`).
- *Research feedback*: trends and trajectories run newest first, so "improving" is judged backwards and candidates are priced at the oldest
  run's ask; trajectories are exported as a list and loaded as an object (`watchlist.py:321`), so none is ever
  loaded; lines are split at every comma, a question's included; `near_miss_tier` is never loaded; alpha and avoid
  lists rank the same markets, so up to 20 markets none is tradable; appearances count samples, not runs;
  `--min_appearances` is not used; files of empty lists stay; one torn line loses a run's events; token ids "never guessed"
  are taken by position (`token_pair_from_outcomes`).
- *Shadow loop*: 30 trades are required and at most 25 entered; a perfect record never opens the gate; `hard_fail` is
  overwritten by the win rate (`feedback_gate.py:156`); only 20 of 25 rows are polled (`poll_shadow_forward_prices.py:116`); the crypto type is not gated
  (`feedback_gate.py:17-23`); a close for stale data may be revised.
- *Crypto*: Binance's check of a closed candle compares only the end with the server's clock, hence "all minutes but
  the last" in `EntriesUncrossed`; candidates whose history came from Coinbase can never be believed (`docs/architecture_decisions.md:1107-1145`);
  an expired market has probability 0 and a large edge for NO until the validator sees it; a death inside a raw Gamma
  snapshot blocks discovery of the same payload until somebody removes the file; a rejected row keeps later rows of its market
  and side out; a row with a missing number is accepted fresh and never found again (`validate_crypto_threshold_shadow_pnl.py:744`).
