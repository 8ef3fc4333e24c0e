------------------------------ MODULE ShadowLoop ------------------------------
(***************************************************************************)
(* The shadow research loop: scripts that share nothing but files.         *)
(* Discovery writes candidates, gated by the feedback of earlier trades;   *)
(* the paper loop turns them into a batch of trades; pollers observe the   *)
(* books of the open positions for an hour and write what they saw when    *)
(* they end; the collector closes trades on the observations; calibration  *)
(* writes the feedback that gates the next discovery.  Nothing locks the   *)
(* files, and a script may die between two writes or inside one.           *)
(***************************************************************************)
EXTENDS ShadowRules, Sequences, SequencesExt

CONSTANTS
    Leads,          \* edges discovery can find: [market, side, type, ask, confident]
    Legacy,         \* trades a batch of earlier days left open, a sequence of leads
    Points,         \* what a research run can add to the trajectories: [market, combinedAsk, flag]
    Snapshots,      \* books the markets can show: the best bids of both sides
    Markets,
    Pollers,
    MaxEntries,     \* --max_shadow_entries
    MaxPositions,   \* --max_positions
    MaxTime, MaxRuns    \* bounds

ASSUME LoopAssumption ==
    /\ \A l \in Leads \union ToSet(Legacy) :
          l.market \in Markets /\ l.side \in Sides /\ l.type \in EdgeTypes /\ l.ask \in Nat \ {0}
    /\ IsFiniteSet(Leads) /\ Legacy \in Seq(ToSet(Legacy))
    /\ \A q \in Points : q.market \in Markets /\ q.combinedAsk \in Nat \ {NoBid}    \* without a price it is no point
    /\ Snapshots \subseteq [Markets -> [Sides -> Nat]]
    /\ MaxEntries \in Nat \ {0} /\ MaxPositions \in Nat
    /\ MaxTime \in Nat /\ MaxRuns \in Nat

VARIABLES
    clock,          \* times at which something was observed
    found,          \* candidate files: present or not, and their rows
    feedback,       \* edge_feedback_calibration_summary.json
    trades,         \* shadow_trades.csv
    updated,        \* updated_shadow_trades.csv
    stored,         \* forward_observations.jsonl
    trajectory,     \* market_trajectories.json, written by the research runs
    poll,           \* the pollers: running, positions loaded, all_observations
    born,           \* identifiers given out: shadow_trade_id is never reused
    runs            \* short scripts run and crashes, bounded

files == <<found, feedback, trades, updated, stored>>
vars == <<clock, files, trajectory, poll, born, runs>>

Missing == [exists |-> FALSE, rows |-> {}]
File(rows) == [exists |-> TRUE, rows |-> rows]
Idle == [on |-> FALSE, positions |-> <<>>, seen |-> {}]

------------------------------------------------------------------------------
(* discover_multi_edge_candidates.py, discover_crypto_threshold_edges.py *)

GatedRowQuarantineOnly(lead) ==    \* deviation: only a quarantine turns the row into a watched one
    LET status == IF lead.type \in ProbabilityTypes THEN GateStatus(lead.type, feedback) ELSE "enabled"
        passes == status # "quarantined"
    IN  [lead |-> lead, type |-> lead.type, gate |-> IF passes THEN "enabled" ELSE status,
         passed |-> IF passes THEN "true" ELSE "false", edgePass |-> passes, strong |-> passes, supported |-> FALSE,
         defects |-> {}, action |-> IF passes THEN "shadow_entry" ELSE "watch_only", verdict |-> status]

\* apply_feedback_gates: a closed gate turns the row into a watched one.
GatedRow(lead) ==
    LET status == IF lead.type \in ProbabilityTypes THEN GateStatus(lead.type, feedback) ELSE "enabled"
        passes == status = "enabled"
    IN  [lead |-> lead, type |-> lead.type, gate |-> status, passed |-> IF passes THEN "true" ELSE "false",
         edgePass |-> passes, strong |-> passes, supported |-> FALSE, defects |-> {},
         action |-> IF passes THEN "shadow_entry" ELSE "watch_only", verdict |-> GateStatus(lead.type, feedback)]

\* The crypto discovery asks no gate and names none.
CryptoRow(lead) ==
    [lead |-> lead, type |-> lead.type, gate |-> "", passed |-> "", edgePass |-> TRUE, strong |-> TRUE,
     supported |-> TRUE, defects |-> {}, action |-> "shadow_entry", verdict |-> GateStatus(lead.type, feedback)]

IsCrypto(lead) == lead.type = "crypto_price_threshold_v1"

Ran == runs < MaxRuns /\ runs' = runs + 1

Discover(leads, name) ==
    /\ Ran
    /\ found' = [found EXCEPT ![name] = File({GatedRow(l) : l \in leads})]
    /\ UNCHANGED <<clock, feedback, trades, updated, stored, trajectory, poll, born>>

DiscoverCrypto(leads) ==
    /\ Ran
    /\ found' = [found EXCEPT !.crypto = File({CryptoRow(l) : l \in leads})]
    /\ UNCHANGED <<clock, feedback, trades, updated, stored, trajectory, poll, born>>

------------------------------------------------------------------------------
(* run_shadow_paper_loop.py *)

\* The first file that exists is the only one read; rows to be watched are
\* dropped on loading, except from the file written for diagnostics.
LoadedRows ==
    IF found.crypto.exists THEN found.crypto.rows
    ELSE IF found.gated.exists THEN found.gated.rows
    ELSE {r \in found.plain.rows : r.action = "shadow_entry"}

TradeOf(row, id) ==
    [id |-> id, market |-> row.lead.market, side |-> row.lead.side, type |-> row.type, entry |-> row.lead.ask,
     time |-> clock, confident |-> row.lead.confident, verdict |-> row.verdict]

\* The best rows by edge and confidence, as many as a run may enter.
Batches ==
    LET eligible == {r \in LoadedRows : Eligible(r)}
        most == IF Cardinality(eligible) < MaxEntries THEN Cardinality(eligible) ELSE MaxEntries
    IN  {[i \in 1..most |-> TradeOf(SetToSeq(chosen)[i], born + i)] :
            chosen \in {c \in SUBSET eligible : Cardinality(c) = most}}

\* shadow_trades.csv is written anew; the other files of the loop stay.
RunLoop(batch) ==
    /\ Ran
    /\ trades' = batch /\ born' = born + Len(batch)
    /\ UNCHANGED <<clock, found, feedback, updated, stored, trajectory, poll>>

------------------------------------------------------------------------------
(* collect_shadow_forward_data.py *)

\* An observation of the run files, made an observation of the trade.
FromTrajectory(trade, point) ==
    [id |-> trade.id, market |-> trade.market, time |-> point.time, bid |-> [s \in Sides |-> NoBid],
     price |-> point.combinedAsk, flag |-> point.flag]

\* Stored observations of the trade, or of its market whoever they were made
\* for and whenever; of the run files, those after the entry.
Evidence(trade, observations) ==
    {o \in observations : o.id = trade.id \/ o.market = trade.market}
    \union {FromTrajectory(trade, point) : point \in {q \in trajectory : q.market = trade.market /\ q.time > trade.time}}

Updated(trade, observations) ==
    [trade |-> trade, exit |-> DecideExit(trade, Evidence(trade, observations)), basis |-> Evidence(trade, observations)]

\* Every trade of shadow_trades.csv is decided afresh, and only what concerns
\* these trades is kept.
Collected(observations) == UNION {Evidence(trades[i], observations) : i \in DOMAIN trades}
UpdatedTradesOnce(observations) ==    \* deviation: a trade already on file is not decided again
    [i \in DOMAIN trades |->
        LET known == {u \in ToSet(updated) : u.trade = trades[i]}
        IN  IF known = {} THEN Updated(trades[i], observations) ELSE CHOOSE u \in known : TRUE]

UpdatedTrades(observations) == [i \in DOMAIN trades |-> Updated(trades[i], observations)]

Collect ==
    /\ stored' = Collected(stored)
    /\ updated' = UpdatedTrades(stored)
    /\ UNCHANGED <<clock, found, feedback, trades, trajectory, poll, born, runs>>

------------------------------------------------------------------------------
(* poll_shadow_forward_prices.py *)

\* No row of shadow_trades.csv is ever closed, so these are always its first.
Positions == SubSeq(trades, 1, IF Len(trades) < MaxPositions THEN Len(trades) ELSE MaxPositions)

PollStart(p) ==
    /\ ~ poll[p].on
    /\ poll' = [poll EXCEPT ![p] = [on |-> TRUE, positions |-> Positions, seen |-> stored]]
    /\ UNCHANGED <<clock, files, trajectory, born, runs>>

\* build_forward_observation; without a bid on its side nothing is kept.
Observed(trade, book) ==
    [id |-> trade.id, market |-> trade.market, time |-> clock + 1, bid |-> book, price |-> book[trade.side],
     flag |-> "none"]

PollOnce(p, books) ==
    /\ poll[p].on /\ clock < MaxTime
    /\ clock' = clock + 1
    /\ poll' = [poll EXCEPT ![p].seen = @ \union
          {Observed(t, books[t.market]) : t \in {t \in ToSet(poll[p].positions) : books[t.market][t.side] # NoBid}}]
    /\ UNCHANGED <<files, trajectory, born, runs>>

\* What was seen is written over the file, and the trades are decided on it.
PollFinish(p) ==
    /\ poll[p].on
    /\ stored' = Collected(poll[p].seen)
    /\ updated' = UpdatedTrades(poll[p].seen)
    /\ poll' = [poll EXCEPT ![p] = Idle]
    /\ UNCHANGED <<clock, found, feedback, trades, trajectory, born, runs>>

------------------------------------------------------------------------------
(* calibrate_edge_from_shadow_feedback.py *)

\* updated_shadow_trades.csv replaces rows of shadow_trades.csv, where nothing
\* is closed: the closed trades are those of the former.
Closed == {u \in ToSet(updated) : u.exit # NoExit}
ReturnPct(u) == (100 * (u.exit.price - u.trade.entry)) \div u.trade.entry
Won(u) == u.exit.price > u.trade.entry
Lost(u) == u.exit.price < u.trade.entry
OfType(e) == {u \in Closed : u.trade.type = e}
Wins(e) == Cardinality({u \in OfType(e) : Won(u)})
Gain(e) == MapThenSumSet(ReturnPct, OfType(e))

Confident == {u \in Closed : u.trade.confident}
Losses(S) == Cardinality({u \in S : Lost(u)})

\* A correlation needs two trades and variation on both sides: without it the
\* summary holds none, which the gate reads as zero.
Correlations(values) == IF Cardinality(values) > 1 THEN BOOLEAN ELSE {FALSE}
EdgePredictions == Correlations({ReturnPct(u) : u \in Closed})
ConfidencePredictions == Correlations({Won(u) : u \in Closed})

Summaries ==
    {[closed |-> [e \in EdgeTypes |-> Cardinality(OfType(e))], wins |-> [e \in EdgeTypes |-> Wins(e)],
      gain |-> [e \in EdgeTypes |-> Gain(e)], losses |-> Losses(Closed), confidentLosses |-> Losses(Confident),
      edgePredicts |-> edge, confidencePredicts |-> confidence] :
        edge \in EdgePredictions, confidence \in ConfidencePredictions}

Calibrate(summary) ==
    /\ Ran
    /\ feedback' = summary
    /\ UNCHANGED <<clock, found, trades, updated, stored, trajectory, poll, born>>

------------------------------------------------------------------------------
(* The research runs, and scripts that die *)

\* market_trajectories.json grows by a point.
ResearchRunEnds(point) ==
    /\ Ran /\ clock < MaxTime
    /\ clock' = clock + 1
    /\ trajectory' = trajectory \union 
          {[market |-> point.market, time |-> clock + 1, combinedAsk |-> point.combinedAsk, flag |-> point.flag]}
    /\ UNCHANGED <<files, poll, born>>

Prefix(seq, k) == SubSeq(seq, 1, k)

\* The loop dies while it writes its batch.
LoopDies(batch, k) ==
    /\ Ran
    /\ trades' = Prefix(batch, k) /\ born' = born + Len(batch)
    /\ UNCHANGED <<clock, found, feedback, updated, stored, trajectory, poll>>

\* The poller dies: before it writes, inside the observations (sorted by
\* trade), or inside the updated trades.
PollDies(p) ==
    /\ poll[p].on /\ Ran
    /\ poll' = [poll EXCEPT ![p] = Idle]
    /\ UNCHANGED <<clock, found, feedback, trades, trajectory, born>>

DiesPolling(p) == PollDies(p) /\ UNCHANGED <<stored, updated>>
DiesWritingObservations(p, last) ==
    PollDies(p) /\ stored' = {o \in poll[p].seen : o.id <= last} /\ UNCHANGED updated
DiesWritingTrades(p, k) ==
    PollDies(p) /\ stored' = Collected(poll[p].seen) /\ updated' = Prefix(UpdatedTrades(poll[p].seen), k)

\* Calibration dies while it writes: discovery reads an unreadable summary as
\* none.
CalibrationDies ==
    /\ Ran
    /\ feedback' = NoFeedback
    /\ UNCHANGED <<clock, found, trades, updated, stored, trajectory, poll, born>>

------------------------------------------------------------------------------
LegacyTrade(i) ==
    [id |-> i, market |-> Legacy[i].market, side |-> Legacy[i].side, type |-> Legacy[i].type,
     entry |-> Legacy[i].ask, time |-> 0, confident |-> Legacy[i].confident, verdict |-> "ungated"]

Init ==
    /\ clock = 0
    /\ found = [crypto |-> Missing, gated |-> Missing, plain |-> Missing]
    /\ feedback = NoFeedback
    /\ trades = [i \in DOMAIN Legacy |-> LegacyTrade(i)]
    /\ updated = <<>> /\ stored = {} /\ trajectory = {}
    /\ poll = [p \in Pollers |-> Idle]
    /\ born = Len(Legacy) /\ runs = 0

Next ==
    \/ \E leads \in SUBSET {l \in Leads : ~ IsCrypto(l)}, name \in {"gated", "plain"} : Discover(leads, name)
    \/ \E leads \in SUBSET {l \in Leads : IsCrypto(l)} : DiscoverCrypto(leads)
    \/ \E batch \in Batches : RunLoop(batch)
    \/ Collect
    \/ \E p \in Pollers : PollStart(p) \/ PollFinish(p) \/ DiesPolling(p)
    \/ \E p \in Pollers, books \in Snapshots : PollOnce(p, books)
    \/ \E summary \in Summaries : Calibrate(summary)
    \/ \E point \in Points : ResearchRunEnds(point)
    \/ \E batch \in Batches : \E k \in 0..(Len(batch) - 1) : LoopDies(batch, k)
    \/ \E p \in Pollers, last \in 0..MaxEntries : DiesWritingObservations(p, last)
    \/ \E p \in Pollers : \E k \in 0..(Len(trades) - 1) : DiesWritingTrades(p, k)
    \/ CalibrationDies

Fairness == WF_vars(Collect)
Spec == Init /\ [][Next]_vars /\ Fairness

------------------------------------------------------------------------------
(* Properties *)

ObservationsOK(S) ==
    \A o \in S : /\ o.id \in 1..born /\ o.market \in Markets /\ o.time \in 1..clock
                /\ o.bid \in [Sides -> Nat] /\ o.price \in Nat \ {NoBid}

\* The files hold what the scripts expect to read: trades with an identifier
\* given out and an entry price, observations that are priced and not of the
\* future, at most a batch of trades.
TypeOK ==
    /\ clock \in 0..MaxTime /\ runs \in 0..MaxRuns
    /\ \A t \in ToSet(trades) : t.id \in 1..born /\ t.entry > 0 /\ t.time <= clock
    /\ Len(updated) <= Len(Legacy) \/ Len(updated) <= MaxEntries
    /\ ObservationsOK(stored)
    /\ \A p \in Pollers : ObservationsOK(poll[p].seen)

\* An exit is decided by what was observed up to it.  Whenever a script writes
\* the closed trades again, a stop, a profit or a horizon that closed one
\* stands, unless an observation it rests on was lost or one of before it has
\* come to light: no later observation revises it
\* (collect_shadow_forward_data.py, exit_rules.py).
TriggeredExitsStand ==
    [][\A u \in ToSet(updated), v \in ToSet(updated') :
          /\ u.trade = v.trade /\ u.exit.reason \in {"stop_loss", "take_profit", "fixed_horizon"}
          /\ u.basis \subseteq v.basis /\ \A o \in v.basis \ u.basis : o.time > u.exit.at
          => v.exit = u.exit]_vars

\* A trade of a probability type was entered only through a candidate whose
\* gate was open when it was discovered, whichever candidate file was read
\* and however old it was; trades of before the gate aside.
ProbabilityEntriesPassedTheGate ==
    TypeOK /\ \A t \in ToSet(trades) : t.type \in ProbabilityTypes => t.verdict \in {"enabled", "ungated"}

\* No trade, no open gate, no candidate left from when it was open: the type
\* cannot earn the trades that would open its gate.
LockedOut ==
    \A e \in ProbabilityTypes \intersect EdgeTypes :
        /\ \A t \in ToSet(trades) : t.type # e
        /\ \A u \in ToSet(updated) : u.trade.type # e
        /\ ~ Enabled(e, feedback)
        /\ \A name \in DOMAIN found : \A r \in found[name].rows : r.type = e => r.passed # "true"

\* The gate waits for trades that only an open gate lets in: once locked out,
\* the probability types stay so, whatever the other types earn.
LockoutLasts == [][LockedOut => LockedOut']_vars

\* A trade closes at a bid of its own side, observed after its entry
\* (exit_rules.py:56, "Return side-specific executable exit bid").
ExitsAreForwardSideBids ==
    \A u \in Closed : \E o \in u.basis : o.bid[u.trade.side] = u.exit.price /\ o.time > u.trade.time

\* Again and again, no observation on file waits for its trade to be closed:
\* what a script that died left undone, the next one does.
EvidenceIsUsed ==
    []<> \A t \in ToSet(trades) : Evidence(t, stored) # {} => \E u \in Closed : u.trade = t
==============================================================================
