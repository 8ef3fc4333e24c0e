----------------------------- MODULE CryptoCohort -----------------------------
(***************************************************************************)
(* What becomes of the candidates of crypto discovery.  The validator      *)
(* (validate_crypto_threshold_shadow_pnl.py) accepts those whose evidence  *)
(* is a minute old at most, or that it accepted before, as hypothetical    *)
(* positions in shadow_trades.csv, and closes them on observations made    *)
(* later; the poller (poll_shadow_forward_prices.py) makes the             *)
(* observations.  An operator runs one validator and one poller, again and *)
(* again, while new discoveries replace the candidates.                    *)
(***************************************************************************)
EXTENDS CandidateFeed

CONSTANTS
    Flaky,          \* markets an operator may come to avoid
    Expiry,         \* the tick at which a market expires
    Horizon,        \* --min_forward_horizon_minutes, in ticks
    MaxAge,         \* --max_entry_age_minutes, in ticks
    MaxClock, MaxDelay, MaxBatches, MaxPolls, MaxValidations    \* bounds

ASSUME CohortAssumption ==
    /\ Expiry \in [Markets -> Nat] /\ Flaky \subseteq Markets
    /\ Horizon \in Nat /\ MaxAge \in Nat

VARIABLES
    avoid,          \* avoid_candidates.csv
    prepared,       \* shadow_trades.csv: accepted candidates and their exits
    snapshots,      \* candidates that are in some prepared_inputs/shadow_trades_<sha>.csv
    observations,   \* forward_observations.jsonl
    validator,      \* what a validator has evaluated and not yet written
    poller,         \* positions a poller watches, and what it has seen
    batches, polls, validations    \* bounded

feed == <<clock, candidates, batches>>
files == <<prepared, snapshots, observations>>
scripts == <<validator, poller, polls, validations>>
vars == <<feed, avoid, files, scripts>>

Open == -1
OffValidator == [on |-> FALSE, evaluation |-> 0, positions |-> {}]
OffPoller == [on |-> FALSE, positions |-> {}, seen |-> {}]
Records(positions) == {p.row : p \in positions}

------------------------------------------------------------------------------
(* entry_integrity_reasons, evaluate_candidate_rows *)

\* A trade identifier binds every fact of the entry: the record of a trade
\* prepared earlier is found under it only if all of them are the same.
ReusedByMarket(row) == row.market \in {r.market : r \in Records(prepared)}    \* deviation: the market suffices
Reused(row) == row \in Records(prepared)

Fresh(row, evaluation) == evaluation - row.oldest <= MaxAge

\* The history must be that of the primary source; nothing of the future.
Acceptable(row, evaluation, avoided, reused) ==
    /\ row.verifiable
    /\ row.market \notin avoided
    /\ row.entry <= evaluation /\ evaluation < Expiry[row.market]
    /\ reused \/ Fresh(row, evaluation)

AcceptsExpired(row, evaluation) ==    \* deviation: the market's expiry is not looked at
    /\ row.verifiable
    /\ row.market \notin avoid
    /\ row.entry <= evaluation
    /\ Reused(row) \/ Fresh(row, evaluation)

Accepts(row, evaluation) == Acceptable(row, evaluation, avoid, Reused(row))

\* choose_forward_observation: the trade's own, with both books complete, made
\* at least the horizon after the entry and not after expiry or evaluation.
Valid(row, o, evaluation) ==
    /\ o.row = row /\ o.complete
    /\ row.entry < o.at /\ o.at <= evaluation
    /\ o.at - row.entry >= Horizon /\ o.at <= Expiry[row.market]

ExitTimes(row, evaluation) == {o.at : o \in {q \in observations : Valid(row, q, evaluation)}}

ExitLatest(row, evaluation) ==    \* deviation: the last valid observation closes the trade
    IF ExitTimes(row, evaluation) = {} THEN Open
    ELSE CHOOSE t \in ExitTimes(row, evaluation) : \A u \in ExitTimes(row, evaluation) : u <= t

\* build_position: the earliest closes the trade at its own side's bid.
Exit(row, evaluation) ==
    IF ExitTimes(row, evaluation) = {} THEN Open
    ELSE CHOOSE t \in ExitTimes(row, evaluation) : \A u \in ExitTimes(row, evaluation) : t <= u

Positions(evaluation) ==
    {[row |-> row, exit |-> Exit(row, evaluation)] : row \in {c \in candidates : Accepts(c, evaluation)}}

\* Operators evaluate now, or at the entry time of the batch.
EvaluationTimes == {clock} \union {c.entry : c \in candidates}

Validate(evaluation) ==
    /\ ~ validator.on /\ validations < MaxValidations
    /\ validator' = [on |-> TRUE, evaluation |-> evaluation, positions |-> Positions(evaluation)]
    /\ validations' = validations + 1
    /\ UNCHANGED <<feed, avoid, files, poller, polls>>

SnapshotOnce == IF snapshots = {} THEN Records(prepared) ELSE {}    \* deviation: one name for every input
Snapshot == Records(prepared)

\* write_outputs: the file that was the input is kept before it is replaced.
ValidateWrite ==
    /\ validator.on
    /\ snapshots' = snapshots \union Snapshot
    /\ prepared' = validator.positions
    /\ validator' = OffValidator
    /\ UNCHANGED <<feed, avoid, observations, poller, polls, validations>>

\* It dies before it writes, before the file is replaced, or inside it.
ValidateDies ==
    /\ validator.on
    /\ validator' = OffValidator
    /\ \/ UNCHANGED <<prepared, snapshots>>
       \/ /\ snapshots' = snapshots \union Snapshot
          /\ prepared' \in {prepared} \union ((SUBSET validator.positions) \ {validator.positions})
    /\ UNCHANGED <<feed, avoid, observations, poller, polls, validations>>

------------------------------------------------------------------------------
(* poll_shadow_forward_prices.py *)

PollStart ==
    /\ ~ poller.on /\ polls < MaxPolls
    /\ {p \in prepared : p.exit = Open} # {}
    /\ poller' = [on |-> TRUE, positions |-> {p.row : p \in {q \in prepared : q.exit = Open}}, seen |-> observations]
    /\ polls' = polls + 1
    /\ UNCHANGED <<feed, avoid, files, validator, validations>>

\* The books of all its positions, once per tick.
PollOnce ==
    /\ poller.on /\ \A o \in poller.seen : o.at < clock
    /\ \E complete \in BOOLEAN :
          poller' = [poller EXCEPT !.seen =
                        @ \union {[row |-> row, at |-> clock, complete |-> complete] : row \in poller.positions}]
    /\ UNCHANGED <<feed, avoid, files, validator, polls, validations>>

\* collect_and_update rewrites the file with what concerns the trades, or the
\* markets, of shadow_trades.csv as it is now.
Concerns(o) == o.row.market \in {r.market : r \in Records(prepared)}

PollFinish ==
    /\ poller.on
    /\ observations' = {o \in poller.seen : Concerns(o)}
    /\ poller' = OffPoller
    /\ UNCHANGED <<feed, avoid, prepared, snapshots, validator, polls, validations>>

\* It dies with what it saw, or inside the file.
PollDies ==
    /\ poller.on
    /\ poller' = OffPoller
    /\ \/ UNCHANGED observations
       \/ \E t \in 0..clock : observations' = {o \in poller.seen : Concerns(o) /\ o.at <= t}
    /\ UNCHANGED <<feed, avoid, prepared, snapshots, validator, polls, validations>>

\* The operator's list of markets to avoid grows.
Avoid(m) ==
    /\ m \notin avoid /\ m \in {c.market : c \in candidates}
    /\ avoid' = avoid \union {m}
    /\ UNCHANGED <<feed, files, scripts>>

------------------------------------------------------------------------------
Init ==
    /\ FeedInit /\ batches = 0 /\ avoid = {}
    /\ prepared = {} /\ snapshots = {} /\ observations = {}
    /\ validator = OffValidator /\ poller = OffPoller
    /\ polls = 0 /\ validations = 0

Discover ==
    /\ batches < MaxBatches /\ Publish /\ batches' = batches + 1
    /\ \A c \in candidates' : clock - c.entry <= MaxDelay
    /\ UNCHANGED <<avoid, files, scripts>>

Tick == clock < MaxClock /\ TimePasses /\ UNCHANGED <<batches, avoid, files, scripts>>

Next ==
    \/ Discover \/ Tick
    \/ \E evaluation \in EvaluationTimes : Validate(evaluation)
    \/ ValidateWrite \/ ValidateDies
    \/ PollStart \/ PollOnce \/ PollFinish \/ PollDies
    \/ \E m \in Flaky : Avoid(m)

Spec == Init /\ [][Next]_vars

------------------------------------------------------------------------------
(* Properties *)

RowOK(row) ==
    /\ row.market \in Markets
    /\ row.market \notin TouchMarkets => row.verifiable
    /\ row.oldest \in Evidence(row.entry)

TypeOK ==
    /\ \A row \in candidates \union Records(prepared) \union snapshots : RowOK(row)
    /\ \A p \in prepared : p.exit = Open \/ p.exit >= p.row.entry + Horizon
    /\ \A o \in observations \union poller.seen : RowOK(o.row) /\ o.at <= clock

\* No position is entered at or after its market's expiry, or closed after it,
\* although discovery prices an expired market like any other and finds a large
\* edge on its NO side.
NoPositionPastExpiry ==
    TypeOK /\ \A p \in prepared : p.row.entry < Expiry[p.row.market] /\ p.exit <= Expiry[p.row.market]

\* A position enters shadow_trades.csv while its evidence is fresh, or stands
\* there already: a candidate that has grown old is not taken for the trade of
\* an earlier batch in the same market.
PositionsStartFresh ==
    [][\A p \in prepared' : p.row \in Records(prepared) \/ Fresh(p.row, validator.evaluation)]_vars

OnFile(row, t) == [row |-> row, at |-> t, complete |-> TRUE] \in observations

\* A later observation never moves the exit of a trade that was closed, nor does
\* an earlier one turn up.  Only the loss of the observation that closed it, in
\* a poller's death inside the file, lets a later one close the trade.
ExitsStand ==
    [][\A p \in prepared, q \in prepared' :
          p.row = q.row /\ p.exit # Open /\ q.exit # Open =>
             p.exit = q.exit \/ (p.exit < q.exit /\ ~ OnFile(p.row, p.exit))]_vars

\* No record of an accepted trade is lost when a validation replaces, or half
\* replaces, the file it stood in (validate_crypto_threshold_shadow_pnl.py:542).
PreparedRecordsPreserved ==
    [][Records(prepared) \subseteq Records(prepared') \union snapshots']_vars
==============================================================================
