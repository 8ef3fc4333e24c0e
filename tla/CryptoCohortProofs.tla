-------------------------- MODULE CryptoCohortProofs --------------------------
(***************************************************************************)
(* What the validator and the poller guarantee for every market, expiry,   *)
(* horizon, age limit and number of runs, whenever either dies: positions  *)
(* respect the expiry of their market, start fresh, keep their exits and   *)
(* their records; and the feed they read is the one discovery promises.    *)
(*                                                                         *)
(* An exit stands because whatever was not on file when it was chosen is   *)
(* observed later than it: a poller starts from the file and only adds     *)
(* observations of the present, and no other process writes there.  What a *)
(* death inside the file takes away never comes back, not even while a     *)
(* validator that has read the file has yet to write.                      *)
(***************************************************************************)
EXTENDS CryptoCohort, TLAPS

Seen == observations \union poller.seen
Sighting(row, t) == [row |-> row, at |-> t, complete |-> TRUE]

\* The validator's positions are rows that discovery has published, entered
\* before their expiry and closed within it, at least a horizon later.
Entered(row) == RowOK(row) /\ row.entry \in Nat /\ row.entry <= clock

PositionOK(p) ==
    /\ Entered(p.row) /\ p.row.entry < Expiry[p.row.market]
    /\ p.exit # Open => /\ p.exit \in Nat /\ p.exit <= clock
                        /\ p.row.entry < p.exit /\ p.exit - p.row.entry >= Horizon
                        /\ p.exit <= Expiry[p.row.market]

SightingOK(o) == Entered(o.row) /\ o.at \in Nat /\ o.at <= clock /\ o.complete \in BOOLEAN

\* An observation that would have closed the position earlier.
Earlier(p, o) == o.row = p.row /\ o.complete /\ p.row.entry < o.at /\ o.at - p.row.entry >= Horizon /\ o.at < p.exit

\* Of any times of observation one is the first, although nothing bounds them.
WellOrdered(times) == \A T \in SUBSET times : T # {} => \E t \in T : \A u \in T : t <= u

ClockInv == clock \in Nat /\ \A row \in candidates \union snapshots : Entered(row)

OnePerRow(positions) == \A p, q \in positions : p.row = q.row => p = q

PositionsInv ==
    /\ OnePerRow(prepared) /\ OnePerRow(validator.positions)
    /\ \A p \in prepared \union validator.positions : PositionOK(p)
    /\ \A p \in prepared \union validator.positions, o \in Seen : p.exit # Open => ~ Earlier(p, o)

ValidatorInv ==
    /\ validator.on \in BOOLEAN
    /\ ~ validator.on => validator.positions = {}
    /\ \A q \in validator.positions :
          /\ q.row \in Records(prepared) \/ Fresh(q.row, validator.evaluation)
          /\ \A p \in prepared : p.row = q.row /\ p.exit # Open /\ q.exit # Open =>
                p.exit = q.exit \/ (p.exit < q.exit /\ Sighting(p.row, p.exit) \notin Seen)

PollerInv ==
    /\ poller.on \in BOOLEAN /\ DOMAIN poller = {"on", "positions", "seen"}
    /\ ~ poller.on => poller.seen = {} /\ poller.positions = {}
    /\ \A row \in poller.positions : Entered(row)
    /\ \A o \in Seen : SightingOK(o)
    /\ WellOrdered({o.at : o \in Seen})
    /\ poller.on => /\ observations \subseteq poller.seen
                    /\ \A o \in observations, n \in poller.seen \ observations : o.at < n.at

CohortInv == ClockInv /\ PositionsInv /\ ValidatorInv /\ PollerInv
------------------------------------------------------------------------------
(* Choosing an exit *)

\* Exit is the earliest of the valid times, if there is one.
LEMMA ExitFacts ==
    ASSUME PollerInv, NEW row, NEW evaluation
    PROVE  /\ ExitTimes(row, evaluation) = {} => Exit(row, evaluation) = Open
           /\ ExitTimes(row, evaluation) # {} =>
                 /\ Exit(row, evaluation) \in ExitTimes(row, evaluation)
                 /\ \A u \in ExitTimes(row, evaluation) : Exit(row, evaluation) <= u
  <1> DEFINE E == ExitTimes(row, evaluation)
  <1>1. E \subseteq {o.at : o \in Seen}
    BY DEF ExitTimes, Seen
  <1>2. E # {} => \E t \in E : \A u \in E : t <= u
    BY <1>1 DEF PollerInv, WellOrdered
  <1> QED
    BY <1>2 DEF Exit

\* A time is valid because of an observation on file that is.
LEMMA ValidTimes ==
    ASSUME PollerInv, NEW row, NEW evaluation, NEW t
    PROVE  t \in ExitTimes(row, evaluation) <=> \E o \in observations : o.at = t /\ Valid(row, o, evaluation)
  BY DEF ExitTimes

\* Evaluations are made of what has happened.
LEMMA EvaluationIsPast ==
    ASSUME ClockInv, NEW evaluation \in EvaluationTimes
    PROVE  evaluation \in Nat /\ evaluation <= clock
  BY DEF ClockInv, EvaluationTimes, Entered

\* An exit that was chosen lies within the position's time.
LEMMA ExitRange ==
    ASSUME CohortInv, NEW evaluation \in EvaluationTimes, NEW row, Exit(row, evaluation) # Open
    PROVE  /\ Exit(row, evaluation) \in Nat /\ Exit(row, evaluation) <= evaluation
           /\ row.entry < Exit(row, evaluation) /\ Exit(row, evaluation) - row.entry >= Horizon
           /\ Exit(row, evaluation) <= Expiry[row.market]
           /\ \E o \in observations : o.at = Exit(row, evaluation) /\ Valid(row, o, evaluation)
  <1>1. Exit(row, evaluation) \in ExitTimes(row, evaluation)
    BY ExitFacts DEF CohortInv
  <1>2. PICK o \in observations : o.at = Exit(row, evaluation) /\ Valid(row, o, evaluation)
    BY <1>1, ValidTimes DEF CohortInv
  <1>3. o.at \in Nat
    BY <1>2 DEF CohortInv, PollerInv, Seen, SightingOK
  <1> QED
    BY <1>2, <1>3 DEF Valid

\* Nothing that is on file, or that a poller has seen, would have closed the
\* position earlier.
LEMMA NothingEarlier ==
    ASSUME CohortInv, CohortAssumption, NEW evaluation \in EvaluationTimes, NEW row, Entered(row),
           Exit(row, evaluation) # Open, NEW n \in Seen
    PROVE  ~ Earlier([row |-> row, exit |-> Exit(row, evaluation)], n)
  <1> DEFINE x == Exit(row, evaluation)
  <1> SUFFICES ASSUME n.row = row, n.complete, row.entry < n.at, n.at - row.entry >= Horizon, n.at < x
               PROVE  FALSE
    BY DEF Earlier
  <1>1. evaluation \in Nat /\ x \in Nat /\ x <= evaluation /\ x <= Expiry[row.market]
    BY ExitRange, EvaluationIsPast DEF CohortInv
  <1>2. PICK o \in observations : o.at = x
    BY ExitRange
  <1>3. n.at \in Nat /\ Expiry[row.market] \in Nat
    BY DEF CohortInv, PollerInv, SightingOK, Entered, RowOK, CohortAssumption
  <1>4. n \in observations
    BY <1>1, <1>2, <1>3 DEF CohortInv, PollerInv, Seen
  <1>5. Valid(row, n, evaluation)
    BY <1>1, <1>3 DEF Valid
  <1>6. n.at \in ExitTimes(row, evaluation)
    BY <1>4, <1>5, ValidTimes DEF CohortInv
  <1> QED
    BY <1>1, <1>3, <1>6, ExitFacts DEF CohortInv
------------------------------------------------------------------------------
(* The invariant is inductive *)

LEMMA CohortInitInv == FeedAssumption /\ Init => CohortInv
  <1> SUFFICES ASSUME FeedAssumption, Init PROVE CohortInv
    OBVIOUS
  <1> USE DEF Init, FeedInit, OffValidator, OffPoller
  <1>1. ClockInv
    BY DEF ClockInv, FeedAssumption
  <1>2. PositionsInv
    BY DEF PositionsInv, OnePerRow
  <1>3. ValidatorInv
    BY DEF ValidatorInv
  <1>4. PollerInv
    BY DEF PollerInv, Seen, WellOrdered
  <1> QED
    BY <1>1, <1>2, <1>3, <1>4 DEF CohortInv

\* What a time that comes last, or the loss of times, does to an order.
LEMMA WellOrderedGrows ==
    ASSUME NEW S, WellOrdered(S), NEW last \in Nat, \A t \in S : t \in Nat /\ t <= last,
           NEW R, R \subseteq S \union {last}
    PROVE  WellOrdered(R)
  <1> SUFFICES ASSUME NEW T \in SUBSET R, T # {} PROVE \E t \in T : \A u \in T : t <= u
    BY DEF WellOrdered
  <1>1. CASE T \intersect S = {}
    BY <1>1
  <1>2. CASE T \intersect S # {}
    <2>1. PICK t \in T \intersect S : \A u \in T \intersect S : t <= u
      BY <1>2 DEF WellOrdered
    <2> QED
      BY <2>1
  <1> QED
    BY <1>1, <1>2

\* What was entered stays entered as time passes.
LEMMA DiscoverInv == CohortInv /\ Discover => CohortInv'
  <1> SUFFICES ASSUME CohortInv, Discover PROVE CohortInv'
    OBVIOUS
  <1>1. UNCHANGED <<clock, prepared, snapshots, observations, validator, poller>>
    BY DEF Discover, Publish, files, scripts
  <1>2. \A row \in candidates' : Entered(row)'
    <2>1. PICK entry \in {t \in 0..clock : t % PerMinute = 0} :
            \E recommended \in SUBSET Markets, history \in Histories :
            \E oldest \in [recommended -> Evidence(entry)] : candidates' = Batch(entry, oldest, history)
      BY DEF Discover, Publish
    <2>2. PICK recommended \in SUBSET Markets, history \in Histories :
            \E oldest \in [recommended -> Evidence(entry)] : candidates' = Batch(entry, oldest, history)
      BY <2>1
    <2>3. PICK oldest \in [recommended -> Evidence(entry)] : candidates' = Batch(entry, oldest, history)
      BY <2>2
    <2> SUFFICES ASSUME NEW row \in candidates' PROVE Entered(row)'
      OBVIOUS
    <2>4. PICK m \in recommended : row = Row(m, entry, oldest[m], m \in TouchMarkets => history = "binance")
      BY <2>3 DEF Batch
    <2>5. entry \in Nat /\ entry <= clock'
      BY <1>1 DEF CohortInv, ClockInv
    <2> QED
      BY <2>4, <2>5 DEF Entered, RowOK, Row
  <1>3. ClockInv'
    BY <1>1, <1>2 DEF CohortInv, ClockInv, Entered
  <1>4. PositionsInv'
    BY <1>1 DEF CohortInv, PositionsInv, OnePerRow, PositionOK, Entered, Earlier, Seen
  <1>5. ValidatorInv'
    BY <1>1 DEF CohortInv, ValidatorInv, Records, Seen
  <1>6. PollerInv'
    BY <1>1 DEF CohortInv, PollerInv, Entered, SightingOK, Seen
  <1> QED
    BY <1>3, <1>4, <1>5, <1>6 DEF CohortInv

LEMMA TickInv == CohortInv /\ Tick => CohortInv'
  <1> SUFFICES ASSUME CohortInv, Tick PROVE CohortInv'
    OBVIOUS
  <1>1. /\ UNCHANGED <<candidates, prepared, snapshots, observations, validator, poller>>
        /\ clock' = clock + 1
    BY DEF Tick, TimePasses, files, scripts
  <1>2. clock \in Nat /\ clock' \in Nat
    BY <1>1 DEF CohortInv, ClockInv
  <1>3. ASSUME NEW row, Entered(row) PROVE Entered(row)'
    BY <1>1, <1>2, <1>3 DEF Entered, RowOK
  <1>4. ClockInv'
    BY <1>1, <1>2, <1>3 DEF CohortInv, ClockInv
  <1>5. ASSUME NEW p, PositionOK(p) PROVE PositionOK(p)'
    BY <1>1, <1>2, <1>3, <1>5 DEF PositionOK
  <1>6. PositionsInv'
    BY <1>1, <1>5 DEF CohortInv, PositionsInv, OnePerRow, Earlier, Seen
  <1>7. ValidatorInv'
    BY <1>1 DEF CohortInv, ValidatorInv, Records, Seen
  <1>8. ASSUME NEW o, SightingOK(o) PROVE SightingOK(o)'
    BY <1>1, <1>2, <1>3, <1>8 DEF SightingOK
  <1>9. PollerInv'
    BY <1>1, <1>3, <1>8 DEF CohortInv, PollerInv, Seen
  <1> QED
    BY <1>4, <1>6, <1>7, <1>9 DEF CohortInv

\* A validator chooses exits no earlier than those that stand, and later only if
\* the observation is gone.
LEMMA ValidateInv ==
    ASSUME CohortInv, CohortAssumption, NEW evaluation \in EvaluationTimes, Validate(evaluation)
    PROVE  CohortInv'
  <1>1. /\ UNCHANGED <<clock, candidates, prepared, snapshots, observations, poller>>
        /\ validator' = [on |-> TRUE, evaluation |-> evaluation, positions |-> Positions(evaluation)]
    BY DEF Validate, feed, files
  <1>2. Seen' = Seen
    BY <1>1 DEF Seen
  <1>3. evaluation \in Nat /\ evaluation <= clock
    BY EvaluationIsPast DEF CohortInv
  <1>4. ASSUME NEW q \in Positions(evaluation)
        PROVE  /\ q.row \in candidates /\ Entered(q.row) /\ q.exit = Exit(q.row, evaluation)
               /\ Accepts(q.row, evaluation) /\ q = [row |-> q.row, exit |-> q.exit]
    BY <1>4 DEF Positions, CohortInv, ClockInv
  <1>5. ASSUME NEW q \in Positions(evaluation) PROVE PositionOK(q)
    <2>1. Expiry[q.row.market] \in Nat /\ q.row.entry \in Nat /\ q.row.entry <= evaluation
      BY <1>4, <1>5 DEF Entered, RowOK, CohortAssumption, Accepts, Acceptable
    <2>2. q.row.entry < Expiry[q.row.market]
      BY <1>3, <1>4, <1>5, <2>1 DEF Accepts, Acceptable
    <2>3. CASE q.exit = Open
      BY <1>4, <1>5, <2>2, <2>3 DEF PositionOK
    <2>4. CASE q.exit # Open
      <3>1. /\ q.exit \in Nat /\ q.exit <= evaluation /\ q.row.entry < q.exit
            /\ q.exit - q.row.entry >= Horizon /\ q.exit <= Expiry[q.row.market]
        BY <1>4, <1>5, <2>4, ExitRange
      <3>2. q.exit <= clock
        BY <1>3, <3>1 DEF CohortInv, ClockInv
      <3> QED
        BY <1>4, <1>5, <2>2, <3>1, <3>2 DEF PositionOK
    <2> QED
      BY <2>3, <2>4
  <1>6. ASSUME NEW q \in Positions(evaluation), q.exit # Open, NEW o \in Seen PROVE ~ Earlier(q, o)
    BY <1>4, <1>6, NothingEarlier
  <1>7. PositionsInv'
    <2>1. \A p \in prepared \union Positions(evaluation) : PositionOK(p)'
      BY <1>1, <1>5 DEF CohortInv, PositionsInv, PositionOK, Entered
    <2>2. \A p \in prepared \union Positions(evaluation), o \in Seen : p.exit # Open => ~ Earlier(p, o)
      BY <1>6 DEF CohortInv, PositionsInv
    <2>3. OnePerRow(prepared) /\ OnePerRow(Positions(evaluation))
      BY <1>4 DEF CohortInv, PositionsInv, OnePerRow
    <2> QED
      BY <1>1, <1>2, <2>1, <2>2, <2>3 DEF PositionsInv, Earlier, OnePerRow
  <1>8. ASSUME NEW q \in Positions(evaluation), NEW p \in prepared, p.row = q.row, p.exit # Open, q.exit # Open
        PROVE  p.exit = q.exit \/ (p.exit < q.exit /\ Sighting(p.row, p.exit) \notin Seen)
    <2>1. PICK o \in observations : o.at = q.exit /\ Valid(q.row, o, evaluation)
      BY <1>4, <1>8, ExitRange
    <2>2. PositionOK(p) /\ PositionOK(q)
      BY <1>5, <1>8 DEF CohortInv, PositionsInv
    <2>3. ~ Earlier(p, o)
      BY <1>8 DEF CohortInv, PositionsInv, Seen
    <2>4. ~ (q.exit < p.exit)
      BY <1>8, <2>1, <2>3 DEF Earlier, Valid
    <2>5. ASSUME p.exit < q.exit PROVE Sighting(p.row, p.exit) \notin Seen
      <3> SUFFICES ASSUME Sighting(p.row, p.exit) \in Seen PROVE FALSE
        OBVIOUS
      <3>1. ~ Earlier(q, Sighting(p.row, p.exit))
        BY <1>6, <1>8
      <3> QED
        BY <1>8, <2>2, <2>5, <3>1 DEF Earlier, Sighting, PositionOK
    <2> QED
      BY <1>8, <2>2, <2>4, <2>5 DEF PositionOK
  <1>9. ASSUME NEW q \in Positions(evaluation) PROVE q.row \in Records(prepared) \/ Fresh(q.row, evaluation)
    BY <1>4, <1>9 DEF Accepts, Acceptable, Reused
  <1>10. ValidatorInv'
    BY <1>1, <1>2, <1>8, <1>9 DEF ValidatorInv, Records, Fresh, Sighting
  <1>11. ClockInv'
    BY <1>1 DEF CohortInv, ClockInv, Entered
  <1>12. PollerInv'
    BY <1>1, <1>2 DEF CohortInv, PollerInv, Entered, SightingOK
  <1> QED
    BY <1>7, <1>10, <1>11, <1>12 DEF CohortInv
\* However a validator ends, shadow_trades.csv holds positions of before or
\* positions it had evaluated.
LEMMA ValidatorEndInv ==
    ASSUME CohortInv, validator' = OffValidator, prepared' = prepared \/ prepared' \subseteq validator.positions,
           snapshots' \subseteq snapshots \union Records(prepared),
           UNCHANGED <<clock, candidates, observations, poller>>
    PROVE  CohortInv'
  <1>1. Seen' = Seen
    BY DEF Seen
  <1>2. \A p \in prepared : Entered(p.row)
    BY DEF CohortInv, PositionsInv, PositionOK
  <1>3. ClockInv'
    BY <1>2 DEF CohortInv, ClockInv, Entered, Records
  <1>4. prepared' \union validator'.positions \subseteq prepared \union validator.positions
    BY DEF OffValidator
  <1>5. PositionsInv'
    <2>1. OnePerRow(prepared') /\ OnePerRow(validator'.positions)
      BY DEF CohortInv, PositionsInv, OnePerRow, OffValidator
    <2> QED
      BY <1>1, <1>4, <2>1 DEF CohortInv, PositionsInv, OnePerRow, PositionOK, Entered, Earlier
  <1>6. ValidatorInv'
    BY DEF ValidatorInv, OffValidator
  <1>7. PollerInv'
    BY <1>1 DEF CohortInv, PollerInv, Entered, SightingOK
  <1> QED
    BY <1>3, <1>5, <1>6, <1>7 DEF CohortInv

LEMMA ValidatorEnds == CohortInv /\ (ValidateWrite \/ ValidateDies) => CohortInv'
  <1> SUFFICES ASSUME CohortInv, ValidateWrite \/ ValidateDies PROVE CohortInv'
    OBVIOUS
  <1>1. validator' = OffValidator /\ UNCHANGED <<clock, candidates, observations, poller>>
    BY DEF ValidateWrite, ValidateDies, feed
  <1>2. (prepared' = prepared \/ prepared' \subseteq validator.positions) /\ snapshots' \subseteq snapshots \union Records(prepared)
    BY DEF ValidateWrite, ValidateDies, Snapshot
  <1> QED
    BY <1>1, <1>2, ValidatorEndInv

LEMMA PollStartInv == CohortInv /\ PollStart => CohortInv'
  <1> SUFFICES ASSUME CohortInv, PollStart PROVE CohortInv'
    OBVIOUS
  <1>1. /\ UNCHANGED <<clock, candidates, prepared, snapshots, observations, validator>>
        /\ ~ poller.on
        /\ poller' = [on |-> TRUE, positions |-> {p.row : p \in {q \in prepared : q.exit = Open}}, seen |-> observations]
    BY DEF PollStart, feed, files
  <1>2. Seen' = Seen
    BY <1>1 DEF Seen, CohortInv, PollerInv
  <1>3. ClockInv'
    BY <1>1 DEF CohortInv, ClockInv, Entered
  <1>4. PositionsInv'
    BY <1>1, <1>2 DEF CohortInv, PositionsInv, OnePerRow, PositionOK, Entered, Earlier
  <1>5. ValidatorInv'
    BY <1>1, <1>2 DEF CohortInv, ValidatorInv, Records
  <1>6. \A row \in poller'.positions : Entered(row)'
    BY <1>1 DEF CohortInv, PositionsInv, PositionOK, Entered
  <1>7. PollerInv'
    BY <1>1, <1>2, <1>6 DEF CohortInv, PollerInv, SightingOK, Entered
  <1> QED
    BY <1>3, <1>4, <1>5, <1>7 DEF CohortInv

\* What is observed now is later than all that was seen, and than every exit.
LEMMA PollOnceInv == CohortInv /\ PollOnce => CohortInv'
  <1> SUFFICES ASSUME CohortInv, PollOnce PROVE CohortInv'
    OBVIOUS
  <1>1. PICK complete \in BOOLEAN :
           poller' = [poller EXCEPT !.seen =
                        @ \union {[row |-> row, at |-> clock, complete |-> complete] : row \in poller.positions}]
    BY DEF PollOnce
  <1> DEFINE New == {[row |-> row, at |-> clock, complete |-> complete] : row \in poller.positions}
  <1>2. /\ UNCHANGED <<clock, candidates, prepared, snapshots, observations, validator>>
        /\ poller.on /\ \A o \in poller.seen : o.at < clock
    BY DEF PollOnce, feed, files
  <1>3. /\ poller'.on = poller.on /\ poller'.positions = poller.positions
        /\ poller'.seen = poller.seen \union New /\ DOMAIN poller' = DOMAIN poller
    BY <1>1 DEF CohortInv, PollerInv
  <1>4. Seen' = Seen \union New /\ Seen = poller.seen
    BY <1>2, <1>3 DEF Seen, CohortInv, PollerInv
  <1>5. clock \in Nat /\ \A n \in New : n.at = clock /\ SightingOK(n)
    BY DEF CohortInv, ClockInv, PollerInv, SightingOK
  <1> HIDE DEF New
  <1>6. ClockInv'
    BY <1>2 DEF CohortInv, ClockInv, Entered
  <1>7. PositionsInv'
    <2>1. ASSUME NEW p \in prepared \union validator.positions, p.exit # Open, NEW n \in New PROVE ~ Earlier(p, n)
      BY <1>5, <2>1 DEF CohortInv, PositionsInv, PositionOK, Earlier
    <2> QED
      BY <1>2, <1>4, <2>1 DEF CohortInv, PositionsInv, OnePerRow, PositionOK, Entered, Earlier
  <1>8. ValidatorInv'
    <2>1. ASSUME NEW q \in validator.positions, NEW p \in prepared, q.exit # Open, p.exit # Open, p.exit < q.exit
          PROVE  Sighting(p.row, p.exit) \notin New
      <3>1. p.exit \in Nat /\ q.exit \in Nat /\ q.exit <= clock
        BY <2>1 DEF CohortInv, PositionsInv, PositionOK
      <3> QED
        BY <1>5, <2>1, <3>1 DEF Sighting
    <2> QED
      BY <1>2, <1>4, <2>1 DEF CohortInv, ValidatorInv, Records
  <1>9. WellOrdered({o.at : o \in Seen'})
    <2>1. WellOrdered({o.at : o \in Seen})
      BY DEF CohortInv, PollerInv
    <2>2. \A t \in {o.at : o \in Seen} : t \in Nat /\ t <= clock
      BY DEF CohortInv, PollerInv, SightingOK
    <2>3. {o.at : o \in Seen'} \subseteq {o.at : o \in Seen} \union {clock}
      BY <1>4, <1>5
    <2> HIDE DEF Seen
    <2> QED
      BY <1>5, <2>1, <2>2, <2>3, WellOrderedGrows
  <1>10. PollerInv'
    <2>1. \A o \in Seen' : SightingOK(o)'
      BY <1>2, <1>4, <1>5 DEF CohortInv, PollerInv, SightingOK, Entered
    <2>2. \A row \in poller'.positions : Entered(row)'
      BY <1>2, <1>3 DEF CohortInv, PollerInv, Entered
    <2>3. observations' \subseteq poller'.seen
      BY <1>2, <1>3 DEF CohortInv, PollerInv
    <2>4. \A o \in observations', n \in poller'.seen \ observations' : o.at < n.at
      BY <1>2, <1>3, <1>5 DEF CohortInv, PollerInv
    <2> QED
      BY <1>2, <1>3, <1>9, <2>1, <2>2, <2>3, <2>4 DEF CohortInv, PollerInv
  <1> QED
    BY <1>6, <1>7, <1>8, <1>10 DEF CohortInv

\* However a poller ends, the file holds nothing that it had not seen.
LEMMA PollerEndInv ==
    ASSUME CohortInv, poller' = OffPoller, observations' \subseteq Seen,
           UNCHANGED <<clock, candidates, prepared, snapshots, validator>>
    PROVE  CohortInv'
  <1>1. Seen' \subseteq Seen
    BY DEF Seen, OffPoller
  <1>2. ClockInv'
    BY DEF CohortInv, ClockInv, Entered
  <1>3. PositionsInv'
    BY <1>1 DEF CohortInv, PositionsInv, OnePerRow, PositionOK, Entered, Earlier
  <1>4. ValidatorInv'
    BY <1>1 DEF CohortInv, ValidatorInv, Records
  <1>5. WellOrdered({o.at : o \in Seen'})
    <2>1. {o.at : o \in Seen'} \subseteq {o.at : o \in Seen}
      BY <1>1
    <2> QED
      BY <2>1 DEF CohortInv, PollerInv, WellOrdered
  <1>6. PollerInv'
    BY <1>1, <1>5 DEF CohortInv, PollerInv, SightingOK, Entered, OffPoller
  <1> QED
    BY <1>2, <1>3, <1>4, <1>6 DEF CohortInv

LEMMA PollerEnds == CohortInv /\ (PollFinish \/ PollDies) => CohortInv'
  <1> SUFFICES ASSUME CohortInv, PollFinish \/ PollDies PROVE CohortInv'
    OBVIOUS
  <1>1. poller' = OffPoller /\ UNCHANGED <<clock, candidates, prepared, snapshots, validator>>
    BY DEF PollFinish, PollDies, feed
  <1>2. observations' \subseteq Seen
    BY DEF PollFinish, PollDies, Seen
  <1> QED
    BY <1>1, <1>2, PollerEndInv

LEMMA OthersInv == CohortInv /\ (UNCHANGED vars \/ \E m \in Flaky : Avoid(m)) => CohortInv'
  <1> SUFFICES ASSUME CohortInv, UNCHANGED vars \/ \E m \in Flaky : Avoid(m) PROVE CohortInv'
    OBVIOUS
  <1>1. UNCHANGED <<clock, candidates, prepared, snapshots, observations, validator, poller>>
    BY DEF Avoid, vars, feed, files, scripts
  <1>2. ClockInv' /\ PositionsInv'
    BY <1>1 DEF CohortInv, ClockInv, PositionsInv, OnePerRow, PositionOK, Entered, Earlier, Seen
  <1>3. ValidatorInv' /\ PollerInv'
    BY <1>1 DEF CohortInv, ValidatorInv, PollerInv, Records, SightingOK, Entered, Seen
  <1> QED
    BY <1>2, <1>3 DEF CohortInv

LEMMA CohortStepInv == CohortAssumption /\ CohortInv /\ [Next]_vars => CohortInv'
  <1> SUFFICES ASSUME CohortAssumption, CohortInv, [Next]_vars PROVE CohortInv'
    OBVIOUS
  <1>1. CASE \E evaluation \in EvaluationTimes : Validate(evaluation)
    BY <1>1, ValidateInv
  <1>2. CASE ~ \E evaluation \in EvaluationTimes : Validate(evaluation)
    BY <1>2, DiscoverInv, TickInv, ValidatorEnds, PollStartInv, PollOnceInv, PollerEnds, OthersInv DEF Next
  <1> QED
    BY <1>1, <1>2

\* Only the end of a validator changes shadow_trades.csv.
LEMMA PreparedChanges == [Next]_vars => prepared' = prepared \/ prepared' \subseteq validator.positions
  BY DEF Next, vars, files, feed, scripts, Discover, Tick, Validate, ValidateWrite, ValidateDies,
         PollStart, PollOnce, PollFinish, PollDies, Avoid

\* Whatever the validator and the poller die of, positions are entered before
\* their market's expiry, nothing earlier than an exit is on file or turns up,
\* and a poller only ever adds to the file what is later than all it holds.
THEOREM CohortInvariant == Spec => []CohortInv
  <1> USE FeedAssumption, CohortAssumption
  <1>1. Init => CohortInv
    BY CohortInitInv
  <1>2. CohortInv /\ [Next]_vars => CohortInv'
    BY CohortStepInv
  <1> QED
    BY <1>1, <1>2, PTL DEF Spec
------------------------------------------------------------------------------
(* What it gives *)

\* No position is entered at or after its market's expiry, or closed after it
\* or before the horizon; observations are of the past.
THEOREM NothingPastExpiry == Spec => []NoPositionPastExpiry
  <1>1. CohortInv => NoPositionPastExpiry
    <2> SUFFICES ASSUME CohortInv PROVE NoPositionPastExpiry
      OBVIOUS
    <2>1. ASSUME NEW p \in prepared
          PROVE  /\ p.exit = Open \/ p.exit >= p.row.entry + Horizon
                 /\ p.row.entry < Expiry[p.row.market] /\ p.exit <= Expiry[p.row.market]
      <3>1. PositionOK(p) /\ Expiry[p.row.market] \in Nat /\ p.row.entry \in Nat /\ Horizon \in Nat
        BY <2>1, CohortAssumption DEF CohortInv, PositionsInv, PositionOK, Entered, RowOK
      <3> QED
        BY <3>1 DEF PositionOK, Open
    <2>2. \A row \in candidates \union Records(prepared) \union snapshots : RowOK(row)
      BY DEF CohortInv, ClockInv, PositionsInv, PositionOK, Entered, Records
    <2>3. \A o \in observations \union poller.seen : RowOK(o.row) /\ o.at <= clock
      BY DEF CohortInv, PollerInv, SightingOK, Entered, Seen
    <2> QED
      BY <2>1, <2>2, <2>3 DEF NoPositionPastExpiry, TypeOK
  <1> QED
    BY <1>1, CohortInvariant, PTL

\* Whoever replaces shadow_trades.csv, and whenever the candidates changed while
\* it evaluated, a position that is new there had fresh evidence.
THEOREM FreshPositions == Spec => PositionsStartFresh
  <1> DEFINE Starts == \A p \in prepared' : p.row \in Records(prepared) \/ Fresh(p.row, validator.evaluation)
  <1>1. CohortInv /\ [Next]_vars => [Starts]_vars
    <2> SUFFICES ASSUME CohortInv, [Next]_vars, NEW p \in prepared'
                 PROVE  p.row \in Records(prepared) \/ Fresh(p.row, validator.evaluation)
      OBVIOUS
    <2>1. prepared' = prepared \/ prepared' \subseteq validator.positions
      BY PreparedChanges
    <2> QED
      BY <2>1 DEF CohortInv, ValidatorInv, Records
  <1> QED
    BY <1>1, CohortInvariant, PTL DEF Spec, PositionsStartFresh

\* An exit that was written stays what it is for as long as the observation that
\* it rests on is on file, and is never replaced by an earlier one.
THEOREM ExitsAreKept == Spec => ExitsStand
  <1> DEFINE Stand == \A p \in prepared, q \in prepared' :
                         p.row = q.row /\ p.exit # Open /\ q.exit # Open =>
                            p.exit = q.exit \/ (p.exit < q.exit /\ ~ OnFile(p.row, p.exit))
  <1>1. CohortInv /\ [Next]_vars => [Stand]_vars
    <2> SUFFICES ASSUME CohortInv, [Next]_vars, NEW p \in prepared, NEW q \in prepared',
                        p.row = q.row, p.exit # Open, q.exit # Open
                 PROVE  p.exit = q.exit \/ (p.exit < q.exit /\ ~ OnFile(p.row, p.exit))
      OBVIOUS
    <2>1. prepared' = prepared \/ prepared' \subseteq validator.positions
      BY PreparedChanges
    <2>2. CASE prepared' = prepared
      BY <2>2 DEF CohortInv, PositionsInv, OnePerRow
    <2>3. CASE prepared' \subseteq validator.positions
      BY <2>3 DEF CohortInv, ValidatorInv, OnFile, Sighting, Seen
    <2> QED
      BY <2>1, <2>2, <2>3
  <1> QED
    BY <1>1, CohortInvariant, PTL DEF Spec, ExitsStand

\* A record of an accepted trade leaves shadow_trades.csv only into a snapshot,
\* even when the validator dies inside the file.
THEOREM RecordsAreKept == Spec => PreparedRecordsPreserved
  <1>1. [Next]_vars => [Records(prepared) \subseteq Records(prepared') \union snapshots']_vars
    <2>1. [Next]_vars => Records(prepared) \subseteq Records(prepared') \union snapshots'
      BY DEF Next, vars, files, feed, scripts, Discover, Tick, Validate, ValidateWrite, ValidateDies,
             PollStart, PollOnce, PollFinish, PollDies, Avoid, Snapshot, Records
    <2> QED
      BY <2>1
  <1> QED
    BY <1>1, PTL DEF Spec, PreparedRecordsPreserved

\* The candidates these scripts read are those of a feed that keeps discovery's
\* promises, and none of the scripts touches it.
THEOREM ReadsThePromisedFeed == Spec => FeedSpec
  <1>1. Init => FeedInit
    BY DEF Init
  <1>2. [Next]_vars => [Publish \/ TimePasses]_<<clock, candidates>>
    BY DEF Next, vars, files, feed, scripts, Discover, Tick, Validate, ValidateWrite, ValidateDies,
           PollStart, PollOnce, PollFinish, PollDies, Avoid
  <1> QED
    BY <1>1, <1>2, PTL DEF Spec, FeedSpec
==============================================================================
