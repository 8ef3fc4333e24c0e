--------------------------- MODULE ShadowLoopProofs ---------------------------
(***************************************************************************)
(* What the shadow loop guarantees for every set of markets, leads, books  *)
(* and pollers and every threshold: trades of the probability types passed *)
(* their gate, no later observation revises a triggered exit, and a type   *)
(* that is locked out stays so.                                            *)
(*                                                                         *)
(* An exit stands because no two observations that can meet in one file    *)
(* have the same time and trade: a time is used once, by a poller or by a  *)
(* research run, and an identifier is given to one trade.  Sightings are   *)
(* the observations that can still meet, wherever they are: on file, in    *)
(* the memory of a poller that may write them much later, or in a          *)
(* trajectory not yet read for the trades of today.                        *)
(***************************************************************************)
EXTENDS ShadowLoop, FiniteSetTheorems, WellFoundedInduction, SequenceTheorems, TLAPS

Distinct(S) == \A o, q \in S : o.time = q.time /\ o.id = q.id => o = q

Sightings ==
    stored \union (UNION {poll[p].seen : p \in Pollers})
           \union {FromTrajectory(t, q) : t \in ToSet(trades), q \in trajectory}

SightingsInv == ObservationsOK(Sightings) /\ Distinct(Sightings)

TrajectoryInv ==
    /\ \A q \in trajectory : q.market \in Markets /\ q.time \in 1..clock /\ q.combinedAsk \in Nat \ {NoBid}
    /\ \A q, r \in trajectory : q.time = r.time => q = r

\* A list of trades, each with an identifier of its own.
TradeOK(t, ids, now) ==
    /\ t.id \in 1..ids /\ t.market \in Markets /\ t.side \in Sides
    /\ t.entry \in Nat \ {0} /\ t.time \in 0..now

ListOK(list, ids, now) ==
    /\ list \in Seq(ToSet(list))
    /\ \A i \in DOMAIN list : TradeOK(list[i], ids, now)
    /\ \A i, j \in DOMAIN list : list[i].id = list[j].id => i = j

FitsABatch(list) == Len(list) <= Len(Legacy) \/ Len(list) <= MaxEntries

TradesInv ==
    /\ ListOK(trades, born, clock) /\ FitsABatch(trades)
    /\ \A i \in DOMAIN trades : trades[i].type \in ProbabilityTypes => trades[i].verdict \in {"enabled", "ungated"}

PollInv ==
    /\ DOMAIN poll = Pollers
    /\ \A p \in Pollers : /\ DOMAIN poll[p] = {"on", "positions", "seen"} /\ poll[p].on \in BOOLEAN
                          /\ ListOK(poll[p].positions, born, clock)

\* A closed trade was decided on observations that are distinct as well.
Decided(u) ==
    /\ u.trade.side \in Sides /\ u.exit = DecideExit(u.trade, u.basis)
    /\ ObservationsOK(u.basis) /\ Distinct(u.basis)

UpdatedInv ==
    /\ updated \in Seq(ToSet(updated)) /\ FitsABatch(updated)
    /\ \A i \in DOMAIN updated : Decided(updated[i])

\* A row of a probability type names its gate, and has passed it only if it
\* stood open.
RowOK(r) ==
    /\ r.lead \in Leads /\ r.type = r.lead.type
    /\ r.type \in ProbabilityTypes => r.gate # "" /\ (r.passed = "true" => r.verdict = "enabled")

RowsInv ==
    /\ DOMAIN found = {"crypto", "gated", "plain"}
    /\ \A name \in DOMAIN found : IsFiniteSet(found[name].rows) /\ \A r \in found[name].rows : RowOK(r)

CountersInv == clock \in 0..MaxTime /\ runs \in 0..MaxRuns /\ born \in Nat

LoopInv ==
    /\ CountersInv /\ RowsInv /\ TradesInv /\ PollInv
    /\ TrajectoryInv /\ SightingsInv /\ UpdatedInv
------------------------------------------------------------------------------
(* Oldest and last observations *)

Below(T, m) == {k \in T : k < m}

\* Numbers, however many, have a least one: there is no smaller set of smaller
\* numbers.
LEMMA LeastNumber ==
    ASSUME NEW T, T \subseteq Nat, T # {}
    PROVE  \E m \in T : \A k \in T : m <= k
  <1> DEFINE F == {Below(T, m) : m \in T}
  <1>1. ASSUME NEW m \in T PROVE Below(T, m) \in FiniteSubsetsOf(Nat)
    <2>1. Below(T, m) \in SUBSET Nat /\ m \in Nat
      BY DEF Below
    <2>2. \A k \in Below(T, m) : k <= m
      BY <2>1 DEF Below
    <2> QED
      BY <2>1, <2>2, FS_BoundedSetOfNaturals DEF FiniteSubsetsOf
  <1>2. F \subseteq FiniteSubsetsOf(Nat) /\ F # {}
    BY <1>1
  <1>3. \E B \in F : \A C \in F : <<C, B>> \notin StrictSubsetOrdering(Nat)
    <2> HIDE DEF F
    <2> QED
      BY <1>2, FS_StrictSubsetOrderingWellFounded, WFMin
  <1>4. PICK m \in T : \A k \in T : <<Below(T, k), Below(T, m)>> \notin StrictSubsetOrdering(Nat)
    BY <1>3
  <1>5. ASSUME NEW k \in T, k < m PROVE FALSE
    <2>1. k \in Nat /\ m \in Nat
      OBVIOUS
    <2>2. Below(T, k) \subseteq Below(T, m)
      <3>1. \A j \in T : j \in Nat /\ (j < k => j < m)
        BY <1>5, <2>1
      <3> QED
        BY <3>1 DEF Below
    <2>3. k \in Below(T, m) /\ k \notin Below(T, k)
      BY <1>5, <2>1 DEF Below
    <2>4. Below(T, k) \in SUBSET Nat /\ Below(T, m) \in SUBSET Nat
      BY DEF Below
    <2> QED
      BY <1>4, <2>2, <2>3, <2>4 DEF StrictSubsetOrdering
  <1>6. \A k \in T : m \in Nat /\ k \in Nat
    OBVIOUS
  <1> QED
    BY <1>5, <1>6

Timed(S) == \A o \in S : o.time \in Nat /\ o.id \in Nat

LEMMA FirstExists ==
    ASSUME NEW S, S # {}, Timed(S)
    PROVE  Earliest(S) \in S /\ \A q \in S \ {Earliest(S)} : ~ Before(q, Earliest(S))
  <1> DEFINE Times == {o.time : o \in S}
  <1>1. PICK t \in Times : \A u \in Times : t <= u
    <2>1. Times \subseteq Nat /\ Times # {}
      BY DEF Timed
    <2> HIDE DEF Times
    <2> QED
      BY <2>1, LeastNumber
  <1> DEFINE Oldest == {o \in S : o.time = t}
             Ids == {o.id : o \in Oldest}
  <1>2. PICK n \in Ids : \A k \in Ids : n <= k
    <2>1. Ids \subseteq Nat /\ Ids # {}
      BY DEF Timed
    <2> HIDE DEF Ids
    <2> QED
      BY <2>1, LeastNumber
  <1>3. PICK o \in S : o.time = t /\ o.id = n
    OBVIOUS
  <1>4. ASSUME NEW q \in S PROVE ~ Before(q, o)
    <2>1. /\ q.time \in Nat /\ o.time \in Nat /\ o.time <= q.time
          /\ q.id \in Nat /\ o.id \in Nat
      BY <1>1, <1>3 DEF Timed
    <2>2. q.time = o.time => o.id <= q.id
      BY <1>2, <1>3
    <2> QED
      BY <2>1, <2>2 DEF Before
  <1> QED
    BY <1>4 DEF Earliest

\* The last one is the first in the reverse order, which is bounded.
LEMMA LastExists ==
    ASSUME NEW S, S # {}, Timed(S), NEW n \in Nat, NEW k \in Nat, \A o \in S : o.time <= n /\ o.id <= k
    PROVE  Latest(S) \in S
  <1> DEFINE Times == {n - o.time : o \in S}
  <1>1. PICK t \in Times : \A u \in Times : t <= u
    <2>1. Times \subseteq Nat /\ Times # {}
      BY DEF Timed
    <2> HIDE DEF Times
    <2> QED
      BY <2>1, LeastNumber
  <1> DEFINE Newest == {o \in S : n - o.time = t}
             Ids == {k - o.id : o \in Newest}
  <1>2. PICK d \in Ids : \A e \in Ids : d <= e
    <2>1. Ids \subseteq Nat /\ Ids # {}
      BY DEF Timed
    <2> HIDE DEF Ids
    <2> QED
      BY <2>1, LeastNumber
  <1>3. PICK o \in S : n - o.time = t /\ k - o.id = d
    OBVIOUS
  <1>4. ASSUME NEW q \in S PROVE ~ Before(o, q)
    <2>1. q.time \in Nat /\ o.time \in Nat /\ q.id \in Nat /\ o.id \in Nat
      BY DEF Timed
    <2>2. n - o.time <= n - q.time
      BY <1>1, <1>3
    <2>3. n - q.time = n - o.time => k - o.id <= k - q.id
      BY <1>2, <1>3
    <2> QED
      BY <2>1, <2>2, <2>3 DEF Before
  <1> QED
    BY <1>4 DEF Latest

LEMMA SetAsSequence ==
    ASSUME NEW S, IsFiniteSet(S)
    PROVE  SetToSeq(S) \in [1..Cardinality(S) -> S]
  <1>1. \E f \in [1..Cardinality(S) -> S] : IsInjective(f)
    BY FS_CardinalityType DEF ExistsBijection, Bijection, Injection
  <1> QED
    BY <1>1 DEF SetToSeq

------------------------------------------------------------------------------
(* Deciding an exit *)

Triggers == {"stop_loss", "take_profit", "fixed_horizon"}

\* ObservationsOK, for as many identifiers and as late a time.
Sound(S, ids, now) ==
    \A o \in S : /\ o.id \in 1..ids /\ o.market \in Markets /\ o.time \in 1..now
                /\ o.bid \in [Sides -> Nat] /\ o.price \in Nat \ {NoBid}

\* Every observation has a price for either side.
LEMMA AllPriced ==
    ASSUME NEW ids, NEW now, NEW B, Sound(B, ids, now), NEW trade, trade.side \in Sides, NEW o \in B
    PROVE  Priced(trade, o)
  BY DEF Sound, Priced, PriceFor

LEMMA ObservationsTimed ==
    ASSUME NEW ids \in Nat, NEW now \in Nat, NEW B, Sound(B, ids, now)
    PROVE  Timed(B) /\ \A o \in B : o.time <= now /\ o.id <= ids
  BY DEF Sound, Timed

\* A trigger was pulled by the first observation that ends the trade: the
\* branch without one finds a horizon only past an observation that would have
\* ended it.
LEMMA TriggeredByTheFirst ==
    ASSUME NEW ids \in Nat, NEW now \in Nat, NEW B, Sound(B, ids, now), NEW trade, trade.side \in Sides,
           DecideExit(trade, B).reason \in Triggers
    PROVE  {o \in B : Ends(trade, o)} # {}
  <1> SUFFICES ASSUME {o \in B : Ends(trade, o)} = {} PROVE FALSE
    OBVIOUS
  <1> DEFINE priced == {o \in B : Priced(trade, o)}
  <1>1. priced = B
    BY AllPriced
  <1>2. B # {}
    BY <1>1 DEF DecideExit, NoExit, Triggers
  <1>3. Latest(B) \in B
    BY <1>2, ObservationsTimed, LastExists
  <1>4. ~ Due(trade, Latest(B))
    BY <1>3, AllPriced DEF Ends
  <1>5. DecideExit(trade, B).reason = "stale_data"
    BY <1>1, <1>2, <1>4 DEF DecideExit
  <1> QED
    BY <1>5 DEF Triggers

LEMMA DecidedByTheFirst ==
    ASSUME NEW ids, NEW now, NEW B, Sound(B, ids, now), NEW trade, trade.side \in Sides,
           NEW o \in B, {q \in B : Ends(trade, q)} # {}, o = Earliest({q \in B : Ends(trade, q)})
    PROVE  DecideExit(trade, B) = [reason |-> EndReason(trade, o), at |-> o.time, price |-> PriceFor(trade, o)]
  BY AllPriced DEF DecideExit

\* Later observations, however many, leave the exit that a trigger decided.
LEMMA TriggeredStand ==
    ASSUME NEW ids \in Nat, NEW now \in Nat, NEW B, NEW C, B \subseteq C, Sound(C, ids, now), Distinct(C),
           NEW trade, trade.side \in Sides, DecideExit(trade, B).reason \in Triggers,
           \A o \in C \ B : o.time > DecideExit(trade, B).at
    PROVE  DecideExit(trade, C) = DecideExit(trade, B)
  <1> DEFINE EndsB == {o \in B : Ends(trade, o)}
             EndsC == {o \in C : Ends(trade, o)}
             x == Earliest(EndsB)
             y == Earliest(EndsC)
  <1>1. Sound(B, ids, now)
    BY DEF Sound
  <1>2. EndsB # {} /\ EndsB \subseteq EndsC /\ Timed(EndsC) /\ Timed(EndsB)
    BY <1>1, TriggeredByTheFirst, ObservationsTimed DEF Timed
  <1>3. x \in EndsB /\ \A q \in EndsB \ {x} : ~ Before(q, x)
    <2> HIDE DEF EndsB
    <2> QED
      BY <1>2, FirstExists
  <1>4. y \in EndsC /\ \A q \in EndsC \ {y} : ~ Before(q, y)
    <2> HIDE DEF EndsB, EndsC
    <2> QED
      BY <1>2, FirstExists
  <1>5. DecideExit(trade, B) = [reason |-> EndReason(trade, x), at |-> x.time, price |-> PriceFor(trade, x)]
    BY <1>1, <1>2, <1>3, DecidedByTheFirst
  <1>6. y \in B
    <2> SUFFICES ASSUME y \notin B PROVE FALSE
      OBVIOUS
    <2>1. y.time > x.time /\ x # y /\ x \in EndsC
      BY <1>2, <1>3, <1>4, <1>5
    <2>2. x.time \in Nat /\ y.time \in Nat
      BY <1>2, <1>3, <1>4 DEF Timed
    <2> QED
      BY <1>4, <2>1, <2>2 DEF Before
  <1>7. x = y
    <2> SUFFICES ASSUME x # y PROVE FALSE
      OBVIOUS
    <2>1. ~ Before(y, x) /\ ~ Before(x, y)
      BY <1>2, <1>3, <1>4, <1>6
    <2>2. x.time \in Nat /\ y.time \in Nat /\ x.id \in Nat /\ y.id \in Nat
      BY <1>2, <1>3, <1>4 DEF Timed
    <2>3. x.time = y.time /\ x.id = y.id
      BY <2>1, <2>2 DEF Before
    <2> QED
      BY <1>3, <1>4, <2>3 DEF Distinct
  <1> QED
    BY <1>2, <1>3, <1>4, <1>5, <1>7, DecidedByTheFirst
------------------------------------------------------------------------------
(* Lists and batches of trades *)

LEMMA PrefixFacts ==
    ASSUME NEW list, list \in Seq(ToSet(list)), NEW k \in 0..Len(list)
    PROVE  /\ Prefix(list, k) \in Seq(ToSet(Prefix(list, k)))
           /\ Len(Prefix(list, k)) = k /\ DOMAIN Prefix(list, k) = 1..k
           /\ \A i \in 1..k : i \in DOMAIN list /\ Prefix(list, k)[i] = list[i]
  <1>1. k \in Nat /\ Len(list) \in Nat /\ k <= Len(list) /\ DOMAIN list = 1..Len(list)
    OBVIOUS
  <1>2. \A i \in 1..k : i \in DOMAIN list /\ list[i] \in ToSet(list)
    BY <1>1 DEF ToSet
  <1>3. /\ Prefix(list, k) \in Seq(ToSet(list))
        /\ Len(Prefix(list, k)) = IF 1 <= k THEN k - 1 + 1 ELSE 0
        /\ \A i \in 1..(k - 1 + 1) : Prefix(list, k)[i] = list[1 + i - 1]
    BY <1>1, <1>2, SubSeqProperties DEF Prefix
  <1>4. Len(Prefix(list, k)) = k /\ DOMAIN Prefix(list, k) = 1..k
    BY <1>1, <1>3
  <1>5. \A i \in 1..k : Prefix(list, k)[i] = list[i]
    BY <1>1, <1>3
  <1>6. Prefix(list, k) \in Seq(ToSet(Prefix(list, k)))
    <2>1. \A i \in 1..k : Prefix(list, k)[i] \in ToSet(Prefix(list, k))
      BY <1>4 DEF ToSet
    <2>2. Prefix(list, k) \in [1..k -> ToSet(Prefix(list, k))]
      BY <1>3, <1>4, <2>1
    <2> QED
      BY <1>1, <2>2
  <1> QED
    BY <1>2, <1>4, <1>5, <1>6

LEMMA PositionsOK ==
    ASSUME TradesInv
    PROVE  ListOK(Positions, born, clock)
  <1> DEFINE k == IF Len(trades) < MaxPositions THEN Len(trades) ELSE MaxPositions
  <1>1. trades \in Seq(ToSet(trades)) /\ k \in 0..Len(trades)
    BY LoopAssumption DEF TradesInv, ListOK
  <1>2. Positions = Prefix(trades, k)
    BY DEF Positions, Prefix
  <1> HIDE DEF k
  <1> QED
    BY <1>1, <1>2, PrefixFacts DEF TradesInv, ListOK

\* A batch is made of rows that were eligible, under new identifiers.
LEMMA PrefixWithin ==
    ASSUME NEW list, list \in Seq(ToSet(list)), NEW k \in 0..Len(list)
    PROVE  ToSet(Prefix(list, k)) \subseteq ToSet(list)
  <1> SUFFICES ASSUME NEW x \in ToSet(Prefix(list, k)) PROVE x \in ToSet(list)
    OBVIOUS
  <1>1. PICK i \in DOMAIN Prefix(list, k) : x = Prefix(list, k)[i]
    BY DEF ToSet
  <1>2. i \in DOMAIN list /\ x = list[i]
    BY <1>1, PrefixFacts
  <1> QED
    BY <1>2 DEF ToSet

LEMMA BatchMembers ==
    ASSUME CountersInv, RowsInv, NEW batch \in Batches
    PROVE  /\ batch \in Seq(ToSet(batch)) /\ Len(batch) <= MaxEntries
           /\ \A i \in DOMAIN batch : \E r \in LoadedRows : Eligible(r) /\ batch[i] = TradeOf(r, born + i)
  <1> DEFINE eligible == {r \in LoadedRows : Eligible(r)}
             most == IF Cardinality(eligible) < MaxEntries THEN Cardinality(eligible) ELSE MaxEntries
  <1>1. PICK chosen \in {c \in SUBSET eligible : Cardinality(c) = most} :
           batch = [i \in 1..most |-> TradeOf(SetToSeq(chosen)[i], born + i)]
    BY DEF Batches
  <1>2. IsFiniteSet(LoadedRows)
    <2>1. \A name \in {"crypto", "gated", "plain"} : IsFiniteSet(found[name].rows)
      BY DEF RowsInv
    <2>2. IsFiniteSet({r \in found.plain.rows : r.action = "shadow_entry"})
      BY <2>1, FS_Subset
    <2> QED
      BY <2>1, <2>2 DEF LoadedRows
  <1>3. IsFiniteSet(eligible) /\ IsFiniteSet(chosen)
    <2>1. eligible \in SUBSET LoadedRows /\ chosen \in SUBSET LoadedRows
      OBVIOUS
    <2> HIDE DEF eligible
    <2> QED
      BY <1>2, <2>1, FS_Subset
  <1>4. SetToSeq(chosen) \in [1..most -> chosen] /\ most \in Nat /\ most <= MaxEntries
    <2>1. Cardinality(eligible) \in Nat
      BY <1>3, FS_CardinalityType
    <2>2. most \in Nat /\ most <= MaxEntries
      BY <2>1, LoopAssumption
    <2> QED
      BY <1>3, <2>2, SetAsSequence
  <1>5. DOMAIN batch = 1..most /\ \A i \in 1..most : batch[i] = TradeOf(SetToSeq(chosen)[i], born + i)
    BY <1>1
  <1>6. \A i \in 1..most : SetToSeq(chosen)[i] \in eligible
    BY <1>4
  <1>7. batch \in Seq(ToSet(batch)) /\ Len(batch) = most
    <2>1. batch = [i \in 1..most |-> batch[i]]
      BY <1>1
    <2>2. \A i \in 1..most : batch[i] \in ToSet(batch)
      BY <1>5 DEF ToSet
    <2> HIDE DEF most
    <2> QED
      BY <1>4, <1>5, <2>1, <2>2
  <1> QED
    BY <1>4, <1>5, <1>6, <1>7

\* What the gate does not hold has passed it.
LEMMA EligiblePassed ==
    ASSUME NEW r, RowOK(r), Eligible(r), r.type \in ProbabilityTypes
    PROVE  r.passed = "true" /\ r.verdict = "enabled"
  BY DEF RowOK, Eligible, HeldByGate

LEMMA LoadedRowsOK ==
    ASSUME RowsInv, NEW r \in LoadedRows
    PROVE  RowOK(r) /\ \E name \in DOMAIN found : r \in found[name].rows
  BY DEF RowsInv, LoadedRows

------------------------------------------------------------------------------
(* Sightings *)

LEMMA EvidenceSighted ==
    ASSUME NEW t \in ToSet(trades), NEW seen, seen \subseteq Sightings
    PROVE  Evidence(t, seen) \subseteq Sightings
  BY DEF Evidence, Sightings

LEMMA CollectedSighted ==
    ASSUME NEW seen, seen \subseteq Sightings
    PROVE  Collected(seen) \subseteq Sightings
  BY EvidenceSighted DEF Collected, ToSet

\* What a script decides, on what any of them has seen, it decides on distinct
\* observations.
LEMMA UpdatedTradesOK ==
    ASSUME LoopInv, NEW seen, seen \subseteq Sightings
    PROVE  /\ UpdatedTrades(seen) \in Seq(ToSet(UpdatedTrades(seen)))
           /\ Len(UpdatedTrades(seen)) = Len(trades)
           /\ \A i \in DOMAIN UpdatedTrades(seen) : Decided(UpdatedTrades(seen)[i])
  <1> DEFINE n == Len(trades)
             list == UpdatedTrades(seen)
  <1>1. trades \in Seq(ToSet(trades)) /\ n \in Nat /\ DOMAIN trades = 1..n
    BY DEF LoopInv, TradesInv, ListOK
  <1>2. list = [i \in 1..n |-> Updated(trades[i], seen)]
    BY <1>1 DEF UpdatedTrades
  <1>3. DOMAIN list = 1..n /\ \A i \in 1..n : list[i] = Updated(trades[i], seen) /\ list[i] \in ToSet(list)
    BY <1>2 DEF ToSet
  <1>4. list \in Seq(ToSet(list)) /\ Len(list) = n
    <2>1. list = [i \in 1..n |-> list[i]]
      BY <1>2, <1>3
    <2> HIDE DEF n, list
    <2> QED
      BY <1>1, <1>3, <2>1
  <1>5. ASSUME NEW i \in 1..n PROVE Decided(Updated(trades[i], seen))
    <2>1. Evidence(trades[i], seen) \subseteq Sightings
      BY <1>1, EvidenceSighted DEF ToSet
    <2>2. trades[i].side \in Sides
      BY <1>1 DEF LoopInv, TradesInv, ListOK, TradeOK
    <2> QED
      BY <2>1, <2>2 DEF LoopInv, SightingsInv, Decided, Updated, ObservationsOK, Distinct
  <1> QED
    BY <1>3, <1>4, <1>5

\* New observations come at a time of their own, one of each trade.
LEMMA SightingsGrow ==
    ASSUME CountersInv, SightingsInv, clock' = clock + 1, born' = born, NEW New, Sightings' \subseteq Sightings \union New,
           \A o \in New : /\ o.id \in 1..born /\ o.market \in Markets /\ o.time = clock + 1
                          /\ o.bid \in [Sides -> Nat] /\ o.price \in Nat \ {NoBid},
           \A o, q \in New : o.id = q.id => o = q
    PROVE  SightingsInv'
  <1>1. clock \in Nat
    BY DEF CountersInv
  <1>2. \A o \in Sightings : o.time \in 1..clock
    BY DEF SightingsInv, ObservationsOK
  <1>3. \A o \in Sightings, q \in New : o.time # q.time
    BY <1>1, <1>2
  <1>4. Distinct(Sightings')
    BY <1>3 DEF SightingsInv, Distinct
  <1>5. \A o \in Sightings' : o.time \in 1..clock'
    BY <1>1, <1>2
  <1>6. ObservationsOK(Sightings)'
    BY <1>5 DEF SightingsInv, ObservationsOK
  <1> QED
    BY <1>4, <1>6 DEF SightingsInv, Distinct

LEMMA SightingsShrink ==
    ASSUME CountersInv, SightingsInv, clock' = clock, born' = born, Sightings' \subseteq Sightings
    PROVE  SightingsInv'
  BY DEF SightingsInv, ObservationsOK, Distinct
------------------------------------------------------------------------------
(* The invariant is inductive *)

LEMMA LoopInitInv == Init => LoopInv
  <1> SUFFICES ASSUME Init PROVE LoopInv
    OBVIOUS
  <1> DEFINE n == Len(Legacy)
  <1>1. n \in Nat /\ DOMAIN Legacy = 1..n /\ \A i \in 1..n : Legacy[i] \in ToSet(Legacy)
    BY LoopAssumption DEF ToSet
  <1>2. trades = [i \in 1..n |-> LegacyTrade(i)] /\ born = n /\ clock = 0 /\ runs = 0
    BY <1>1 DEF Init
  <1>3. CountersInv
    BY <1>1, <1>2, LoopAssumption DEF CountersInv
  <1>4. RowsInv
    <2>1. DOMAIN found = {"crypto", "gated", "plain"} /\ \A name \in DOMAIN found : found[name].rows = {}
      BY DEF Init, Missing
    <2>2. IsFiniteSet({})
      BY FS_EmptySet
    <2> QED
      BY <2>1, <2>2 DEF RowsInv
  <1>5. ListOK(trades, born, clock) /\ Len(trades) = n
    <2>1. DOMAIN trades = 1..n /\ \A i \in 1..n : trades[i] = LegacyTrade(i) /\ trades[i] \in ToSet(trades)
      BY <1>2 DEF ToSet
    <2>2. trades \in [1..n -> ToSet(trades)]
      BY <1>2, <2>1
    <2>3. trades \in Seq(ToSet(trades)) /\ Len(trades) = n
      BY <1>1, <2>2
    <2>4. ASSUME NEW i \in 1..n PROVE TradeOK(LegacyTrade(i), born, clock)
      <3>1. Legacy[i].market \in Markets /\ Legacy[i].side \in Sides /\ Legacy[i].ask \in Nat \ {0}
        BY <1>1, LoopAssumption
      <3> QED
        BY <1>2, <3>1 DEF TradeOK, LegacyTrade
    <2>5. \A i \in 1..n : trades[i].id = i
      BY <2>1 DEF LegacyTrade
    <2> QED
      BY <2>1, <2>3, <2>4, <2>5 DEF ListOK
  <1>6. TradesInv
    BY <1>1, <1>2, <1>5 DEF TradesInv, FitsABatch, LegacyTrade
  <1>7. PollInv
    <2>1. ListOK(<<>>, born, clock)
      BY DEF ListOK, ToSet
    <2> QED
      BY <2>1 DEF Init, PollInv, Idle
  <1>8. TrajectoryInv
    BY DEF Init, TrajectoryInv
  <1>9. SightingsInv
    <2>1. Sightings = {}
      BY DEF Init, Sightings, Idle
    <2> QED
      BY <2>1 DEF SightingsInv, ObservationsOK, Distinct
  <1>10. UpdatedInv
    BY <1>1, LoopAssumption DEF Init, UpdatedInv, ToSet, FitsABatch
  <1> QED
    BY <1>3, <1>4, <1>6, <1>7, <1>8, <1>9, <1>10 DEF LoopInv

\* Scripts that leave the trades, the observations and the clock alone.
LEMMA SameTradesInv ==
    ASSUME LoopInv, RowsInv', runs' \in 0..MaxRuns,
           UNCHANGED <<clock, trades, updated, stored, trajectory, poll, born>>
    PROVE  LoopInv'
  <1>1. CountersInv'
    BY DEF LoopInv, CountersInv
  <1>2. TradesInv' /\ PollInv'
    BY DEF LoopInv, TradesInv, PollInv, ListOK, TradeOK, FitsABatch
  <1>3. TrajectoryInv'
    BY DEF LoopInv, TrajectoryInv
  <1>4. SightingsInv'
    BY DEF LoopInv, SightingsInv, Sightings, ObservationsOK, Distinct
  <1>5. UpdatedInv'
    BY DEF LoopInv, UpdatedInv, Decided, ObservationsOK, Distinct, FitsABatch
  <1> QED
    BY <1>1, <1>2, <1>3, <1>4, <1>5 DEF LoopInv

LEMMA RanCounts == ASSUME CountersInv, Ran PROVE runs' \in 0..MaxRuns
  BY LoopAssumption DEF CountersInv, Ran

LEMMA FiniteImages ==
    ASSUME NEW leads \in SUBSET Leads
    PROVE  IsFiniteSet({GatedRow(l) : l \in leads}) /\ IsFiniteSet({CryptoRow(l) : l \in leads})
  <1>1. IsFiniteSet(leads)
    BY LoopAssumption, FS_Subset
  <1>2. [l \in leads |-> GatedRow(l)] \in Surjection(leads, {GatedRow(l) : l \in leads})
    BY DEF Surjection
  <1>3. [l \in leads |-> CryptoRow(l)] \in Surjection(leads, {CryptoRow(l) : l \in leads})
    BY DEF Surjection
  <1> QED
    BY <1>1, <1>2, <1>3, FS_Surjection

LEMMA GatedRowOK ==
    ASSUME NEW l \in Leads
    PROVE  RowOK(GatedRow(l)) /\ (IsCrypto(l) => RowOK(CryptoRow(l)))
  <1>1. GateStatus(l.type, feedback) \in {"enabled", "quarantined", "watch_only"}
    BY DEF GateStatus
  <1>2. RowOK(GatedRow(l))
    BY <1>1 DEF RowOK, GatedRow
  <1>3. IsCrypto(l) => RowOK(CryptoRow(l))
    BY DEF RowOK, CryptoRow, IsCrypto, ProbabilityTypes
  <1> QED
    BY <1>2, <1>3

LEMMA DiscoverInv ==
    ASSUME LoopInv, NEW leads \in SUBSET {l \in Leads : ~ IsCrypto(l)}, NEW name \in {"gated", "plain"},
           Discover(leads, name)
    PROVE  LoopInv'
  <1>1. RowsInv'
    <2>1. found' = [found EXCEPT ![name] = File({GatedRow(l) : l \in leads})]
      BY DEF Discover
    <2>2. IsFiniteSet({GatedRow(l) : l \in leads}) /\ \A r \in {GatedRow(l) : l \in leads} : RowOK(r)
      BY FiniteImages, GatedRowOK
    <2> QED
      BY <2>1, <2>2 DEF LoopInv, RowsInv, File, RowOK
  <1> QED
    BY <1>1, SameTradesInv, RanCounts DEF LoopInv, Discover

LEMMA DiscoverCryptoInv ==
    ASSUME LoopInv, NEW leads \in SUBSET {l \in Leads : IsCrypto(l)}, DiscoverCrypto(leads)
    PROVE  LoopInv'
  <1>1. RowsInv'
    <2>1. found' = [found EXCEPT !["crypto"] = File({CryptoRow(l) : l \in leads})]
      BY DEF DiscoverCrypto
    <2>2. IsFiniteSet({CryptoRow(l) : l \in leads}) /\ \A r \in {CryptoRow(l) : l \in leads} : RowOK(r)
      BY FiniteImages, GatedRowOK
    <2> QED
      BY <2>1, <2>2 DEF LoopInv, RowsInv, File, RowOK
  <1> QED
    BY <1>1, SameTradesInv, RanCounts DEF LoopInv, DiscoverCrypto

LEMMA CalibrateInv ==
    ASSUME LoopInv, CalibrationDies \/ \E summary \in Summaries : Calibrate(summary)
    PROVE  LoopInv'
  <1>1. Ran /\ UNCHANGED <<clock, found, trades, updated, stored, trajectory, poll, born>>
    BY DEF CalibrationDies, Calibrate
  <1>2. RowsInv'
    BY <1>1 DEF LoopInv, RowsInv, RowOK
  <1> QED
    BY <1>1, <1>2, SameTradesInv, RanCounts DEF LoopInv

LEMMA PollStartInv ==
    ASSUME LoopInv, NEW p \in Pollers, PollStart(p)
    PROVE  LoopInv'
  <1>1. /\ UNCHANGED <<clock, found, trades, updated, stored, trajectory, born, runs>>
        /\ poll' = [poll EXCEPT ![p] = [on |-> TRUE, positions |-> Positions, seen |-> stored]]
    BY DEF PollStart, files
  <1>2. /\ DOMAIN poll' = Pollers /\ poll'[p] = [on |-> TRUE, positions |-> Positions, seen |-> stored]
        /\ \A q \in Pollers \ {p} : poll'[q] = poll[q]
    BY <1>1 DEF LoopInv, PollInv
  <1>3. PollInv'
    <2>1. ListOK(Positions, born', clock')
      BY <1>1, PositionsOK DEF LoopInv
    <2>2. \A q \in Pollers \ {p} : ListOK(poll'[q].positions, born', clock')
      BY <1>1, <1>2 DEF LoopInv, PollInv
    <2>3. ListOK(poll'[p].positions, born', clock')
      BY <1>2, <2>1
    <2>4. \A q \in Pollers \ {p} : DOMAIN poll'[q] = {"on", "positions", "seen"} /\ poll'[q].on \in BOOLEAN
      BY <1>2 DEF LoopInv, PollInv
    <2>5. DOMAIN poll'[p] = {"on", "positions", "seen"} /\ poll'[p].on \in BOOLEAN
      BY <1>2
    <2> QED
      BY <1>2, <2>2, <2>3, <2>4, <2>5 DEF PollInv
  <1>4. Sightings' \subseteq Sightings
    BY <1>1, <1>2 DEF Sightings
  <1>5. SightingsInv' /\ CountersInv'
    BY <1>1, <1>4, SightingsShrink DEF LoopInv, CountersInv
  <1>6. RowsInv' /\ TradesInv' /\ TrajectoryInv'
    BY <1>1 DEF LoopInv, RowsInv, RowOK, TradesInv, TrajectoryInv, ListOK, TradeOK, FitsABatch
  <1>7. UpdatedInv'
    BY <1>1 DEF LoopInv, UpdatedInv, Decided, ObservationsOK, Distinct, FitsABatch
  <1> QED
    BY <1>3, <1>5, <1>6, <1>7 DEF LoopInv
\* A new batch brings identifiers nobody has seen; what a research run noted
\* before it can still become an observation of its trades.
LEMMA NewBatchInv ==
    ASSUME LoopInv, NEW batch \in Batches, NEW k \in 0..Len(batch), trades' = Prefix(batch, k), born' = born + Len(batch),
           runs' \in 0..MaxRuns, UNCHANGED <<clock, found, updated, stored, trajectory, poll>>
    PROVE  LoopInv'
  <1>1. /\ batch \in Seq(ToSet(batch)) /\ Len(batch) \in Nat /\ Len(batch) <= MaxEntries /\ DOMAIN batch = 1..Len(batch)
        /\ \A i \in DOMAIN batch : \E r \in LoadedRows : Eligible(r) /\ batch[i] = TradeOf(r, born + i)
    BY BatchMembers DEF LoopInv
  <1>2. /\ trades' \in Seq(ToSet(trades')) /\ Len(trades') = k /\ DOMAIN trades' = 1..k
        /\ \A i \in 1..k : i \in DOMAIN batch /\ trades'[i] = batch[i]
    BY <1>1, PrefixFacts
  <1>3. clock \in Nat /\ born \in Nat /\ born' \in Nat /\ born <= born' /\ k \in Nat /\ k <= Len(batch)
    BY <1>1 DEF LoopInv, CountersInv
  <1>4. ASSUME NEW i \in 1..k
        PROVE  /\ trades'[i].id = born + i /\ TradeOK(trades'[i], born', clock')
               /\ trades'[i].type \in ProbabilityTypes => trades'[i].verdict = "enabled"
    <2>1. PICK r \in LoadedRows : Eligible(r) /\ trades'[i] = TradeOf(r, born + i)
      BY <1>1, <1>2
    <2>2. RowOK(r)
      BY <2>1, LoadedRowsOK DEF LoopInv
    <2>3. r.lead.market \in Markets /\ r.lead.side \in Sides /\ r.lead.ask \in Nat \ {0}
      BY <2>2, LoopAssumption DEF RowOK
    <2>4. born + i \in 1..born'
      BY <1>1, <1>3
    <2>5. TradeOK(trades'[i], born', clock')
      BY <1>3, <2>1, <2>3, <2>4 DEF TradeOK, TradeOf
    <2> QED
      BY <2>1, <2>2, <2>5, EligiblePassed DEF TradeOf
  <1>5. TradesInv'
    <2>1. \A i, j \in 1..k : trades'[i].id = trades'[j].id => i = j
      BY <1>3, <1>4
    <2>2. ListOK(trades', born', clock')
      BY <1>2, <1>4, <2>1 DEF ListOK
    <2>3. FitsABatch(trades)'
      BY <1>1, <1>2, <1>3, LoopAssumption DEF FitsABatch
    <2> QED
      BY <1>2, <1>4, <2>2, <2>3 DEF TradesInv
  <1>6. CountersInv' /\ RowsInv' /\ TrajectoryInv'
    BY <1>3 DEF LoopInv, CountersInv, RowsInv, RowOK, TrajectoryInv
  <1>7. PollInv'
    BY <1>3 DEF LoopInv, PollInv, ListOK, TradeOK
  <1>8. UpdatedInv'
    <2>1. \A i \in 1..born : i \in 1..born'
      BY <1>3
    <2> QED
      BY <2>1 DEF LoopInv, UpdatedInv, Decided, ObservationsOK, Distinct, FitsABatch
  <1> DEFINE New == {FromTrajectory(trades'[i], q) : i \in 1..k, q \in trajectory}
  <1>9. Sightings' \subseteq Sightings \union New
    BY <1>2 DEF Sightings, ToSet
  <1>10. ASSUME NEW o \in New
         PROVE  \E i \in 1..k, q \in trajectory :
                   o = FromTrajectory(trades'[i], q) /\ o.id = born + i /\ o.time = q.time
    BY <1>4 DEF FromTrajectory
  <1>11. ASSUME NEW o \in New
         PROVE  /\ o.id \in 1..born' /\ o.id > born /\ o.market \in Markets /\ o.time \in 1..clock
                /\ o.bid \in [Sides -> Nat] /\ o.price \in Nat \ {NoBid}
    <2>1. PICK i \in 1..k, q \in trajectory : o = FromTrajectory(trades'[i], q)
      OBVIOUS
    <2>2. TradeOK(trades'[i], born', clock') /\ trades'[i].id = born + i
      BY <1>4
    <2>3. o.id \in 1..born' /\ o.id > born
      BY <1>1, <1>3, <2>1, <2>2 DEF FromTrajectory
    <2>4. q.time \in 1..clock /\ q.combinedAsk \in Nat \ {NoBid}
      BY DEF LoopInv, TrajectoryInv
    <2> QED
      BY <1>3, <2>1, <2>2, <2>3, <2>4 DEF TradeOK, FromTrajectory, NoBid
  <1>12. ASSUME NEW o \in New, NEW w \in New, o.time = w.time, o.id = w.id PROVE o = w
    <2>1. PICK i \in 1..k, q \in trajectory : o = FromTrajectory(trades'[i], q) /\ o.id = born + i /\ o.time = q.time
      BY <1>10
    <2>2. PICK j \in 1..k, r \in trajectory : w = FromTrajectory(trades'[j], r) /\ w.id = born + j /\ w.time = r.time
      BY <1>10
    <2>3. i = j
      BY <1>3, <1>12, <2>1, <2>2
    <2>4. q = r
      BY <1>12, <2>1, <2>2 DEF LoopInv, TrajectoryInv
    <2> QED
      BY <2>1, <2>2, <2>3, <2>4
  <1> HIDE DEF New
  <1>13. SightingsInv'
    <2>1. \A o \in Sightings : o.id \in 1..born /\ o.id \in 1..born'
      BY <1>3 DEF LoopInv, SightingsInv, ObservationsOK
    <2>2. ObservationsOK(Sightings)'
      BY <1>9, <1>11, <2>1 DEF LoopInv, SightingsInv, ObservationsOK
    <2>3. \A o \in Sightings, w \in New : o.id # w.id
      BY <1>3, <1>11, <2>1
    <2>4. Distinct(Sightings')
      BY <1>9, <1>12, <2>3 DEF LoopInv, SightingsInv, Distinct
    <2> QED
      BY <2>2, <2>4 DEF SightingsInv, Distinct
  <1> QED
    BY <1>5, <1>6, <1>7, <1>8, <1>13 DEF LoopInv

LEMMA RunLoopInv ==
    ASSUME LoopInv, NEW batch \in Batches, RunLoop(batch) \/ \E k \in 0..(Len(batch) - 1) : LoopDies(batch, k)
    PROVE  LoopInv'
  <1>1. Ran /\ born' = born + Len(batch) /\ UNCHANGED <<clock, found, updated, stored, trajectory, poll>>
    BY DEF RunLoop, LoopDies
  <1>2. batch \in Seq(ToSet(batch)) /\ Len(batch) \in Nat
    BY BatchMembers DEF LoopInv
  <1>3. \E k \in 0..Len(batch) : trades' = Prefix(batch, k)
    <2>1. CASE RunLoop(batch)
      <3>1. Prefix(batch, Len(batch)) = batch
        BY <1>2, SubSeqFull DEF Prefix
      <3> QED
        BY <1>2, <2>1, <3>1 DEF RunLoop
    <2>2. CASE \E k \in 0..(Len(batch) - 1) : LoopDies(batch, k)
      BY <1>2, <2>2 DEF LoopDies
    <2> QED
      BY <2>1, <2>2
  <1> QED
    BY <1>1, <1>3, NewBatchInv, RanCounts DEF LoopInv
\* Scripts that write what was seen, and what it decides, or die in doing so.
LEMMA WritesInv ==
    ASSUME LoopInv, stored' \subseteq Sightings, runs' \in 0..MaxRuns, UNCHANGED <<clock, found, trades, trajectory, born>>,
           poll' = poll \/ \E p \in Pollers : poll' = [poll EXCEPT ![p] = Idle],
           updated' \in Seq(ToSet(updated')), FitsABatch(updated'), \A i \in DOMAIN updated' : Decided(updated'[i])
    PROVE  LoopInv'
  <1>1. /\ DOMAIN poll' = Pollers
        /\ \A p \in Pollers : poll'[p] = poll[p] \/ poll'[p] = Idle
    BY DEF LoopInv, PollInv
  <1>2. PollInv'
    <2>1. ListOK(<<>>, born', clock')
      BY DEF ListOK, ToSet
    <2>2. \A p \in Pollers : ListOK(poll'[p].positions, born', clock')
      <3>1. Idle.positions = <<>>
        BY DEF Idle
      <3>2. \A p \in Pollers : poll'[p] = poll[p] => ListOK(poll'[p].positions, born', clock')
        BY DEF LoopInv, PollInv
      <3>3. \A p \in Pollers : poll'[p] = Idle => ListOK(poll'[p].positions, born', clock')
        BY <2>1, <3>1
      <3> QED
        BY <1>1, <3>2, <3>3
    <2>3. \A p \in Pollers : DOMAIN poll'[p] = {"on", "positions", "seen"} /\ poll'[p].on \in BOOLEAN
      <3>1. DOMAIN Idle = {"on", "positions", "seen"} /\ Idle.on \in BOOLEAN
        BY DEF Idle
      <3>2. \A p \in Pollers : DOMAIN poll[p] = {"on", "positions", "seen"} /\ poll[p].on \in BOOLEAN
        BY DEF LoopInv, PollInv
      <3> QED
        BY <1>1, <3>1, <3>2
    <2> QED
      BY <1>1, <2>2, <2>3 DEF PollInv
  <1>3. Sightings' \subseteq Sightings
    <2>1. \A p \in Pollers : poll'[p].seen \subseteq poll[p].seen
      BY <1>1 DEF Idle
    <2> QED
      BY <2>1 DEF Sightings
  <1>4. SightingsInv' /\ CountersInv'
    BY <1>3, SightingsShrink DEF LoopInv, CountersInv
  <1>5. RowsInv' /\ TradesInv' /\ TrajectoryInv'
    BY DEF LoopInv, RowsInv, RowOK, TradesInv, TrajectoryInv, FitsABatch
  <1>6. UpdatedInv'
    BY DEF UpdatedInv, Decided, ObservationsOK, Distinct, FitsABatch
  <1> QED
    BY <1>2, <1>4, <1>5, <1>6 DEF LoopInv

LEMMA SeenSighted == \A p \in Pollers : poll[p].seen \subseteq Sightings
  BY DEF Sightings

LEMMA CollectInv ==
    ASSUME LoopInv, Collect \/ \E p \in Pollers : PollFinish(p)
    PROVE  LoopInv'
  <1>1. PICK seen \in {stored} \union {poll[p].seen : p \in Pollers} :
           stored' = Collected(seen) /\ updated' = UpdatedTrades(seen)
    BY DEF Collect, PollFinish
  <1>2. UNCHANGED <<clock, found, trades, trajectory, born, runs>>
    BY DEF Collect, PollFinish
  <1>3. poll' = poll \/ \E p \in Pollers : poll' = [poll EXCEPT ![p] = Idle]
    BY DEF Collect, PollFinish
  <1>4. seen \subseteq Sightings
    BY SeenSighted DEF Sightings
  <1>5. /\ updated' \in Seq(ToSet(updated')) /\ FitsABatch(updated')
        /\ \A i \in DOMAIN updated' : Decided(updated'[i])
    BY <1>1, <1>4, UpdatedTradesOK DEF LoopInv, TradesInv, FitsABatch
  <1>6. stored' \subseteq Sightings /\ runs' \in 0..MaxRuns
    BY <1>1, <1>2, <1>4, CollectedSighted DEF LoopInv, CountersInv
  <1> QED
    BY <1>2, <1>3, <1>5, <1>6, WritesInv

LEMMA PollerDiesInv ==
    ASSUME LoopInv, NEW p \in Pollers,
           \/ DiesPolling(p)
           \/ \E last \in 0..MaxEntries : DiesWritingObservations(p, last)
           \/ \E k \in 0..(Len(trades) - 1) : DiesWritingTrades(p, k)
    PROVE  LoopInv'
  <1>1. PollDies(p)
    BY DEF DiesPolling, DiesWritingObservations, DiesWritingTrades
  <1>2. UNCHANGED <<clock, found, trades, trajectory, born>> /\ poll' = [poll EXCEPT ![p] = Idle] /\ runs' \in 0..MaxRuns
    BY <1>1, RanCounts DEF PollDies, LoopInv
  <1>3. stored \subseteq Sightings /\ poll[p].seen \subseteq Sightings /\ Collected(poll[p].seen) \subseteq Sightings
    BY SeenSighted, CollectedSighted DEF Sightings
  <1>4. CASE updated' = updated /\ stored' \subseteq Sightings
    BY <1>2, <1>4, WritesInv DEF LoopInv, UpdatedInv
  <1>5. CASE \E k \in 0..(Len(trades) - 1) : DiesWritingTrades(p, k)
    <2>1. PICK k \in 0..(Len(trades) - 1) :
             stored' = Collected(poll[p].seen) /\ updated' = Prefix(UpdatedTrades(poll[p].seen), k)
      BY <1>5 DEF DiesWritingTrades
    <2> DEFINE list == UpdatedTrades(poll[p].seen)
    <2>2. list \in Seq(ToSet(list)) /\ Len(list) = Len(trades) /\ \A i \in DOMAIN list : Decided(list[i])
      BY <1>3, UpdatedTradesOK
    <2>3. Len(trades) \in Nat
      BY DEF LoopInv, TradesInv, ListOK
    <2> HIDE DEF list
    <2>4. k \in 0..Len(list) /\ k \in Nat /\ k <= Len(trades)
      BY <2>2, <2>3
    <2>5. /\ updated' \in Seq(ToSet(updated')) /\ Len(updated') = k /\ DOMAIN updated' = 1..k
          /\ \A i \in 1..k : i \in DOMAIN list /\ updated'[i] = list[i]
      BY <2>1, <2>2, <2>4, PrefixFacts DEF list
    <2>6. FitsABatch(updated')
      <3>1. Len(Legacy) \in Nat /\ MaxEntries \in Nat
        BY LoopAssumption
      <3>2. FitsABatch(trades)
        BY DEF LoopInv, TradesInv
      <3> QED
        BY <2>3, <2>4, <2>5, <3>1, <3>2 DEF FitsABatch
    <2> QED
      BY <1>2, <1>3, <2>1, <2>2, <2>5, <2>6, WritesInv
  <1> QED
    BY <1>3, <1>4, <1>5 DEF DiesPolling, DiesWritingObservations

\* Whoever observes, a poller or a research run, uses up the time it did.
LEMMA TimePassesInv ==
    ASSUME LoopInv, clock < MaxTime, clock' = clock + 1, runs' \in 0..MaxRuns, UNCHANGED <<found, trades, updated, born>>,
           PollInv', TrajectoryInv', SightingsInv'
    PROVE  LoopInv'
  <1>1. clock \in Nat /\ clock' \in Nat /\ clock <= clock' /\ clock' \in 0..MaxTime
    BY LoopAssumption DEF LoopInv, CountersInv
  <1>2. CountersInv' /\ RowsInv'
    BY <1>1 DEF LoopInv, CountersInv, RowsInv, RowOK
  <1>3. TradesInv'
    <2>1. \A t : TradeOK(t, born, clock) => TradeOK(t, born', clock')
      BY <1>1 DEF TradeOK
    <2>2. ListOK(trades', born', clock')
      BY <2>1 DEF LoopInv, TradesInv, ListOK
    <2> QED
      BY <2>2 DEF LoopInv, TradesInv, FitsABatch
  <1>4. UpdatedInv'
    <2>1. \A t : t \in 1..clock => t \in 1..clock'
      BY <1>1
    <2> QED
      BY <2>1 DEF LoopInv, UpdatedInv, Decided, ObservationsOK, Distinct, FitsABatch
  <1> QED
    BY <1>2, <1>3, <1>4 DEF LoopInv

LEMMA PollOnceInv ==
    ASSUME LoopInv, NEW p \in Pollers, NEW books \in Snapshots, PollOnce(p, books)
    PROVE  LoopInv'
  <1> DEFINE watched == poll[p].positions
             New == {Observed(t, books[t.market]) : t \in {t \in ToSet(watched) : books[t.market][t.side] # NoBid}}
  <1>1. /\ clock < MaxTime /\ clock' = clock + 1 /\ UNCHANGED <<found, trades, updated, stored, trajectory, born, runs>>
        /\ poll' = [poll EXCEPT ![p].seen = @ \union New]
    BY DEF PollOnce, files
  <1>2. /\ DOMAIN poll' = Pollers
        /\ \A q \in Pollers : /\ DOMAIN poll'[q] = DOMAIN poll[q] /\ poll'[q].on = poll[q].on
                              /\ poll'[q].positions = poll[q].positions
                              /\ poll'[q].seen \subseteq poll[q].seen \union New
    <2> HIDE DEF New
    <2> QED
      BY <1>1 DEF LoopInv, PollInv
  <1>3. clock \in Nat /\ clock' \in Nat /\ clock <= clock'
    BY <1>1 DEF LoopInv, CountersInv
  <1>4. PollInv'
    <2>1. \A t : TradeOK(t, born, clock) => TradeOK(t, born', clock')
      BY <1>1, <1>3 DEF TradeOK
    <2>2. \A q \in Pollers : ListOK(poll'[q].positions, born', clock')
      BY <1>2, <2>1 DEF LoopInv, PollInv, ListOK
    <2> QED
      BY <1>2, <2>2 DEF LoopInv, PollInv
  <1>5. TrajectoryInv'
    BY <1>1, <1>3 DEF LoopInv, TrajectoryInv
  <1>6. ListOK(watched, born, clock)
    BY DEF LoopInv, PollInv
  <1>7. ASSUME NEW o \in New
        PROVE  \E i \in DOMAIN watched :
                  /\ o = Observed(watched[i], books[watched[i].market])
                  /\ books[watched[i].market][watched[i].side] # NoBid
    BY DEF ToSet
  <1>8. ASSUME NEW o \in New
        PROVE  /\ o.id \in 1..born /\ o.market \in Markets /\ o.time = clock + 1
               /\ o.bid \in [Sides -> Nat] /\ o.price \in Nat \ {NoBid}
    <2>1. PICK i \in DOMAIN watched : /\ o = Observed(watched[i], books[watched[i].market])
                                      /\ books[watched[i].market][watched[i].side] # NoBid
      BY <1>7
    <2>2. TradeOK(watched[i], born, clock)
      BY <1>6 DEF ListOK
    <2>3. books[watched[i].market] \in [Sides -> Nat] /\ watched[i].side \in Sides
      BY <2>2, LoopAssumption DEF TradeOK
    <2> QED
      BY <2>1, <2>2, <2>3 DEF TradeOK, Observed
  <1>9. ASSUME NEW o \in New, NEW w \in New, o.id = w.id PROVE o = w
    <2>1. PICK i \in DOMAIN watched : o = Observed(watched[i], books[watched[i].market])
      BY <1>7
    <2>2. PICK j \in DOMAIN watched : w = Observed(watched[j], books[watched[j].market])
      BY <1>7
    <2>3. i = j
      BY <1>6, <1>9, <2>1, <2>2 DEF ListOK, Observed
    <2> QED
      BY <2>1, <2>2, <2>3
  <1> HIDE DEF New
  <1>10. Sightings' \subseteq Sightings \union New
    BY <1>1, <1>2 DEF Sightings
  <1>11. SightingsInv'
    BY <1>1, <1>8, <1>9, <1>10, SightingsGrow DEF LoopInv
  <1> QED
    BY <1>1, <1>4, <1>5, <1>11, TimePassesInv DEF LoopInv, CountersInv
LEMMA ResearchRunInv ==
    ASSUME LoopInv, NEW point \in Points, ResearchRunEnds(point)
    PROVE  LoopInv'
  <1> DEFINE new == [market |-> point.market, time |-> clock + 1, combinedAsk |-> point.combinedAsk, flag |-> point.flag]
             New == {FromTrajectory(trades[i], new) : i \in DOMAIN trades}
  <1>1. /\ clock < MaxTime /\ clock' = clock + 1 /\ Ran /\ UNCHANGED <<found, trades, updated, stored, poll, born>>
        /\ trajectory' = trajectory \union {new}
    BY DEF ResearchRunEnds, files
  <1>2. clock \in Nat /\ clock' \in Nat /\ clock <= clock' /\ runs' \in 0..MaxRuns
    BY <1>1, RanCounts DEF LoopInv, CountersInv
  <1>3. point.market \in Markets /\ point.combinedAsk \in Nat \ {NoBid}
    BY LoopAssumption
  <1>4. TrajectoryInv'
    <2>1. \A q \in trajectory : q.market \in Markets /\ q.time \in 1..clock /\ q.combinedAsk \in Nat \ {NoBid}
      BY DEF LoopInv, TrajectoryInv
    <2>2. \A q \in trajectory : q.time \in 1..clock' /\ q.time # new.time
      BY <1>1, <1>2, <2>1
    <2>3. new.market \in Markets /\ new.time \in 1..clock' /\ new.combinedAsk \in Nat \ {NoBid}
      BY <1>1, <1>2, <1>3
    <2>4. \A q, r \in trajectory' : q.time = r.time => q = r
      BY <1>1, <2>2 DEF LoopInv, TrajectoryInv
    <2>5. \A q \in trajectory' : q.market \in Markets /\ q.time \in 1..clock' /\ q.combinedAsk \in Nat \ {NoBid}
      <3> HIDE DEF new
      <3> QED
        BY <1>1, <2>1, <2>2, <2>3
    <2> QED
      BY <2>4, <2>5 DEF TrajectoryInv
  <1>5. PollInv'
    <2>1. \A t : TradeOK(t, born, clock) => TradeOK(t, born', clock')
      BY <1>1, <1>2 DEF TradeOK
    <2>2. \A q \in Pollers : ListOK(poll'[q].positions, born', clock')
      BY <1>1, <2>1 DEF LoopInv, PollInv, ListOK
    <2> QED
      BY <1>1, <2>2 DEF LoopInv, PollInv
  <1>6. ASSUME NEW o \in New
        PROVE  /\ o.id \in 1..born /\ o.market \in Markets /\ o.time = clock + 1
               /\ o.bid \in [Sides -> Nat] /\ o.price \in Nat \ {NoBid}
    <2>1. PICK i \in DOMAIN trades : o = FromTrajectory(trades[i], new)
      OBVIOUS
    <2>2. TradeOK(trades[i], born, clock)
      BY DEF LoopInv, TradesInv, ListOK
    <2> QED
      BY <1>3, <2>1, <2>2 DEF TradeOK, FromTrajectory, NoBid
  <1>7. ASSUME NEW o \in New, NEW w \in New, o.id = w.id PROVE o = w
    BY <1>7 DEF LoopInv, TradesInv, ListOK, FromTrajectory
  <1>8. Sightings' \subseteq Sightings \union New
    BY <1>1 DEF Sightings, ToSet
  <1> HIDE DEF New
  <1>9. SightingsInv'
    BY <1>1, <1>6, <1>7, <1>8, SightingsGrow DEF LoopInv
  <1> QED
    BY <1>1, <1>2, <1>4, <1>5, <1>9, TimePassesInv

LEMMA LoopStepInv == LoopInv /\ [Next]_vars => LoopInv'
  <1> SUFFICES ASSUME LoopInv, [Next]_vars PROVE LoopInv'
    OBVIOUS
  <1>1. CASE UNCHANGED vars
    <2>1. UNCHANGED <<clock, found, trades, updated, stored, trajectory, poll, born, runs>>
      BY <1>1 DEF vars, files
    <2>2. RowsInv' /\ runs' \in 0..MaxRuns
      BY <2>1 DEF LoopInv, RowsInv, RowOK, CountersInv
    <2> QED
      BY <2>1, <2>2, SameTradesInv
  <1>2. CASE \/ \E leads \in SUBSET {l \in Leads : ~ IsCrypto(l)}, name \in {"gated", "plain"} : Discover(leads, name)
             \/ \E leads \in SUBSET {l \in Leads : IsCrypto(l)} : DiscoverCrypto(leads)
    BY <1>2, DiscoverInv, DiscoverCryptoInv
  <1>3. CASE \E batch \in Batches : RunLoop(batch) \/ \E k \in 0..(Len(batch) - 1) : LoopDies(batch, k)
    BY <1>3, RunLoopInv
  <1>4. CASE Collect \/ \E p \in Pollers : PollFinish(p)
    BY <1>4, CollectInv
  <1>5. CASE \E p \in Pollers : PollStart(p) \/ \E books \in Snapshots : PollOnce(p, books)
    BY <1>5, PollStartInv, PollOnceInv
  <1>6. CASE \E p \in Pollers : \/ DiesPolling(p)
                                \/ \E last \in 0..MaxEntries : DiesWritingObservations(p, last)
                                \/ \E k \in 0..(Len(trades) - 1) : DiesWritingTrades(p, k)
    BY <1>6, PollerDiesInv
  <1>7. CASE CalibrationDies \/ \E summary \in Summaries : Calibrate(summary)
    BY <1>7, CalibrateInv
  <1>8. CASE \E point \in Points : ResearchRunEnds(point)
    BY <1>8, ResearchRunInv
  <1> QED
    BY <1>1, <1>2, <1>3, <1>4, <1>5, <1>6, <1>7, <1>8 DEF Next

\* Wherever a script dies, the files hold trades under identifiers of their
\* own, closed on observations no two of which can be mistaken for each other.
THEOREM LoopInvariant == Spec => []LoopInv
  <1>1. Init => LoopInv
    BY LoopInitInv
  <1>2. LoopInv /\ [Next]_vars => LoopInv'
    BY LoopStepInv
  <1> QED
    BY <1>1, <1>2, PTL DEF Spec

------------------------------------------------------------------------------
(* What it gives *)

\* A trade of a probability type is one of before the gate or came through a row
\* that was discovered while the gate was open, whichever file it was read from.
THEOREM ProbabilityEntriesGated == Spec => []ProbabilityEntriesPassedTheGate
  <1>1. LoopInv => ProbabilityEntriesPassedTheGate
    <2> SUFFICES ASSUME LoopInv PROVE ProbabilityEntriesPassedTheGate
      OBVIOUS
    <2>1. ASSUME NEW t \in ToSet(trades)
          PROVE  /\ t.id \in 1..born /\ t.entry > 0 /\ t.time <= clock
                 /\ t.type \in ProbabilityTypes => t.verdict \in {"enabled", "ungated"}
      <3>1. PICK i \in DOMAIN trades : t = trades[i]
        BY DEF ToSet
      <3>2. TradeOK(t, born, clock) /\ clock \in Nat
        BY <3>1 DEF LoopInv, TradesInv, ListOK, CountersInv
      <3> QED
        BY <3>1, <3>2 DEF LoopInv, TradesInv, TradeOK
    <2>2. ObservationsOK(stored) /\ \A p \in Pollers : ObservationsOK(poll[p].seen)
      BY DEF LoopInv, SightingsInv, Sightings, ObservationsOK
    <2>3. clock \in 0..MaxTime /\ runs \in 0..MaxRuns /\ (Len(updated) <= Len(Legacy) \/ Len(updated) <= MaxEntries)
      BY DEF LoopInv, CountersInv, UpdatedInv, FitsABatch
    <2> QED
      BY <2>1, <2>2, <2>3 DEF ProbabilityEntriesPassedTheGate, TypeOK
  <1> QED
    BY <1>1, LoopInvariant, PTL

\* No observation that comes later revises a stop, a profit or a horizon that
\* closed a trade, in whichever order pollers, collector and research runs
\* write what they saw.
THEOREM TriggeredExitsAreFinal == Spec => TriggeredExitsStand
  <1> DEFINE Stand == \A u \in ToSet(updated), v \in ToSet(updated') :
                         /\ u.trade = v.trade /\ u.exit.reason \in {"stop_loss", "take_profit", "fixed_horizon"}
                         /\ u.basis \subseteq v.basis /\ \A o \in v.basis \ u.basis : o.time > u.exit.at
                         => v.exit = u.exit
  <1>1. LoopInv /\ LoopInv' => Stand
    <2> SUFFICES ASSUME LoopInv, LoopInv', NEW u \in ToSet(updated), NEW v \in ToSet(updated'),
                        u.trade = v.trade, u.exit.reason \in Triggers, u.basis \subseteq v.basis,
                        \A o \in v.basis \ u.basis : o.time > u.exit.at
                 PROVE  v.exit = u.exit
      BY DEF Triggers
    <2>1. u.trade.side \in Sides /\ u.exit = DecideExit(u.trade, u.basis)
      BY DEF LoopInv, UpdatedInv, Decided, ToSet
    <2>2. v.exit = DecideExit(v.trade, v.basis) /\ Distinct(v.basis) /\ ObservationsOK(v.basis)'
      BY DEF LoopInv, UpdatedInv, Decided, ToSet
    <2>3. clock' \in Nat /\ born' \in Nat
      BY DEF LoopInv, CountersInv
    <2>4. Sound(v.basis, born', clock')
      BY <2>2 DEF Sound, ObservationsOK
    <2> QED
      BY <2>1, <2>2, <2>3, <2>4, TriggeredStand
  <1>2. LoopInv /\ LoopInv' => [Stand]_vars
    BY <1>1
  <1> QED
    BY <1>2, LoopInvariant, PTL DEF Spec, TriggeredExitsStand
\* The trades are those of before or of a batch that was let in.
LEMMA TradesChange ==
    ASSUME LoopInv, [Next]_vars, NEW t \in ToSet(trades')
    PROVE  t \in ToSet(trades) \/ \E r \in LoadedRows : Eligible(r) /\ t.type = r.type
  <1>1. CASE trades' = trades
    BY <1>1
  <1>2. CASE \E batch \in Batches : RunLoop(batch) \/ \E k \in 0..(Len(batch) - 1) : LoopDies(batch, k)
    <2>1. PICK batch \in Batches : trades' = batch \/ \E k \in 0..(Len(batch) - 1) : trades' = Prefix(batch, k)
      BY <1>2 DEF RunLoop, LoopDies
    <2>2. /\ batch \in Seq(ToSet(batch)) /\ Len(batch) \in Nat
          /\ \A i \in DOMAIN batch : \E r \in LoadedRows : Eligible(r) /\ batch[i] = TradeOf(r, born + i)
      BY BatchMembers DEF LoopInv
    <2>3. ASSUME NEW k \in 0..(Len(batch) - 1) PROVE ToSet(Prefix(batch, k)) \subseteq ToSet(batch)
      <3>1. k \in 0..Len(batch)
        BY <2>2
      <3> QED
        BY <2>2, <3>1, PrefixWithin
    <2>4. t \in ToSet(batch)
      BY <2>1, <2>3
    <2> QED
      BY <2>2, <2>4 DEF ToSet, TradeOf
  <1> QED
    BY <1>1, <1>2 DEF Next, vars, files, Discover, DiscoverCrypto, Collect, PollStart, PollFinish, PollOnce, PollDies,
       DiesPolling, DiesWritingObservations, DiesWritingTrades, Calibrate, CalibrationDies, ResearchRunEnds

LEMMA TradesStayOut ==
    ASSUME LoopInv, [Next]_vars, NEW e \in ProbabilityTypes, \A t \in ToSet(trades) : t.type # e,
           \A name \in DOMAIN found : \A r \in found[name].rows : r.type = e => r.passed # "true"
    PROVE  \A t \in ToSet(trades') : t.type # e
  <1> SUFFICES ASSUME NEW t \in ToSet(trades'), t.type = e PROVE FALSE
    OBVIOUS
  <1>1. PICK r \in LoadedRows : Eligible(r) /\ r.type = e
    BY TradesChange
  <1>2. RowOK(r) /\ r.passed # "true"
    BY <1>1, LoadedRowsOK DEF LoopInv
  <1> QED
    BY <1>1, <1>2, EligiblePassed

\* What is written as updated was a trade, or was on file.
LEMMA UpdatedStayOut ==
    ASSUME LoopInv, [Next]_vars, NEW e, \A t \in ToSet(trades) : t.type # e, \A u \in ToSet(updated) : u.trade.type # e
    PROVE  \A u \in ToSet(updated') : u.trade.type # e
  <1>1. ASSUME NEW seen, seen \subseteq Sightings, NEW u \in ToSet(UpdatedTrades(seen)) PROVE u.trade.type # e
    BY <1>1 DEF UpdatedTrades, Updated, ToSet
  <1>2. CASE updated' = updated
    BY <1>2
  <1>3. CASE Collect \/ \E p \in Pollers : PollFinish(p)
    <2>1. PICK seen \in {stored} \union {poll[p].seen : p \in Pollers} : updated' = UpdatedTrades(seen)
      BY <1>3 DEF Collect, PollFinish
    <2>2. seen \subseteq Sightings
      BY SeenSighted DEF Sightings
    <2> QED
      BY <1>1, <2>1, <2>2
  <1>4. CASE \E p \in Pollers : \E k \in 0..(Len(trades) - 1) : DiesWritingTrades(p, k)
    <2>1. PICK p \in Pollers, k \in 0..(Len(trades) - 1) : updated' = Prefix(UpdatedTrades(poll[p].seen), k)
      BY <1>4 DEF DiesWritingTrades
    <2> DEFINE list == UpdatedTrades(poll[p].seen)
    <2>2. poll[p].seen \subseteq Sightings
      BY SeenSighted
    <2>3. list \in Seq(ToSet(list)) /\ k \in 0..Len(list)
      <3>1. list \in Seq(ToSet(list)) /\ Len(list) = Len(trades)
        BY <2>2, UpdatedTradesOK
      <3>2. Len(trades) \in Nat
        BY DEF LoopInv, TradesInv, ListOK
      <3> QED
        BY <3>1, <3>2
    <2> HIDE DEF list
    <2>4. ToSet(Prefix(list, k)) \subseteq ToSet(list)
      BY <2>3, PrefixWithin
    <2> QED
      BY <1>1, <2>1, <2>2, <2>4 DEF list
  <1> QED
    BY <1>2, <1>3, <1>4 DEF Next, vars, files, Discover, DiscoverCrypto, RunLoop, LoopDies, PollStart, PollOnce,
       DiesPolling, DiesWritingObservations, Calibrate, CalibrationDies, ResearchRunEnds

\* Calibration finds no closed trade of the type, and no wins among none.
LEMMA GateStaysShut ==
    ASSUME [Next]_vars, NEW e \in EdgeTypes, ~ Enabled(e, feedback), \A u \in ToSet(updated) : u.trade.type # e
    PROVE  ~ Enabled(e, feedback')
  <1>1. CASE feedback' = feedback
    BY <1>1
  <1>2. CASE feedback'.closed[e] = 0
    BY <1>2 DEF Enabled, WinsTooRarely
  <1>3. CASE \E summary \in Summaries : Calibrate(summary)
    <2>1. OfType(e) = {} /\ Cardinality({}) = 0
      BY FS_EmptySet DEF OfType, Closed
    <2>2. feedback' \in Summaries
      BY <1>3 DEF Calibrate
    <2>3. feedback'.closed = [x \in EdgeTypes |-> Cardinality(OfType(x))]
      BY <2>2 DEF Summaries
    <2> QED
      BY <1>2, <2>1, <2>3
  <1>4. CASE CalibrationDies
    BY <1>2, <1>4 DEF CalibrationDies, NoFeedback
  <1> QED
    BY <1>1, <1>3, <1>4 DEF Next, vars, files, Discover, DiscoverCrypto, RunLoop, LoopDies, Collect, PollStart,
       PollFinish, PollOnce, PollDies, DiesPolling, DiesWritingObservations, DiesWritingTrades, ResearchRunEnds

LEMMA RowsStayOut ==
    ASSUME LoopInv, [Next]_vars, NEW e \in ProbabilityTypes, ~ Enabled(e, feedback),
           \A name \in DOMAIN found : \A r \in found[name].rows : r.type = e => r.passed # "true"
    PROVE  \A name \in DOMAIN found' : \A r \in found'[name].rows : r.type = e => r.passed # "true"
  <1>1. CASE found' = found
    BY <1>1
  <1>2. CASE \E leads \in SUBSET {l \in Leads : ~ IsCrypto(l)}, name \in {"gated", "plain"} : Discover(leads, name)
    <2>1. PICK leads \in SUBSET {l \in Leads : ~ IsCrypto(l)}, name \in {"gated", "plain"} :
             found' = [found EXCEPT ![name] = File({GatedRow(l) : l \in leads})]
      BY <1>2 DEF Discover
    <2>2. ASSUME NEW l, GatedRow(l).type = e PROVE GatedRow(l).passed # "true"
      <3>1. GateStatus(e, feedback) # "enabled"
        BY DEF GateStatus, GatedTypes
      <3> QED
        BY <2>2, <3>1 DEF GatedRow
    <2>3. \A r \in File({GatedRow(l) : l \in leads}).rows : r.type = e => r.passed # "true"
      BY <2>2 DEF File
    <2> QED
      BY <2>1, <2>3
  <1>3. CASE \E leads \in SUBSET {l \in Leads : IsCrypto(l)} : DiscoverCrypto(leads)
    <2>1. PICK leads \in SUBSET {l \in Leads : IsCrypto(l)} :
             found' = [found EXCEPT !["crypto"] = File({CryptoRow(l) : l \in leads})]
      BY <1>3 DEF DiscoverCrypto
    <2>2. \A l \in leads : CryptoRow(l).type # e
      BY DEF CryptoRow, IsCrypto, ProbabilityTypes
    <2>3. \A r \in File({CryptoRow(l) : l \in leads}).rows : r.type # e
      BY <2>2 DEF File
    <2> QED
      BY <2>1, <2>3
  <1> QED
    BY <1>1, <1>2, <1>3 DEF Next, vars, files, RunLoop, LoopDies, Collect, PollStart, PollFinish, PollOnce, PollDies,
       DiesPolling, DiesWritingObservations, DiesWritingTrades, Calibrate, CalibrationDies, ResearchRunEnds

\* Neither the gate's own verdicts, nor candidate files of other days, nor the
\* trades of other types, nor a calibration that dies, lets a type in that was
\* locked out.
THEOREM LockoutIsFinal == Spec => LockoutLasts
  <1>1. LoopInv /\ [Next]_vars => (LockedOut => LockedOut')
    <2> SUFFICES ASSUME LoopInv, [Next]_vars, LockedOut, NEW e \in ProbabilityTypes \intersect EdgeTypes
                 PROVE  /\ \A t \in ToSet(trades') : t.type # e
                        /\ \A u \in ToSet(updated') : u.trade.type # e
                        /\ ~ Enabled(e, feedback')
                        /\ \A name \in DOMAIN found' : \A r \in found'[name].rows : r.type = e => r.passed # "true"
      BY DEF LockedOut, Enabled, ConfidentLosses, FalsePositives, WinsTooRarely
    <2>1. /\ \A t \in ToSet(trades) : t.type # e
          /\ \A u \in ToSet(updated) : u.trade.type # e
          /\ ~ Enabled(e, feedback)
          /\ \A name \in DOMAIN found : \A r \in found[name].rows : r.type = e => r.passed # "true"
      BY DEF LockedOut
    <2>2. \A t \in ToSet(trades') : t.type # e
      BY <2>1, TradesStayOut
    <2>3. \A u \in ToSet(updated') : u.trade.type # e
      BY <2>1, UpdatedStayOut
    <2>4. ~ Enabled(e, feedback')
      BY <2>1, GateStaysShut
    <2>5. \A name \in DOMAIN found' : \A r \in found'[name].rows : r.type = e => r.passed # "true"
      BY <2>1, RowsStayOut
    <2> QED
      BY <2>2, <2>3, <2>4, <2>5
  <1> QED
    BY <1>1, LoopInvariant, PTL DEF Spec, LockoutLasts
==============================================================================
