-------------------------- MODULE ResearchRunProofs --------------------------
(***************************************************************************)
(* What a research run guarantees for every set of markets, every list it  *)
(* is given, every limit, every priority and all ratios: how many markets  *)
(* a scan may read, and that no market is asked about more often than the  *)
(* sampling and the control group together allow.                          *)
(*                                                                         *)
(* The first rests on the quotas: whatever the floats are truncated to,    *)
(* the three shares of a scan add up to its size.  A share is below zero   *)
(* only if its ratio is; then it is a slice from the end, which leaves out *)
(* as many markets as discovery is given more.                             *)
(***************************************************************************)
EXTENDS ResearchRun, FiniteSetTheorems, TLAPS

-----------------------------------------------------------------------------
(* Quotas *)

\* How far below zero a share of n markets may be.
Deficit(n, pct) == IF pct < 0 THEN (n * (-pct)) \div 100 ELSE 0

\* int() of a float product is at most one off, toward zero.
LEMMA PartBounds ==
  ASSUME NEW n \in Nat, NEW pct \in Int, NEW k \in Part(n, pct)
  PROVE  /\ k \in Int /\ Deficit(n, pct) \in Nat /\ -Deficit(n, pct) <= k
         /\ pct >= 0 => k \in Nat
         /\ pct \in 0 .. 100 => k <= n
PROOF
  <1> DEFINE up == (n * pct) \div 100
             down == (n * (-pct)) \div 100
             exact == IF pct >= 0 THEN up ELSE -down
  <1>1. n * pct \in Int /\ n * (-pct) \in Int /\ n * 100 \in Int
    OBVIOUS
  <1>2. /\ pct >= 0 => n * pct >= 0
        /\ pct < 0 => n * (-pct) >= 0
        /\ pct \in 0 .. 100 => n * pct <= n * 100
    OBVIOUS
  <1>3. /\ up \in Int /\ down \in Int
        /\ pct >= 0 => up >= 0
        /\ pct < 0 => down >= 0
        /\ pct \in 0 .. 100 => up <= n
    BY <1>1, <1>2
  <1>4. k = exact \/ (k \in {exact - 1, exact + 1} /\ k * k < exact * exact)
    BY DEF Part
  <1>5. Deficit(n, pct) = IF pct < 0 THEN down ELSE 0
    BY DEF Deficit
  <1> HIDE DEF up, down
  <1>6. exact \in Int /\ k \in Int
    BY <1>3, <1>4
  <1>7. /\ exact >= 0 => 0 <= k /\ k <= exact
        /\ exact < 0 => exact <= k /\ k <= 0
    <2> DEFINE e == exact
    <2>1. e \in Int /\ k \in Int /\ (k = e \/ ((k = e - 1 \/ k = e + 1) /\ k * k < e * e))
      BY <1>4, <1>6
    <2> HIDE DEF e
    <2> DEFINE between == /\ e >= 0 => 0 <= k /\ k <= e
                          /\ e < 0 => e <= k /\ k <= 0
    <2>2. k = e => between
      BY <2>1
    <2>3. ASSUME k = e - 1, k * k < e * e
          PROVE  between
      <3>1. (e - 1) * (e - 1) = e * e - 2 * e + 1
        BY <2>1
      <3>2. 1 <= e
        BY <2>1, <2>3, <3>1
      <3> QED BY <2>1, <2>3, <3>2
    <2>4. ASSUME k = e + 1, k * k < e * e
          PROVE  between
      <3>1. (e + 1) * (e + 1) = e * e + 2 * e + 1
        BY <2>1
      <3>2. e <= -1
        BY <2>1, <2>4, <3>1
      <3> QED BY <2>1, <2>4, <3>2
    <2>5. /\ e >= 0 => 0 <= k /\ k <= e
          /\ e < 0 => e <= k /\ k <= 0
      BY <2>1, <2>2, <2>3, <2>4
    <2> QED BY <2>5 DEF e
  <1> QED BY <1>3, <1>5, <1>6, <1>7

\* The shares of a scan of n markets, of which the watchlist's and the
\* alphas' may be negative, if their ratios are.
Fits(q, n, r) ==
  /\ q.watchlist \in Int /\ q.alpha \in Int /\ q.discovery \in Int
  /\ q.watchlist + q.alpha + q.discovery = n
  /\ -Deficit(n, r.watchlist) <= q.watchlist
  /\ -Deficit(n, AlphaShare(r)) <= q.alpha
  /\ 0 <= q.discovery

LEMMA Deficits == ASSUME NEW n \in Nat, NEW pct \in Int PROVE Deficit(n, pct) \in Nat
PROOF
  <1>1. CASE pct < 0
    <2>1. n * (-pct) \in Nat
      BY <1>1
    <2> QED BY <1>1, <2>1 DEF Deficit
  <1>2. CASE ~(pct < 0)
    BY <1>2 DEF Deficit
  <1> QED BY <1>1, <1>2

LEMMA SharesTyped ==
  ASSUME NEW r \in Ratios
  PROVE  /\ r.watchlist \in Int /\ r.alpha \in Int /\ r.discovery \in Int
         /\ AlphaShare(r) \in Int
PROOF
  <1>1. r.watchlist \in Int /\ r.alpha \in Int /\ r.discovery \in Int
    BY PrioritizerAssumption
  <1> QED BY <1>1 DEF AlphaShare, Smaller, DiscoveryPct, Greater, MinDiscoveryPct

LEMMA AlphaQuotasFit ==
  ASSUME NEW n \in Nat, NEW needing \in Nat, NEW r \in Ratios, Repeats(r),
         NEW q \in AlphaQuotas(n, r.watchlist, r.alpha, needing)
  PROVE  Fits(q, n, r)
PROOF
  <1>1. PICK slots \in Part(n, Smaller(r.alpha, 80)), floor \in Part(n, MinDiscoveryPct), cap \in Part(n, r.watchlist) :
          LET a == Smaller(slots, needing)
              d == Smaller(Greater(1, floor), n - a)
              w == Smaller(Greater(0, n - a - d), cap)
          IN  q = Quota(w, a, n - a - w)
    BY DEF AlphaQuotas
  <1> DEFINE short == Deficit(n, r.watchlist)
  <1>2. slots \in 0 .. n /\ floor \in 0 .. n
    <2>1. Smaller(r.alpha, 80) \in 0 .. 100 /\ MinDiscoveryPct \in 0 .. 100
      BY SharesTyped DEF Smaller, MinDiscoveryPct, Repeats
    <2>2. slots \in Nat /\ slots <= n
      BY <2>1, PartBounds
    <2>3. floor \in Nat /\ floor <= n
      BY <2>1, PartBounds
    <2> QED BY <2>2, <2>3
  <1>3. cap \in Int /\ short \in Nat /\ -short <= cap
    BY SharesTyped, PartBounds
  <1>4. Deficit(n, AlphaShare(r)) \in Nat
    BY SharesTyped, Deficits
  <1> HIDE DEF short
  <1> QED BY <1>1, <1>2, <1>3, <1>4 DEF Quota, Fits, Smaller, Greater, short

LEMMA LegacyQuotasFit ==
  ASSUME NEW n \in Nat, NEW r \in Ratios, ~Repeats(r),
         NEW q \in LegacyQuotas(n, r.watchlist, r.discovery)
  PROVE  Fits(q, n, r)
PROOF
  <1>1. PICK watch \in Part(n, r.watchlist), alpha \in Part(n, AlphaShare(r)), floor \in Part(n, MinDiscoveryPct) :
          q = IF n - watch - alpha < floor
              THEN Quota(((n - floor) * 7) \div 10, n - floor - (((n - floor) * 7) \div 10), floor)
              ELSE Quota(watch, alpha, n - watch - alpha)
    BY DEF LegacyQuotas, AlphaShare
  <1>2. watch \in Int /\ -Deficit(n, r.watchlist) <= watch /\ Deficit(n, r.watchlist) \in Nat
    BY SharesTyped, PartBounds
  <1>3. alpha \in Int /\ -Deficit(n, AlphaShare(r)) <= alpha /\ Deficit(n, AlphaShare(r)) \in Nat
    BY SharesTyped, PartBounds
  <1>4. floor \in 0 .. n
    <2>1. MinDiscoveryPct \in 0 .. 100
      BY DEF MinDiscoveryPct
    <2>2. floor \in Nat /\ floor <= n
      BY <2>1, PartBounds
    <2> QED BY <2>2
  <1> QED BY <1>1, <1>2, <1>3, <1>4 DEF Quota, Fits

LEMMA QuotasFit ==
  ASSUME NEW n \in Nat, NEW needing \in Nat, NEW r \in Ratios, NEW q \in Quotas(n, needing, r)
  PROVE  Fits(q, n, r)
PROOF
  <1>1. CASE Repeats(r)
    BY <1>1, AlphaQuotasFit DEF Quotas
  <1>2. CASE ~Repeats(r)
    BY <1>2, LegacyQuotasFit DEF Quotas
  <1> QED BY <1>1, <1>2

-----------------------------------------------------------------------------
(* Slices *)

\* A slice [:k] of a list; with a negative k all but the last of it.
LEMMA TopOfSet ==
  ASSUME NEW S, IsFiniteSet(S), NEW k \in Int, NEW rank, NEW T \in Top(S, k, rank)
  PROVE  /\ T \subseteq S /\ IsFiniteSet(T) /\ Cardinality(T) \in Nat /\ Cardinality(S) \in Nat
         /\ Cardinality(T) <= (IF k >= 0 THEN k ELSE Greater(0, Cardinality(S) + k))
PROOF
  <1>1. T \subseteq S /\ Cardinality(T) = SliceLength(Cardinality(S), k)
    BY DEF Top
  <1>2. IsFiniteSet(T) /\ Cardinality(S) \in Nat
    BY <1>1, FS_Subset, FS_CardinalityType
  <1> QED BY <1>1, <1>2 DEF SliceLength, Smaller, Greater

LEMMA TopIsFrom == ASSUME NEW S, NEW k, NEW rank, NEW T \in Top(S, k, rank) PROVE T \subseteq S
PROOF
  BY DEF Top

Needing(offered, counts) == Cardinality({m \in Alphas \cap offered : NeedsObservation(m, counts)})

\* The choices behind the parts of a scan.
Divided(parts, n, offered, counts, r, q, W, A, D) ==
  /\ q \in Quotas(n, Needing(offered, counts), r)
  /\ W \in Top(offered \cap Watchlist, q.watchlist, Evidence)
  /\ A \in Top(AlphaCandidates(offered \ W, counts, r), q.alpha, [m \in Alphas |-> AlphaRank(m, counts, r)])
  /\ D \in Top(offered \ (W \cup A), Greater(q.discovery, Room(n, W, A)), [m \in offered |-> 0])
  /\ parts = [watchlist |-> W, alpha |-> A, discovery |-> D]

LEMMA PrioritizedParts ==
  ASSUME NEW n, NEW offered, NEW counts, NEW r, NEW parts \in Prioritized(offered, n, counts, r)
  PROVE  \E q, W, A, D : Divided(parts, n, offered, counts, r, q, W, A, D)
PROOF
  <1> DEFINE Watched(q) == Top(offered \cap Watchlist, q.watchlist, Evidence)
             Repeated(q, W) == Top(AlphaCandidates(offered \ W, counts, r), q.alpha,
                                   [m \in Alphas |-> AlphaRank(m, counts, r)])
             Discover(q, W, A) ==
               {[watchlist |-> W, alpha |-> A, discovery |-> D] :
                  D \in Top(offered \ (W \cup A), Greater(q.discovery, Room(n, W, A)), [m \in offered |-> 0])}
  <1>1. parts \in UNION {UNION {UNION {Discover(q, W, A) : A \in Repeated(q, W)} : W \in Watched(q)} :
                           q \in Quotas(n, Needing(offered, counts), r)}
    BY DEF Prioritized, Needing
  <1>2. PICK q \in Quotas(n, Needing(offered, counts), r) :
          parts \in UNION {UNION {Discover(q, W, A) : A \in Repeated(q, W)} : W \in Watched(q)}
    BY <1>1
  <1>3. PICK W \in Watched(q) : parts \in UNION {Discover(q, W, A) : A \in Repeated(q, W)}
    BY <1>2
  <1>4. PICK A \in Repeated(q, W) : parts \in Discover(q, W, A)
    BY <1>3
  <1>5. PICK D \in Top(offered \ (W \cup A), Greater(q.discovery, Room(n, W, A)), [m \in offered |-> 0]) :
          parts = [watchlist |-> W, alpha |-> A, discovery |-> D]
    BY <1>4
  <1>6. Divided(parts, n, offered, counts, r, q, W, A, D)
    BY <1>2, <1>3, <1>4, <1>5 DEF Divided
  <1> QED BY <1>6

\* The parts are of what is on offer, and no market is two things.
LEMMA PrioritizedApart ==
  ASSUME NEW n, NEW offered, NEW counts, NEW r, NEW parts \in Prioritized(offered, n, counts, r)
  PROVE  /\ parts \in [{"watchlist", "alpha", "discovery"} -> SUBSET offered]
         /\ \A s, t \in DOMAIN parts : s # t => parts[s] \cap parts[t] = {}
PROOF
  <1>1. PICK q, W, A, D : Divided(parts, n, offered, counts, r, q, W, A, D)
    BY PrioritizedParts
  <1>2. W \subseteq offered /\ A \subseteq offered \ W /\ D \subseteq offered \ (W \cup A)
    <2>1. W \subseteq offered \cap Watchlist
      BY <1>1, TopIsFrom DEF Divided
    <2>2. A \subseteq AlphaCandidates(offered \ W, counts, r)
      BY <1>1, TopIsFrom DEF Divided
    <2>3. D \subseteq offered \ (W \cup A)
      BY <1>1, TopIsFrom DEF Divided
    <2> QED BY <2>1, <2>2, <2>3 DEF AlphaCandidates
  <1>3. parts = [watchlist |-> W, alpha |-> A, discovery |-> D]
    BY <1>1 DEF Divided
  <1> QED BY <1>2, <1>3

SizeOf(parts) == Cardinality(parts.watchlist) + Cardinality(parts.alpha) + Cardinality(parts.discovery)

\* What a slice of a list of at most c may add to a scan.
Excess(n, pct, c) == IF pct < 0 THEN Greater(Deficit(n, pct), c) ELSE 0

\* A quota, and what a slice by it takes of a list.
LEMMA SliceAndShare ==
  ASSUME NEW n \in Nat, NEW pct \in Int, NEW k \in Int, -Deficit(n, pct) <= k,
         NEW s \in Nat, NEW c \in Nat, s <= c, NEW t \in Nat,
         t <= (IF k >= 0 THEN k ELSE Greater(0, s + k))
  PROVE  Excess(n, pct, c) \in Nat /\ t - k <= Excess(n, pct, c)
PROOF
  <1> DEFINE short == Deficit(n, pct)
  <1>1. short \in Nat /\ (~(pct < 0) => short = 0)
    BY Deficits DEF Deficit
  <1>2. Excess(n, pct, c) = IF pct < 0 THEN Greater(short, c) ELSE 0
    BY DEF Excess
  <1>3. -short <= k
    OBVIOUS
  <1> HIDE DEF short
  <1>4. CASE pct < 0
    BY <1>1, <1>2, <1>3, <1>4 DEF Greater
  <1>5. CASE ~(pct < 0)
    BY <1>1, <1>2, <1>3, <1>5 DEF Greater
  <1> QED BY <1>4, <1>5

\* What the watchlist and the alphas leave goes to discovery, and no more than
\* the slices are wrong by.
LEMMA PrioritizedFits ==
  ASSUME NEW offered \in SUBSET Markets, NEW counts, NEW r \in Ratios,
         NEW parts \in Prioritized(offered, MaxMarkets, counts, r)
  PROVE  SizeOf(parts) \in Nat /\ ScanLimit(r) \in Nat /\ SizeOf(parts) <= ScanLimit(r)
PROOF
  <1> DEFINE n == MaxMarkets
  <1>0. n \in Nat
    BY RunAssumption
  <1> HIDE DEF n
  <1>1. IsFiniteSet(offered)
    BY PrioritizerAssumption, FS_Subset
  <1>2. Needing(offered, counts) \in Nat
    <2>1. {m \in Alphas \cap offered : NeedsObservation(m, counts)} \in SUBSET offered
      OBVIOUS
    <2> QED BY <1>1, <2>1, FS_Subset, FS_CardinalityType DEF Needing
  <1>3. PICK q, W, A, D : Divided(parts, n, offered, counts, r, q, W, A, D)
    BY PrioritizedParts DEF n
  <1>4. Fits(q, n, r)
    BY <1>0, <1>2, <1>3, QuotasFit DEF Divided
  <1>5. /\ q.watchlist \in Int /\ q.alpha \in Int /\ q.discovery \in Int
        /\ q.watchlist + q.alpha + q.discovery = n /\ 0 <= q.discovery
        /\ -Deficit(n, r.watchlist) <= q.watchlist /\ -Deficit(n, AlphaShare(r)) <= q.alpha
    BY <1>4 DEF Fits
  <1>6. IsFiniteSet(Watchlist) /\ Cardinality(Watchlist) \in Nat
        /\ IsFiniteSet(Alphas) /\ Cardinality(Alphas) \in Nat
    BY PrioritizerAssumption, FS_Subset, FS_CardinalityType
  <1> DEFINE more == Excess(n, r.watchlist, Cardinality(Watchlist))
             most == Excess(n, AlphaShare(r), Cardinality(Alphas))
             w == Cardinality(W)
             a == Cardinality(A)
             d == Cardinality(D)
  <1>7. w \in Nat /\ more \in Nat /\ w - q.watchlist <= more
    <2> DEFINE S == offered \cap Watchlist
               s == Cardinality(S)
    <2>1. IsFiniteSet(S) /\ s \in Nat /\ s <= Cardinality(Watchlist)
      <3>1. S \in SUBSET Watchlist
        OBVIOUS
      <3> HIDE DEF S
      <3> QED BY <1>6, <3>1, FS_Subset, FS_CardinalityType
    <2>2. W \in Top(S, q.watchlist, Evidence)
      BY <1>3 DEF Divided
    <2> HIDE DEF S
    <2>3. w \in Nat /\ w <= (IF q.watchlist >= 0 THEN q.watchlist ELSE Greater(0, s + q.watchlist))
      BY <1>5, <2>1, <2>2, TopOfSet
    <2> DEFINE k == q.watchlist
               pct == r.watchlist
               c == Cardinality(Watchlist)
    <2>4. /\ k \in Int /\ pct \in Int /\ -Deficit(n, pct) <= k /\ c \in Nat /\ s \in Nat /\ s <= c
          /\ w \in Nat /\ w <= (IF k >= 0 THEN k ELSE Greater(0, s + k))
      BY <1>5, <1>6, <2>1, <2>3, SharesTyped
    <2> HIDE DEF s, w, k, pct, c
    <2>5. Excess(n, pct, c) \in Nat /\ w - k <= Excess(n, pct, c)
      BY <1>0, <2>4, SliceAndShare
    <2> QED BY <2>4, <2>5 DEF k, pct, c
  <1>8. a \in Nat /\ most \in Nat /\ a - q.alpha <= most
    <2> DEFINE S == AlphaCandidates(offered \ W, counts, r)
               s == Cardinality(S)
    <2>1. IsFiniteSet(S) /\ s \in Nat /\ s <= Cardinality(Alphas)
      <3>1. S \in SUBSET Alphas
        BY DEF AlphaCandidates
      <3> HIDE DEF S
      <3> QED BY <1>6, <3>1, FS_Subset, FS_CardinalityType
    <2> DEFINE rank == [m \in Alphas |-> AlphaRank(m, counts, r)]
    <2>2. A \in Top(S, q.alpha, rank)
      BY <1>3 DEF Divided
    <2> HIDE DEF S, rank
    <2>3. a \in Nat /\ a <= (IF q.alpha >= 0 THEN q.alpha ELSE Greater(0, s + q.alpha))
      BY <1>5, <2>1, <2>2, TopOfSet
    <2> DEFINE k == q.alpha
               pct == AlphaShare(r)
               c == Cardinality(Alphas)
    <2>4. /\ k \in Int /\ pct \in Int /\ -Deficit(n, pct) <= k /\ c \in Nat /\ s \in Nat /\ s <= c
          /\ a \in Nat /\ a <= (IF k >= 0 THEN k ELSE Greater(0, s + k))
      BY <1>5, <1>6, <2>1, <2>3, SharesTyped
    <2> HIDE DEF s, a, k, pct, c
    <2>5. Excess(n, pct, c) \in Nat /\ a - k <= Excess(n, pct, c)
      BY <1>0, <2>4, SliceAndShare
    <2> QED BY <2>4, <2>5 DEF k, pct, c
  <1>9. d \in Nat /\ (d <= q.discovery \/ d <= n - w - a)
    <2> DEFINE left == Greater(q.discovery, Room(n, W, A))
               rank == [m \in offered |-> 0]
    <2>1. left \in Nat /\ (left = q.discovery \/ left = n - w - a)
      <3>1. Room(n, W, A) = n - w - a
        BY DEF Room
      <3> HIDE DEF w, a
      <3> QED BY <1>0, <1>5, <1>7, <1>8, <3>1 DEF Greater
    <2>2. IsFiniteSet(offered \ (W \cup A))
      BY <1>1, FS_Difference
    <2>3. D \in Top(offered \ (W \cup A), left, rank)
      BY <1>3 DEF Divided
    <2> HIDE DEF left, rank
    <2>4. d \in Nat /\ d <= left
      BY <2>1, <2>2, <2>3, TopOfSet
    <2> HIDE DEF w, a, d
    <2> QED BY <1>0, <1>5, <1>7, <1>8, <2>1, <2>4
  <1>10. SizeOf(parts) = w + a + d
    BY <1>3 DEF SizeOf, Divided
  <1>11. ScanLimit(r) = n + more + most
    BY DEF ScanLimit, Overshoot, Excess, Deficit, n
  <1> HIDE DEF w, a, d, more, most
  <1> QED BY <1>0, <1>5, <1>7, <1>8, <1>9, <1>10, <1>11

-----------------------------------------------------------------------------
(* The inductive invariant *)

SourcesApart == \A s, t \in DOMAIN sources : s # t => sources[s] \cap sources[t] = {}

\* Nothing is asked about between the selection and the last sample.
SamplesAllowed == pc = "sample" => \A m \in todo : history[m] < MaxRepeats

ControlsNew == pc = "control" => todo \cap control = {}

CleanupInOrder ==
  /\ pc = "cleanup" => saved \in {{}, {"run"}, {"run", "reports"}}
  /\ pc \notin {"cleanup", "done", "failed"} => saved = {}

RunInv ==
  /\ RunTypeOK
  /\ SourcesApart
  /\ SamplesAllowed
  /\ ControlsNew
  /\ CleanupInOrder
  /\ NotAskedTooOften

LEMMA NoSourcesApart ==
  /\ NoSources \in [{"watchlist", "alpha", "discovery"} -> SUBSET Markets]
  /\ \A s, t \in DOMAIN NoSources : s # t => NoSources[s] \cap NoSources[t] = {}
PROOF
  BY DEF NoSources

LEMMA RunInitInv == RunInit => RunInv
PROOF
  <1> SUFFICES ASSUME RunInit PROVE RunInv
    OBVIOUS
  <1> USE DEF RunInit
  <1>1. RunTypeOK
    <2>1. /\ observed \in [Markets -> 0 .. RepeatTarget]
          /\ history \in [Markets -> 0 .. MaxRepeats] /\ sampled \in [Markets -> Nat]
      BY PrioritizerAssumption, RunAssumption
    <2>2. sources \in [{"watchlist", "alpha", "discovery"} -> SUBSET Markets]
      BY DEF NoSources
    <2>3. budget \in 0 .. MaxCalls
      BY RunAssumption
    <2> QED BY <2>1, <2>2, <2>3 DEF RunTypeOK, Scanned
  <1>2. SourcesApart
    BY NoSourcesApart DEF SourcesApart
  <1>3. SamplesAllowed /\ ControlsNew /\ CleanupInOrder
    BY DEF SamplesAllowed, ControlsNew, CleanupInOrder
  <1>4. NotAskedTooOften
    <2> SUFFICES ASSUME NEW m \in Markets
                 PROVE  sampled[m] <= history[m] + (IF m \in control THEN 1 ELSE 0) /\ history[m] <= MaxRepeats
      BY DEF NotAskedTooOften
    <2>1. sampled[m] = 0 /\ history[m] = 0 /\ ~(m \in control)
      OBVIOUS
    <2> QED BY <2>1, RunAssumption
  <1> QED BY <1>1, <1>2, <1>3, <1>4 DEF RunInv

LEMMA ChosenFrom == ASSUME NEW S, NEW n, NEW T \in Chosen(S, n) PROVE T \subseteq S
PROOF
  BY DEF Chosen, Top

LEMMA PairSize == ASSUME NEW x, NEW y, x # y PROVE Cardinality({x, y}) = 2
PROOF
  <1>1. IsFiniteSet({x}) /\ Cardinality({x}) = 1
    BY FS_Singleton
  <1> DEFINE S == {x}
  <1>2. y \notin S /\ IsFiniteSet(S) /\ Cardinality(S) = 1
    BY <1>1
  <1> HIDE DEF S
  <1>4. Cardinality(S \cup {y}) = 2
    BY <1>2, FS_AddElement
  <1>3. {x, y} = S \cup {y}
    BY DEF S
  <1> QED BY <1>3, <1>4

\* The steps of the clean-up, counted.
LEMMA CleanupProgress ==
  Cardinality({}) = 0 /\ Cardinality({"run"}) = 1 /\ Cardinality({"run", "reports"}) = 2
PROOF
  <1>1. "run" # "reports"
    OBVIOUS
  <1>2. Cardinality({"run", "reports"}) = 2
    BY <1>1, PairSize
  <1>3. Cardinality({"run"}) = 1
    BY FS_Singleton
  <1> QED BY <1>2, <1>3, FS_EmptySet

LEMMA RunStepInv ==
  ASSUME RunInv, [RunNext]_runVars
  PROVE  RunInv'
PROOF
  <1> USE DEF RunInv
  <1>a. RunTypeOK /\ SourcesApart /\ SamplesAllowed /\ ControlsNew /\ CleanupInOrder /\ NotAskedTooOften
    OBVIOUS
  <1> USE DEF scanVars, groupVars, hourVars
  \* What leaves the groups and the samples alone cannot ask too often.
  <1>u. UNCHANGED <<history, control, sampled>> => NotAskedTooOften'
    BY DEF NotAskedTooOften
  <1>s. UNCHANGED sources => SourcesApart'
    BY DEF SourcesApart
  <1>1. CASE UNCHANGED runVars
    BY <1>1, <1>u, <1>s DEF runVars, RunTypeOK, Scanned, SamplesAllowed, ControlsNew, CleanupInOrder
  <1>2. CASE BeginScan
    <2>1. budget' \in 0 .. MaxCalls /\ hourOver' \in BOOLEAN
      <3>1. CASE hourOver
        <4>1. budget' = 0 /\ hourOver' = FALSE
          BY <1>2, <3>1 DEF BeginScan, CheckHourlyLimits
        <4>2. 0 \in 0 .. MaxCalls
          BY RunAssumption
        <4> QED BY <4>1, <4>2
      <3>2. CASE ~hourOver
        <4>1. UNCHANGED <<budget, hourOver>>
          BY <1>2, <3>2 DEF BeginScan, CheckHourlyLimits
        <4> QED BY <4>1 DEF RunTypeOK
      <3> QED BY <3>1, <3>2
    <2>2. RunTypeOK'
      BY <1>2, <2>1 DEF BeginScan, RunTypeOK, Scanned
    <2> QED BY <1>2, <2>2, <1>u, <1>s DEF BeginScan, SamplesAllowed, ControlsNew, CleanupInOrder
  <1>3. CASE NoMarkets
    BY <1>3, <1>u, <1>s
       DEF NoMarkets, RunTypeOK, Scanned, SamplesAllowed, ControlsNew, CleanupInOrder
  <1>4. ASSUME NEW offered \in (SUBSET Markets) \ {{}}, GetMarkets(offered)
        PROVE  RunInv'
    <2>1. /\ sources' \in [{"watchlist", "alpha", "discovery"} -> SUBSET offered]
          /\ \A s, t \in DOMAIN sources' : s # t => sources'[s] \cap sources'[t] = {}
      BY <1>4, PrioritizedApart DEF GetMarkets
    <2>2. SourcesApart'
      BY <2>1 DEF SourcesApart
    <2>3. RunTypeOK'
      BY <1>4, <2>1 DEF GetMarkets, RunTypeOK, Scanned
    <2> QED BY <1>4, <2>2, <2>3, <1>u DEF GetMarkets, SamplesAllowed, ControlsNew, CleanupInOrder
  <1>5. ASSUME NEW m \in Markets, SkipMarket(m)
        PROVE  RunInv'
    BY <1>5, <1>u, <1>s
       DEF SkipMarket, RunTypeOK, Scanned, SamplesAllowed, ControlsNew, CleanupInOrder
  <1>6. ASSUME NEW m \in Markets, ReadMarket(m)
        PROVE  RunInv'
    <2>2. observed' \in [Markets -> 0 .. RepeatTarget]
      BY <1>6, PrioritizerAssumption DEF ReadMarket, NeedsObservation, RunTypeOK
    <2>3. RunTypeOK'
      BY <1>6, <2>2 DEF ReadMarket, RunTypeOK, Scanned
    <2> QED BY <1>6, <2>3, <1>u, <1>s DEF ReadMarket, SamplesAllowed, ControlsNew, CleanupInOrder
  <1>7. CASE SelectSamples
    <2>1. todo' \subseteq SampleCandidates
      BY <1>7, ChosenFrom DEF SelectSamples
    <2>2. RunTypeOK'
      BY <1>7, <2>1 DEF SelectSamples, SampleCandidates, RunTypeOK, Scanned
    <2> QED BY <1>7, <2>1, <2>2, <1>u, <1>s
            DEF SelectSamples, SampleCandidates, SamplesAllowed, ControlsNew, CleanupInOrder
  <1>8. ASSUME NEW m \in Markets, Sample(m)
        PROVE  RunInv'
    <2>1. /\ budget' \in 0 .. MaxCalls /\ hourOver' \in BOOLEAN
          /\ sampled' \in [Markets -> Nat]
          /\ \A k \in Markets : sampled'[k] <= (IF k = m THEN sampled[k] + 1 ELSE sampled[k])
      BY <1>8, RunAssumption DEF Sample, Perform, BudgetLeft, RunTypeOK
    <2>2. history[m] < MaxRepeats
      BY <1>8 DEF Sample, SamplesAllowed
    <2>3. history' \in [Markets -> 0 .. MaxRepeats]
      BY <1>8, <2>2, RunAssumption DEF Sample, RunTypeOK
    <2>4. RunTypeOK'
      BY <1>8, <2>1, <2>3 DEF Sample, RunTypeOK, Scanned
    <2>5. NotAskedTooOften'
      BY <1>8, <2>1, <2>3, RunAssumption DEF Sample, NotAskedTooOften, RunTypeOK
    <2>6. SamplesAllowed'
      BY <1>8 DEF Sample, SamplesAllowed, RunTypeOK
    <2> QED BY <1>8, <2>4, <2>5, <2>6, <1>s DEF Sample, ControlsNew, CleanupInOrder
  <1>9. CASE SelectControl
    <2>1. todo' \subseteq ControlCandidates
      BY <1>9, ChosenFrom DEF SelectControl
    <2>2. RunTypeOK'
      BY <1>9, <2>1 DEF SelectControl, ControlCandidates, RunTypeOK, Scanned
    <2> QED BY <1>9, <2>1, <2>2, <1>u, <1>s
            DEF SelectControl, ControlCandidates, SamplesAllowed, ControlsNew, CleanupInOrder
  <1>10. ASSUME NEW m \in Markets, SampleControl(m)
         PROVE  RunInv'
    <2>1. /\ budget' \in 0 .. MaxCalls /\ hourOver' \in BOOLEAN
          /\ sampled' \in [Markets -> Nat]
          /\ \A k \in Markets : sampled'[k] = (IF k = m THEN sampled[k] + 1 ELSE sampled[k])
      BY <1>10, RunAssumption DEF SampleControl, Perform, BudgetLeft, RunTypeOK
    <2>2. m \notin control
      BY <1>10 DEF SampleControl, ControlsNew
    <2>3. RunTypeOK'
      BY <1>10, <2>1 DEF SampleControl, RunTypeOK, Scanned
    <2>4. NotAskedTooOften'
      BY <1>10, <2>1, <2>2, RunAssumption DEF SampleControl, NotAskedTooOften, RunTypeOK
    <2>5. ControlsNew'
      BY <1>10 DEF SampleControl, ControlsNew
    <2> QED BY <1>10, <2>3, <2>4, <2>5, <1>s DEF SampleControl, SamplesAllowed, CleanupInOrder
  <1>11. CASE EndScan
    <2>1. SourcesApart'
      BY <1>11, NoSourcesApart DEF EndScan, SourcesApart
    <2>2. RunTypeOK'
      BY <1>11, NoSourcesApart DEF EndScan, RunTypeOK, Scanned
    <2> QED BY <1>11, <2>1, <2>2, <1>u DEF EndScan, SamplesAllowed, ControlsNew, CleanupInOrder
  <1>12. CASE Leave
    <2>1. CleanupInOrder'
      BY <1>12 DEF Leave, CleanupInOrder
    <2> QED BY <1>12, <2>1, <1>u, <1>s DEF Leave, RunTypeOK, Scanned, SamplesAllowed, ControlsNew
  <1>13. CASE CleanupStep
    <2>1. CASE saved' = saved /\ pc' = "failed"
      BY <1>13, <2>1, <1>u, <1>s
         DEF CleanupStep, RunTypeOK, Scanned, SamplesAllowed, ControlsNew, CleanupInOrder
    <2>2. CASE /\ saved' = saved \cup {CleanupOrder[Cardinality(saved) + 1]}
               /\ pc' = IF Cardinality(saved) + 1 = Len(CleanupOrder) THEN "done" ELSE pc
      <3> DEFINE Goal == /\ saved' \subseteq {"run", "reports", "database"}
                         /\ pc' = "cleanup" => saved' \in {{}, {"run"}, {"run", "reports"}}
                         /\ pc' \in {"cleanup", "done"}
      <3>1. ASSUME saved = {} PROVE Goal
        <4>1. saved' = {"run"} /\ pc' = "cleanup"
          BY <1>13, <2>2, <3>1, CleanupProgress DEF CleanupStep, CleanupOrder
        <4> QED BY <4>1
      <3>2. ASSUME saved = {"run"} PROVE Goal
        <4>1. saved' = {"run", "reports"} /\ pc' = "cleanup"
          BY <1>13, <2>2, <3>2, CleanupProgress DEF CleanupStep, CleanupOrder
        <4> QED BY <4>1
      <3>3. ASSUME saved = {"run", "reports"} PROVE Goal
        <4>1. saved' = {"run", "reports", "database"} /\ pc' = "done"
          BY <1>13, <2>2, <3>3, CleanupProgress DEF CleanupStep, CleanupOrder
        <4> QED BY <4>1
      <3>4. Goal
        BY <1>13, <3>1, <3>2, <3>3 DEF CleanupStep, CleanupInOrder
      <3> QED BY <1>13, <3>4, <1>u, <1>s
              DEF CleanupStep, RunTypeOK, Scanned, SamplesAllowed, ControlsNew, CleanupInOrder
    <2> QED BY <1>13, <2>1, <2>2 DEF CleanupStep
  <1>14. CASE Over
    BY <1>14, <1>1 DEF Over
  <1>15. CASE HourPasses
    BY <1>15, <1>u, <1>s DEF HourPasses, RunTypeOK, Scanned, SamplesAllowed, ControlsNew, CleanupInOrder
  <1>16. CASE AskToStop
    BY <1>16, <1>u, <1>s DEF AskToStop, RunTypeOK, Scanned, SamplesAllowed, ControlsNew, CleanupInOrder
  <1>17. ASSUME NEW m \in Markets, CooldownEnds(m)
         PROVE  RunInv'
    BY <1>17, <1>u, <1>s DEF CooldownEnds, RunTypeOK, Scanned, SamplesAllowed, ControlsNew, CleanupInOrder
  <1> QED BY <1>1, <1>2, <1>3, <1>4, <1>5, <1>6, <1>7, <1>8, <1>9, <1>10, <1>11, <1>12, <1>13, <1>14,
             <1>15, <1>16, <1>17 DEF RunNext, ScanStep

\* A market is scanned for one reason, what waits to be sampled may be asked
\* about, no control is asked about twice, and a run saves in order whether it
\* ends, fails or is stopped (alpha_repeat.py, llm_sampling.py).
THEOREM RunInvariant == RunSpec => []RunInv
PROOF
  <1>1. RunInv /\ [RunNext]_runVars => RunInv'
    BY RunStepInv
  <1> QED BY RunInitInv, <1>1, PTL DEF RunSpec

-----------------------------------------------------------------------------
(* The size of a scan, which nothing else depends on *)

SourcesFew ==
  /\ ratios \in Ratios
  /\ SizeOf(sources) \in Nat /\ ScanLimit(ratios) \in Nat
  /\ SizeOf(sources) <= ScanLimit(ratios)

LEMMA NoSourcesFew ==
  ASSUME NEW r \in Ratios
  PROVE  SizeOf(NoSources) \in Nat /\ ScanLimit(r) \in Nat /\ SizeOf(NoSources) <= ScanLimit(r)
PROOF
  <1>1. SizeOf(NoSources) = 0
    BY FS_EmptySet DEF NoSources, SizeOf
  <1>2. ASSUME NEW pct \in Int, NEW listed \in SUBSET Markets
        PROVE  Overshoot(pct, listed) \in Nat
    <2>1. Cardinality(listed) \in Nat
      BY PrioritizerAssumption, FS_Subset, FS_CardinalityType
    <2>2. Deficit(MaxMarkets, pct) \in Nat
      BY RunAssumption, Deficits
    <2>3. Overshoot(pct, listed) = IF pct < 0 THEN Greater(Deficit(MaxMarkets, pct), Cardinality(listed)) ELSE 0
      BY DEF Overshoot, Deficit
    <2> QED BY <2>1, <2>2, <2>3 DEF Greater
  <1>3. ScanLimit(r) \in Nat
    <2>1. Overshoot(r.watchlist, Watchlist) \in Nat /\ Overshoot(AlphaShare(r), Alphas) \in Nat
      BY <1>2, SharesTyped, PrioritizerAssumption
    <2> QED BY <2>1, RunAssumption DEF ScanLimit
  <1> QED BY <1>1, <1>3

LEMMA SourcesFewStep ==
  ASSUME SourcesFew, [RunNext]_runVars
  PROVE  SourcesFew'
PROOF
  <1>0. UNCHANGED ratios
    BY DEF RunNext, ScanStep, BeginScan, NoMarkets, GetMarkets, SkipMarket, ReadMarket, Sample, SampleControl,
           SelectSamples, SelectControl, EndScan, Leave, CleanupStep, Over, HourPasses, AskToStop,
           CooldownEnds, runVars
  <1>1. CASE UNCHANGED sources
    BY <1>0, <1>1 DEF SourcesFew
  <1>2. ASSUME NEW offered \in (SUBSET Markets) \ {{}}, GetMarkets(offered)
        PROVE  SourcesFew'
    <2>1. /\ sources' \in Prioritized(offered, MaxMarkets, observed, ratios)
          /\ offered \in SUBSET Markets /\ ratios \in Ratios
      BY <1>2 DEF GetMarkets, SourcesFew
    <2>2. SizeOf(sources') \in Nat /\ ScanLimit(ratios) \in Nat /\ SizeOf(sources') <= ScanLimit(ratios)
      BY <2>1, PrioritizedFits
    <2> QED BY <1>0, <2>1, <2>2 DEF SourcesFew
  <1>3. CASE EndScan
    <2>1. sources' = NoSources
      BY <1>3 DEF EndScan
    <2> QED BY <1>0, <2>1, NoSourcesFew DEF SourcesFew
  <1>4. ScanStep =>
          UNCHANGED sources \/ EndScan \/ \E offered \in (SUBSET Markets) \ {{}} : GetMarkets(offered)
    BY DEF ScanStep, BeginScan, NoMarkets, SkipMarket, ReadMarket, Sample, SampleControl, SelectSamples,
           SelectControl, Leave, CleanupStep, scanVars
  <1>5. [RunNext]_runVars => ScanStep \/ UNCHANGED sources
    BY DEF RunNext, Over, HourPasses, AskToStop, CooldownEnds, runVars, scanVars
  <1> QED BY <1>1, <1>2, <1>3, <1>4, <1>5

\* The three sources of a scan never exceed its limit together, whatever the
\* ratios (MarketPrioritizer.prioritize).
THEOREM ScansFew == RunSpec => []SourcesFew
PROOF
  <1>1. RunInit => SourcesFew
    BY NoSourcesFew DEF RunInit, SourcesFew
  <1>2. SourcesFew /\ [RunNext]_runVars => SourcesFew'
    BY SourcesFewStep
  <1> QED BY <1>1, <1>2, PTL DEF RunSpec

-----------------------------------------------------------------------------
(* The properties *)

LEMMA UnionSize ==
  ASSUME NEW S, IsFiniteSet(S), NEW T, IsFiniteSet(T)
  PROVE  /\ IsFiniteSet(S \cup T)
         /\ Cardinality(S) \in Nat /\ Cardinality(T) \in Nat /\ Cardinality(S \cup T) \in Nat
         /\ Cardinality(S \cup T) <= Cardinality(S) + Cardinality(T)
PROOF
  <1>1. IsFiniteSet(S \cup T) /\ Cardinality(S \cup T) = Cardinality(S) + Cardinality(T) - Cardinality(S \cap T)
    BY FS_Union, Zenon
  <1>2. IsFiniteSet(S \cap T)
    BY FS_Intersection
  <1>3. /\ Cardinality(S) \in Nat /\ Cardinality(T) \in Nat
        /\ Cardinality(S \cap T) \in Nat /\ Cardinality(S \cup T) \in Nat
    BY <1>1, <1>2, FS_CardinalityType
  <1> QED BY <1>1, <1>3

LEMMA InvGivesScans == RunInv /\ SourcesFew => ScansWithinMaxMarkets
PROOF
  <1> SUFFICES ASSUME RunInv, SourcesFew PROVE ScansWithinMaxMarkets
    OBVIOUS
  <1> DEFINE W == sources.watchlist
             A == sources.alpha
             D == sources.discovery
  <1>1. /\ W \in SUBSET Markets /\ A \in SUBSET Markets /\ D \in SUBSET Markets
        /\ books \in SUBSET ((W \cup A) \cup D)
    BY DEF RunInv, RunTypeOK, Scanned
  <1> DEFINE limit == ScanLimit(ratios)
  <1>2. Cardinality(W) + Cardinality(A) + Cardinality(D) <= limit /\ limit \in Nat
    BY DEF SourcesFew, SizeOf
  <1> HIDE DEF W, A, D, limit
  <1>3. IsFiniteSet(W) /\ IsFiniteSet(A) /\ IsFiniteSet(D)
    BY <1>1, PrioritizerAssumption, FS_Subset
  <1>4. /\ IsFiniteSet(W \cup A)
        /\ Cardinality(W) \in Nat /\ Cardinality(A) \in Nat /\ Cardinality(W \cup A) \in Nat
        /\ Cardinality(W \cup A) <= Cardinality(W) + Cardinality(A)
    BY <1>3, UnionSize
  <1>5. /\ IsFiniteSet((W \cup A) \cup D)
        /\ Cardinality(D) \in Nat /\ Cardinality((W \cup A) \cup D) \in Nat
        /\ Cardinality((W \cup A) \cup D) <= Cardinality(W \cup A) + Cardinality(D)
    BY <1>3, <1>4, UnionSize
  <1>6. Cardinality(books) \in Nat /\ Cardinality(books) <= Cardinality((W \cup A) \cup D)
    BY <1>1, <1>5, FS_Subset, FS_CardinalityType
  <1>7. Cardinality(books) <= limit
    BY <1>2, <1>4, <1>5, <1>6
  <1> QED BY <1>2, <1>7 DEF ScansWithinMaxMarkets, RunInv, SourcesApart, W, A, D, limit

\* None of a scan's markets is read as two things, for every list, priority,
\* limit and ratio, and a scan reads at most max_markets of them, or, with
\* ratios that make a share negative, as many more as the slice may be wrong
\* by (MarketPrioritizer.prioritize).
THEOREM ScansAreWithinBounds == RunSpec => []ScansWithinMaxMarkets
PROOF
  BY RunInvariant, ScansFew, InvGivesScans, PTL

\* Samples and control group together ask no more often than the limit of the
\* samples and once, whatever cooldown and budget do.
THEOREM NeverAskedTooOften == RunSpec => []NotAskedTooOften
PROOF
  <1>1. RunInv => NotAskedTooOften
    BY DEF RunInv
  <1> QED BY RunInvariant, <1>1, PTL
=============================================================================
