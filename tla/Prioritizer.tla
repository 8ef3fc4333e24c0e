----------------------------- MODULE Prioritizer -----------------------------
(***************************************************************************)
(* Which markets a scan of the paper runner reads, and as what: the        *)
(* MarketPrioritizer of polysignal/runner/watchlist.py.  The ratios are    *)
(* floats in the code and percentages here; the product of a float ratio   *)
(* and a count may fall just short of the whole number it should be.  The  *)
(* command line takes any ratios, below zero and above one as well.        *)
(***************************************************************************)
EXTENDS Integers, FiniteSets

CONSTANTS
  Markets,        \* market ids
  Watchlist,      \* ids in the watchlist file
  Alphas,         \* ids of the alpha candidates file
  Evidence,       \* priority of a watchlist market by its evidence level
  Tier,           \* priority of an alpha candidate by its near-miss tier
  Ratios,         \* the ratios a run may be given: watchlist_priority_ratio,
                  \* alpha_priority_ratio and discovery_ratio
  RepeatTarget    \* alpha_repeat_target

ASSUME PrioritizerAssumption ==
  /\ IsFiniteSet(Markets) /\ Watchlist \subseteq Markets /\ Alphas \subseteq Markets
  /\ Evidence \in [Watchlist -> Nat] /\ Tier \in [Alphas -> Nat]
  /\ Ratios \subseteq [watchlist : Int, alpha : Int, discovery : Int]
  /\ RepeatTarget \in Nat

-----------------------------------------------------------------------------
Smaller(a, b) == IF a <= b THEN a ELSE b
Greater(a, b) == IF a <= b THEN b ELSE a

\* int(n * pct / 100), which truncates toward zero, with the float's error.
Part(n, pct) ==
  LET exact == IF pct >= 0 THEN (n * pct) \div 100 ELSE -((n * (-pct)) \div 100)
  IN  {exact} \cup (IF (n * pct) % 100 # 0 THEN {}
                    ELSE {k \in {exact - 1, exact + 1} : k * k < exact * exact})

MinDiscoveryPct == 10

DiscoveryPct(pct) == Greater(pct, MinDiscoveryPct)

Quota(w, a, d) == [watchlist |-> w, alpha |-> a, discovery |-> d]

\* deviation: the alphas' share is taken of the markets that need observing
AlphaQuotasOfNeeding(n, watchPct, alphaPct, needing) ==
  {Quota(w, a, n - a - w) :
     a \in Part(Smaller(needing, n), Smaller(alphaPct, 80)), w \in Part(n, watchPct)}

\* The slots of a scan of n markets when alphas are repeated.
AlphaQuotas(n, watchPct, alphaPct, needing) ==
  {LET a == Smaller(slots, needing)
       d == Smaller(Greater(1, floor), n - a)
       w == Smaller(Greater(0, n - a - d), cap)
   IN  Quota(w, a, n - a - w) :
     slots \in Part(n, Smaller(alphaPct, 80)), floor \in Part(n, MinDiscoveryPct),
     cap \in Part(n, watchPct)}

\* The slots when they are not.
LegacyQuotas(n, watchPct, discoveryPct) ==
  {LET d == n - w - a
       rest == n - floor
       w2 == (rest * 7) \div 10
   IN  IF d < floor THEN Quota(w2, rest - w2, floor) ELSE Quota(w, a, d) :
     w \in Part(n, watchPct),
     a \in Part(n, 100 - watchPct - DiscoveryPct(discoveryPct)),
     floor \in Part(n, MinDiscoveryPct)}

\* With an alpha_priority_ratio of 0 or less the alphas are not repeated.
Repeats(r) == r.alpha > 0

Quotas(n, needing, r) ==
  IF Repeats(r) THEN AlphaQuotas(n, r.watchlist, r.alpha, needing)
                ELSE LegacyQuotas(n, r.watchlist, r.discovery)

-----------------------------------------------------------------------------
\* The length of a list of n items cut to [:k].
SliceLength(n, k) == IF k >= 0 THEN Smaller(n, k) ELSE Greater(0, n + k)

\* What [:k] may leave of a set sorted by falling rank, ties in any order.
Top(S, k, rank) ==
  {T \in SUBSET S :
     /\ Cardinality(T) = SliceLength(Cardinality(S), k)
     /\ \A a \in T, b \in S \ T : rank[a] >= rank[b]}

NeedsObservation(m, observed) == observed[m] < RepeatTarget

AlphaRank(m, observed, r) ==
  IF Repeats(r) THEN Tier[m] + 10 * (RepeatTarget - observed[m]) ELSE Tier[m]

\* Alphas that are observed often enough leave the race.
AlphaCandidates(S, observed, r) ==
  {m \in S \cap Alphas : Repeats(r) => NeedsObservation(m, observed)}

RoomWithoutAlphas(n, W, A) == n - Cardinality(W)    \* deviation: the alphas are not counted

Room(n, W, A) == n - Cardinality(W) - Cardinality(A)

\* prioritize: watchlist markets by evidence, alphas by rank, and the rest of
\* the scan, up to n markets, at random.
Prioritized(offered, n, observed, r) ==
  LET needing == Cardinality({m \in Alphas \cap offered : NeedsObservation(m, observed)})
      Discover(q, W, A) ==
        {[watchlist |-> W, alpha |-> A, discovery |-> D] :
           D \in Top(offered \ (W \cup A), Greater(q.discovery, Room(n, W, A)), [m \in offered |-> 0])}
      Repeat(q, W) ==
        UNION {Discover(q, W, A) : A \in Top(AlphaCandidates(offered \ W, observed, r), q.alpha,
                                             [m \in Alphas |-> AlphaRank(m, observed, r)])}
      Watch(q) ==
        UNION {Repeat(q, W) : W \in Top(offered \cap Watchlist, q.watchlist, Evidence)}
  IN  UNION {Watch(q) : q \in Quotas(n, needing, r)}

=============================================================================
