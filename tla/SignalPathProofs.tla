-------------------------- MODULE SignalPathProofs --------------------------
(***************************************************************************)
(* What the way to a decision guarantees for every market, book, model,    *)
(* limit and threshold: no program that is wired up this way decides to    *)
(* trade, nothing a mock made up reaches a decision on real data, and a    *)
(* worse world never gets a more permissive decision.                      *)
(*                                                                         *)
(* The first rests on arithmetic: the strategy caps its own liquidity      *)
(* score at 90 and the lifecycle's best phase is worth 90, so that with    *)
(* nobody's wallet watched the base score stays below 90 points, whatever  *)
(* the book and the model say.  The last needs the score only to fall,     *)
(* except where a falling score clears a signal-only rejection: then it is *)
(* too low for any trade already.                                          *)
(***************************************************************************)
EXTENDS SignalPath, FiniteSetTheorems, WellFoundedInduction, TLAPS

-----------------------------------------------------------------------------
(* The Governor's arithmetic. *)

ScoresOK(scores) == scores \in [Components -> 0 .. 100]

Percent(x) == x \in Int /\ 0 <= x /\ x <= 100

LEMMA ScoresType ==
  ASSUME NEW scores, ScoresOK(scores)
  PROVE  /\ Percent(scores["microstructure"]) /\ Percent(scores["liquidity"])
         /\ Percent(scores["event"]) /\ Percent(scores["wallet"]) /\ Percent(scores["lifecycle"])
PROOF
  <1>1. \A c \in Components : Percent(scores[c])
    BY DEF ScoresOK, Percent
  <1> QED BY <1>1 DEF Components

LEMMA BaseScoreType ==
  ASSUME NEW scores, ScoresOK(scores)
  PROVE  BaseScore(scores) \in Nat
PROOF
  BY ScoresType DEF BaseScore, Percent

LEMMA BaseScoreFalls ==
  ASSUME NEW a, NEW b, ScoresOK(a), ScoresOK(b), \A c \in Components : b[c] <= a[c]
  PROVE  BaseScore(b) <= BaseScore(a)
PROOF
  <1>1. /\ b["microstructure"] <= a["microstructure"] /\ b["liquidity"] <= a["liquidity"]
        /\ b["event"] <= a["event"] /\ b["wallet"] <= a["wallet"] /\ b["lifecycle"] <= a["lifecycle"]
    BY DEF Components
  <1>2. \A c \in Components : a[c] \in 0 .. 100 /\ b[c] \in 0 .. 100
    BY DEF ScoresOK
  <1>3. /\ a["microstructure"] \in Int /\ a["liquidity"] \in Int /\ a["event"] \in Int
        /\ a["wallet"] \in Int /\ a["lifecycle"] \in Int
        /\ b["microstructure"] \in Int /\ b["liquidity"] \in Int /\ b["event"] \in Int
        /\ b["wallet"] \in Int /\ b["lifecycle"] \in Int
    BY <1>2 DEF Components
  <1> QED BY <1>1, <1>3 DEF BaseScore

\* Where an engine's score stands alone the base is below any trade's.
LEMMA AloneIsLow ==
  ASSUME NEW scores, ScoresOK(scores),
         scores["microstructure"] < 60, scores["liquidity"] < 60,
         scores["event"] < 60 \/ scores["wallet"] < 60
  PROVE  BaseScore(scores) < 8000
PROOF
  BY ScoresType DEF BaseScore, Percent

LEMMA FlagPenaltyType ==
  ASSUME NEW flags, NEW flag, NEW points \in Nat
  PROVE  FlagPenalty(flags, flag, points) \in Nat
PROOF
  BY DEF FlagPenalty

LEMMA PenaltiesType ==
  ASSUME NEW i, i.book.spread \in Int
  PROVE  Penalties(i) \in Nat
PROOF
  <1>1. SlippagePenalty(i.book) \in Nat
    BY DEF SlippagePenalty
  <1>2. ConcentrationPenalty(i.account) \in Nat
    BY DEF ConcentrationPenalty
  <1>3. CopyRiskPenalty(i.flags) \in Nat /\ LlmPenalty(i.flags) \in Nat
    BY DEF CopyRiskPenalty, LlmPenalty, FlagPenalty
  <1>4. \A flag : FlagPenalty(i.flags, flag, 10) \in Nat /\ FlagPenalty(i.flags, flag, 5) \in Nat
    BY DEF FlagPenalty
  <1>5. /\ FlagPenalty(i.flags, "ambiguous_market", 10) \in Nat
        /\ FlagPenalty(i.flags, "chase_risk_high", 10) \in Nat
        /\ FlagPenalty(i.flags, "timing_risk_high", 5) \in Nat
        /\ FlagPenalty(i.flags, "event_high_ambiguity", 10) \in Nat
        /\ FlagPenalty(i.flags, "event_weak_evidence", 5) \in Nat
    BY <1>4
  <1> HIDE <1>4
  <1> QED BY <1>1, <1>2, <1>3, <1>5 DEF Penalties

LEMMA ClampType ==
  ASSUME NEW x \in Int, NEW y \in Nat, x <= y
  PROVE  Clamp(x) \in Int /\ 0 <= Clamp(x) /\ Clamp(x) <= 10000 /\ Clamp(x) <= y
PROOF
  BY DEF Clamp

LEMMA TradeScoreType ==
  ASSUME NEW i, ScoresOK(i.scores), i.book.spread \in Int
  PROVE  /\ TradeScore(i) \in Int /\ 0 <= TradeScore(i) /\ TradeScore(i) <= 10000
         /\ TradeScore(i) <= BaseScore(i.scores)
PROOF
  <1> DEFINE base == BaseScore(i.scores)
  <1> DEFINE net == base - Penalties(i)
  <1>1. base \in Nat /\ Penalties(i) \in Nat
    BY BaseScoreType, PenaltiesType
  <1>2. TradeScore(i) = Clamp(net)
    BY DEF TradeScore
  <1> HIDE DEF base
  <1>3. net \in Int /\ net <= base
    BY <1>1
  <1> HIDE DEF net
  <1>4. Clamp(net) \in Int /\ 0 <= Clamp(net) /\ Clamp(net) <= 10000 /\ Clamp(net) <= base
    BY <1>1, <1>3, ClampType
  <1> QED BY <1>2, <1>4 DEF base

\* What each range of the score leads to.
LEMMA ActionOfScore ==
  ASSUME NEW score \in Int, NEW flags
  PROVE  /\ score < 8000 => DecideAction(score, flags) \in {"ignore", "log_only"}
         /\ 8000 <= score /\ score < 9000 => DecideAction(score, flags) = "alert"
         /\ 9000 <= score /\ score < 9500 => DecideAction(score, flags) \in {"manual_review", "paper_trade"}
         /\ 9500 <= score => DecideAction(score, flags) =
                               IF LiveEnabled /\ AutoExecution THEN "live_execute" ELSE "paper_trade"
PROOF
  <1>1. CASE score < 7000
    BY <1>1 DEF DecideAction
  <1>2. CASE 7000 <= score /\ score < 8000
    BY <1>2 DEF DecideAction
  <1>3. CASE 8000 <= score /\ score < 9000
    BY <1>3 DEF DecideAction
  <1>4. CASE 9000 <= score /\ score < 9500
    BY <1>4 DEF DecideAction
  <1>5. CASE 9500 <= score
    BY <1>5 DEF DecideAction
  <1> QED BY <1>1, <1>2, <1>3, <1>4, <1>5

LEMMA ActionType ==
  ASSUME NEW score \in Int, NEW flags
  PROVE  DecideAction(score, flags) \in Actions
PROOF
  <1>1. score < 8000 \/ (8000 <= score /\ score < 9000) \/ (9000 <= score /\ score < 9500) \/ 9500 <= score
    OBVIOUS
  <1> QED BY <1>1, ActionOfScore DEF Actions

LEMMA AllowedType ==
  ASSUME NEW action \in Actions
  PROVE  AllowedActions(action) \subseteq Actions
PROOF
  <1>1. CASE action = "hard_reject"
    BY <1>1 DEF AllowedActions
  <1>2. CASE action \in {"ignore", "log_only"}
    BY <1>2 DEF AllowedActions
  <1>3. CASE action \notin {"hard_reject", "ignore", "log_only"}
    BY <1>3 DEF AllowedActions, Actions
  <1> QED BY <1>1, <1>2, <1>3

LEMMA DecisionScored ==
  ASSUME NEW i, ScoresOK(i.scores), i.book.spread \in Int
  PROVE  /\ Evaluate(i).score \in Int
         /\ 0 <= Evaluate(i).score /\ Evaluate(i).score <= 10000
PROOF
  <1> DEFINE score == TradeScore(i)
  <1> DEFINE s == Evaluate(i).score
  <1>1. s = 0 \/ s = score
    BY DEF Evaluate
  <1>2. score \in Int /\ 0 <= score /\ score <= 10000
    BY TradeScoreType
  <1> HIDE DEF score, s
  <1>3. s \in Int /\ 0 <= s /\ s <= 10000
    BY <1>1, <1>2
  <1> QED BY <1>3 DEF s

LEMMA DecisionTyped ==
  ASSUME NEW i, ScoresOK(i.scores), i.book.spread \in Int
  PROVE  Evaluate(i).action \in Actions /\ Evaluate(i).allowed \subseteq Actions
PROOF
  <1>1. TradeScore(i) \in Int
    BY TradeScoreType
  <1>2. DecideAction(TradeScore(i), i.flags) \in Actions
    BY <1>1, ActionType
  <1>3. "hard_reject" \in Actions
    BY DEF Actions
  <1>4. Evaluate(i).action \in Actions /\ Evaluate(i).allowed = AllowedActions(Evaluate(i).action)
    BY <1>2, <1>3 DEF Evaluate
  <1> QED BY <1>4, AllowedType

\* A base score below 90 points decides no trade.
LEMMA LowBaseNeverTrades ==
  ASSUME NEW i, ScoresOK(i.scores), i.book.spread \in Int, BaseScore(i.scores) < 9000
  PROVE  Evaluate(i).action \notin {"paper_trade", "live_execute", "manual_review"}
PROOF
  <1>1. TradeScore(i) \in Int /\ TradeScore(i) < 9000
    <2> DEFINE base == BaseScore(i.scores)
    <2> DEFINE score == TradeScore(i)
    <2>1. score \in Int /\ score <= base
      BY TradeScoreType
    <2>2. base \in Nat /\ base < 9000
      BY BaseScoreType
    <2> HIDE DEF base, score
    <2>3. score \in Int /\ score < 9000
      BY <2>1, <2>2
    <2> QED BY <2>3 DEF score
  <1>2. DecideAction(TradeScore(i), i.flags) \in {"ignore", "log_only", "alert"}
    BY <1>1, ActionOfScore
  <1> QED BY <1>2 DEF Evaluate
-----------------------------------------------------------------------------
(* Books: best prices, spreads and the strategy's two scores. *)

Below(T, m) == {k \in T : k < m}

\* Numbers, however many, have a least one: there is no smaller set of smaller
\* numbers.
LEMMA LeastNumber ==
  ASSUME NEW T, T \subseteq Nat, T # {}
  PROVE  \E m \in T : \A k \in T : m <= k
PROOF
  <1> DEFINE F == {Below(T, m) : m \in T}
  <1>1. ASSUME NEW m \in T PROVE Below(T, m) \in FiniteSubsetsOf(Nat)
    <2>1. Below(T, m) \in SUBSET Nat /\ m \in Nat
      BY DEF Below
    <2>2. \A k \in Below(T, m) : k <= m
      BY <2>1 DEF Below
    <2> QED BY <2>1, <2>2, FS_BoundedSetOfNaturals DEF FiniteSubsetsOf
  <1>2. F \subseteq FiniteSubsetsOf(Nat) /\ F # {}
    BY <1>1
  <1>3. \E B \in F : \A C \in F : <<C, B>> \notin StrictSubsetOrdering(Nat)
    <2> HIDE DEF F
    <2> QED BY <1>2, FS_StrictSubsetOrderingWellFounded, WFMin
  <1>4. PICK m \in T : \A k \in T : <<Below(T, k), Below(T, m)>> \notin StrictSubsetOrdering(Nat)
    BY <1>3
  <1>5. ASSUME NEW k \in T, k < m PROVE FALSE
    <2>1. k \in Nat /\ m \in Nat
      OBVIOUS
    <2>2. Below(T, k) \subseteq Below(T, m)
      <3>1. \A j \in T : j \in Nat /\ (j < k => j < m)
        BY <1>5, <2>1
      <3> QED BY <3>1 DEF Below
    <2>3. k \in Below(T, m) /\ k \notin Below(T, k)
      BY <1>5, <2>1 DEF Below
    <2>4. Below(T, k) \in SUBSET Nat /\ Below(T, m) \in SUBSET Nat
      BY DEF Below
    <2> QED BY <1>4, <2>2, <2>3, <2>4 DEF StrictSubsetOrdering
  <1>6. \A k \in T : m \in Nat /\ k \in Nat
    OBVIOUS
  <1> QED BY <1>5, <1>6

\* Prices of valid levels have a best one on either side of the book.
LEMMA BestPrices ==
  ASSUME NEW T, \A p \in T : p \in Nat /\ p <= 1000, T # {}
  PROVE  Min(T) \in T /\ Max(T) \in T
PROOF
  <1>1. T \subseteq Nat
    OBVIOUS
  <1>2. PICK least \in T : \A p \in T : least <= p
    BY <1>1, LeastNumber
  <1>3. Min(T) \in T
    BY <1>2 DEF Min
  <1> DEFINE Turned == {1000 - p : p \in T}
  <1>4. Turned \subseteq Nat /\ Turned # {}
    OBVIOUS
  <1>5. PICK turned \in Turned : \A q \in Turned : turned <= q
    <2> HIDE DEF Turned
    <2> QED BY <1>4, LeastNumber
  <1>6. PICK most \in T : turned = 1000 - most
    OBVIOUS
  <1>7. \A p \in T : most >= p
    <2> TAKE p \in T
    <2>1. 1000 - most <= 1000 - p
      BY <1>5, <1>6
    <2>2. p \in Nat /\ most \in Nat
      OBVIOUS
    <2> QED BY <2>1, <2>2
  <1>8. Max(T) \in T
    BY <1>7 DEF Max
  <1> QED BY <1>3, <1>8

Priced(levels) == \A l \in levels : l.price \in Nat

LEMMA SideQuoted ==
  ASSUME NEW raw, Priced(raw.bids), Priced(raw.asks)
  PROVE  Quoted(SideOf(raw))
PROOF
  <1>1. ASSUME NEW levels, Priced(levels) PROVE BestBid(levels) \in Nat /\ BestAsk(levels) \in Nat
    <2> DEFINE prices == {l.price : l \in ValidLevels(levels)}
    <2>1. \A p \in prices : p \in Nat /\ p <= 1000
      BY <1>1 DEF ValidLevels, Priced
    <2>2. CASE prices = {}
      BY <2>2 DEF BestBid, BestAsk
    <2>3. CASE prices # {}
      <3>1. BestBid(levels) = Max(prices) /\ BestAsk(levels) = Min(prices)
        BY <2>3 DEF BestBid, BestAsk
      <3> HIDE DEF prices
      <3>2. Max(prices) \in prices /\ Min(prices) \in prices
        BY <2>1, <2>3, BestPrices
      <3> QED BY <2>1, <3>1, <3>2
    <2> QED BY <2>2, <2>3
  <1>2. BestBid(raw.bids) \in Nat /\ BestAsk(raw.asks) \in Nat
    BY <1>1
  <1> QED BY <1>2 DEF SideOf, Quoted

QuotedBook(b) == Quoted(b.yes) /\ Quoted(b.no)

LEMMA SpreadType ==
  ASSUME NEW b, QuotedBook(b)
  PROVE  SpreadBp(b) \in Int
PROOF
  <1> DEFINE bid == b.yes.bid
             ask == b.yes.ask
  <1>1. bid \in Nat /\ ask \in Nat
    BY DEF QuotedBook, Quoted
  <1>2. SpreadBp(b) = IF bid > 0 /\ ask > 0
                      THEN -((20000 * (bid - ask)) \div (ask + bid)) ELSE 0
    BY DEF SpreadBp, SpreadKnown
  <1> HIDE DEF bid, ask
  <1>3. CASE bid > 0 /\ ask > 0
    <2>1. 20000 * (bid - ask) \in Int /\ ask + bid \in Int /\ ask + bid > 0
      BY <1>1, <1>3
    <2>2. (20000 * (bid - ask)) \div (ask + bid) \in Int
      BY <2>1
    <2>3. -((20000 * (bid - ask)) \div (ask + bid)) \in Int
      BY <2>2
    <2> QED BY <1>2, <1>3, <2>3
  <1> QED BY <1>2, <1>3

LEMMA PointsType ==
  ASSUME NEW x \in Int
  PROVE  Percent(Points(x))
PROOF
  BY DEF Points, SmallerOf, Percent

LEMMA StrategyScores ==
  ASSUME NEW b, QuotedBook(b)
  PROVE  /\ Percent(MispricingScore(b))
         /\ MispricingLiquidity(b) \in {50, 70, 80, 90}
PROOF
  <1>1. CombinedAsk(b) \in Int
    BY DEF QuotedBook, Quoted, CombinedAsk
  <1>2. SmallerOf(1000 - CombinedAsk(b), 100) \in Int
    BY <1>1 DEF SmallerOf
  <1> DEFINE bonus == CASE ShallowDepth(b) >= 100 -> 10
                        [] 50 <= ShallowDepth(b) /\ ShallowDepth(b) < 100 -> 5
                        [] OTHER -> 0
  <1>3. bonus \in Int
    OBVIOUS
  <1>4. MispricingScore(b) = Points(SmallerOf(1000 - CombinedAsk(b), 100) + bonus)
    BY DEF MispricingScore
  <1> HIDE DEF bonus
  <1>5. SmallerOf(1000 - CombinedAsk(b), 100) + bonus \in Int
    BY <1>2, <1>3
  <1>6. Percent(MispricingScore(b))
    BY <1>4, <1>5, PointsType
  <1>7. MispricingLiquidity(b) \in {50, 70, 80, 90}
    BY DEF MispricingLiquidity
  <1> QED BY <1>6, <1>7

\* No phase of a market is worth more than 90 points, and no risk adds any.
LEMMA LifecycleType ==
  ASSUME NEW m, Described(m)
  PROVE  LifecycleScore(m) \in Int /\ 0 <= LifecycleScore(m) /\ LifecycleScore(m) <= 90
PROOF
  <1>1. Phase(m) \in {"early", "mid", "late", "closing", "closed"}
    <2>1. PhaseByShare(m) \in {"early", "mid", "late", "closing"}
      BY DEF PhaseByShare
    <2>2. PhaseByHours(m) \in {"mid", "late", "closing"}
      BY DEF PhaseByHours
    <2> QED BY <2>1, <2>2 DEF Phase
  <1>2. PhaseScore[Phase(m)] \in {0, 50, 70, 80, 90}
    BY <1>1 DEF PhaseScore
  <1>3. CloseTimeRisk[Phase(m)] \in {0, 10, 50, 90, 100}
    BY <1>1 DEF CloseTimeRisk
  <1>4. AmbiguityRisk(m) \in {0, 20, 30, 50, 80, 100}
    BY DEF AmbiguityRisk, Described
  <1>5. ResolutionRisk(m) \in {0, 30, 50, 60, 70}
    BY DEF ResolutionRisk, Described
  <1> DEFINE worth == PhaseScore[Phase(m)]
             soon == CloseTimeRisk[Phase(m)]
             unclear == AmbiguityRisk(m)
             unsettled == ResolutionRisk(m)
             net == (100 * worth - 40 * unclear - 25 * unsettled - 20 * soon) \div 100
  <1>6. LifecycleScore(m) = Points(net)
    BY DEF LifecycleScore
  <1>7. /\ worth \in Int /\ worth <= 90 /\ soon \in Int /\ soon >= 0
        /\ unclear \in Int /\ unclear >= 0 /\ unsettled \in Int /\ unsettled >= 0
    BY <1>2, <1>3, <1>4, <1>5
  <1> HIDE DEF worth, soon, unclear, unsettled
  <1>8. net \in Int /\ net <= 90
    BY <1>7
  <1> HIDE DEF net
  <1> QED BY <1>6, <1>8 DEF Points, SmallerOf
-----------------------------------------------------------------------------
(* When a decision permits a trade, and why a worse world never adds one. *)

Measured(i) == ScoresOK(i.scores) /\ i.book.spread \in Int

LEMMA AllowedWhen ==
  ASSUME NEW a
  PROVE  /\ "paper_trade" \in AllowedActions(a)
              <=> PaperEnabled /\ a \in {"alert", "paper_trade", "manual_review"}
         /\ "live_execute" \in AllowedActions(a) => LiveEnabled
         /\ a = "live_execute" /\ LiveEnabled => "live_execute" \in AllowedActions(a)
         /\ a # "live_execute" => "live_execute" \notin AllowedActions(a)
PROOF
  BY DEF AllowedActions

\* What a decision permits depends on its score, rejections apart.
PaperScore(score) ==
  \/ PaperEnabled /\ score >= 8000
  \/ LiveEnabled /\ AutoExecution /\ score >= 9500

LiveScore(score) == LiveEnabled /\ AutoExecution /\ score >= 9500

LEMMA ActionsPermit ==
  ASSUME NEW score \in Int, NEW flags
  PROVE  /\ AllowedActions(DecideAction(score, flags)) \cap {"paper_trade", "live_execute"} # {}
              <=> PaperScore(score)
         /\ "live_execute" \in AllowedActions(DecideAction(score, flags)) <=> LiveScore(score)
PROOF
  <1> DEFINE action == DecideAction(score, flags)
  <1>0. \/ score < 8000 \/ (8000 <= score /\ score < 9000)
        \/ (9000 <= score /\ score < 9500) \/ 9500 <= score
    OBVIOUS
  <1>1. CASE score < 8000
    <2>1. action \in {"ignore", "log_only"}
      BY <1>1, ActionOfScore
    <2>2. ~PaperScore(score) /\ ~LiveScore(score)
      BY <1>1 DEF PaperScore, LiveScore
    <2> HIDE DEF action
    <2>3. "paper_trade" \notin AllowedActions(action) /\ "live_execute" \notin AllowedActions(action)
      BY <2>1, AllowedWhen
    <2> QED BY <2>2, <2>3 DEF action
  <1>2. CASE 8000 <= score /\ score < 9000
    <2>1. action = "alert"
      BY <1>2, ActionOfScore
    <2>2. (PaperScore(score) <=> PaperEnabled) /\ ~LiveScore(score)
      BY <1>2 DEF PaperScore, LiveScore
    <2> HIDE DEF action
    <2>3. ("paper_trade" \in AllowedActions(action) <=> PaperEnabled)
            /\ "live_execute" \notin AllowedActions(action)
      BY <2>1, AllowedWhen
    <2> QED BY <2>2, <2>3 DEF action
  <1>3. CASE 9000 <= score /\ score < 9500
    <2>1. action \in {"manual_review", "paper_trade"}
      BY <1>3, ActionOfScore
    <2>2. (PaperScore(score) <=> PaperEnabled) /\ ~LiveScore(score)
      BY <1>3 DEF PaperScore, LiveScore
    <2> HIDE DEF action
    <2>3. ("paper_trade" \in AllowedActions(action) <=> PaperEnabled)
            /\ "live_execute" \notin AllowedActions(action)
      BY <2>1, AllowedWhen
    <2> QED BY <2>2, <2>3 DEF action
  <1>4. CASE 9500 <= score
    <2>1. action = IF LiveEnabled /\ AutoExecution THEN "live_execute" ELSE "paper_trade"
      BY <1>4, ActionOfScore
    <2>2. /\ PaperScore(score) <=> (PaperEnabled \/ (LiveEnabled /\ AutoExecution))
          /\ LiveScore(score) <=> (LiveEnabled /\ AutoExecution)
      BY <1>4 DEF PaperScore, LiveScore
    <2> HIDE DEF action
    <2>3. CASE LiveEnabled /\ AutoExecution
      <3>1. "live_execute" \in AllowedActions(action)
        BY <2>1, <2>3, AllowedWhen
      <3> QED BY <2>2, <2>3, <3>1 DEF action
    <2>4. CASE ~(LiveEnabled /\ AutoExecution)
      <3>1. action = "paper_trade"
        BY <2>1, <2>4
      <3>2. ("paper_trade" \in AllowedActions(action) <=> PaperEnabled)
              /\ "live_execute" \notin AllowedActions(action)
        BY <3>1, AllowedWhen
      <3> QED BY <2>2, <2>4, <3>2 DEF action
    <2> QED BY <2>3, <2>4
  <1> QED BY <1>0, <1>1, <1>2, <1>3, <1>4

LEMMA DecisionPermits ==
  ASSUME NEW i, Measured(i)
  PROVE  /\ Trades(Evaluate(i)) <=> HardRejectReasons(i) = {} /\ PaperScore(TradeScore(i))
         /\ "live_execute" \in Evaluate(i).allowed
              <=> HardRejectReasons(i) = {} /\ LiveScore(TradeScore(i))
PROOF
  <1> DEFINE score == TradeScore(i)
             action == DecideAction(score, i.flags)
  <1>1. score \in Int
    BY TradeScoreType DEF Measured
  <1>2. CASE HardRejectReasons(i) # {}
    <2>1. Evaluate(i).allowed = {}
      BY <1>2 DEF Evaluate, AllowedActions
    <2> QED BY <1>2, <2>1 DEF Trades
  <1>3. CASE HardRejectReasons(i) = {}
    <2>1. Evaluate(i).allowed = AllowedActions(action)
      BY <1>3 DEF Evaluate
    <2>2. /\ AllowedActions(action) \cap {"paper_trade", "live_execute"} # {} <=> PaperScore(score)
          /\ "live_execute" \in AllowedActions(action) <=> LiveScore(score)
      <3> HIDE DEF score
      <3> QED BY <1>1, ActionsPermit
    <2> HIDE DEF score, action
    <2>3. /\ Trades(Evaluate(i)) <=> PaperScore(score)
          /\ "live_execute" \in Evaluate(i).allowed <=> LiveScore(score)
      BY <2>1, <2>2 DEF Trades
    <2> QED BY <1>3, <2>3 DEF score
  <1> QED BY <1>2, <1>3

\* What stands against a signal whatever its scores.
OtherReasons(i) ==
  SystemReasons(i.system) \union MarketReasons(i.market, i.flags)
    \union BookReasons(i.book, i.side) \union AccountReasons(i.account)

\* b is shown a world no better than a's.
Worse(a, b) ==
  /\ a.flags \subseteq b.flags
  /\ OtherReasons(a) \subseteq OtherReasons(b)
  /\ Penalties(a) <= Penalties(b)
  /\ \A c \in Components : b.scores[c] <= a.scores[c]

LEMMA ScoresFall ==
  ASSUME NEW a, NEW b, Measured(a), Measured(b), Worse(a, b)
  PROVE  TradeScore(b) <= TradeScore(a)
PROOF
  <1> DEFINE basea == BaseScore(a.scores)
             baseb == BaseScore(b.scores)
             pena == Penalties(a)
             penb == Penalties(b)
  <1>1. basea \in Nat /\ baseb \in Nat
    BY BaseScoreType DEF Measured
  <1>2. pena \in Nat /\ penb \in Nat
    BY PenaltiesType DEF Measured
  <1>3. baseb <= basea
    BY BaseScoreFalls DEF Measured, Worse
  <1>4. pena <= penb
    BY DEF Worse
  <1>5. TradeScore(a) = Clamp(basea - pena) /\ TradeScore(b) = Clamp(baseb - penb)
    BY DEF TradeScore
  <1> HIDE DEF basea, baseb, pena, penb
  <1>6. Clamp(baseb - penb) <= Clamp(basea - pena)
    BY <1>1, <1>2, <1>3, <1>4 DEF Clamp
  <1> QED BY <1>5, <1>6
LEMMA WorseIsStricter ==
  ASSUME NEW a, NEW b, Measured(a), Measured(b), Worse(a, b)
  PROVE  /\ Trades(Evaluate(b)) => Trades(Evaluate(a))
         /\ "live_execute" \in Evaluate(b).allowed => "live_execute" \in Evaluate(a).allowed
PROOF
  <1> DEFINE sa == TradeScore(a)
             sb == TradeScore(b)
  <1>1. sa \in Int /\ sb \in Int /\ sb <= sa
    BY TradeScoreType, ScoresFall DEF Measured
  <1>2. (PaperScore(sb) => PaperScore(sa)) /\ (LiveScore(sb) => LiveScore(sa))
    <2> HIDE DEF sa, sb
    <2> QED BY <1>1 DEF PaperScore, LiveScore
  <1>3. PaperScore(sb) \/ LiveScore(sb) => sa >= 8000
    <2> HIDE DEF sa, sb
    <2> QED BY <1>1 DEF PaperScore, LiveScore
  <1>4. HardRejectReasons(b) = {} /\ sa >= 8000 => HardRejectReasons(a) = {}
    <2> SUFFICES ASSUME HardRejectReasons(b) = {}, sa >= 8000, HardRejectReasons(a) # {}
                 PROVE  FALSE
      OBVIOUS
    <2>1. OtherReasons(a) = {}
      BY DEF Worse, OtherReasons, HardRejectReasons
    <2>2. "wallet_signal_only" \notin a.flags /\ "event_signal_only" \notin a.flags
      <3>1. SignalReasons(b.scores, b.flags) = {}
        BY DEF HardRejectReasons
      <3>2. "wallet_signal_only" \notin b.flags /\ "event_signal_only" \notin b.flags
        BY <3>1 DEF SignalReasons
      <3> QED BY <3>2 DEF Worse
    <2>3. SignalReasons(a.scores, a.flags) # {}
      BY <2>1 DEF OtherReasons, HardRejectReasons
    <2>4. OnlySignal(a.scores, "wallet", "event") \/ OnlySignal(a.scores, "event", "wallet")
      BY <2>2, <2>3 DEF SignalReasons
    <2>5. BaseScore(a.scores) < 8000
      BY <2>4, AloneIsLow DEF OnlySignal, Measured
    <2>6. sa <= BaseScore(a.scores) /\ BaseScore(a.scores) \in Nat
      BY TradeScoreType, BaseScoreType DEF Measured
    <2> DEFINE base == BaseScore(a.scores)
    <2>7. base < 8000 /\ base \in Nat /\ sa <= base /\ sa \in Int /\ sa >= 8000
      BY <2>5, <2>6, <1>1
    <2> HIDE DEF base, sa
    <2> QED BY <2>7
  <1>5. /\ Trades(Evaluate(a)) <=> HardRejectReasons(a) = {} /\ PaperScore(sa)
        /\ Trades(Evaluate(b)) <=> HardRejectReasons(b) = {} /\ PaperScore(sb)
        /\ "live_execute" \in Evaluate(a).allowed <=> HardRejectReasons(a) = {} /\ LiveScore(sa)
        /\ "live_execute" \in Evaluate(b).allowed <=> HardRejectReasons(b) = {} /\ LiveScore(sb)
    BY DecisionPermits
  <1> HIDE DEF sa, sb
  <1> QED BY <1>2, <1>3, <1>4, <1>5

-----------------------------------------------------------------------------
(* The hypothetical inputs, and the ways they get worse. *)

Accounts == [dailyPnl : Int, weeklyPnl : Int, losses : Int,
             marketExposure : Int, strategyExposure : Int]

Inputs ==
  [scores : [Components -> 0 .. 100], side : {"yes", "no", "both"},
   flags : SUBSET (Flags \union LlmFlags),
   system : [apiHealthy : BOOLEAN, wsHealthy : BOOLEAN, priceStale : BOOLEAN],
   market : [open : BOOLEAN, ambiguous : BOOLEAN, autoAllowed : BOOLEAN, thin : BOOLEAN],
   book : [stale : BOOLEAN, spread : Int, depth : [{"yes", "no"} -> Int]],
   account : Accounts]

\* The signal's flags are those of the engines and of the answer, and an
\* event score behind which a call failed is neutral at most.
FlagsSplit(i, engines, answer) ==
  /\ engines \in SUBSET (Flags \ LlmFlags)
  /\ answer \in SUBSET (Flags \union LlmFlags)
  /\ i.flags = engines \union answer

NeutralAtMost(i, failed) == failed => i.scores["event"] <= 50

LEMMA InputsMeasured ==
  ASSUME NEW i \in Inputs
  PROVE  Measured(i)
PROOF
  BY DEF Inputs, Measured, ScoresOK

LEMMA HealthyTyped ==
  ASSUME NEW scores \in [Components -> 0 .. 100], NEW side \in {"yes", "no", "both"}
  PROVE  Healthy(scores, side) \in Inputs /\ Healthy(scores, side).flags = {}
PROOF
  <1>1. NewAccount \in Accounts
    BY DEF NewAccount, Accounts
  <1>2. [x \in {"yes", "no"} |-> MinDepth] \in [{"yes", "no"} -> Int]
    BY LimitsAssumption
  <1> DEFINE depths == [x \in {"yes", "no"} |-> MinDepth]
  <1> HIDE DEF depths
  <1> QED BY <1>1, <1>2 DEF Healthy, Inputs, depths

\* Penalties grow with the flags and with the spread.
LEMMA PenaltiesGrow ==
  ASSUME NEW a, NEW b, Measured(a), Measured(b), a.flags \subseteq b.flags,
         a.book.spread <= b.book.spread,
         ConcentrationPenalty(a.account) <= ConcentrationPenalty(b.account),
         LlmPenalty(a.flags) <= LlmPenalty(b.flags)
  PROVE  Penalties(a) <= Penalties(b)
PROOF
  <1>1. /\ SlippagePenalty(a.book) \in Int /\ SlippagePenalty(b.book) \in Int
        /\ SlippagePenalty(a.book) <= SlippagePenalty(b.book)
    BY DEF SlippagePenalty, Measured
  <1>2. /\ CopyRiskPenalty(a.flags) \in Int /\ CopyRiskPenalty(b.flags) \in Int
        /\ CopyRiskPenalty(a.flags) <= CopyRiskPenalty(b.flags)
    BY DEF CopyRiskPenalty, FlagPenalty
  <1>3. ASSUME NEW flag, NEW points \in Nat
        PROVE  /\ FlagPenalty(a.flags, flag, points) \in Int /\ FlagPenalty(b.flags, flag, points) \in Int
               /\ FlagPenalty(a.flags, flag, points) <= FlagPenalty(b.flags, flag, points)
    BY DEF FlagPenalty
  <1>4. LlmPenalty(a.flags) \in Int /\ LlmPenalty(b.flags) \in Int
    BY DEF LlmPenalty, FlagPenalty
  <1>5. ConcentrationPenalty(a.account) \in Int /\ ConcentrationPenalty(b.account) \in Int
    BY DEF ConcentrationPenalty
  <1> DEFINE fa(flag, points) == FlagPenalty(a.flags, flag, points)
             fb(flag, points) == FlagPenalty(b.flags, flag, points)
  <1>6. /\ fa("ambiguous_market", 10) \in Int /\ fb("ambiguous_market", 10) \in Int
        /\ fa("ambiguous_market", 10) <= fb("ambiguous_market", 10)
    BY <1>3
  <1>7. /\ fa("chase_risk_high", 10) \in Int /\ fb("chase_risk_high", 10) \in Int
        /\ fa("chase_risk_high", 10) <= fb("chase_risk_high", 10)
    BY <1>3
  <1>8. /\ fa("timing_risk_high", 5) \in Int /\ fb("timing_risk_high", 5) \in Int
        /\ fa("timing_risk_high", 5) <= fb("timing_risk_high", 5)
    BY <1>3
  <1>9. /\ fa("event_high_ambiguity", 10) \in Int /\ fb("event_high_ambiguity", 10) \in Int
        /\ fa("event_high_ambiguity", 10) <= fb("event_high_ambiguity", 10)
    BY <1>3
  <1>10. /\ fa("event_weak_evidence", 5) \in Int /\ fb("event_weak_evidence", 5) \in Int
         /\ fa("event_weak_evidence", 5) <= fb("event_weak_evidence", 5)
    BY <1>3
  <1>11. /\ Penalties(a) = fa("ambiguous_market", 10) + SlippagePenalty(a.book)
              + ConcentrationPenalty(a.account) + CopyRiskPenalty(a.flags)
              + fa("chase_risk_high", 10) + fa("timing_risk_high", 5)
              + fa("event_high_ambiguity", 10) + fa("event_weak_evidence", 5) + LlmPenalty(a.flags)
         /\ Penalties(b) = fb("ambiguous_market", 10) + SlippagePenalty(b.book)
              + ConcentrationPenalty(b.account) + CopyRiskPenalty(b.flags)
              + fb("chase_risk_high", 10) + fb("timing_risk_high", 5)
              + fb("event_high_ambiguity", 10) + fb("event_weak_evidence", 5) + LlmPenalty(b.flags)
    BY DEF Penalties
  <1> HIDE DEF fa, fb
  <1> HIDE <1>3
  <1> QED BY <1>1, <1>2, <1>4, <1>5, <1>6, <1>7, <1>8, <1>9, <1>10, <1>11
\* b differs from a in one part, or in none, and that part is no better.
LEMMA PartsWorse ==
  ASSUME NEW a \in Inputs, NEW b \in Inputs,
         b.side = a.side, a.flags \subseteq b.flags, LlmPenalty(a.flags) <= LlmPenalty(b.flags),
         \A c \in Components : b.scores[c] <= a.scores[c],
         SystemReasons(a.system) \subseteq SystemReasons(b.system),
         MarketReasons(a.market, a.flags) \subseteq MarketReasons(b.market, b.flags),
         BookReasons(a.book, a.side) \subseteq BookReasons(b.book, a.side),
         a.book.spread <= b.book.spread,
         AccountReasons(a.account) \subseteq AccountReasons(b.account),
         a.account.marketExposure <= b.account.marketExposure
  PROVE  Worse(a, b)
PROOF
  <1>1. OtherReasons(a) \subseteq OtherReasons(b)
    BY DEF OtherReasons
  <1>2. a.account.marketExposure \in Int /\ b.account.marketExposure \in Int
    BY DEF Inputs, Accounts
  <1>3. ConcentrationPenalty(a.account) <= ConcentrationPenalty(b.account)
    BY <1>2, LimitsAssumption DEF ConcentrationPenalty
  <1>4. Penalties(a) <= Penalties(b)
    BY <1>3, InputsMeasured, PenaltiesGrow
  <1> QED BY <1>1, <1>4 DEF Worse

LEMMA PenaltySame ==
  ASSUME NEW flags
  PROVE  LlmPenalty(flags) \in Int /\ LlmPenalty(flags) <= LlmPenalty(flags)
PROOF
  BY DEF LlmPenalty, FlagPenalty

LEMMA ScoresSame ==
  ASSUME NEW i \in Inputs
  PROVE  \A c \in Components : i.scores[c] <= i.scores[c]
PROOF
  <1>1. \A c \in Components : i.scores[c] \in 0 .. 100
    BY DEF Inputs
  <1> QED BY <1>1

\* A flag more is a reason more, or none.
LEMMA FlagsOnlyReject ==
  ASSUME NEW kind, NEW f, NEW g, f \subseteq g
  PROVE  MarketReasons(kind, f) \subseteq MarketReasons(kind, g)
PROOF
  BY DEF MarketReasons

LEMMA SystemWorse ==
  ASSUME input \in Inputs, SystemWorsens
  PROVE  input' \in Inputs /\ Worse(input, input') /\ input'.flags = input.flags
PROOF
  <1>1. PICK s \in [apiHealthy : BOOLEAN, wsHealthy : BOOLEAN, priceStale : BOOLEAN] :
          /\ s.apiHealthy => input.system.apiHealthy
          /\ s.wsHealthy => input.system.wsHealthy
          /\ input.system.priceStale => s.priceStale
          /\ input' = [input EXCEPT !.system = s]
    BY DEF SystemWorsens
  <1>2. input' \in Inputs
    BY <1>1 DEF Inputs
  <1>3. /\ input'.side = input.side /\ input'.flags = input.flags /\ input'.scores = input.scores
        /\ input'.market = input.market /\ input'.book = input.book
        /\ input'.account = input.account /\ input'.system = s
    BY <1>1 DEF Inputs
  <1>4. SystemReasons(input.system) \subseteq SystemReasons(s)
    BY <1>1 DEF SystemReasons
  <1>5. input.book.spread \in Int /\ input.account.marketExposure \in Int
    BY DEF Inputs, Accounts
  <1>6. input.book.spread <= input.book.spread /\ input.account.marketExposure <= input.account.marketExposure
    BY <1>5
  <1> QED BY <1>2, <1>3, <1>4, <1>6, PartsWorse, PenaltySame, ScoresSame

LEMMA MarketWorse ==
  ASSUME input \in Inputs, MarketWorsens
  PROVE  input' \in Inputs /\ Worse(input, input') /\ input'.flags = input.flags
PROOF
  <1>1. PICK fault \in {"open", "ambiguous", "autoAllowed", "thin"} :
          input' = [input EXCEPT !.market[fault] = fault \in {"ambiguous", "thin"}]
    BY DEF MarketWorsens
  <1> DEFINE now == [input.market EXCEPT ![fault] = fault \in {"ambiguous", "thin"}]
  <1>2. input.market \in [open : BOOLEAN, ambiguous : BOOLEAN, autoAllowed : BOOLEAN, thin : BOOLEAN]
    BY DEF Inputs
  <1>3. now \in [open : BOOLEAN, ambiguous : BOOLEAN, autoAllowed : BOOLEAN, thin : BOOLEAN]
    <2> DEFINE worst == fault \in {"ambiguous", "thin"}
    <2>1. worst \in BOOLEAN
      OBVIOUS
    <2> HIDE DEF worst
    <2>2. [input.market EXCEPT ![fault] = worst]
            \in [open : BOOLEAN, ambiguous : BOOLEAN, autoAllowed : BOOLEAN, thin : BOOLEAN]
      BY <1>2, <2>1
    <2> QED BY <2>2 DEF worst
  <1>4. input' = [input EXCEPT !.market = now]
    BY <1>1 DEF Inputs
  <1>5. /\ now.open => input.market.open
        /\ now.autoAllowed => input.market.autoAllowed
        /\ input.market.ambiguous => now.ambiguous
        /\ input.market.thin => now.thin
    BY <1>2
  <1> HIDE DEF now
  <1>6. input' \in Inputs
    BY <1>3, <1>4 DEF Inputs
  <1>7. /\ input'.side = input.side /\ input'.flags = input.flags /\ input'.scores = input.scores
        /\ input'.market = now /\ input'.book = input.book
        /\ input'.account = input.account /\ input'.system = input.system
    BY <1>4 DEF Inputs
  <1>8. MarketReasons(input.market, input.flags) \subseteq MarketReasons(now, input.flags)
    <2>1. ASSUME NEW r \in MarketReasons(input.market, input.flags)
          PROVE  r \in MarketReasons(now, input.flags)
      <3>1. CASE r = "market_not_open"
        BY <1>5, <2>1, <3>1 DEF MarketReasons
      <3>2. CASE r = "market_ambiguous"
        BY <1>5, <2>1, <3>2 DEF MarketReasons
      <3>3. CASE r = "forbidden_category"
        BY <1>5, <2>1, <3>3 DEF MarketReasons
      <3>4. CASE r = "volume_too_low"
        BY <1>5, <2>1, <3>4 DEF MarketReasons
      <3> QED BY <2>1, <3>1, <3>2, <3>3, <3>4 DEF MarketReasons
    <2> QED BY <2>1
  <1>9. input.book.spread \in Int /\ input.account.marketExposure \in Int
    BY DEF Inputs, Accounts
  <1>10. input.book.spread <= input.book.spread /\ input.account.marketExposure <= input.account.marketExposure
    BY <1>9
  <1> QED BY <1>6, <1>7, <1>8, <1>10, PartsWorse, PenaltySame, ScoresSame

LEMMA BookWorse ==
  ASSUME input \in Inputs, BookWorsens
  PROVE  input' \in Inputs /\ Worse(input, input') /\ input'.flags = input.flags
PROOF
  <1> DEFINE old == input.book
             Books == [stale : BOOLEAN, spread : Int, depth : [{"yes", "no"} -> Int]]
  <1>1. old \in Books
    BY DEF Inputs
  <1>2. ASSUME NEW now \in Books, input' = [input EXCEPT !.book = now],
               old.stale => now.stale, old.spread <= now.spread,
               \A x \in {"yes", "no"} : now.depth[x] = old.depth[x] \/ now.depth[x] = MinDepth - 1
        PROVE  input' \in Inputs /\ Worse(input, input') /\ input'.flags = input.flags
    <2>1. input' \in Inputs
      BY <1>2 DEF Inputs
    <2>2. /\ input'.side = input.side /\ input'.flags = input.flags /\ input'.scores = input.scores
          /\ input'.market = input.market /\ input'.book = now
          /\ input'.account = input.account /\ input'.system = input.system
      BY <1>2 DEF Inputs
    <2>3. \A x \in SidesConsumed(input.side) : x \in {"yes", "no"}
      BY DEF Inputs, SidesConsumed
    <2>4. \A x \in {"yes", "no"} : old.depth[x] < MinDepth => now.depth[x] < MinDepth
      <3> TAKE x \in {"yes", "no"}
      <3>1. old.depth[x] \in Int /\ MinDepth \in Int
        BY <1>1, LimitsAssumption
      <3>2. now.depth[x] = old.depth[x] \/ now.depth[x] = MinDepth - 1
        BY <1>2
      <3> HIDE DEF old
      <3> QED BY <3>1, <3>2
    <2>5. old.spread > MaxSpread => now.spread > MaxSpread
      <3>1. old.spread \in Int /\ now.spread \in Int /\ MaxSpread \in Int
        BY <1>1, LimitsAssumption
      <3> HIDE DEF old
      <3> QED BY <1>2, <3>1
    <2>6. BookReasons(old, input.side) \subseteq BookReasons(now, input.side)
      <3> HIDE DEF old
      <3> QED BY <1>2, <2>3, <2>4, <2>5 DEF BookReasons
    <2>7. input.account.marketExposure \in Int
      BY DEF Inputs, Accounts
    <2>8. input.account.marketExposure <= input.account.marketExposure
      BY <2>7
    <2> QED BY <1>2, <2>1, <2>2, <2>6, <2>8, PartsWorse, PenaltySame, ScoresSame
  <1>3. old.spread \in Int /\ old.depth \in [{"yes", "no"} -> Int]
    BY <1>1
  <1>4. CASE input' = [input EXCEPT !.book.stale = TRUE]
    <2>1. [old EXCEPT !.stale = TRUE] \in Books
      BY <1>1
    <2>2. input' = [input EXCEPT !.book = [old EXCEPT !.stale = TRUE]]
      BY <1>4
    <2> DEFINE now == [old EXCEPT !.stale = TRUE]
    <2>3. now.stale /\ now.spread = old.spread /\ now.depth = old.depth
      BY <1>1
    <2>4. old.spread <= old.spread
      BY <1>3
    <2> HIDE DEF old, Books
    <2>5. now \in Books /\ input' = [input EXCEPT !.book = now]
      BY <2>1, <2>2
    <2> HIDE DEF now
    <2> QED BY <1>2, <2>3, <2>4, <2>5
  <1>5. ASSUME NEW s \in Spreads, s > old.spread, input' = [input EXCEPT !.book.spread = s]
        PROVE  input' \in Inputs /\ Worse(input, input') /\ input'.flags = input.flags
    <2>0. s \in Int /\ old.spread <= s
      BY <1>3, <1>5, InputsAssumption
    <2>1. [old EXCEPT !.spread = s] \in Books
      BY <1>1, <2>0
    <2>2. input' = [input EXCEPT !.book = [old EXCEPT !.spread = s]]
      BY <1>5
    <2> DEFINE now == [old EXCEPT !.spread = s]
    <2>3. now.stale = old.stale /\ now.spread = s /\ now.depth = old.depth
      BY <1>1
    <2> HIDE DEF old, Books
    <2>4. now \in Books /\ input' = [input EXCEPT !.book = now]
      BY <2>1, <2>2
    <2> HIDE DEF now
    <2> QED BY <1>2, <2>0, <2>3, <2>4
  <1>6. ASSUME NEW x \in {"yes", "no"}, input' = [input EXCEPT !.book.depth[x] = MinDepth - 1]
        PROVE  input' \in Inputs /\ Worse(input, input') /\ input'.flags = input.flags
    <2> DEFINE depths == [old.depth EXCEPT ![x] = MinDepth - 1]
    <2>1. depths \in [{"yes", "no"} -> Int]
      BY <1>3, LimitsAssumption
    <2>2. \A y \in {"yes", "no"} : depths[y] = old.depth[y] \/ depths[y] = MinDepth - 1
      BY <1>3
    <2>3. input' = [input EXCEPT !.book = [old EXCEPT !.depth = depths]]
      BY <1>6
    <2> HIDE DEF depths
    <2>4. [old EXCEPT !.depth = depths] \in Books /\ [old EXCEPT !.depth = depths].depth = depths
      BY <1>1, <2>1
    <2>5. [old EXCEPT !.depth = depths].stale = old.stale /\ [old EXCEPT !.depth = depths].spread = old.spread
      BY <1>1
    <2> QED BY <1>2, <1>3, <2>2, <2>3, <2>4, <2>5
  <1> QED BY <1>4, <1>5, <1>6 DEF BookWorsens
\* An account that lost, or is exposed to more, has every reason it had.
LEMMA AccountChanged ==
  ASSUME input \in Inputs, NEW now \in Accounts, input' = [input EXCEPT !.account = now],
         now.dailyPnl <= input.account.dailyPnl, now.weeklyPnl <= input.account.weeklyPnl,
         input.account.losses <= now.losses,
         input.account.marketExposure <= now.marketExposure,
         input.account.strategyExposure <= now.strategyExposure
  PROVE  input' \in Inputs /\ Worse(input, input') /\ input'.flags = input.flags
PROOF
  <1> DEFINE old == input.account
  <1>1. old \in Accounts
    BY DEF Inputs
  <1>2. input' \in Inputs
    BY DEF Inputs
  <1>3. /\ input'.side = input.side /\ input'.flags = input.flags /\ input'.scores = input.scores
        /\ input'.market = input.market /\ input'.book = input.book
        /\ input'.account = now /\ input'.system = input.system
    BY DEF Inputs
  <1>4. /\ now.dailyPnl <= old.dailyPnl /\ now.weeklyPnl <= old.weeklyPnl /\ old.losses <= now.losses
        /\ old.marketExposure <= now.marketExposure /\ old.strategyExposure <= now.strategyExposure
    OBVIOUS
  <1> HIDE DEF old
  <1>5. LossReasons(old) \subseteq LossReasons(now)
    BY <1>1, <1>4, LimitsAssumption DEF LossReasons, Accounts
  <1>6. ExposureReasons(old) \subseteq ExposureReasons(now)
    BY <1>1, <1>4, LimitsAssumption DEF ExposureReasons, Accounts
  <1>7. AccountReasons(old) \subseteq AccountReasons(now)
    BY <1>5, <1>6 DEF AccountReasons
  <1>8. input.book.spread \in Int
    BY DEF Inputs
  <1>9. input.book.spread <= input.book.spread
    BY <1>8
  <1> QED BY <1>2, <1>3, <1>4, <1>7, <1>9, PartsWorse, PenaltySame, ScoresSame DEF old

LEMMA AccountsUpdate ==
  ASSUME NEW old \in Accounts, NEW x \in Int, NEW y \in Int, NEW z \in Int
  PROVE  /\ [old EXCEPT !.dailyPnl = x, !.weeklyPnl = y, !.losses = z] \in Accounts
         /\ [old EXCEPT !.marketExposure = x, !.strategyExposure = y] \in Accounts
PROOF
  BY DEF Accounts

LEMMA LossWorse ==
  ASSUME input \in Inputs, AccountLoses
  PROVE  input' \in Inputs /\ Worse(input, input') /\ input'.flags = input.flags
PROOF
  <1>1. PICK loss \in {1, DailyLossLimit, DailyLossLimit + 1, WeeklyLossLimit + 1} :
          input' = [input EXCEPT !.account.dailyPnl = @ - loss, !.account.weeklyPnl = @ - loss,
                                 !.account.losses = @ + 1]
    BY DEF AccountLoses
  <1>2. loss \in Int /\ loss >= 0
    BY LimitsAssumption
  <1> DEFINE old == input.account
             now == [old EXCEPT !.dailyPnl = @ - loss, !.weeklyPnl = @ - loss, !.losses = @ + 1]
  <1>3. old \in Accounts
    BY DEF Inputs
  <1>4. input' = [input EXCEPT !.account = now]
    BY <1>1 DEF Inputs
  <1>5. /\ old.dailyPnl \in Int /\ old.weeklyPnl \in Int /\ old.losses \in Int
        /\ old.marketExposure \in Int /\ old.strategyExposure \in Int
    BY <1>3 DEF Accounts
  <1>6. /\ now.dailyPnl = old.dailyPnl - loss /\ now.weeklyPnl = old.weeklyPnl - loss
        /\ now.losses = old.losses + 1
        /\ now.marketExposure = old.marketExposure /\ now.strategyExposure = old.strategyExposure
    BY <1>3 DEF Accounts
  <1>7. now \in Accounts
    <2>1. old.dailyPnl - loss \in Int /\ old.weeklyPnl - loss \in Int /\ old.losses + 1 \in Int
      <3> HIDE DEF old
      <3> QED BY <1>2, <1>5
    <2> QED BY <1>3, <2>1, AccountsUpdate
  <1>8. /\ now.dailyPnl <= old.dailyPnl /\ now.weeklyPnl <= old.weeklyPnl /\ old.losses <= now.losses
        /\ old.marketExposure <= now.marketExposure /\ old.strategyExposure <= now.strategyExposure
    <2> HIDE DEF old, now
    <2> QED BY <1>2, <1>5, <1>6
  <1> HIDE DEF now
  <1> QED BY <1>4, <1>7, <1>8, AccountChanged

LEMMA ExposureWorse ==
  ASSUME input \in Inputs, ExposureGrows
  PROVE  input' \in Inputs /\ Worse(input, input') /\ input'.flags = input.flags
PROOF
  <1>1. PICK n \in {MarketCap - 1, MarketCap, StrategyCap} :
          input' = [input EXCEPT !.account.marketExposure = @ + n,
                                 !.account.strategyExposure = @ + n]
    BY DEF ExposureGrows
  <1>2. n \in Int /\ n >= 0
    BY LimitsAssumption
  <1> DEFINE old == input.account
             now == [old EXCEPT !.marketExposure = @ + n, !.strategyExposure = @ + n]
  <1>3. old \in Accounts
    BY DEF Inputs
  <1>4. input' = [input EXCEPT !.account = now]
    BY <1>1 DEF Inputs
  <1>5. /\ old.dailyPnl \in Int /\ old.weeklyPnl \in Int /\ old.losses \in Int
        /\ old.marketExposure \in Int /\ old.strategyExposure \in Int
    BY <1>3 DEF Accounts
  <1>6. /\ now.dailyPnl = old.dailyPnl /\ now.weeklyPnl = old.weeklyPnl /\ now.losses = old.losses
        /\ now.marketExposure = old.marketExposure + n
        /\ now.strategyExposure = old.strategyExposure + n
    BY <1>3 DEF Accounts
  <1>7. now \in Accounts
    <2>1. old.marketExposure + n \in Int /\ old.strategyExposure + n \in Int
      <3> HIDE DEF old
      <3> QED BY <1>2, <1>5
    <2> QED BY <1>3, <2>1, AccountsUpdate
  <1>8. /\ now.dailyPnl <= old.dailyPnl /\ now.weeklyPnl <= old.weeklyPnl /\ old.losses <= now.losses
        /\ old.marketExposure <= now.marketExposure /\ old.strategyExposure <= now.strategyExposure
    <2> HIDE DEF old, now
    <2> QED BY <1>2, <1>5, <1>6
  <1> HIDE DEF now
  <1> QED BY <1>4, <1>7, <1>8, AccountChanged

\* The scores and the flags, which an LLM failure changes together.
LEMMA SignalChanged ==
  ASSUME NEW from \in Inputs, NEW to, NEW scores \in [Components -> 0 .. 100],
         NEW flags \in SUBSET (Flags \union LlmFlags),
         to = [from EXCEPT !.scores = scores, !.flags = flags],
         from.flags \subseteq flags, LlmPenalty(from.flags) <= LlmPenalty(flags),
         \A c \in Components : scores[c] <= from.scores[c]
  PROVE  /\ to \in Inputs /\ to.scores = scores /\ to.flags = flags
         /\ Worse(from, to)
PROOF
  <1>1. to \in Inputs
    BY DEF Inputs
  <1>2. /\ to.side = from.side /\ to.flags = flags /\ to.scores = scores
        /\ to.market = from.market /\ to.book = from.book
        /\ to.account = from.account /\ to.system = from.system
    BY DEF Inputs
  <1>3. MarketReasons(from.market, from.flags) \subseteq MarketReasons(from.market, flags)
    BY FlagsOnlyReject
  <1>4. from.book.spread \in Int /\ from.account.marketExposure \in Int
    BY DEF Inputs, Accounts
  <1>5. from.book.spread <= from.book.spread /\ from.account.marketExposure <= from.account.marketExposure
    BY <1>4
  <1> QED BY <1>1, <1>2, <1>3, <1>5, PartsWorse

LEMMA FlagWorse ==
  ASSUME input \in Inputs, FlagAdded, FlagsSplit(input, engineFlags, answerFlags),
         llmFailed' = llmFailed
  PROVE  /\ input' \in Inputs /\ Worse(StillObjected, input') /\ StillObjected \in Inputs
         /\ FlagsSplit(input', engineFlags', answerFlags')
         /\ input'.scores = input.scores
PROOF
  <1> DEFINE flags == engineFlags' \union answerFlags'
  <1>1. /\ engineFlags' \in SUBSET (Flags \ LlmFlags)
        /\ answerFlags' \in SUBSET (Flags \union LlmFlags)
        /\ engineFlags \union answerFlags \subseteq flags
        /\ \E f \in Flags : flags = (engineFlags \union answerFlags) \union {f}
    BY DEF FlagAdded, FlagsSplit
  <1>2. input' = [input EXCEPT !.flags = flags] /\ flags \in SUBSET (Flags \union LlmFlags)
    BY <1>1 DEF FlagAdded
  <1>3. input.scores \in [Components -> 0 .. 100]
    BY DEF Inputs
  <1>4. input' \in Inputs /\ input'.flags = flags /\ input'.scores = input.scores
    BY <1>2 DEF Inputs
  <1>5. FlagsSplit(input', engineFlags', answerFlags')
    BY <1>1, <1>4 DEF FlagsSplit
  <1>6. PICK f \in Flags : flags = input.flags \union {f}
    BY <1>1 DEF FlagsSplit
  <1> HIDE DEF flags
  <1>7. CASE "llm_low_confidence" \in input'.flags \ input.flags
    <2> DEFINE kept == input.flags \ {"llm_error"}
               still == [input EXCEPT !.flags = kept]
    <2>1. StillObjected = still
      BY <1>7 DEF StillObjected
    <2>2. kept \in SUBSET (Flags \union LlmFlags) /\ kept \subseteq flags
      BY <1>6 DEF Inputs
    <2>3. LlmPenalty(kept) <= LlmPenalty(flags)
      BY <1>4, <1>6, <1>7 DEF LlmPenalty, FlagPenalty
    <2> HIDE DEF kept
    <2>4. still \in Inputs /\ still.flags = kept /\ still.scores = input.scores
      BY <2>2 DEF Inputs
    <2>5. input' = [still EXCEPT !.scores = still.scores, !.flags = flags]
      BY <1>2, <2>4 DEF Inputs
    <2> HIDE DEF still
    <2>6. \A c \in Components : still.scores[c] <= still.scores[c]
      BY <2>4, ScoresSame
    <2>7. still.scores \in [Components -> 0 .. 100]
      BY <1>3, <2>4
    <2>8. still.flags \subseteq flags /\ LlmPenalty(still.flags) <= LlmPenalty(flags)
      BY <2>2, <2>3, <2>4
    <2>9. Worse(still, input')
      BY <1>2, <2>4, <2>5, <2>6, <2>7, <2>8, SignalChanged
    <2> QED BY <1>4, <1>5, <2>1, <2>4, <2>9
  <1>8. CASE "llm_low_confidence" \notin input'.flags \ input.flags
    <2>1. StillObjected = input
      BY <1>8 DEF StillObjected
    <2>2. LlmPenalty(input.flags) <= LlmPenalty(flags)
      BY <1>4, <1>6, <1>8 DEF LlmPenalty, FlagPenalty
    <2>3. input' = [input EXCEPT !.scores = input.scores, !.flags = flags]
      BY <1>2, <1>4 DEF Inputs
    <2>4. \A c \in Components : input.scores[c] <= input.scores[c]
      BY ScoresSame
    <2>5. input.flags \subseteq flags
      BY <1>6
    <2>6. Worse(input, input')
      BY <1>2, <1>3, <2>2, <2>3, <2>4, <2>5, SignalChanged
    <2> QED BY <1>4, <1>5, <2>1, <2>6
  <1> QED BY <1>7, <1>8

LEMMA ScoreWorse ==
  ASSUME input \in Inputs, ScoreDrops
  PROVE  /\ input' \in Inputs /\ Worse(input, input') /\ input'.flags = input.flags
         /\ \A e \in Components : input'.scores[e] <= input.scores[e]
PROOF
  <1>1. PICK c \in Components, x \in Scores :
          x < input.scores[c] /\ input' = [input EXCEPT !.scores[c] = x]
    BY DEF ScoreDrops
  <1> DEFINE scores == [input.scores EXCEPT ![c] = x]
  <1>2. input.scores \in [Components -> 0 .. 100] /\ input.flags \in SUBSET (Flags \union LlmFlags)
    BY DEF Inputs
  <1>3. x \in 0 .. 100
    BY InputsAssumption
  <1>4. scores \in [Components -> 0 .. 100]
    BY <1>2, <1>3
  <1>5. \A e \in Components : scores[e] <= input.scores[e]
    <2> TAKE e \in Components
    <2>1. input.scores[e] \in 0 .. 100
      BY <1>2
    <2>2. scores[e] = IF e = c THEN x ELSE input.scores[e]
      BY <1>2
    <2> QED BY <1>1, <1>3, <2>1, <2>2
  <1>6. input' = [input EXCEPT !.scores = scores, !.flags = input.flags]
    BY <1>1 DEF Inputs
  <1>7. input.flags \subseteq input.flags /\ LlmPenalty(input.flags) <= LlmPenalty(input.flags)
    BY PenaltySame
  <1> HIDE DEF scores
  <1>8. Worse(input, input')
    BY <1>2, <1>4, <1>5, <1>6, <1>7, SignalChanged
  <1>9. input' \in Inputs /\ input'.scores = scores /\ input'.flags = input.flags
    BY <1>2, <1>4, <1>6 DEF Inputs
  <1> QED BY <1>5, <1>8, <1>9

LEMMA LlmWorse ==
  ASSUME input \in Inputs, LlmFails, FlagsSplit(input, engineFlags, answerFlags)
  PROVE  /\ input' \in Inputs /\ Worse(StillObjected, input') /\ StillObjected \in Inputs
         /\ FlagsSplit(input', engineFlags', answerFlags')
         /\ input'.scores["event"] = 50
PROOF
  <1>1. /\ answerFlags' \in SUBSET LlmFlags
        /\ input' = [input EXCEPT !.scores["event"] = 50, !.flags = engineFlags \union answerFlags']
    BY DEF LlmFails
  <1>2. engineFlags' = engineFlags /\ llmFailed' = TRUE /\ ~llmFailed
    BY DEF LlmFails
  <1> DEFINE raised == IF input.scores["event"] < 50 THEN 50 ELSE input.scores["event"]
             more == [input.scores EXCEPT !["event"] = raised]
             still == [input EXCEPT !.scores = more, !.flags = engineFlags]
             scores == [input.scores EXCEPT !["event"] = 50]
             flags == engineFlags \union answerFlags'
  <1>3. input.scores \in [Components -> 0 .. 100] /\ "event" \in Components
    BY DEF Inputs, Components
  <1>4. raised \in 0 .. 100 /\ 50 <= raised
    <2>1. input.scores["event"] \in 0 .. 100
      BY <1>3
    <2> QED BY <2>1
  <1>5. StillObjected = still
    BY <1>2 DEF StillObjected, Inputs
  <1>6. engineFlags \in SUBSET (Flags \ LlmFlags) /\ flags \in SUBSET (Flags \union LlmFlags)
    BY <1>1 DEF FlagsSplit
  <1>7. /\ more \in [Components -> 0 .. 100] /\ scores \in [Components -> 0 .. 100]
        /\ more["event"] = raised /\ scores["event"] = 50
        /\ \A c \in Components \ {"event"} : more[c] = scores[c]
    <2> HIDE DEF raised
    <2> QED BY <1>3, <1>4
  <1>8. input' = [input EXCEPT !.scores = scores, !.flags = flags]
    BY <1>1 DEF Inputs
  <1>9. LlmPenalty(engineFlags) <= LlmPenalty(flags) /\ engineFlags \subseteq flags
    BY <1>1, <1>6 DEF LlmPenalty, FlagPenalty, LlmFlags
  <1>10. \A c \in Components : scores[c] <= more[c]
    <2> HIDE DEF scores, more, raised
    <2> TAKE c \in Components
    <2>1. more[c] \in 0 .. 100
      BY <1>7
    <2>2. CASE c = "event"
      BY <1>4, <1>7, <2>2
    <2>3. CASE c # "event"
      BY <1>7, <2>1, <2>3
    <2> QED BY <2>2, <2>3
  <1> HIDE DEF scores, more, raised, flags
  <1>11. still \in Inputs /\ still.flags = engineFlags /\ still.scores = more
    BY <1>6, <1>7 DEF Inputs
  <1>12. input' = [still EXCEPT !.scores = scores, !.flags = flags]
    BY <1>8 DEF Inputs
  <1> HIDE DEF still
  <1>13. /\ input' \in Inputs /\ input'.scores = scores /\ input'.flags = flags
         /\ Worse(still, input')
    <2>1. \A c \in Components : scores[c] <= still.scores[c]
      BY <1>10, <1>11
    <2>2. still.flags \subseteq flags /\ LlmPenalty(still.flags) <= LlmPenalty(flags)
      BY <1>9, <1>11
    <2>3. scores \in [Components -> 0 .. 100] /\ flags \in SUBSET (Flags \union LlmFlags)
            /\ still \in Inputs
      BY <1>6, <1>7, <1>11
    <2>4. Worse(still, input')
      BY <1>12, <2>1, <2>2, <2>3, SignalChanged
    <2>5. input' \in Inputs /\ input'.scores = scores /\ input'.flags = flags
      BY <1>12, <2>3 DEF Inputs
    <2> QED BY <2>4, <2>5
  <1>14. FlagsSplit(input', engineFlags', answerFlags')
    BY <1>1, <1>2, <1>6, <1>13 DEF FlagsSplit, flags
  <1> QED BY <1>5, <1>7, <1>11, <1>13, <1>14

\* One more thing gone wrong: nothing is better but what the step takes back.
LEMMA AdverseStep ==
  ASSUME input \in Inputs, llmFailed \in BOOLEAN, events \in 0 .. MaxEvents, Worsens,
         FlagsSplit(input, engineFlags, answerFlags), NeutralAtMost(input, llmFailed)
  PROVE  /\ input' \in Inputs /\ llmFailed' \in BOOLEAN /\ events' \in 0 .. MaxEvents
         /\ FlagsSplit(input', engineFlags', answerFlags') /\ NeutralAtMost(input', llmFailed')
         /\ StillObjected \in Inputs /\ Worse(StillObjected, input')
PROOF
  <1>1. events' \in 0 .. MaxEvents
    BY InputsAssumption DEF Worsens
  <1>2. CASE LlmFails
    <2>1. llmFailed' = TRUE
      BY <1>2 DEF LlmFails
    <2>2. /\ input' \in Inputs /\ Worse(StillObjected, input') /\ StillObjected \in Inputs
          /\ FlagsSplit(input', engineFlags', answerFlags')
          /\ input'.scores["event"] = 50
      BY <1>2, LlmWorse
    <2>3. NeutralAtMost(input', llmFailed')
      BY <2>2 DEF NeutralAtMost
    <2> QED BY <1>1, <2>1, <2>2, <2>3
  <1>3. CASE FlagAdded /\ UNCHANGED llmFailed
    <2>1. /\ input' \in Inputs /\ Worse(StillObjected, input') /\ StillObjected \in Inputs
          /\ FlagsSplit(input', engineFlags', answerFlags')
          /\ input'.scores = input.scores
      BY <1>3, FlagWorse
    <2> QED BY <1>1, <1>3, <2>1 DEF NeutralAtMost
  <1>4. CASE /\ SystemWorsens \/ MarketWorsens \/ BookWorsens
               \/ AccountLoses \/ ExposureGrows \/ ScoreDrops
             /\ UNCHANGED <<engineFlags, answerFlags, llmFailed>>
    <2>1. input' \in Inputs /\ Worse(input, input') /\ input'.flags = input.flags
      BY <1>4, SystemWorse, MarketWorse, BookWorse, LossWorse, ExposureWorse, ScoreWorse
    <2>2. StillObjected = input
      BY <1>4, <2>1 DEF StillObjected
    <2>3. FlagsSplit(input', engineFlags', answerFlags')
      BY <1>4, <2>1 DEF FlagsSplit
    <2>4. NeutralAtMost(input', llmFailed')
      <3>1. input'.scores["event"] <= input.scores["event"]
        BY <2>1 DEF Worse, Components
      <3>2. input.scores["event"] \in 0 .. 100 /\ input'.scores["event"] \in 0 .. 100
        BY <2>1 DEF Inputs, Components
      <3>3. llmFailed' = llmFailed
        BY <1>4
      <3> QED BY <3>1, <3>2, <3>3 DEF NeutralAtMost
    <2> QED BY <1>1, <1>4, <2>1, <2>2, <2>3, <2>4
  <1> QED BY <1>2, <1>3, <1>4 DEF Worsens

-----------------------------------------------------------------------------
(* The market and its book. *)

Names == {"list", "info", "yes", "no"}
RequestType == [left : 0 .. MaxRetries, answer : {"unasked", "pending", "ok", "absent", "failed"}]

MarketKnown(m) == m.id \in {"real", "mock"} /\ Described(m)

DataInv ==
  /\ requests \in [Names -> RequestType]
  /\ reading \in {"listing", "listed", "booking", "read", "lost"}
  /\ market = NoMarket \/ MarketKnown(market)
  /\ reading \in {"listed", "booking", "read"} => MarketKnown(market)
  /\ book = NoBook \/ (QuotedBook(book) /\ book.source \in {"clob", "websocket", "mock"})
  /\ mode = "real_readonly" =>
       /\ market = NoMarket \/ market.id = "real"
       /\ book = NoBook \/ book.source \in {"clob", "websocket"}

LEMMA RequestsTyped ==
  /\ NoRequests \in [Names -> RequestType] /\ NewRequest \in RequestType
  /\ \A r \in RequestType, reply \in Replies :
       /\ ClobRetried(r, reply) \in RequestType
       /\ GammaListed(r, reply) \in RequestType /\ GammaRetried(r, reply) \in RequestType
PROOF
  <1>1. Unasked \in RequestType /\ NewRequest \in RequestType
    BY DataAssumption DEF Unasked, NewRequest, RequestType
  <1>2. NoRequests \in [Names -> RequestType]
    BY <1>1 DEF NoRequests, Names
  <1>3. ASSUME NEW r \in RequestType, NEW reply \in Replies
        PROVE  ClobRetried(r, reply) \in RequestType
    <2>1. CASE reply = "ok"
      BY <2>1 DEF ClobRetried, RequestType
    <2>2. CASE reply = "absent"
      BY <2>2 DEF ClobRetried, RequestType
    <2>3. CASE reply = "refused"
      BY <2>3 DEF ClobRetried, RequestType
    <2>4. CASE reply = "broken"
      <3>1. r.left > 1 => r.left - 1 \in 0 .. MaxRetries
        BY DataAssumption DEF RequestType
      <3>2. [r EXCEPT !.answer = "failed"] \in RequestType
        BY DEF RequestType
      <3>3. r.left > 1 => [r EXCEPT !.left = @ - 1] \in RequestType
        BY <3>1 DEF RequestType
      <3> QED BY <2>4, <3>2, <3>3 DEF ClobRetried
    <2> QED BY <2>1, <2>2, <2>3, <2>4 DEF Replies
  <1>4. ASSUME NEW r \in RequestType, NEW reply \in Replies
        PROVE  GammaListed(r, reply) \in RequestType /\ GammaRetried(r, reply) \in RequestType
    BY <1>3 DEF GammaListed, GammaRetried, Replies
  <1> QED BY <1>1, <1>2, <1>3, <1>4

\* Whatever the CLOB returns, a snapshot of it has prices.
LEMMA SnapshotQuoted ==
  ASSUME NEW sides \in [Tokens -> RawSides \union {NoSide}]
  PROVE  /\ QuotedBook(Snapshot(sides)) /\ Snapshot(sides).source = "clob"
         /\ QuotedBook([Snapshot(sides) EXCEPT !.source = "websocket"])
         /\ [Snapshot(sides) EXCEPT !.source = "websocket"].source = "websocket"
PROOF
  <1>1. ASSUME NEW raw \in RawSides \union {NoSide} PROVE Priced(raw.bids) /\ Priced(raw.asks)
    BY DataAssumption DEF NoSide, Priced
  <1>2. sides["yes"] \in RawSides \union {NoSide} /\ sides["no"] \in RawSides \union {NoSide}
    BY DEF Tokens
  <1>3. Quoted(SideOf(sides["yes"])) /\ Quoted(SideOf(sides["no"]))
    BY <1>1, <1>2, SideQuoted
  <1>4. /\ Snapshot(sides).yes = SideOf(sides["yes"]) /\ Snapshot(sides).no = SideOf(sides["no"])
        /\ Snapshot(sides).source = "clob"
        /\ [Snapshot(sides) EXCEPT !.source = "websocket"].yes = SideOf(sides["yes"])
        /\ [Snapshot(sides) EXCEPT !.source = "websocket"].no = SideOf(sides["no"])
        /\ [Snapshot(sides) EXCEPT !.source = "websocket"].source = "websocket"
    BY DEF Snapshot
  <1> QED BY <1>3, <1>4 DEF QuotedBook

LEMMA MarketsKnown ==
  /\ \A raw \in RawMarkets : MarketKnown(GammaToMarket(raw)) /\ GammaToMarket(raw).id = "real"
  /\ \A m \in MockMarkets : MarketKnown(m)
PROOF
  BY DataAssumption DEF GammaToMarket, MarketKnown, Described

LEMMA BookProvided ==
  ASSUME DataInv, reading = "booking", NEW found, BookRead(found),
         found = NoBook \/ (QuotedBook(found) /\ found.source = "clob")
  PROVE  DataInv'
PROOF
  <1>1. book' = found \/ (mode = "hybrid" /\ book' \in MockBooks)
    BY DEF BookRead, Provided
  <1>2. \A b \in MockBooks : QuotedBook(b) /\ b.source = "mock"
    BY DataAssumption DEF QuotedBook
  <1>3. /\ reading' = "read" /\ requests' = NoRequests /\ mode' = mode /\ market' = market
    BY DEF BookRead
  <1>4. /\ book' = NoBook \/ (QuotedBook(book') /\ book'.source \in {"clob", "websocket", "mock"})
        /\ mode = "real_readonly" => book' = NoBook \/ book'.source \in {"clob", "websocket"}
    BY <1>1, <1>2
  <1> QED BY <1>3, <1>4, RequestsTyped DEF DataInv, QuotedBook
LEMMA DataStep ==
  ASSUME DataInv, ListStep \/ BookStep
  PROVE  DataInv'
PROOF
  <1>1. CASE ListMock
    BY <1>1, RequestsTyped, MarketsKnown DEF DataInv, ListMock, Listed
  <1>2. CASE AskList
    BY <1>2, RequestsTyped DEF DataInv, AskList, Names
  <1>3. CASE ListReply
    <2>1. PICK reply \in Replies :
            requests' = [requests EXCEPT !["list"] = GammaListed(@, reply)]
      BY <1>3 DEF ListReply
    <2>2. requests["list"] \in RequestType
      BY DEF DataInv, Names
    <2>3. requests' \in [Names -> RequestType]
      BY <2>1, <2>2, RequestsTyped DEF DataInv
    <2> QED BY <1>3, <2>3 DEF DataInv, ListReply
  <1>4. CASE ListDone
    <2>1. mode' = mode /\ book' = book /\ reading = "listing"
      BY <1>4 DEF ListDone
    <2>2. CASE \E raw \in RawMarkets : Listed(GammaToMarket(raw))
      BY <2>1, <2>2, RequestsTyped, MarketsKnown DEF DataInv, Listed
    <2>3. CASE Lost
      BY <2>1, <2>3, RequestsTyped DEF DataInv, Lost
    <2>4. CASE mode = "hybrid" /\ \E m \in MockMarkets : Listed(m)
      BY <2>1, <2>4, RequestsTyped, MarketsKnown DEF DataInv, Listed
    <2> QED BY <1>4, <2>2, <2>3, <2>4 DEF ListDone
  <1>5. CASE MockBookRead
    <2>1. QuotedBook(book') /\ book'.source = "mock"
      BY <1>5, DataAssumption DEF MockBookRead, QuotedBook
    <2> QED BY <1>5, <2>1 DEF DataInv, MockBookRead, QuotedBook
  <1>6. CASE AskInfo
    BY <1>6, RequestsTyped DEF DataInv, AskInfo, Names
  <1>7. CASE InfoReply
    <2>1. PICK reply \in Replies :
            requests' = [requests EXCEPT !["info"] = GammaRetried(@, reply)]
      BY <1>7 DEF InfoReply
    <2>2. requests["info"] \in RequestType
      BY DEF DataInv, Names
    <2>3. requests' \in [Names -> RequestType]
      BY <2>1, <2>2, RequestsTyped DEF DataInv
    <2> QED BY <1>7, <2>3 DEF DataInv, InfoReply
  <1>8. CASE NoInfo
    BY <1>8, BookProvided DEF NoInfo
  <1>9. CASE TokensMissing
    BY <1>9, BookProvided DEF TokensMissing
  <1>10. CASE AskTokens
    BY <1>10, RequestsTyped DEF DataInv, AskTokens, Names
  <1>11. ASSUME NEW x \in {"yes", "no"}, TokenReply(x) PROVE DataInv'
    <2>1. PICK reply \in Replies : requests' = [requests EXCEPT ![x] = ClobRetried(@, reply)]
      BY <1>11 DEF TokenReply
    <2>2. requests[x] \in RequestType
      BY DEF DataInv, Names
    <2>3. requests' \in [Names -> RequestType]
      BY <2>1, <2>2, RequestsTyped DEF DataInv
    <2> QED BY <1>11, <2>3 DEF DataInv, TokenReply
  <1>12. CASE TokensDone
    <2>1. reading = "booking"
      BY <1>12 DEF TokensDone
    <2>2. CASE BookRead(NoBook)
      BY <2>1, <2>2, BookProvided
    <2>3. ASSUME NEW sides \in [{"yes", "no"} -> RawSides \union {NoSide}], BookRead(Snapshot(sides))
          PROVE  DataInv'
      BY <2>1, <2>3, BookProvided, SnapshotQuoted DEF Tokens
    <2> QED BY <1>12, <2>2, <2>3 DEF TokensDone
  <1> QED BY <1>1, <1>2, <1>3, <1>4, <1>5, <1>6, <1>7, <1>8, <1>9, <1>10, <1>11, <1>12
          DEF ListStep, BookStep

-----------------------------------------------------------------------------
(* The model and its answer. *)

ProviderNames == RealProviders \union {"mock"}

ResponseTyped(r) ==
  /\ r.kind \in {"waiting", "answered", "unsuccessful", "raised"}
  /\ r.kind = "answered" => Percent(r.answer.score) /\ r.answer.confidence \in Int

\* What a provider's request comes to.
Ended(p, r) ==
  ResponseTyped(r) /\ r.kind # "waiting" /\ (r.kind = "answered" => r.by = p)

ChainInv ==
  /\ chain \in Seq(ProviderNames) /\ Len(chain) <= 3
  /\ left \in 0 .. LlmRetries
  /\ ResponseTyped(response)

\* Outside the smoke test of the models one provider is asked, no router.
Single ==
  /\ ~routed
  /\ chain = <<>> \/ chain = <<asked>>
  /\ chain = <<>> => response.kind # "waiting"
  /\ response.kind = "answered" => response.by = asked

LEMMA AnswersTyped ==
  ASSUME NEW a \in Answers
  PROVE  /\ Percent(a.score) /\ a.confidence \in Int
         /\ [a EXCEPT !.confidence = 30].score = a.score
         /\ [a EXCEPT !.confidence = 30].confidence = 30
PROOF
  <1>1. a.score \in 0 .. 100 /\ a.confidence \in 0 .. 100 /\ DOMAIN a = {"score", "confidence", "risks"}
    BY LlmAssumption
  <1> QED BY <1>1 DEF Percent

LEMMA RaisedEnded ==
  ASSUME NEW p, NEW error
  PROVE  Ended(p, Raised(error)) /\ Ended(p, Unsuccessful(error))
PROOF
  BY DEF Ended, ResponseTyped, Raised, Unsuccessful

LEMMA RequestEnded ==
  ASSUME NEW p \in RealProviders, NEW reply \in HttpReplies
  PROVE  Ended(p, Request(p, reply))
PROOF
  <1>1. CASE reply \in [fault : TransportFaults \union BodyFaults]
    <2>1. ~IsText(reply) /\ reply.fault \in TransportFaults \union BodyFaults
      BY <1>1 DEF IsText
    <2>2. \A parsed, none : Ended(p, none) => Ended(p, MadeRequest(reply, parsed, none))
      BY <2>1, RaisedEnded DEF MadeRequest, Escaped, TransportFaults, BodyFaults
    <2>3. Ended(p, Escaped) /\ Ended(p, Unsuccessful("empty_response"))
      BY RaisedEnded DEF Escaped
    <2> QED BY <2>2, <2>3 DEF Request, RealProviders, DeepSeekRequest, GlmRequest,
                               SenseNovaRequest, XfyunRequest
  <1>2. ASSUME IsText(reply), Ended(p, ParseResponse(p, reply))
        PROVE  Ended(p, Request(p, reply))
    <2>1. Ended(p, ParseUnfenced(p, reply))
      BY <1>2, RaisedEnded DEF ParseUnfenced
    <2> QED BY <1>2, <2>1 DEF Request, RealProviders, MadeRequest,
                              DeepSeekRequest, GlmRequest, SenseNovaRequest, XfyunRequest,
                              DeepSeekParse, GlmParse, SenseNovaParse, XfyunParse
  <1>3. CASE reply \in [fault : TextFaults, fenced : BOOLEAN]
    <2>1. IsText(reply) /\ "fault" \in DOMAIN reply
      BY <1>3 DEF IsText
    <2> QED BY <1>2, <2>1, RaisedEnded DEF ParseResponse
  <1>4. CASE reply \in [answer : Answers, fenced : BOOLEAN]
    <2>1. IsText(reply) /\ "fault" \notin DOMAIN reply /\ reply.answer \in Answers
      BY <1>4 DEF IsText
    <2>2. Ended(p, Answered(p, reply.answer))
      BY <2>1, AnswersTyped DEF Ended, ResponseTyped, Answered
    <2> QED BY <1>2, <2>1, <2>2 DEF ParseResponse
  <1> QED BY <1>1, <1>3, <1>4 DEF HttpReplies

LEMMA MockEnded ==
  ASSUME NEW scenario \in Scenarios, NEW answer \in Answers
  PROVE  Ended("mock", MockReply(scenario, answer))
PROOF
  <1>1. Ended("mock", Answered("mock", answer))
    BY AnswersTyped DEF Ended, ResponseTyped, Answered
  <1>2. Ended("mock", Answered("mock", [answer EXCEPT !.confidence = 30]))
    <2> DEFINE unsure == [answer EXCEPT !.confidence = 30]
    <2>1. Percent(unsure.score) /\ unsure.confidence = 30
      BY AnswersTyped
    <2> HIDE DEF unsure
    <2>2. Ended("mock", Answered("mock", unsure))
      BY <2>1 DEF Ended, ResponseTyped, Answered
    <2> QED BY <2>2 DEF unsure
  <1> QED BY <1>1, <1>2, RaisedEnded, LlmAssumption DEF MockReply
\* A chain loses its head, or all of it, or nothing.
LEMMA TailTyped ==
  ASSUME NEW s \in Seq(ProviderNames), s # <<>>, Len(s) <= 3
  PROVE  Tail(s) \in Seq(ProviderNames) /\ Len(Tail(s)) <= 3
PROOF
  <1>1. Len(s) \in Nat /\ Len(s) # 0
    OBVIOUS
  <1>2. Tail(s) \in Seq(ProviderNames) /\ Len(Tail(s)) = Len(s) - 1
    BY <1>1
  <1> QED BY <1>1, <1>2

LEMMA OutcomeStep ==
  ASSUME ChainInv, chain # <<>>, NEW outcome, NEW p, Head(chain) = p, Ended(p, outcome),
         Outcome(outcome), routed' = routed
  PROVE  /\ ChainInv'
         /\ Single /\ asked' = asked => Single'
PROOF
  <1>1. CASE routed /\ outcome.kind # "answered" /\ outcome # Escaped
    <2>1. chain' = Tail(chain) /\ left' = LlmRetries
            /\ response' = IF Len(chain) > 1 THEN Waiting ELSE Unsuccessful(outcome.error)
      BY <1>1 DEF Outcome
    <2>2. ResponseTyped(Waiting) /\ ResponseTyped(Unsuccessful(outcome.error))
      BY DEF ResponseTyped, Waiting, Unsuccessful
    <2>3. left' \in 0 .. LlmRetries
      BY <2>1, LlmAssumption
    <2>4. ChainInv'
      BY <2>1, <2>2, <2>3, TailTyped DEF ChainInv
    <2> QED BY <1>1, <2>4 DEF Single
  <1>2. CASE ~(routed /\ outcome.kind # "answered" /\ outcome # Escaped)
    <2>1. chain' = <<>> /\ left' = 0 /\ response' = outcome
      BY <1>2 DEF Outcome
    <2>2. <<>> \in Seq(ProviderNames) /\ Len(<<>>) = 0 /\ 0 \in 0 .. LlmRetries
      BY LlmAssumption
    <2>3. ChainInv'
      BY <2>1, <2>2 DEF ChainInv, Ended
    <2>4. ASSUME Single, asked' = asked PROVE Single'
      <3>1. Head(chain) = asked
        BY <2>4 DEF Single
      <3> QED BY <2>1, <2>4, <3>1 DEF Single, Ended
    <2> QED BY <2>3, <2>4
  <1> QED BY <1>1, <1>2

LEMMA AttemptStep ==
  ASSUME ChainInv, NEW given, RealAttempt(given) \/ MockAttempt, asked' = asked
  PROVE  ChainInv' /\ (Single => Single')
PROOF
  <1>1. ASSUME NEW p \in RealProviders, Analyze(p, given)
        PROVE  ChainInv' /\ (Single => Single')
    <2>1. chain # <<>> /\ Head(chain) = p /\ routed' = routed
      BY <1>1 DEF Analyze
    <2>2. CASE Outcome(Raised("not_configured"))
      BY <2>1, <2>2, OutcomeStep, RaisedEnded
    <2>3. ASSUME NEW reply \in HttpReplies, Outcome(Request(p, reply))
          PROVE  ChainInv' /\ (Single => Single')
      BY <2>1, <2>3, OutcomeStep, RequestEnded
    <2>4. CASE left > 0 /\ left' = left - 1 /\ chain' = chain /\ response' = response
      <3>1. left' \in 0 .. LlmRetries
        BY <2>4, LlmAssumption DEF ChainInv
      <3> QED BY <2>1, <2>4, <3>1 DEF ChainInv, Single
    <2> QED BY <1>1, <2>2, <2>3, <2>4 DEF Analyze
  <1>2. CASE MockAttempt
    <2>1. PICK scenario \in Scenarios, answer \in Answers : Outcome(MockReply(scenario, answer))
      BY <1>2 DEF MockAttempt
    <2>2. chain # <<>> /\ Head(chain) = "mock" /\ routed' = routed
      BY <1>2 DEF MockAttempt
    <2> QED BY <2>1, <2>2, OutcomeStep, MockEnded
  <1> QED BY <1>1, <1>2 DEF RealAttempt, DeepSeekAnalyze, GlmAnalyze, SenseNovaAnalyze,
                            XfyunAnalyze, RealProviders

LEMMA AskStep ==
  ASSUME ChainInv, wiring \in Wirings, AskModel
  PROVE  ChainInv' /\ (wiring # "smoke_llm" => Single')
PROOF
  <1>1. PICK p \in Providers :
          /\ asked' = p
          /\ IF p = "router"
             THEN \E primary \in {"deepseek", "glm", "mock"}, across \in BOOLEAN :
                    AskRouter(primary, across)
             ELSE Ask(p)
    BY DEF AskModel
  <1>2. wiring # "smoke_llm" => p # "router"
    BY RunnerAssumption DEF Providers, Wirings, RealProviders
  <1>3. p \in ProviderNames \union {"router"}
    BY RunnerAssumption DEF Providers, Wirings, RealProviders, ProviderNames
  <1>4. LlmRetries \in 0 .. LlmRetries /\ ResponseTyped(Waiting)
    BY LlmAssumption DEF ResponseTyped, Waiting
  <1>5. CASE p = "router"
    <2>1. PICK primary \in {"deepseek", "glm", "mock"}, across \in BOOLEAN : AskRouter(primary, across)
      BY <1>1, <1>5
    <2>2. FallbackChain(primary, across) \in {<<"glm", "mock">>, <<"deepseek", "mock">>, <<"mock">>}
      BY DEF FallbackChain
    <2> DEFINE f == FallbackChain(primary, across)
    <2>3. chain' = <<primary>> \o f
      BY <2>1 DEF AskRouter
    <2>4. <<primary>> \in Seq(ProviderNames) /\ Len(<<primary>>) = 1
      BY DEF ProviderNames, RealProviders
    <2>5. f \in Seq(ProviderNames) /\ Len(f) <= 2
      <3>1. CASE f = <<"glm", "mock">>
        BY <3>1 DEF ProviderNames, RealProviders
      <3>2. CASE f = <<"deepseek", "mock">>
        BY <3>2 DEF ProviderNames, RealProviders
      <3>3. CASE f = <<"mock">>
        BY <3>3 DEF ProviderNames, RealProviders
      <3> QED BY <2>2, <3>1, <3>2, <3>3
    <2> HIDE DEF f
    <2>6. chain' \in Seq(ProviderNames) /\ Len(chain') <= 3
      BY <2>3, <2>4, <2>5
    <2> QED BY <1>2, <1>4, <1>5, <2>1, <2>6 DEF ChainInv, AskRouter
  <1>6. CASE p # "router"
    <2>1. chain' = <<p>> /\ ~routed' /\ left' = LlmRetries /\ response' = Waiting
      BY <1>1, <1>6 DEF Ask
    <2>2. <<p>> \in Seq(ProviderNames) /\ Len(<<p>>) <= 3 /\ <<p>> # <<>>
      BY <1>3, <1>6
    <2> QED BY <1>1, <1>4, <2>1, <2>2 DEF ChainInv, Single, Waiting
  <1> QED BY <1>5, <1>6
-----------------------------------------------------------------------------
(* The signal. *)

\* Five scores make a base below 90 points when liquidity and lifecycle are
\* capped and nobody's wallet is watched.
LEMMA CappedBase ==
  ASSUME NEW scores, DOMAIN scores = Components,
         scores = [c \in Components |-> scores[c]],
         Percent(scores["microstructure"]), Percent(scores["event"]),
         scores["liquidity"] \in {50, 70, 80, 90}, scores["wallet"] = 50,
         Percent(scores["lifecycle"]), scores["lifecycle"] <= 90
  PROVE  ScoresOK(scores) /\ BaseScore(scores) < 9000
PROOF
  <1>1. \A c \in Components : scores[c] \in 0 .. 100
    BY DEF Components, Percent
  <1>2. ScoresOK(scores)
    BY <1>1 DEF ScoresOK
  <1>3. BaseScore(scores) < 9000
    BY DEF BaseScore, Percent
  <1> QED BY <1>2, <1>3

LEMMA EventScoreTyped ==
  ASSUME NEW r, ResponseTyped(r), r.kind \in {"answered", "unsuccessful"}
  PROVE  /\ Percent(ProcessResponse(r).score)
         /\ ProcessResponse(r).score # 50 => r.kind = "answered" /\ r.answer.confidence >= 50
PROOF
  <1>1. CASE r.kind = "unsuccessful"
    BY <1>1 DEF ProcessResponse, Neutral, Percent
  <1>2. CASE r.kind = "answered" /\ r.answer.confidence < 50
    BY <1>2 DEF ProcessResponse, Neutral, Percent
  <1>3. CASE r.kind = "answered" /\ ~(r.answer.confidence < 50)
    <2>1. r.answer.confidence >= 50
      BY <1>3 DEF ResponseTyped
    <2>2. ProcessResponse(r).score = r.answer.score
      BY <1>3 DEF ProcessResponse
    <2> QED BY <1>3, <2>1, <2>2 DEF ResponseTyped
  <1> QED BY <1>1, <1>2, <1>3

LEMMA SignalLow ==
  ASSUME QuotedBook(book), MarketKnown(market), wiring \in {"runner", "smoke_readonly"},
         ResponseTyped(response), response.kind \in {"answered", "unsuccessful"}, NEW connected,
         NEW i, i = AsInput(MispricingSignal(book, market, ComponentScores), connected)
  PROVE  /\ Measured(i) /\ BaseScore(i.scores) < 9000
         /\ wiring = "runner" => i.scores["event"] = ProcessResponse(response).score
PROOF
  <1> DEFINE scores == i.scores
             old == ComponentScores
             event == ProcessResponse(response).score
             lifecycle == LifecycleScore(market)
             strategy == MispricingScore(book)
             liquidity == MispricingLiquidity(book)
  <1>1. /\ scores = [old EXCEPT !.microstructure = strategy, !.liquidity = liquidity]
        /\ i.book.spread = SpreadBp(book)
    BY DEF AsInput, MispricingSignal
  <1>2. /\ Percent(strategy) /\ liquidity \in {50, 70, 80, 90}
        /\ Percent(event) /\ Percent(lifecycle) /\ lifecycle <= 90
    BY StrategyScores, EventScoreTyped, LifecycleType DEF MarketKnown, Percent
  <1>3. /\ DOMAIN old = Components
        /\ wiring = "runner" => old.event = event /\ old.wallet = 50 /\ old.lifecycle = lifecycle
        /\ wiring # "runner" => old.event = 50 /\ old.wallet = 50 /\ old.lifecycle = 50
    BY DEF ComponentScores, BookScores, Components, WalletScore
  <1> HIDE DEF old, event, lifecycle, strategy, liquidity, scores
  <1>4. /\ DOMAIN scores = Components /\ scores = [c \in Components |-> scores[c]]
        /\ scores["microstructure"] = strategy /\ scores["liquidity"] = liquidity
        /\ scores["event"] = old.event /\ scores["wallet"] = old.wallet
        /\ scores["lifecycle"] = old.lifecycle
    BY <1>1, <1>3 DEF Components
  <1>5. Percent(50) /\ 50 <= 90
    BY DEF Percent
  <1>6. ScoresOK(scores) /\ BaseScore(scores) < 9000
    BY <1>2, <1>3, <1>4, <1>5, CappedBase
  <1>7. SpreadBp(book) \in Int
    BY SpreadType
  <1> QED BY <1>1, <1>3, <1>4, <1>6, <1>7 DEF Measured, scores, event
-----------------------------------------------------------------------------
(* The invariant of the path.  A book and a market stand behind every model *)
(* that is asked and every signal; one model is asked and its answer is the *)
(* signal's; what is judged has a low base.                                 *)

Stages == {"hypothetical", "scanning", "made", "asking", "judged", "signal_saved", "ended"}

Beyond == stage \in {"made", "asking", "judged", "signal_saved"} /\ wiring # "smoke_llm"

StagesInv ==
  /\ stage \in Stages /\ wiring \in Wirings
  /\ llmFailed \in BOOLEAN /\ events \in 0 .. MaxEvents
  /\ stage = "scanning" \/ InHand => wiring # "smoke_llm"

SourcesInv == Beyond => book # NoBook /\ MarketKnown(market)

AnswerInv ==
  /\ Beyond /\ stage # "made" => Single
  /\ InHand => response.kind \in {"answered", "unsuccessful"}

InputInv ==
  /\ Measured(input)
  /\ stage = "hypothetical" =>
       input \in Inputs /\ FlagsSplit(input, engineFlags, answerFlags)
  /\ llmFailed => stage = "hypothetical" /\ NeutralAtMost(input, llmFailed)
  /\ stage \in {"scanning", "made", "asking"} => input = Unjudged
  /\ InHand => /\ BaseScore(input.scores) < 9000
               /\ wiring = "runner" => input.scores["event"] = ProcessResponse(response).score

PathInv == DataInv /\ ChainInv /\ StagesInv /\ SourcesInv /\ AnswerInv /\ InputInv

LEMMA UnjudgedTyped == Unjudged \in Inputs /\ Unjudged.flags = {}
PROOF
  <1>1. [c \in Components |-> 100] \in [Components -> 0 .. 100]
    OBVIOUS
  <1> QED BY <1>1, HealthyTyped DEF Unjudged

LEMMA PathInit == Init => PathInv
PROOF
  <1> SUFFICES ASSUME Init PROVE PathInv
    OBVIOUS
  <1>1. DataInv
    BY RequestsTyped DEF Init, DataInit, DataInv
  <1>2. ChainInv
    <2>1. chain = <<>> /\ left = 0 /\ response = Waiting
      BY DEF Init, CallInit
    <2>2. <<>> \in Seq(ProviderNames) /\ Len(<<>>) = 0 /\ 0 \in 0 .. LlmRetries
      BY LlmAssumption
    <2> QED BY <2>1, <2>2 DEF ChainInv, ResponseTyped, Waiting
  <1>3. CASE stage = "hypothetical" /\ wiring = "runner" /\ GovernorInit
    <2>1. input \in Inputs /\ input.flags = {} /\ events = 0 /\ llmFailed = FALSE
      BY <1>3, HealthyTyped, InputsAssumption DEF GovernorInit
    <2>2. Measured(input) /\ FlagsSplit(input, engineFlags, answerFlags)
      BY <1>3, <2>1, InputsMeasured DEF FlagsSplit, GovernorInit, NoFlags
    <2>3. events \in 0 .. MaxEvents
      BY <2>1, InputsAssumption
    <2> QED BY <1>1, <1>2, <1>3, <2>1, <2>2, <2>3
            DEF PathInv, StagesInv, SourcesInv, AnswerInv, InputInv, Stages, Wirings, Beyond, InHand
  <1>4. CASE /\ wiring \in Wirings /\ stage = IF wiring = "smoke_llm" THEN "made" ELSE "scanning"
             /\ input = Unjudged /\ llmFailed = FALSE /\ events = 0
    <2>1. Measured(input)
      BY <1>4, UnjudgedTyped, InputsMeasured
    <2>2. events \in 0 .. MaxEvents
      BY <1>4, InputsAssumption
    <2>3. \/ stage = "made" /\ wiring = "smoke_llm"
          \/ stage = "scanning" /\ wiring # "smoke_llm"
      BY <1>4
    <2> QED BY <1>1, <1>2, <1>4, <2>1, <2>2, <2>3
            DEF PathInv, StagesInv, SourcesInv, AnswerInv, InputInv, Stages, Beyond, InHand
  <1> QED BY <1>3, <1>4 DEF Init

LEMMA PathNext == PathInv /\ [Next]_vars => PathInv'
PROOF
  <1> SUFFICES ASSUME PathInv, [Next]_vars PROVE PathInv'
    OBVIOUS
  <1> USE DEF PathInv
  <1>1. CASE Scan
    <2>1. DataInv'
      BY <1>1, DataStep DEF Scan
    <2> QED BY <1>1, <2>1 DEF Scan, ChainInv, StagesInv, SourcesInv, AnswerInv, InputInv, Beyond,
                              InHand, Single, governorVars, callVars, wires, asks
  <1>2. CASE ReadCached
    <2>1. PICK sides \in [Tokens -> RawSides \union {NoSide}] :
            book' = [Snapshot(sides) EXCEPT !.source = "websocket"]
      BY <1>2 DEF ReadCached
    <2>2. QuotedBook(book') /\ book'.source = "websocket"
      BY <2>1, SnapshotQuoted
    <2>3. DataInv'
      BY <1>2, <2>2 DEF ReadCached, DataInv, QuotedBook
    <2> QED BY <1>2, <2>3 DEF ReadCached, ChainInv, StagesInv, SourcesInv, AnswerInv, InputInv, Beyond,
                              InHand, Single, governorVars, callVars, wires, asks
  <1>3. CASE ReadThrough
    <2>1. DataInv'
      BY <1>3 DEF ReadThrough, DataInv
    <2> QED BY <1>3, <2>1 DEF ReadThrough, ChainInv, StagesInv, SourcesInv, AnswerInv, InputInv, Beyond,
                              InHand, Single, governorVars, callVars, wires, asks
  <1>4. ASSUME stage # "hypothetical", stage' = "ended",
               UNCHANGED <<governorVars, dataVars, callVars, wires, asks>>
        PROVE  PathInv'
    BY <1>4 DEF DataInv, ChainInv, StagesInv, SourcesInv, AnswerInv, InputInv, Beyond, Stages,
                InHand, governorVars, dataVars, callVars, wires, asks
  <1>5. CASE NothingRead \/ AttemptsOver \/ NoSignal \/ SaveDecision
    BY <1>4, <1>5 DEF NothingRead, AttemptsOver, NoSignal, ResponseUsed, SaveDecision, Ends
  <1>6. CASE Assess
    <2>1. stage = "scanning" /\ reading = "read" /\ book # NoBook /\ stage' \in {"made", "ended"}
          /\ UNCHANGED <<governorVars, dataVars, callVars, wires, asks>>
      BY <1>6 DEF Assess
    <2> QED BY <2>1 DEF DataInv, ChainInv, StagesInv, SourcesInv, AnswerInv, InputInv, Beyond, Stages,
                InHand, governorVars, dataVars, callVars, wires, asks
  <1>7. CASE AskModel
    <2>1. ChainInv' /\ (wiring # "smoke_llm" => Single')
      BY <1>7, AskStep DEF StagesInv
    <2>2. stage = "made" /\ stage' \in {"ended", "asking"} /\ UNCHANGED <<governorVars, dataVars, wires>>
      BY <1>7 DEF AskModel
    <2> QED BY <2>1, <2>2 DEF DataInv, StagesInv, SourcesInv, AnswerInv, InputInv, Beyond, Stages,
                InHand, governorVars, dataVars, wires
  <1>8. CASE Attempt
    <2>1. stage = "asking" /\ UNCHANGED <<governorVars, dataVars, stage, wires, asks>>
      BY <1>8 DEF Attempt
    <2>2. asked' = asked /\ wiring' = wiring
      BY <2>1 DEF asks, wires
    <2>3. ChainInv' /\ (Single => Single')
      BY <1>8, <2>2, AttemptStep DEF Attempt
    <2> QED BY <2>1, <2>2, <2>3 DEF DataInv, StagesInv, SourcesInv, AnswerInv, InputInv, Beyond, Stages,
                InHand, governorVars, dataVars
  <1>9. CASE Judge
    <2>1. PICK connected \in Connected :
            input' = AsInput(MispricingSignal(book, market, ComponentScores), connected)
      BY <1>9 DEF Judge
    <2>2. /\ stage = "asking" /\ stage' = "judged" /\ chain = <<>> /\ wiring # "smoke_llm"
          /\ response.kind # "raised"
          /\ UNCHANGED <<engineFlags, answerFlags, llmFailed, events, dataVars, callVars, wires, asks>>
      BY <1>9 DEF Judge, ResponseUsed
    <2>3. Beyond /\ stage # "made"
      BY <2>2 DEF Beyond
    <2>4. book # NoBook /\ MarketKnown(market) /\ Single
      BY <2>3 DEF SourcesInv, AnswerInv
    <2>5. response.kind \in {"answered", "unsuccessful"} /\ ResponseTyped(response)
      BY <2>2, <2>4 DEF Single, ChainInv, ResponseTyped
    <2>6. QuotedBook(book) /\ wiring \in {"runner", "smoke_readonly"}
      BY <2>2, <2>4 DEF DataInv, StagesInv, Wirings
    <2>7. /\ Measured(input') /\ BaseScore(input'.scores) < 9000
          /\ wiring = "runner" => input'.scores["event"] = ProcessResponse(response).score
      BY <2>1, <2>4, <2>5, <2>6, SignalLow
    <2> QED BY <2>2, <2>4, <2>5, <2>7
            DEF DataInv, ChainInv, StagesInv, SourcesInv, AnswerInv, InputInv, Beyond, Stages, Single,
                InHand, dataVars, callVars, wires, asks
  <1>10. CASE SaveSignal
    <2>1. stage = "judged" /\ stage' \in {"signal_saved", "ended"}
          /\ UNCHANGED <<governorVars, dataVars, callVars, wires, asks>>
      BY <1>10 DEF SaveSignal
    <2> QED BY <2>1 DEF DataInv, ChainInv, StagesInv, SourcesInv, AnswerInv, InputInv, Beyond, Stages,
                Single, InHand, governorVars, dataVars, callVars, wires, asks
  <1>11. CASE WorldWorsens
    <2>1. stage = "hypothetical" /\ Worsens /\ UNCHANGED <<dataVars, callVars, stage, wires, asks>>
      BY <1>11 DEF WorldWorsens
    <2>2. /\ input' \in Inputs /\ llmFailed' \in BOOLEAN /\ events' \in 0 .. MaxEvents
          /\ FlagsSplit(input', engineFlags', answerFlags') /\ NeutralAtMost(input', llmFailed')
      BY <2>1, AdverseStep DEF StagesInv, InputInv, NeutralAtMost
    <2>3. Measured(input')
      BY <2>2, InputsMeasured
    <2> QED BY <2>1, <2>2, <2>3
            DEF DataInv, ChainInv, StagesInv, SourcesInv, AnswerInv, InputInv, Beyond, Stages,
                InHand, dataVars, callVars, wires, asks
  <1>12. CASE UNCHANGED vars
    BY <1>12 DEF DataInv, ChainInv, StagesInv, SourcesInv, AnswerInv, InputInv, Beyond, Stages,
                 Single, InHand, vars, governorVars, dataVars, callVars, wires, asks
  <1> QED BY <1>1, <1>2, <1>3, <1>5, <1>6, <1>7, <1>8, <1>9, <1>10, <1>11, <1>12
          DEF Next, PathStep
\* The way to a decision keeps its invariant.
THEOREM PathInvariant == Spec => []PathInv
PROOF
  BY PathInit, PathNext, PTL DEF Spec

-----------------------------------------------------------------------------
(* What follows. *)

LEMMA InvTyped == PathInv => TypeOK
PROOF
  <1> SUFFICES ASSUME PathInv PROVE TypeOK
    OBVIOUS
  <1>1. ScoresOK(input.scores) /\ input.book.spread \in Int
    BY DEF PathInv, InputInv, Measured
  <1>2. /\ Evaluate(input).action \in Actions /\ Evaluate(input).allowed \subseteq Actions
        /\ Evaluate(input).score \in Int
        /\ 0 <= Evaluate(input).score /\ Evaluate(input).score <= 10000
    BY <1>1, DecisionTyped, DecisionScored
  <1>3. DecisionTypeOK
    BY <1>2 DEF DecisionTypeOK, Decision, PathInv, StagesInv
  <1> QED BY <1>3 DEF TypeOK, PathInv, DataInv, ChainInv, StagesInv, Stages, Names, RequestType

(* No program that is wired up this way ever decides to trade, whatever the *)
(* market, the book, the answers of the model and the Governor's limits     *)
(* (paper_runner.py, smoke_real_readonly.py, RiskGovernor._decide_action).  *)
THEOREM NobodyTrades == Spec => []RunnerNeverTrades
PROOF
  <1>1. PathInv => RunnerNeverTrades
    <2> SUFFICES ASSUME PathInv PROVE RunnerNeverTrades
      OBVIOUS
    <2>1. InHand => Evaluate(input).action \notin {"paper_trade", "live_execute", "manual_review"}
      BY LowBaseNeverTrades DEF PathInv, InputInv, Measured
    <2> QED BY <2>1, InvTyped DEF RunnerNeverTrades, Decision
  <1> QED BY <1>1, PathInvariant, PTL

(* On real data and with a real model nothing a mock made up reaches a      *)
(* decision, however often requests fail, providers time out and answers do *)
(* not parse (DataProviderManager, EventIntelligenceEngine).                *)
THEOREM OnlyTheRealIsJudged == Spec => []NothingInvented
PROOF
  <1>1. PathInv => NothingInvented
    <2> SUFFICES ASSUME PathInv, InHand, mode = "real_readonly"
                 PROVE  /\ market.id = "real" /\ book.source \in {"clob", "websocket"}
                        /\ wiring = "runner" /\ asked \in RealProviders /\ input.scores["event"] # 50 =>
                             response.kind = "answered" /\ response.by = asked
                               /\ response.answer.confidence >= 50
      BY DEF NothingInvented
    <2>1. Beyond /\ stage # "made"
      BY DEF PathInv, StagesInv, InHand, Beyond
    <2>2. book # NoBook /\ MarketKnown(market) /\ Single
            /\ response.kind \in {"answered", "unsuccessful"}
      BY <2>1 DEF PathInv, SourcesInv, AnswerInv
    <2>3. market # NoMarket
      BY <2>2 DEF MarketKnown, NoMarket
    <2>4. market.id = "real" /\ book.source \in {"clob", "websocket"}
      BY <2>2, <2>3 DEF PathInv, DataInv
    <2>5. ASSUME wiring = "runner", input.scores["event"] # 50
          PROVE  response.kind = "answered" /\ response.by = asked /\ response.answer.confidence >= 50
      <3>1. ProcessResponse(response).score # 50
        BY <2>5 DEF PathInv, InputInv
      <3>2. ResponseTyped(response)
        BY DEF PathInv, ChainInv
      <3>3. response.kind = "answered" /\ response.answer.confidence >= 50
        BY <2>2, <3>1, <3>2, EventScoreTyped
      <3> QED BY <2>2, <3>3 DEF Single
    <2> QED BY <2>4, <2>5
  <1> QED BY <1>1, PathInvariant, PTL

\* The input a path starts with has full marks and nothing against it.
LEMMA UnjudgedTrades ==
  ASSUME NEW i, Measured(i)
  PROVE  /\ Trades(Evaluate(i)) => Trades(Evaluate(Unjudged))
         /\ "live_execute" \in Evaluate(i).allowed => "live_execute" \in Evaluate(Unjudged).allowed
PROOF
  <1> DEFINE full == [c \in Components |-> 100]
             u == Unjudged
  <1>1. Measured(u)
    BY UnjudgedTyped, InputsMeasured
  <1>2. HardRejectReasons(u) = {}
    <2>1. SystemReasons(u.system) = {}
      BY DEF Unjudged, Healthy, SystemReasons
    <2>2. MarketReasons(u.market, u.flags) = {}
      BY DEF Unjudged, Healthy, MarketReasons
    <2>3. BookReasons(u.book, u.side) = {}
      <3>1. u.book.spread = 0 /\ u.book.stale = FALSE /\ u.side = "both"
              /\ u.book.depth = [x \in {"yes", "no"} |-> MinDepth]
        BY DEF Unjudged, Healthy
      <3>2. \A x \in SidesConsumed(u.side) : u.book.depth[x] = MinDepth
        BY <3>1 DEF SidesConsumed
      <3> HIDE DEF u
      <3> QED BY <3>1, <3>2, LimitsAssumption DEF BookReasons
    <2>4. AccountReasons(u.account) = {}
      <3>1. u.account = NewAccount
        BY DEF Unjudged, Healthy
      <3>2. LossReasons(NewAccount) = {}
        BY LimitsAssumption DEF LossReasons, NewAccount
      <3>3. ExposureReasons(NewAccount) = {}
        BY LimitsAssumption DEF ExposureReasons, NewAccount
      <3> QED BY <3>1, <3>2, <3>3 DEF AccountReasons
    <2>5. SignalReasons(u.scores, u.flags) = {}
      <3>1. u.scores = full /\ u.flags = {}
        BY DEF Unjudged, Healthy
      <3>2. ~OnlySignal(full, "wallet", "event") /\ ~OnlySignal(full, "event", "wallet")
        BY DEF OnlySignal, Components
      <3> QED BY <3>1, <3>2 DEF SignalReasons
    <2> QED BY <2>1, <2>2, <2>3, <2>4, <2>5 DEF HardRejectReasons
  <1>3. TradeScore(u) = 10000
    <2>1. /\ u.scores = full /\ u.flags = {} /\ u.book.spread = 0 /\ u.account = NewAccount
      BY DEF Unjudged, Healthy
    <2>2. BaseScore(full) = 10000
      <3>1. /\ full["microstructure"] = 100 /\ full["liquidity"] = 100 /\ full["event"] = 100
            /\ full["wallet"] = 100 /\ full["lifecycle"] = 100
        BY DEF Components
      <3> HIDE DEF full
      <3> QED BY <3>1 DEF BaseScore
    <2> HIDE DEF full, u
    <2>3. SlippagePenalty(u.book) = 0
      BY <2>1 DEF SlippagePenalty
    <2>4. ConcentrationPenalty(u.account) = 0
      BY <2>1, LimitsAssumption DEF ConcentrationPenalty, NewAccount
    <2>5. CopyRiskPenalty(u.flags) = 0 /\ LlmPenalty(u.flags) = 0
      BY <2>1 DEF CopyRiskPenalty, LlmPenalty, FlagPenalty
    <2>6. \A flag, points : FlagPenalty(u.flags, flag, points) = 0
      BY <2>1 DEF FlagPenalty
    <2>7. Penalties(u) = 0
      BY <2>3, <2>4, <2>5, <2>6 DEF Penalties
    <2>8. Clamp(10000) = 10000
      BY DEF Clamp
    <2> QED BY <2>1, <2>2, <2>7, <2>8 DEF TradeScore
  <1>4. PaperScore(TradeScore(i)) => PaperScore(10000)
    BY DEF PaperScore
  <1>5. LiveScore(TradeScore(i)) => LiveScore(10000)
    BY DEF LiveScore
  <1> HIDE DEF u
  <1>6. /\ Trades(Evaluate(i)) => Trades(Evaluate(u))
        /\ "live_execute" \in Evaluate(i).allowed => "live_execute" \in Evaluate(u).allowed
    BY <1>1, <1>2, <1>3, <1>4, <1>5, DecisionPermits
  <1> QED BY <1>6 DEF u

\* Behind a failed call no score reaches live execution.
LEMMA FailureNeverLive ==
  ASSUME NEW i \in Inputs, i.scores["event"] <= 50
  PROVE  "live_execute" \notin Evaluate(i).allowed
PROOF
  <1> DEFINE base == BaseScore(i.scores)
             score == TradeScore(i)
  <1>1. Measured(i)
    BY InputsMeasured
  <1>2. base <= 9000
    <2>1. \A c \in Components : i.scores[c] \in 0 .. 100
      BY DEF Inputs
    <2>2. /\ i.scores["microstructure"] \in 0 .. 100 /\ i.scores["liquidity"] \in 0 .. 100
          /\ i.scores["event"] \in 0 .. 100 /\ i.scores["wallet"] \in 0 .. 100
          /\ i.scores["lifecycle"] \in 0 .. 100
      BY <2>1 DEF Components
    <2> DEFINE m == i.scores["microstructure"]
               l == i.scores["liquidity"]
               e == i.scores["event"]
               w == i.scores["wallet"]
               c == i.scores["lifecycle"]
    <2>4. base = 30 * m + 20 * l + 20 * e + 15 * w + 15 * c
      BY DEF BaseScore
    <2>5. /\ m \in 0 .. 100 /\ l \in 0 .. 100 /\ e \in 0 .. 100 /\ w \in 0 .. 100
          /\ c \in 0 .. 100 /\ e <= 50
      BY <2>2
    <2> HIDE DEF m, l, e, w, c, base
    <2> QED BY <2>4, <2>5
  <1>3. score <= base /\ base \in Nat /\ score \in Int
    BY <1>1, TradeScoreType, BaseScoreType DEF Measured
  <1> HIDE DEF base, score
  <1>4. ~LiveScore(score)
    BY <1>2, <1>3 DEF LiveScore
  <1> QED BY <1>1, <1>4, DecisionPermits DEF score

(* A decision only ever gets stricter as the world gets worse, whatever the*)
(* scores, the flags, the limits and the amounts: no adverse event opens   *)
(* the way to a trade or turns a paper trade into a live one.  A model     *)
(* that fails takes back what its own answer held against the signal,      *)
(* never what an engine did, and live execution is out of its reach        *)
(* (RiskGovernor.evaluate, EventIntelligenceEngine._process_response).     *)
THEOREM WorseIsNeverRewarded == Spec => WorseNeverPermits
PROOF
  <1> DEFINE Stricter ==
        /\ Trades(Decision') => Trades(Evaluate(StillObjected))
        /\ "live_execute" \in Decision'.allowed =>
             "live_execute" \in Evaluate(StillObjected).allowed /\ ~llmFailed'
  <1>1. PathInv /\ PathInv' /\ [Next]_vars => [Stricter]_governorVars
    <2> SUFFICES ASSUME PathInv, PathInv', [Next]_vars, governorVars' # governorVars
                 PROVE  Stricter
      OBVIOUS
    <2>1. Measured(input) /\ Measured(input')
      BY DEF PathInv, InputInv
    <2>2. WorldWorsens \/ Judge
      BY DEF Next, PathStep, Scan, ReadCached, ReadThrough, NothingRead, Assess, AskModel, Attempt,
             AttemptsOver, NoSignal, SaveSignal, SaveDecision, vars, governorVars
    <2>3. CASE WorldWorsens
      <3>1. input \in Inputs /\ FlagsSplit(input, engineFlags, answerFlags)
              /\ NeutralAtMost(input, llmFailed) /\ llmFailed \in BOOLEAN
              /\ events \in 0 .. MaxEvents /\ Worsens
        BY <2>3 DEF WorldWorsens, PathInv, InputInv, StagesInv, NeutralAtMost
      <3>2. /\ input' \in Inputs /\ NeutralAtMost(input', llmFailed')
            /\ StillObjected \in Inputs /\ Worse(StillObjected, input')
        BY <3>1, AdverseStep
      <3>3. /\ Trades(Evaluate(input')) => Trades(Evaluate(StillObjected))
            /\ "live_execute" \in Evaluate(input').allowed
                 => "live_execute" \in Evaluate(StillObjected).allowed
        <4> DEFINE still == StillObjected
                   now == input'
        <4>1. still \in Inputs /\ now \in Inputs /\ Worse(still, now)
          BY <3>2
        <4> HIDE DEF still, now
        <4>2. Measured(still) /\ Measured(now)
          BY <4>1, InputsMeasured
        <4>3. /\ Trades(Evaluate(now)) => Trades(Evaluate(still))
              /\ "live_execute" \in Evaluate(now).allowed => "live_execute" \in Evaluate(still).allowed
          BY <4>1, <4>2, WorseIsStricter
        <4> QED BY <4>3 DEF still, now
      <3>4. llmFailed' => "live_execute" \notin Evaluate(input').allowed
        BY <3>2, FailureNeverLive DEF NeutralAtMost
      <3> QED BY <3>3, <3>4 DEF Decision
    <2>4. CASE Judge
      <3>1. input = Unjudged /\ ~llmFailed /\ ~llmFailed'
        BY <2>4 DEF Judge, ResponseUsed, PathInv, InputInv
      <3>2. Unjudged.flags = {}
        BY UnjudgedTyped
      <3>3. StillObjected = Unjudged
        <4>1. [Unjudged EXCEPT !.flags = @ \ {"llm_error"}] = Unjudged
          BY <3>2, UnjudgedTyped DEF Inputs
        <4> QED BY <3>1, <4>1 DEF StillObjected
      <3>4. /\ Trades(Evaluate(input')) => Trades(Evaluate(Unjudged))
            /\ "live_execute" \in Evaluate(input').allowed
                 => "live_execute" \in Evaluate(Unjudged).allowed
        BY <2>1, UnjudgedTrades
      <3> QED BY <3>1, <3>3, <3>4 DEF Decision
    <2> QED BY <2>2, <2>3, <2>4
  <1> QED BY <1>1, PathInvariant, PTL DEF Spec, WorseNeverPermits
=============================================================================
