---------------------------- MODULE RiskDecision ----------------------------
(***************************************************************************)
(* The Governor under worsening conditions: a signal is evaluated, then    *)
(* one thing at a time gets worse (a channel fails, the book thins, the    *)
(* account loses, an engine or the model's answer adds a risk flag, a      *)
(* score drops, the model fails) and the same signal is evaluated again.   *)
(* What a worse world must never do is make the decision more permissive.  *)
(***************************************************************************)
EXTENDS RiskRules

CONSTANTS
  Profiles,     \* component scores a signal may start with
  Scores,       \* values a component score may drop to
  Flags,        \* the risk flags an engine or the model's answer may add
  Spreads,      \* spreads of the book, in basis points
  Sides,        \* sides of the signal
  MaxEvents     \* bound: adverse events in a behaviour

Components == {"microstructure", "liquidity", "event", "wallet", "lifecycle"}

ASSUME InputsAssumption ==
  /\ Profiles \subseteq [Components -> 0 .. 100]
  /\ Scores \subseteq 0 .. 100
  /\ Sides \subseteq {"yes", "no", "both"}
  /\ Spreads \subseteq Nat
  /\ MaxEvents \in Nat

VARIABLES
  input,        \* what the Governor is shown
  engineFlags,  \* of its flags, those of the engines that ask no model
  answerFlags,  \* and those of the model's answer
  llmFailed,    \* the LLM call behind the event score failed
  events        \* adverse events so far

governorVars == <<input, engineFlags, answerFlags, llmFailed, events>>

\* The ways an LLM call ends without an assessment, one flag each.
LlmFlags == {"llm_invalid_json", "llm_schema_validation_failed", "llm_timeout", "llm_error",
             "llm_low_confidence", "llm_forbidden_trading_instruction", "llm_no_parsed_output"}

\* An account nothing has happened to.
NewAccount == [dailyPnl |-> 0, weeklyPnl |-> 0, losses |-> 0,
               marketExposure |-> 0, strategyExposure |-> 0]

\* Nothing is wrong but what the scores say.
Healthy(scores, side) ==
  [scores |-> scores, side |-> side, flags |-> {},
   system |-> [apiHealthy |-> TRUE, wsHealthy |-> TRUE, priceStale |-> FALSE],
   market |-> [open |-> TRUE, ambiguous |-> FALSE, autoAllowed |-> TRUE, thin |-> FALSE],
   book |-> [stale |-> FALSE, spread |-> 0, depth |-> [x \in {"yes", "no"} |-> MinDepth]],
   account |-> NewAccount]

NoFlags == engineFlags = {} /\ answerFlags = {}

GovernorInit ==
  /\ events = 0
  /\ llmFailed = FALSE
  /\ NoFlags
  /\ \E scores \in Profiles, side \in Sides : input = Healthy(scores, side)

SystemWorsens ==
  \E s \in [apiHealthy : BOOLEAN, wsHealthy : BOOLEAN, priceStale : BOOLEAN] :
    /\ s.apiHealthy => input.system.apiHealthy
    /\ s.wsHealthy => input.system.wsHealthy
    /\ input.system.priceStale => s.priceStale
    /\ input' = [input EXCEPT !.system = s]

MarketWorsens ==
  \E fault \in {"open", "ambiguous", "autoAllowed", "thin"} :
    input' = [input EXCEPT !.market[fault] = fault \in {"ambiguous", "thin"}]

BookWorsens ==
  \/ input' = [input EXCEPT !.book.stale = TRUE]
  \/ \E s \in Spreads :
       /\ s > input.book.spread
       /\ input' = [input EXCEPT !.book.spread = s]
  \/ \E x \in {"yes", "no"} : input' = [input EXCEPT !.book.depth[x] = MinDepth - 1]

\* A losing close worsens the day, the week and the streak together.
AccountLoses ==
  \E loss \in {1, DailyLossLimit, DailyLossLimit + 1, WeeklyLossLimit + 1} :
    input' = [input EXCEPT !.account.dailyPnl = @ - loss,
                           !.account.weeklyPnl = @ - loss,
                           !.account.losses = @ + 1]

ExposureGrows ==
  \E n \in {MarketCap - 1, MarketCap, StrategyCap} :
    input' = [input EXCEPT !.account.marketExposure = @ + n,
                           !.account.strategyExposure = @ + n]

\* The names of the LLM flags are the event engine's own; an answer's
\* risk_flags are any strings, and a failed call has no answer.
FlagAdded ==
  /\ \/ \E f \in Flags \ LlmFlags :
          engineFlags' = engineFlags \cup {f} /\ UNCHANGED answerFlags
     \/ ~llmFailed
        /\ \E f \in Flags :
             answerFlags' = answerFlags \cup {f} /\ UNCHANGED engineFlags
  /\ input' = [input EXCEPT !.flags = engineFlags' \cup answerFlags']

LlmFailsAlone ==    \* deviation: the default assessment's flag is the signal's only one
  /\ ~llmFailed
  /\ llmFailed' = TRUE
  /\ \E f \in LlmFlags :
       /\ answerFlags' = {f}
       /\ input' = [input EXCEPT !.scores["event"] = 50, !.flags = {f}]
  /\ UNCHANGED engineFlags

\* create_default_assessment takes the place of the answer: the event score
\* is neutral, and what the answer flagged gives way to the one error flag.
\* llm_sampling.py builds its signal from the score alone, without the flags
\* of an answer and without that of a failure.
LlmFails ==
  /\ ~llmFailed
  /\ llmFailed' = TRUE
  /\ answerFlags' \in {{f} : f \in LlmFlags} \cup {x \in {{}} : answerFlags = {}}
  /\ input' = [input EXCEPT !.scores["event"] = 50, !.flags = engineFlags \cup answerFlags']
  /\ UNCHANGED engineFlags

\* The event score of a failed call stays what it is.
ScoreDrops ==
  \E c \in Components, x \in Scores :
    /\ x < input.scores[c]
    /\ c = "event" => ~llmFailed
    /\ input' = [input EXCEPT !.scores[c] = x]

Worsens ==
  /\ events < MaxEvents
  /\ events' = events + 1
  /\ \/ LlmFails
     \/ FlagAdded /\ UNCHANGED llmFailed
     \/ /\ \/ SystemWorsens \/ MarketWorsens \/ BookWorsens
           \/ AccountLoses \/ ExposureGrows \/ ScoreDrops
        /\ UNCHANGED <<engineFlags, answerFlags, llmFailed>>

-----------------------------------------------------------------------------
Decision == Evaluate(input)

DecisionTypeOK ==
  /\ Decision.action \in Actions
  /\ Decision.allowed \subseteq Actions
  /\ Decision.score \in Int /\ 0 <= Decision.score /\ Decision.score <= 10000
  /\ llmFailed \in BOOLEAN
  /\ events \in 0 .. MaxEvents

Trades(decision) == decision.allowed \cap {"paper_trade", "live_execute"} # {}

\* What the last evaluation would have seen without the objections that a
\* step takes back.  A failing call takes the answer's flags back, and an
\* event score below neutral; llm_low_confidence comes before llm_error in
\* the chain of penalties, and stands in its place.
StillObjected ==
  IF llmFailed' /\ ~llmFailed
  THEN [input EXCEPT !.flags = engineFlags, !.scores["event"] = IF @ < 50 THEN 50 ELSE @]
  ELSE IF "llm_low_confidence" \in input'.flags \ input.flags
  THEN [input EXCEPT !.flags = @ \ {"llm_error"}]
  ELSE input

(* A decision only ever gets stricter as the world gets worse: no adverse  *)
(* event, not even a score drop that clears a signal-only rejection, opens *)
(* the way to a trade or turns a paper trade into a live one.  A model     *)
(* that fails takes its own objections back and nobody else's: what is     *)
(* allowed after the failure was allowed by everything but the answer, and *)
(* live execution never is (RiskGovernor.evaluate, _process_response).     *)
WorseNeverPermits ==
  [][ /\ Trades(Decision') => Trades(Evaluate(StillObjected))
      /\ "live_execute" \in Decision'.allowed =>
           "live_execute" \in Evaluate(StillObjected).allowed /\ ~llmFailed' ]_governorVars
=============================================================================
