----------------------------- MODULE SignalPath -----------------------------
(***************************************************************************)
(* One market on its way to a decision, in the three programs that lead    *)
(* there: the dry-run (paper_runner.py with llm_sampling.py and            *)
(* alpha_repeat.py) and the smoke tests of the data (smoke_real_readonly)  *)
(* and of the models (smoke_llm_real).  The market is listed, its book     *)
(* read, a model asked, a signal made and judged, and both are saved.      *)
(*                                                                         *)
(* Beside them a hypothetical signal is shown to the same Governor while   *)
(* the world around it gets worse (RiskDecision).                          *)
(***************************************************************************)
EXTENDS RiskDecision, Engines, MarketData, LlmCalls, SequencesExt

CONSTANT RunnerProviders    \* --llm-provider of the dry-run

ASSUME RunnerAssumption == RunnerProviders \subseteq {"xfyun_anthropic", "sensenova", "mock"}

VARIABLES
  stage,      \* how far the path has come
  wiring,     \* the program: runner, smoke_readonly, smoke_llm
  websocket,  \* the runner uses the websocket
  asked,      \* the model that was asked
  keys        \* the providers of its chain with an API key

wires == <<wiring, websocket>>
asks == <<asked, keys>>
vars == <<governorVars, dataVars, callVars, stage, wires, asks>>

Wirings == {"runner", "smoke_readonly", "smoke_llm"}

\* The websocket comes and goes between any two awaits.
Connected == {FALSE} \cup {c \in {TRUE} : wiring = "runner" /\ websocket}

Unjudged == Healthy([c \in Components |-> 100], "both")

Init ==
  /\ DataInit /\ CallInit
  /\ asked = "nobody" /\ keys = {}
  /\ websocket \in BOOLEAN
  /\ \/ /\ stage = "hypothetical" /\ wiring = "runner"
        /\ mode = "mock" /\ ~websocket
        /\ GovernorInit
     \/ /\ wiring \in Wirings
        /\ websocket => wiring = "runner" /\ mode # "mock"
        /\ wiring = "smoke_readonly" => mode = "real_readonly"
        /\ wiring = "smoke_llm" => mode = "mock"
        /\ stage = IF wiring = "smoke_llm" THEN "made" ELSE "scanning"
        /\ input = Unjudged /\ NoFlags /\ llmFailed = FALSE /\ events = 0

-----------------------------------------------------------------------------
(* The market and its book.                                                *)

Ends == stage' = "ended"

Scan ==
  /\ stage = "scanning" /\ (ListStep \/ BookStep)
  /\ UNCHANGED <<governorVars, callVars, stage, wires, asks>>

\* _get_orderbook: the cached book, unless it is missing or old.
ReadCached ==
  /\ stage = "scanning" /\ reading = "listed"
  /\ TRUE \in Connected /\ market.tokens = Tokens
  /\ \E sides \in [Tokens -> RawSides \cup {NoSide}] :
       /\ \E x \in Tokens : sides[x] # NoSide
       /\ book' = [Snapshot(sides) EXCEPT !.source = "websocket"]
  /\ reading' = "read"
  /\ UNCHANGED <<governorVars, mode, requests, market, callVars, stage, wires, asks>>

\* The smoke test passes over markets without both tokens.
ReadThrough ==
  /\ stage = "scanning" /\ reading = "listed"
  /\ wiring = "smoke_readonly" => market.tokens = Tokens
  /\ reading' = "booking"
  /\ UNCHANGED <<governorVars, mode, requests, market, book, callVars, stage, wires, asks>>

NothingRead ==
  /\ stage = "scanning"
  /\ \/ reading = "lost"
     \/ reading = "listed" /\ wiring = "smoke_readonly" /\ market.tokens # Tokens
     \/ reading = "read" /\ book = NoBook
  /\ Ends
  /\ UNCHANGED <<governorVars, dataVars, callVars, wires, asks>>

-----------------------------------------------------------------------------
(* The model.                                                              *)

\* _process_market up to the event engine; an assessment that does not
\* validate is an error of the market.
Assess ==
  /\ stage = "scanning" /\ reading = "read" /\ book # NoBook
  /\ stage' = IF Assessable(market) THEN "made" ELSE "ended"
  /\ UNCHANGED <<governorVars, dataVars, callVars, wires, asks>>

\* The providers a program may be given.
Providers ==
  CASE wiring = "runner" -> RunnerProviders
    [] wiring = "smoke_readonly" -> {"mock"}
    [] wiring = "smoke_llm" -> RealProviders \cup {"mock", "router"}

\* create_provider has none without a key; the runner's is made anyway.
AskModel ==
  /\ stage = "made"
  /\ \E p \in Providers :
       /\ asked' = p
       /\ IF p = "router"
          THEN \E primary \in {"deepseek", "glm", "mock"}, across \in BOOLEAN :
                 AskRouter(primary, across)
          ELSE Ask(p)
       /\ keys' \in SUBSET (ToSet(chain') \cap RealProviders)
       /\ stage' = IF wiring = "smoke_llm" /\ p \in RealProviders /\ keys' = {}
                   THEN "ended" ELSE "asking"
  /\ UNCHANGED <<governorVars, dataVars, wires>>

Attempt ==
  /\ stage = "asking" /\ (RealAttempt(keys) \/ MockAttempt)
  /\ UNCHANGED <<governorVars, dataVars, stage, wires, asks>>

\* An exception of the model's provider is an error of the market; the smoke
\* test of the models only reports what it was told.
AttemptsOver ==
  /\ stage = "asking" /\ chain = <<>>
  /\ wiring = "smoke_llm" \/ response.kind = "raised"
  /\ Ends
  /\ UNCHANGED <<governorVars, dataVars, callVars, wires, asks>>

-----------------------------------------------------------------------------
(* The signal.                                                             *)

\* The runner's component scores; the assessment's flags are not among what
\* the signal gets.  smoke_real_readonly uses the microstructure engine's.
ComponentScores ==
  IF wiring = "runner"
  THEN [microstructure |-> MicrostructureScore(book), liquidity |-> LiquidityScore(book),
        event |-> ProcessResponse(response).score,
        wallet |-> WalletScore, lifecycle |-> LifecycleScore(market)]
  ELSE BookScores(book)

Tradable(m) == m.status = "open" /\ ~m.ambiguous /\ m.volume >= 100000

\* The signal with its RiskContext, the market and the book; no account feeds
\* this Governor.
AsInput(signal, connected) ==
  [scores |-> signal.scores, side |-> signal.side, flags |-> signal.flags,
   system |-> [apiHealthy |-> TRUE,
               wsHealthy |-> wiring # "runner" \/ connected,
               priceStale |-> book.stale],
   market |-> [open |-> Tradable(market), ambiguous |-> market.ambiguous,
               autoAllowed |-> AutoAllowed(market), thin |-> market.volume < 100000],
   book |-> [stale |-> book.stale, spread |-> SpreadBp(book),
             depth |-> [x \in Tokens |-> book[x].askUsd]],
   account |-> NewAccount]

ResponseUsed == stage = "asking" /\ chain = <<>> /\ wiring # "smoke_llm" /\ response.kind # "raised"

NoSignal ==
  /\ ResponseUsed
  /\ ~MispricingFound(book, market)
  /\ Ends
  /\ UNCHANGED <<governorVars, dataVars, callVars, wires, asks>>

Judge ==
  /\ ResponseUsed
  /\ MispricingFound(book, market)
  /\ \E connected \in Connected :
       input' = AsInput(MispricingSignal(book, market, ComponentScores), connected)
  /\ stage' = "judged"
  /\ UNCHANGED <<engineFlags, answerFlags, llmFailed, events, dataVars, callVars, wires, asks>>

\* The runner saves the signal, then the decision, and either may fail; an
\* order would come first, but the paper trader takes no signal on both sides.
\* The smoke test saves nothing.
SaveSignal ==
  /\ stage = "judged"
  /\ stage' \in IF wiring = "runner" THEN {"signal_saved", "ended"} ELSE {"ended"}
  /\ UNCHANGED <<governorVars, dataVars, callVars, wires, asks>>

SaveDecision ==
  /\ stage = "signal_saved"
  /\ Ends
  /\ UNCHANGED <<governorVars, dataVars, callVars, wires, asks>>

PathStep ==
  \/ Scan \/ ReadCached \/ ReadThrough \/ NothingRead \/ Assess \/ AskModel
  \/ Attempt \/ AttemptsOver \/ NoSignal \/ Judge \/ SaveSignal \/ SaveDecision

WorldWorsens ==
  /\ stage = "hypothetical" /\ Worsens
  /\ UNCHANGED <<dataVars, callVars, stage, wires, asks>>

Next == PathStep \/ WorldWorsens

\* asyncio runs what is due; every request has a timeout.
Spec == Init /\ [][Next]_vars /\ WF_vars(PathStep)

-----------------------------------------------------------------------------
TypeOK ==
  /\ DecisionTypeOK
  /\ stage \in {"hypothetical", "scanning", "made", "asking", "judged", "signal_saved", "ended"}
  /\ wiring \in Wirings
  /\ requests \in [{"list", "info", "yes", "no"} ->
                     [left : 0 .. MaxRetries,
                      answer : {"unasked", "pending", "ok", "absent", "failed"}]]
  /\ left \in 0 .. LlmRetries
  /\ Len(chain) <= 3

InHand == stage \in {"judged", "signal_saved"}

(* No program that is wired up this way ever decides to trade: with the    *)
(* strategy's cap on its own two scores, nobody's wallet watched and the   *)
(* risks every market has, the other engines cannot lift a signal to the   *)
(* 90 points a paper trade takes (paper_runner.py, smoke_real_readonly.py, *)
(* RiskGovernor._decide_action).                                           *)
RunnerNeverTrades ==
  TypeOK /\ (InHand => Decision.action \notin {"paper_trade", "live_execute", "manual_review"})

(* With real data and a real model nothing a mock made up reaches a        *)
(* decision: the market and the book were listed and read, however many    *)
(* requests failed, and an event score that is not neutral is a confident  *)
(* answer of the model that was configured (DataProviderManager,           *)
(* EventIntelligenceEngine._process_response).                             *)
NothingInvented ==
  InHand /\ mode = "real_readonly" =>
    /\ market.id = "real" /\ book.source \in {"clob", "websocket"}
    /\ wiring = "runner" /\ asked \in RealProviders /\ input.scores["event"] # 50 =>
         response.kind = "answered" /\ response.by = asked /\ response.answer.confidence >= 50

(* Whatever the servers do, the path of a market ends: each request gives  *)
(* up after its attempts, each provider after its own, and the router      *)
(* after the last of its chain.                                            *)
PathEnds == <>(stage \in {"hypothetical", "ended"})
=============================================================================
