------------------------------ MODULE LlmCalls ------------------------------
(***************************************************************************)
(* One question to a language model: the providers with their retries      *)
(* (deepseek, glm, sensenova, xfyun_anthropic, mock), the router that goes *)
(* down a chain of them (provider_router.py), and what the event engine    *)
(* makes of the answer (event_intelligence.py).                            *)
(*                                                                         *)
(* The pauses between attempts, some of them as long as the server asks,   *)
(* are left out.                                                           *)
(***************************************************************************)
EXTENDS Integers, Sequences

CONSTANTS
  LlmRetries,  \* max_retries of the providers
  Answers,     \* well-formed answers: event score, confidence and risks
  Scenarios    \* scenarios of the mock provider

ASSUME LlmAssumption ==
  /\ LlmRetries \in Nat
  /\ \A a \in Answers :
       /\ DOMAIN a = {"score", "confidence", "risks"}
       /\ a.score \in 0 .. 100 /\ a.confidence \in 0 .. 100
  /\ Scenarios \subseteq {"success", "invalid_json", "low_confidence", "timeout",
                          "schema_error", "missing_fields"}

VARIABLES
  chain,     \* the providers still to be asked, the one being asked first
  routed,    \* the router is asking
  left,      \* attempts left after the present one
  response   \* what has come of the question

callVars == <<chain, routed, left, response>>

RealProviders == {"deepseek", "glm", "sensenova", "xfyun_anthropic"}

\* The ends of a request: an answer, an unsuccessful response, an exception.
Waiting == [kind |-> "waiting"]
Answered(p, answer) == [kind |-> "answered", by |-> p, answer |-> answer]
Unsuccessful(error) == [kind |-> "unsuccessful", error |-> error]
Raised(error) == [kind |-> "raised", error |-> error]

-----------------------------------------------------------------------------
(* A request.  What comes back is a failure of the transport, a body that  *)
(* cannot be taken apart, no text, or a text.                              *)

TransportFaults == {"timeout", "unreachable", "unauthorized", "rate_limited", "refused"}
BodyFaults == {"unreadable", "no_choices", "no_text"}
TextFaults == {"no_json", "trading_fields", "off_schema"}
HttpReplies ==
  [fault : TransportFaults \cup BodyFaults] \cup [fault : TextFaults, fenced : BOOLEAN]
    \cup [answer : Answers, fenced : BOOLEAN]

IsText(reply) == "fenced" \in DOMAIN reply

TransportError(fault) ==
  CASE fault = "timeout" -> "timeout"
    [] fault \in {"unreachable", "refused"} -> "connection_error"
    [] fault = "unauthorized" -> "auth_error"
    [] fault = "rate_limited" -> "rate_limit"

\* _parse_response: JSON first, then the trading fields, then the schema.
TextError(fault) ==
  CASE fault = "no_json" -> "invalid_json"
    [] fault = "trading_fields" -> "forbidden_fields"
    [] fault = "off_schema" -> "schema_error"

ParseResponse(p, reply) ==
  IF "fault" \in DOMAIN reply THEN Raised(TextError(reply.fault))
  ELSE Answered(p, reply.answer)

\* A text inside a markdown fence is no JSON to json.loads; two of the
\* providers take the fence off.
ParseUnfenced(p, reply) ==
  IF reply.fenced THEN Raised("invalid_json") ELSE ParseResponse(p, reply)

DeepSeekParse(reply) == ParseUnfenced("deepseek", reply)
GlmParse(reply) == ParseResponse("glm", reply)
SenseNovaParse(reply) == ParseUnfenced("sensenova", reply)
XfyunParse(reply) == ParseResponse("xfyun_anthropic", reply)

\* Exceptions that are no LLMError: a connection that breaks while it is read,
\* a body that is no JSON, an empty list of choices.
Escaped == Raised("escaped")

MadeRequest(reply, parsed, noChoices) ==
  IF IsText(reply) THEN parsed
  ELSE CASE reply.fault \in TransportFaults -> Raised(TransportError(reply.fault))
         [] reply.fault = "no_text" -> Unsuccessful("empty_response")
         [] reply.fault = "no_choices" -> noChoices
         [] reply.fault = "unreadable" -> Escaped

DeepSeekRequest(reply) ==
  MadeRequest(reply, IF IsText(reply) THEN DeepSeekParse(reply) ELSE Waiting, Escaped)
GlmRequest(reply) ==
  MadeRequest(reply, IF IsText(reply) THEN GlmParse(reply) ELSE Waiting, Escaped)
SenseNovaRequest(reply) ==
  MadeRequest(reply, IF IsText(reply) THEN SenseNovaParse(reply) ELSE Waiting, Escaped)

\* The Anthropic format has a list of blocks: none of them is no text.
XfyunRequest(reply) ==
  MadeRequest(reply, IF IsText(reply) THEN XfyunParse(reply) ELSE Waiting,
              Unsuccessful("empty_response"))

Request(p, reply) ==
  CASE p = "deepseek" -> DeepSeekRequest(reply)
    [] p = "glm" -> GlmRequest(reply)
    [] p = "sensenova" -> SenseNovaRequest(reply)
    [] p = "xfyun_anthropic" -> XfyunRequest(reply)

\* analyze: rate limits, timeouts and failed connections are tried again.
Retryable(outcome) ==
  outcome.kind = "raised" /\ outcome.error \in {"rate_limit", "timeout", "connection_error"}

\* The mock provider makes up an answer, or fails, as its scenario says.
MockReply(scenario, answer) ==
  CASE scenario = "success" -> Answered("mock", answer)
    [] scenario = "low_confidence" -> Answered("mock", [answer EXCEPT !.confidence = 30])
    [] scenario = "timeout" -> Unsuccessful("timeout")
    [] scenario = "invalid_json" -> Unsuccessful("invalid_json")
    [] scenario \in {"schema_error", "missing_fields"} -> Unsuccessful("schema_error")

-----------------------------------------------------------------------------
(* The call.                                                               *)

CallInit == chain = <<>> /\ routed = FALSE /\ left = 0 /\ response = Waiting

\* The router's chain: across to the other provider if it may, then the mock.
FallbackChain(primary, across) ==
  CASE across /\ primary = "deepseek" -> <<"glm", "mock">>
    [] across /\ primary = "glm" -> <<"deepseek", "mock">>
    [] ~across \/ primary = "mock" -> <<"mock">>

Ask(p) ==
  /\ chain' = <<p>> /\ routed' = FALSE
  /\ left' = LlmRetries /\ response' = Waiting

AskRouter(primary, across) ==
  /\ chain' = <<primary>> \o FallbackChain(primary, across) /\ routed' = TRUE
  /\ left' = LlmRetries /\ response' = Waiting

\* The router takes an LLMError or an unsuccessful response to the next in
\* the chain; it does not catch other exceptions.
Outcome(outcome) ==
  IF routed /\ outcome.kind # "answered" /\ outcome # Escaped
  THEN /\ chain' = Tail(chain)
       /\ left' = LlmRetries
       /\ response' = IF Len(chain) > 1 THEN Waiting ELSE Unsuccessful(outcome.error)
  ELSE chain' = <<>> /\ left' = 0 /\ response' = outcome

\* One attempt of a provider's analyze; keys: the providers with an API key.
Analyze(p, keys) ==
  /\ chain # <<>> /\ Head(chain) = p
  /\ \/ p \notin keys /\ Outcome(Raised("not_configured"))
     \/ /\ p \in keys
        /\ \E reply \in HttpReplies :
             LET outcome == Request(p, reply)
             IN  \/ /\ Retryable(outcome) /\ left > 0
                    /\ left' = left - 1 /\ UNCHANGED <<chain, response>>
                 \/ ~(Retryable(outcome) /\ left > 0) /\ Outcome(outcome)
  /\ UNCHANGED routed

DeepSeekAnalyze(keys) == Analyze("deepseek", keys)
GlmAnalyze(keys) == Analyze("glm", keys)
SenseNovaAnalyze(keys) == Analyze("sensenova", keys)
XfyunAnalyze(keys) == Analyze("xfyun_anthropic", keys)

RealAttempt(keys) ==
  DeepSeekAnalyze(keys) \/ GlmAnalyze(keys) \/ SenseNovaAnalyze(keys) \/ XfyunAnalyze(keys)

MockAttempt ==
  /\ chain # <<>> /\ Head(chain) = "mock"
  /\ \E scenario \in Scenarios, answer \in Answers : Outcome(MockReply(scenario, answer))
  /\ UNCHANGED routed

-----------------------------------------------------------------------------
(* The assessment.                                                         *)

Neutral(flag) == [score |-> 50, flags |-> {flag}]

FailureFlag(error) ==
  CASE error = "invalid_json" -> "llm_invalid_json"
    [] error = "schema_error" -> "llm_schema_validation_failed"
    [] error = "timeout" -> "llm_timeout"
    [] error \notin {"invalid_json", "schema_error", "timeout"} -> "llm_error"

ProcessTrusting(r) ==    \* deviation: the confidence is not looked at
  IF r.kind = "unsuccessful" THEN Neutral(FailureFlag(r.error))
  ELSE [score |-> r.answer.score, flags |-> r.answer.risks]

ProcessResponse(r) ==
  IF r.kind = "unsuccessful" THEN Neutral(FailureFlag(r.error))
  ELSE IF r.answer.confidence < 50 THEN Neutral("llm_low_confidence")
  ELSE [score |-> r.answer.score, flags |-> r.answer.risks]
=============================================================================
