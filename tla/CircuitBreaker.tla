--------------------------- MODULE CircuitBreaker ---------------------------
(***************************************************************************)
(* The breaker of polysignal/risk/circuit_breaker.py: consecutive failures *)
(* of two channels, the API and the WebSocket, each with a flag that trips *)
(* at a limit and is lifted by the first evidence of health.  BreakerSpec  *)
(* is what it does for any caller.                                         *)
(***************************************************************************)
EXTENDS Integers

CONSTANTS
  MaxApiFailures,     \* max_api_failures, above 0
  MaxWsDisconnects    \* max_ws_disconnects, above 0

VARIABLES
  apiFailures,     \* _consecutive_api_failures
  apiTripped,      \* _api_tripped
  wsDisconnects,   \* _ws_disconnects
  wsTripped        \* _ws_tripped

apiChannel == <<apiFailures, apiTripped>>
wsChannel == <<wsDisconnects, wsTripped>>
breakerVars == <<apiChannel, wsChannel>>

-----------------------------------------------------------------------------
ApiHealthy == ~apiTripped

WebsocketHealthy == ~wsTripped

RecordApiFailure ==
  /\ apiFailures' = apiFailures + 1
  /\ apiTripped' = (apiTripped \/ apiFailures + 1 >= MaxApiFailures)
  /\ UNCHANGED wsChannel

RecordApiSuccess ==
  /\ apiFailures' = 0
  /\ apiTripped' = FALSE
  /\ UNCHANGED wsChannel

RecordWsDisconnect ==
  /\ wsDisconnects' = wsDisconnects + 1
  /\ wsTripped' = (wsTripped \/ wsDisconnects + 1 >= MaxWsDisconnects)
  /\ UNCHANGED apiChannel

RecordWsConnected ==
  /\ wsDisconnects' = 0
  /\ wsTripped' = FALSE
  /\ UNCHANGED apiChannel

\* The operator's manual recovery, and what a new breaker starts with.
Reset ==
  /\ apiFailures' = 0 /\ apiTripped' = FALSE
  /\ wsDisconnects' = 0 /\ wsTripped' = FALSE

BreakerInit ==
  /\ apiFailures = 0 /\ apiTripped = FALSE
  /\ wsDisconnects = 0 /\ wsTripped = FALSE

BreakerNext ==
  \/ RecordApiFailure \/ RecordApiSuccess
  \/ RecordWsDisconnect \/ RecordWsConnected
  \/ Reset

BreakerSpec == BreakerInit /\ [][BreakerNext]_breakerVars

-----------------------------------------------------------------------------
BreakerTypeOK ==
  /\ apiFailures \in Nat /\ wsDisconnects \in Nat
  /\ apiTripped \in BOOLEAN /\ wsTripped \in BOOLEAN

(* A flag is up exactly while its streak has reached the limit: no order   *)
(* of failures, successes and resets leaves a halt without its cause or a  *)
(* full streak without its halt (CircuitBreaker, class docstring).         *)
FlagsFollowStreaks ==
  /\ apiTripped <=> apiFailures >= MaxApiFailures
  /\ wsTripped <=> wsDisconnects >= MaxWsDisconnects
=============================================================================
