----------------------------- MODULE FeedClient -----------------------------
(***************************************************************************)
(* The WebSocket feed of the paper runner: CLOBWebSocketClient with its    *)
(* SubscriptionManager and ReconnectionStrategy, and the runner's loop and *)
(* callbacks.  Everything runs on one asyncio loop: an action is what a    *)
(* task does between two awaits.                                           *)
(*                                                                         *)
(* Each successful connect starts a receive task and a ping task; both     *)
(* read the client's current socket, not the one they were started for,    *)
(* and each may end up in _handle_disconnect.  Connect n yields socket n   *)
(* and the tasks numbered n.  Time is left open: a wait may end at any     *)
(* moment, and a pong may be overdue at any ping once one has been seen.   *)
(***************************************************************************)
EXTENDS Integers, FiniteSets

CONSTANTS
  Tokens,            \* token ids
  MaxSubscriptions,  \* max_subscriptions
  BatchSize,         \* subscribe_batch_size
  MaxAttempts,       \* max_reconnect_attempts
  MaxConnects        \* bound: successful connects in a behaviour

ASSUME FeedAssumption ==
  /\ IsFiniteSet(Tokens)
  /\ MaxSubscriptions \in Nat /\ BatchSize \in Nat \ {0}
  /\ MaxAttempts \in Nat /\ MaxConnects \in Nat

Conns == 1 .. MaxConnects

Receive(n) == <<"receive", n>>
Ping(n) == <<"ping", n>>
Runner == <<"runner", 0>>

Loops == {Receive(n) : n \in Conns} \cup {Ping(n) : n \in Conns}
Tasks == Loops \cup {Runner}

VARIABLES
  ws,           \* _ws: the current socket, 0 when None
  connects,     \* connects that succeeded; also the number of the latest tasks
  connected,    \* _connected
  running,      \* _running
  attempt,      \* reconnection_strategy._attempt
  ponged,       \* _last_pong is set
  pc,           \* where each task is suspended
  listening,    \* the socket each receive task awaits, 0 before its first recv
  todo,         \* tokens a subscribe_batch of the task has yet to send
  subscribed,   \* subscription_manager._subscribed
  wsConnected   \* the runner's _ws_connected: websocket_healthy for the Governor

clientVars == <<ws, connects, connected, running, attempt, ponged>>
vars == <<clientVars, pc, listening, todo, subscribed, wsConnected>>

Smaller(a, b) == IF a <= b THEN a ELSE b

Stopping == pc[Runner] \in {"stopping", "closing", "stopped"}

-----------------------------------------------------------------------------
(* subscription_manager.py *)

\* new_tokens[:available_slots]: a negative number of slots cuts from the end.
AdmittedCount(new, slots) ==
  IF slots >= 0 THEN Smaller(new, slots) ELSE IF new + slots > 0 THEN new + slots ELSE 0

\* can_subscribe: what a call for the wanted tokens is let to send.
CanSubscribe(wanted, already) ==
  LET new == wanted \ already
      n   == AdmittedCount(Cardinality(new), MaxSubscriptions - Cardinality(already))
  IN  {s \in SUBSET new : Cardinality(s) = n}

\* The task of a handler goes back to its loop; a receive task breaks out.
AfterHandler(t, isRunning) ==
  IF t[1] = "ping" /\ isRunning THEN "sleep" ELSE "done"

AfterSubscribe(t) == IF t = Runner THEN "scanning" ELSE AfterHandler(t, running)

\* subscribe_batch: one batch is sent, and noted once the send is over; a send
\* that raises loses its batch.
SendBatch(t) ==
  /\ pc[t] = "subscribing"
  /\ \E batch \in SUBSET todo[t] :
       /\ Cardinality(batch) = Smaller(BatchSize, Cardinality(todo[t]))
       /\ todo' = [todo EXCEPT ![t] = @ \ batch]
       /\ \/ ws # 0 /\ subscribed' = subscribed \cup batch
          \/ UNCHANGED subscribed
       /\ pc' = [pc EXCEPT ![t] = IF todo'[t] = {} THEN AfterSubscribe(t) ELSE @]
  /\ UNCHANGED <<clientVars, listening, wsConnected>>

-----------------------------------------------------------------------------
(* _handle_disconnect *)

RetryLoopSilent(t) ==    \* deviation: an exhausted handler just returns
  IF running /\ attempt < MaxAttempts
    THEN /\ attempt' = attempt + 1
         /\ running' = running
         /\ pc' = [pc EXCEPT ![t] = "reconnecting"]
    ELSE /\ pc' = [pc EXCEPT ![t] = AfterHandler(t, running)]
         /\ UNCHANGED <<attempt, running>>

\* The head of the retry loop: wait for the next delay, or give up.
RetryLoop(t) ==
  IF running /\ attempt < MaxAttempts
    THEN /\ attempt' = attempt + 1
         /\ running' = running
         /\ pc' = [pc EXCEPT ![t] = "reconnecting"]
    ELSE /\ running' = FALSE
         /\ attempt' = attempt
         /\ pc' = [pc EXCEPT ![t] = AfterHandler(t, FALSE)]

OnDisconnectLate == UNCHANGED wsConnected    \* deviation: the runner is not told

OnDisconnect == wsConnected' = FALSE

HandleDisconnect(t) ==
  /\ connected' = FALSE
  /\ OnDisconnect
  /\ RetryLoop(t)
  /\ UNCHANGED <<ws, connects, todo, subscribed>>

-----------------------------------------------------------------------------
(* connect *)

StartTasksOnce(n) ==    \* deviation: loops are started by the first connect only
  IF n = 1 THEN [pc EXCEPT ![Receive(n)] = "receiving", ![Ping(n)] = "sleep"] ELSE pc

\* create_task for a new receive loop and a new ping loop; the old are kept.
StartTasks(n) == [pc EXCEPT ![Receive(n)] = "receiving", ![Ping(n)] = "sleep"]

\* connect returns True; on_connect has told the runner.
Connected ==
  /\ connects < MaxConnects
  /\ connects' = connects + 1
  /\ ws' = connects'
  /\ connected' = TRUE /\ running' = TRUE
  /\ attempt' = 0
  /\ wsConnected' = TRUE
  /\ UNCHANGED <<ponged, listening>>

\* _run_loop's connect: a failure leaves the run on REST.
FirstConnect ==
  /\ pc[Runner] = "connecting"
  /\ \/ /\ Connected
        /\ pc' = [StartTasks(connects') EXCEPT ![Runner] = "scanning"]
        /\ UNCHANGED <<todo, subscribed>>
     \/ /\ pc' = [pc EXCEPT ![Runner] = "scanning"]
        /\ UNCHANGED <<clientVars, listening, todo, subscribed, wsConnected>>

\* The handler's connect, after its delay; _running is not looked at again.
\* On success resubscribe_all clears the subscriptions and sends them anew.
Reconnect(t) ==
  /\ pc[t] = "reconnecting"
  /\ \/ /\ Connected
        /\ subscribed' = {}
        /\ \E admitted \in CanSubscribe(subscribed, {}) :
             /\ todo' = [todo EXCEPT ![t] = admitted]
             /\ pc' = [StartTasks(connects') EXCEPT
                         ![t] = IF admitted = {} THEN AfterHandler(t, TRUE)
                                ELSE "subscribing"]
     \/ /\ RetryLoop(t)
        /\ UNCHANGED <<ws, connects, connected, ponged, listening, todo, subscribed,
                       wsConnected>>

-----------------------------------------------------------------------------
(* _receive_loop *)

\* What the recv brought may have been a pong.
NotePong(n) == ponged' \in {ponged, ponged \/ listening[n] # 0}

\* Some other task is in a recv on the current socket.
ReceivedElsewhere(n) ==
  \E k \in Conns \ {n} : pc[Receive(k)] = "receiving" /\ listening[k] = ws

\* A recv is over (a message, a pong, a timeout) or the task is at its start:
\* the loop turns.  A second recv on a socket another task is receiving from
\* raises in the library.
NextReceive(n) ==
  /\ pc[Receive(n)] = "receiving"
  /\ NotePong(n)
  /\ \/ /\ running /\ ws # 0
        /\ ~ReceivedElsewhere(n)
        /\ listening' = [listening EXCEPT ![n] = ws]
        /\ UNCHANGED <<ws, connects, connected, running, attempt, pc, todo, subscribed,
                       wsConnected>>
     \/ /\ running /\ ws # 0
        /\ ReceivedElsewhere(n)
        /\ listening' = [listening EXCEPT ![n] = 0]
        /\ HandleDisconnect(Receive(n))
     \/ /\ ~running \/ ws = 0
        /\ pc' = [pc EXCEPT ![Receive(n)] = "done"]
        /\ UNCHANGED <<ws, connects, connected, running, attempt, listening, todo,
                       subscribed, wsConnected>>

\* The socket the task awaits has failed.
ReceiveRaises(n) ==
  /\ pc[Receive(n)] = "receiving"
  /\ listening[n] # 0
  /\ listening' = [listening EXCEPT ![n] = 0]
  /\ HandleDisconnect(Receive(n))
  /\ UNCHANGED ponged

-----------------------------------------------------------------------------
(* _ping_loop.  A ping that changes nothing, or whose send raises, is a      *)
(* stuttering step.                                                         *)

PongOverdue(n) ==
  /\ pc[Ping(n)] = "sleep"
  /\ ws # 0 /\ connected
  /\ ponged
  /\ HandleDisconnect(Ping(n))
  /\ UNCHANGED <<ponged, listening>>

PingStops(n) ==
  /\ pc[Ping(n)] = "sleep"
  /\ ~running
  /\ pc' = [pc EXCEPT ![Ping(n)] = "done"]
  /\ UNCHANGED <<clientVars, listening, todo, subscribed, wsConnected>>

-----------------------------------------------------------------------------
(* The runner *)

\* _subscribe_markets, for the tokens of the markets of one scan: at most
\* max_markets, and the limit is twice that.
SubscribeMarkets ==
  /\ pc[Runner] = "scanning"
  /\ wsConnected
  /\ connected /\ ws # 0
  /\ \E wanted \in SUBSET Tokens, admitted \in SUBSET Tokens :
       /\ Cardinality(wanted) <= MaxSubscriptions
       /\ admitted \in CanSubscribe(wanted, subscribed)
       /\ admitted # {}
       /\ todo' = [todo EXCEPT ![Runner] = admitted]
  /\ pc' = [pc EXCEPT ![Runner] = "subscribing"]
  /\ UNCHANGED <<clientVars, listening, subscribed, wsConnected>>

\* _cleanup calls disconnect: the latest receive task is cancelled ...
Disconnect ==
  /\ pc[Runner] = "scanning"
  /\ running' = FALSE /\ connected' = FALSE
  /\ pc' = [t \in Tasks |-> IF t = Runner THEN "stopping"
                            ELSE IF t = Receive(connects) THEN "done" ELSE pc[t]]
  /\ UNCHANGED <<ws, connects, attempt, ponged, listening, todo, subscribed, wsConnected>>

\* ... then the latest ping task ...
CancelPing ==
  /\ pc[Runner] = "stopping"
  /\ pc' = [t \in Tasks |-> IF t = Runner THEN "closing"
                            ELSE IF t = Ping(connects) THEN "done" ELSE pc[t]]
  /\ UNCHANGED <<clientVars, listening, todo, subscribed, wsConnected>>

\* ... and the socket is closed, whichever it is by now.
CloseSocket ==
  /\ pc[Runner] = "closing"
  /\ ws' = 0
  /\ OnDisconnect
  /\ pc' = [pc EXCEPT ![Runner] = "stopped"]
  /\ UNCHANGED <<connects, connected, running, attempt, ponged, listening, todo, subscribed>>

Stopped == pc[Runner] = "stopped" /\ UNCHANGED vars

-----------------------------------------------------------------------------
Init ==
  /\ ws = 0 /\ connects = 0
  /\ connected = FALSE /\ running = FALSE
  /\ attempt = 0
  /\ ponged = FALSE
  /\ pc = [t \in Tasks |-> IF t = Runner THEN "connecting" ELSE "unborn"]
  /\ listening = [n \in Conns |-> 0]
  /\ todo = [t \in Tasks |-> {}]
  /\ subscribed = {}
  /\ wsConnected = FALSE

RunnerNext == FirstConnect \/ SubscribeMarkets \/ Disconnect \/ CancelPing \/ CloseSocket

Next ==
  \/ RunnerNext \/ Stopped
  \/ \E t \in Tasks : SendBatch(t)
  \/ \E t \in Loops : Reconnect(t)
  \/ \E n \in Conns : NextReceive(n) \/ ReceiveRaises(n) \/ PongOverdue(n) \/ PingStops(n)

\* Delays and connects end (sleep, wait_for with a timeout), and so does a
\* send, one way or the other.
Fairness ==
  /\ \A t \in Loops : WF_vars(Reconnect(t))
  /\ \A t \in Tasks : WF_vars(SendBatch(t))

Spec == Init /\ [][Next]_vars /\ Fairness

-----------------------------------------------------------------------------
RunnerStates == {"connecting", "scanning", "subscribing", "stopping", "closing", "stopped"}
LoopStates == {"unborn", "receiving", "sleep", "reconnecting", "subscribing", "done"}

TypeOK ==
  /\ ws \in 0 .. MaxConnects /\ connects \in 0 .. MaxConnects
  /\ connected \in BOOLEAN /\ running \in BOOLEAN
  /\ ponged \in BOOLEAN /\ wsConnected \in BOOLEAN
  /\ attempt \in 0 .. MaxAttempts
  /\ pc \in [Tasks -> RunnerStates \cup LoopStates]
  /\ pc[Runner] \in RunnerStates
  /\ \A t \in Loops : pc[t] \in LoopStates
  /\ listening \in [Conns -> 0 .. MaxConnects]
  /\ todo \in [Tasks -> SUBSET Tokens]
  /\ subscribed \subseteq Tokens

(* What the runner tells the Governor about the feed is never better than  *)
(* what the client knows: websocket_healthy outlives a loss of the         *)
(* connection at most while the runner itself is shutting the client down  *)
(* (on_connect, on_disconnect).                                            *)
HealthNotOverstated == wsConnected => connected \/ Stopping

(* A client that is up is being listened to: however many handlers race,   *)
(* while it is connected and running the receive loop of the latest        *)
(* connect is alive (connect, _receive_loop).                              *)
UpMeansListening ==
  connected /\ running /\ ~Stopping => pc[Receive(connects)] = "receiving"

(* A lost connection does not stay lost in silence: the client reconnects, *)
(* gives up for good (running is false, the runner stays on REST), or the  *)
(* run is over (_handle_disconnect).                                       *)
ReconnectsOrGivesUp == ~connected /\ running ~> connected \/ ~running \/ Stopping

(* websocket_client.py _handle_disconnect, when it stops the client:       *)
(* "WebSocket reconnection failed, giving up".                             *)
GivenUpMeansDown == ~running /\ connected => Stopping
=============================================================================
