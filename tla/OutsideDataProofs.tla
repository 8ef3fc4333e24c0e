-------------------------- MODULE OutsideDataProofs --------------------------
(***************************************************************************)
(* The two components that read what others publish, and how far they      *)
(* believe it: the WebSocket client (FeedClient) and the discovery of      *)
(* crypto edges with its candle history (CryptoDiscovery, CryptoMarkets,   *)
(* Klines).  They share no state.                                          *)
(*                                                                         *)
(* The feed, for any number of tokens, attempts and connects: the runner's *)
(* copy of its health is not up while its state is disconnected or         *)
(* reconnecting, but for the shutdown, and a client that is up is listened *)
(* to.  (The copy may be up of a client that was stopped while it was      *)
(* connected.)  Both rest on which tasks exist: a connect overwrites no    *)
(* task that is under way, because the tasks of connects to come are       *)
(* unborn; and on a connected client having a socket until it is shut      *)
(* down, because a receive loop without a socket ends.                     *)
(*                                                                         *)
(* Discovery, for any markets, answers and lengths of minutes and pages:   *)
(* no entry is recommended into a touch market whose barrier a candle had  *)
(* reached.  It rests on what every request, result, merge and audit of    *)
(* candles claims: all minutes but the last of a range are as the exchange *)
(* has them for good, and the tail reads the last of the preload again.    *)
(* And discovery implements CandidateFeed: the rows of a batch share their *)
(* history's source, and the validator's reconstruction of a touch         *)
(* market's row, gone through reason by reason, finds nothing exactly when *)
(* that source is Binance.                                                 *)
(***************************************************************************)
EXTENDS FeedClient, CryptoDiscovery, FiniteSetTheorems, WellFoundedInduction, SequenceTheorems, TLAPS

-----------------------------------------------------------------------------
(* FeedClient *)

LaterTasksUnborn ==
  \A n \in Conns : n > connects => pc[Receive(n)] = "unborn" /\ pc[Ping(n)] = "unborn"

ConnectedHasSocket == connected => connects # 0 /\ (ws # 0 \/ Stopping)

FeedInv ==
  /\ TypeOK
  /\ LaterTasksUnborn
  /\ ConnectedHasSocket
  /\ HealthNotOverstated
  /\ UpMeansListening

-----------------------------------------------------------------------------
LEMMA TasksDiffer ==
  /\ \A n \in Conns : /\ Receive(n) \in Loops /\ Ping(n) \in Loops
                      /\ Receive(n) \in Tasks /\ Ping(n) \in Tasks
                      /\ Receive(n) # Runner /\ Ping(n) # Runner
  /\ \A n, k : /\ Receive(n) # Ping(k)
               /\ Receive(n) = Receive(k) => n = k
               /\ Ping(n) = Ping(k) => n = k
  /\ Runner \in Tasks /\ Runner \notin Loops /\ Loops \subseteq Tasks
PROOF
  BY DEF Receive, Ping, Runner, Loops, Tasks

\* Where a handler leaves its task.
LEMMA AfterHandlerState ==
  ASSUME NEW t, NEW b
  PROVE  AfterHandler(t, b) \in {"sleep", "done"}
PROOF
  BY DEF AfterHandler

LEMMA InitInv == Init => FeedInv
PROOF
  <1> SUFFICES ASSUME Init PROVE FeedInv
    OBVIOUS
  <1>1. /\ pc \in [Tasks -> RunnerStates \cup LoopStates]
        /\ pc[Runner] \in RunnerStates
        /\ \A t \in Loops : pc[t] \in LoopStates
    BY TasksDiffer DEF Init, RunnerStates, LoopStates
  <1>2. TypeOK
    <2>1. MaxConnects \in Nat /\ MaxAttempts \in Nat
      BY FeedAssumption
    <2>2. ws \in 0 .. MaxConnects /\ connects \in 0 .. MaxConnects /\ attempt \in 0 .. MaxAttempts
      BY <2>1 DEF Init
    <2>3. /\ connected \in BOOLEAN /\ running \in BOOLEAN
          /\ ponged \in BOOLEAN /\ wsConnected \in BOOLEAN
      BY DEF Init
    <2>4. listening \in [Conns -> 0 .. MaxConnects] /\ todo \in [Tasks -> SUBSET Tokens]
      BY <2>1 DEF Init
    <2> QED BY <1>1, <2>2, <2>3, <2>4 DEF Init, TypeOK
  <1>3. LaterTasksUnborn
    BY TasksDiffer DEF Init, LaterTasksUnborn
  <1> QED
    BY <1>2, <1>3
    DEF Init, FeedInv, ConnectedHasSocket, HealthNotOverstated, UpMeansListening

-----------------------------------------------------------------------------
(* The pieces steps are made of. *)

\* The head of the retry loop: the task stays a loop's task.
LEMMA RetryLoopStep ==
  ASSUME FeedInv, NEW t \in Loops, RetryLoop(t)
  PROVE  /\ attempt' \in 0 .. MaxAttempts /\ running' \in BOOLEAN
         /\ running' => running
         /\ \E s \in {"reconnecting", "sleep", "done"} : pc' = [pc EXCEPT ![t] = s]
PROOF
  <1>1. attempt \in 0 .. MaxAttempts /\ running \in BOOLEAN /\ MaxAttempts \in Nat
    BY FeedAssumption DEF FeedInv, TypeOK
  <1>2. CASE running /\ attempt < MaxAttempts
    BY <1>1, <1>2 DEF RetryLoop
  <1>3. CASE ~(running /\ attempt < MaxAttempts)
    BY <1>1, <1>3, AfterHandlerState DEF RetryLoop
  <1> QED BY <1>2, <1>3

\* Moving one loop's task leaves the runner where it is and bears no task.
LEMMA LoopMoves ==
  ASSUME FeedInv, NEW t \in Loops, NEW s \in LoopStates, pc' = [pc EXCEPT ![t] = s],
         pc[t] # "unborn", s # "unborn",
         connects' = connects
  PROVE  /\ pc' \in [Tasks -> RunnerStates \cup LoopStates]
         /\ pc'[Runner] = pc[Runner]
         /\ pc'[Runner] \in RunnerStates
         /\ \A u \in Loops : pc'[u] \in LoopStates
         /\ LaterTasksUnborn'
         /\ Stopping' = Stopping
PROOF
  <1>1. pc \in [Tasks -> RunnerStates \cup LoopStates] /\ pc[Runner] \in RunnerStates
        /\ \A u \in Loops : pc[u] \in LoopStates
    BY DEF FeedInv, TypeOK
  <1>2. pc'[Runner] = pc[Runner]
    BY <1>1, TasksDiffer
  <1>3. \A u \in Loops : pc'[u] \in LoopStates
    BY <1>1, TasksDiffer
  <1>4. LaterTasksUnborn'
    BY <1>1, TasksDiffer DEF FeedInv, LaterTasksUnborn
  <1> QED BY <1>1, <1>2, <1>3, <1>4, TasksDiffer DEF Stopping

\* HandleDisconnect, whatever the task does with its own socket.
LEMMA HandleDisconnectInv ==
  ASSUME FeedInv, NEW t \in Loops, pc[t] # "unborn", HandleDisconnect(t),
         listening' \in [Conns -> 0 .. MaxConnects], ponged' \in BOOLEAN
  PROVE  FeedInv'
PROOF
  <1>1. /\ attempt' \in 0 .. MaxAttempts /\ running' \in BOOLEAN
        /\ \E s \in {"reconnecting", "sleep", "done"} : pc' = [pc EXCEPT ![t] = s]
    BY RetryLoopStep DEF HandleDisconnect
  <1>2. PICK s \in LoopStates \ {"unborn"} : pc' = [pc EXCEPT ![t] = s]
    BY <1>1 DEF LoopStates
  <1>3. /\ pc' \in [Tasks -> RunnerStates \cup LoopStates]
        /\ pc'[Runner] \in RunnerStates
        /\ \A u \in Loops : pc'[u] \in LoopStates
        /\ LaterTasksUnborn'
    BY <1>2, LoopMoves DEF HandleDisconnect
  <1>4. connected' = FALSE /\ wsConnected' = FALSE
    BY DEF HandleDisconnect, OnDisconnect
  <1>5. TypeOK'
    BY <1>1, <1>3, <1>4 DEF FeedInv, TypeOK, HandleDisconnect
  <1> QED
    BY <1>3, <1>4, <1>5
    DEF FeedInv, ConnectedHasSocket, HealthNotOverstated, UpMeansListening

\* A successful connect by task t, which goes on to state s.
LEMMA ConnectedInv ==
  ASSUME FeedInv, NEW t \in Tasks, NEW s, Connected,
         pc[t] # "unborn", t = Runner => s \in RunnerStates, t # Runner => s \in LoopStates,
         pc' = [StartTasks(connects') EXCEPT ![t] = s],
         t = Runner => ~Stopping /\ s = "scanning",
         todo' \in [Tasks -> SUBSET Tokens], subscribed' \subseteq Tokens
  PROVE  FeedInv'
PROOF
  <1>1. /\ connects \in 0 .. MaxConnects /\ MaxConnects \in Nat /\ MaxAttempts \in Nat
        /\ pc \in [Tasks -> RunnerStates \cup LoopStates] /\ pc[Runner] \in RunnerStates
        /\ \A u \in Loops : pc[u] \in LoopStates
    BY FeedAssumption DEF FeedInv, TypeOK
  <1> DEFINE n == connects + 1
  <1>2. /\ n \in Conns /\ connects' = n /\ ws' = n /\ n \in 0 .. MaxConnects /\ ws' # 0
        /\ connected' = TRUE /\ running' = TRUE /\ wsConnected' = TRUE /\ attempt' = 0
    BY <1>1 DEF Connected, Conns
  <1>3. pc[Receive(n)] = "unborn" /\ pc[Ping(n)] = "unborn"
    BY <1>1, <1>2 DEF FeedInv, LaterTasksUnborn, Conns
  <1>4. t # Receive(n) /\ t # Ping(n)
    BY <1>3
  <1>5. pc' = [[pc EXCEPT ![Receive(n)] = "receiving", ![Ping(n)] = "sleep"] EXCEPT ![t] = s]
    BY <1>2 DEF StartTasks
  <1> HIDE DEF n
  <1>6. /\ pc'[Receive(n)] = "receiving"
        /\ \A u \in Tasks \ {Receive(n), Ping(n), t} : pc'[u] = pc[u]
        /\ pc'[t] = s /\ pc'[Ping(n)] = "sleep"
        /\ pc' \in [Tasks -> RunnerStates \cup LoopStates]
    <2> DEFINE started == [pc EXCEPT ![Receive(n)] = "receiving", ![Ping(n)] = "sleep"]
    <2>1. Receive(n) \in Tasks /\ Ping(n) \in Tasks /\ Receive(n) # Ping(n)
      BY <1>2, TasksDiffer
    <2>2. /\ started \in [Tasks -> RunnerStates \cup LoopStates]
          /\ started[Receive(n)] = "receiving" /\ started[Ping(n)] = "sleep"
          /\ \A u \in Tasks \ {Receive(n), Ping(n)} : started[u] = pc[u]
      BY <1>1, <2>1 DEF LoopStates
    <2>3. pc' = [started EXCEPT ![t] = s]
      BY <1>5
    <2> HIDE DEF started
    <2>4. s \in RunnerStates \cup LoopStates
      OBVIOUS
    <2> QED BY <1>4, <2>1, <2>2, <2>3, <2>4
  <1>7. pc'[Runner] \in RunnerStates /\ \A u \in Loops : pc'[u] \in LoopStates
    BY <1>1, <1>2, <1>6, TasksDiffer DEF LoopStates
  <1>8. LaterTasksUnborn'
    <2> SUFFICES ASSUME NEW k \in Conns, k > connects'
                 PROVE  pc'[Receive(k)] = "unborn" /\ pc'[Ping(k)] = "unborn"
      BY DEF LaterTasksUnborn
    <2>1. k > connects /\ k # n
      BY <1>1, <1>2 DEF Conns, n
    <2>2. pc[Receive(k)] = "unborn" /\ pc[Ping(k)] = "unborn"
      BY <2>1 DEF FeedInv, LaterTasksUnborn
    <2> QED BY <1>2, <1>6, <2>1, <2>2, TasksDiffer
  <1>9. TypeOK'
    <2>1. listening' \in [Conns -> 0 .. MaxConnects] /\ ponged' \in BOOLEAN
      BY DEF FeedInv, TypeOK, Connected
    <2>2. 0 \in 0 .. MaxAttempts
      BY <1>1
    <2> QED BY <1>2, <1>6, <1>7, <2>1, <2>2 DEF TypeOK
  <1> QED
    BY <1>2, <1>6, <1>8, <1>9
    DEF FeedInv, ConnectedHasSocket, HealthNotOverstated, UpMeansListening

-----------------------------------------------------------------------------
(* One lemma per kind of step. *)

LEMMA SendBatchInv ==
  ASSUME FeedInv, NEW t \in Tasks, SendBatch(t)
  PROVE  FeedInv'
PROOF
  <1>1. /\ pc \in [Tasks -> RunnerStates \cup LoopStates] /\ pc[Runner] \in RunnerStates
        /\ \A u \in Loops : pc[u] \in LoopStates
        /\ todo \in [Tasks -> SUBSET Tokens] /\ subscribed \subseteq Tokens
    BY DEF FeedInv, TypeOK
  <1>2. /\ pc[t] = "subscribing"
        /\ UNCHANGED <<ws, connects, connected, running, attempt, ponged, listening, wsConnected>>
    BY DEF SendBatch, clientVars
  <1>3. todo' \in [Tasks -> SUBSET Tokens] /\ subscribed' \subseteq Tokens
    BY <1>1 DEF SendBatch
  <1>4. PICK s : pc' = [pc EXCEPT ![t] = s] /\ s \in {"subscribing", AfterSubscribe(t)}
    BY <1>1, <1>2 DEF SendBatch
  <1>5. /\ pc' \in [Tasks -> RunnerStates \cup LoopStates] /\ pc'[Runner] \in RunnerStates
        /\ \A u \in Loops : pc'[u] \in LoopStates
        /\ LaterTasksUnborn'
        /\ Stopping' = Stopping
    <2>1. CASE t = Runner
      <3>1. s \in {"subscribing", "scanning"}
        BY <1>4, <2>1 DEF AfterSubscribe
      <3>2. pc'[Runner] = s /\ \A u \in Loops : pc'[u] = pc[u]
        BY <1>1, <1>4, <2>1, TasksDiffer
      <3>3. LaterTasksUnborn'
        BY <1>2, <3>2, TasksDiffer DEF FeedInv, LaterTasksUnborn
      <3> QED BY <1>1, <1>2, <1>4, <2>1, <3>1, <3>2, <3>3 DEF Stopping, RunnerStates
    <2>2. CASE t # Runner
      <3>1. t \in Loops
        BY <2>2 DEF Tasks
      <3>2. s \in LoopStates /\ s # "unborn"
        BY <1>4, <2>2, AfterHandlerState DEF AfterSubscribe, LoopStates
      <3> QED BY <1>2, <1>4, <3>1, <3>2, LoopMoves
    <2> QED BY <2>1, <2>2
  <1>6. TypeOK'
    BY <1>2, <1>3, <1>5 DEF FeedInv, TypeOK
  <1>7. UpMeansListening'
    <2> SUFFICES ASSUME connected, running, ~Stopping
                 PROVE  pc'[Receive(connects)] = "receiving"
      BY <1>2, <1>5 DEF UpMeansListening
    <2>1. pc[Receive(connects)] = "receiving"
      BY DEF FeedInv, UpMeansListening
    <2> QED BY <1>1, <1>2, <1>4, <2>1
  <1> QED
    BY <1>2, <1>5, <1>6, <1>7 DEF FeedInv, ConnectedHasSocket, HealthNotOverstated

LEMMA ReconnectInv ==
  ASSUME FeedInv, NEW t \in Loops, Reconnect(t)
  PROVE  FeedInv'
PROOF
  <1>1. pc[t] = "reconnecting" /\ t \in Tasks /\ t # Runner
    BY TasksDiffer DEF Reconnect
  <1>2. /\ pc \in [Tasks -> RunnerStates \cup LoopStates]
        /\ todo \in [Tasks -> SUBSET Tokens] /\ subscribed \subseteq Tokens
    BY DEF FeedInv, TypeOK
  <1>3. ASSUME Connected, subscribed' = {}, NEW admitted \in CanSubscribe(subscribed, {}),
               todo' = [todo EXCEPT ![t] = admitted],
               pc' = [StartTasks(connects') EXCEPT
                         ![t] = IF admitted = {} THEN AfterHandler(t, TRUE) ELSE "subscribing"]
        PROVE  FeedInv'
    <2>1. admitted \subseteq Tokens
      BY <1>2, <1>3 DEF CanSubscribe
    <2>2. todo' \in [Tasks -> SUBSET Tokens] /\ subscribed' \subseteq Tokens
      BY <1>2, <1>3, <2>1
    <2>3. (IF admitted = {} THEN AfterHandler(t, TRUE) ELSE "subscribing") \in LoopStates
      BY AfterHandlerState DEF LoopStates
    <2> QED BY <1>1, <1>3, <2>2, <2>3, ConnectedInv
  <1>4. ASSUME RetryLoop(t),
               UNCHANGED <<ws, connects, connected, ponged, listening, todo, subscribed,
                           wsConnected>>
        PROVE  FeedInv'
    <2>1. /\ attempt' \in 0 .. MaxAttempts /\ running' \in BOOLEAN
          /\ running' => running
          /\ \E s \in {"reconnecting", "sleep", "done"} : pc' = [pc EXCEPT ![t] = s]
      BY <1>4, RetryLoopStep
    <2>2. PICK s \in LoopStates \ {"unborn"} : pc' = [pc EXCEPT ![t] = s]
      BY <2>1 DEF LoopStates
    <2>3. /\ pc' \in [Tasks -> RunnerStates \cup LoopStates] /\ pc'[Runner] \in RunnerStates
          /\ \A u \in Loops : pc'[u] \in LoopStates
          /\ LaterTasksUnborn' /\ Stopping' = Stopping
      BY <1>1, <1>4, <2>2, LoopMoves
    <2>4. TypeOK'
      BY <1>4, <2>1, <2>3 DEF FeedInv, TypeOK
    <2>5. UpMeansListening'
      <3> SUFFICES ASSUME connected, running, ~Stopping
                   PROVE  pc'[Receive(connects)] = "receiving"
        BY <1>4, <2>1, <2>3 DEF UpMeansListening
      <3>1. pc[Receive(connects)] = "receiving"
        BY DEF FeedInv, UpMeansListening
      <3> QED BY <1>1, <1>2, <2>2, <3>1
    <2> QED
      BY <1>4, <2>3, <2>4, <2>5 DEF FeedInv, ConnectedHasSocket, HealthNotOverstated
  <1> QED BY <1>3, <1>4 DEF Reconnect

LEMMA LoopNextInv ==
  ASSUME FeedInv, NEW n \in Conns,
         NextReceive(n) \/ ReceiveRaises(n) \/ PongOverdue(n) \/ PingStops(n)
  PROVE  FeedInv'
PROOF
  <1>1. /\ pc \in [Tasks -> RunnerStates \cup LoopStates]
        /\ listening \in [Conns -> 0 .. MaxConnects] /\ ponged \in BOOLEAN
        /\ ws \in 0 .. MaxConnects /\ running \in BOOLEAN
    BY DEF FeedInv, TypeOK
  <1>2. Receive(n) \in Loops /\ Ping(n) \in Loops
    BY TasksDiffer
  <1>3. 0 \in 0 .. MaxConnects
    BY FeedAssumption
  \* A loop whose client has stopped, or has no socket, ends.
  <1>4. ASSUME NEW t \in Loops, pc[t] # "unborn", pc' = [pc EXCEPT ![t] = "done"],
               t = Receive(connects) => ~running \/ ws = 0,
               UNCHANGED <<ws, connects, connected, running, attempt, listening, todo,
                           subscribed, wsConnected>>,
               ponged' \in BOOLEAN
        PROVE  FeedInv'
    <2>1. /\ pc' \in [Tasks -> RunnerStates \cup LoopStates] /\ pc'[Runner] \in RunnerStates
          /\ \A u \in Loops : pc'[u] \in LoopStates
          /\ LaterTasksUnborn' /\ Stopping' = Stopping
      BY <1>4, LoopMoves DEF LoopStates
    <2>2. TypeOK'
      BY <1>4, <2>1 DEF FeedInv, TypeOK
    <2>3. UpMeansListening'
      <3> SUFFICES ASSUME connected, running, ~Stopping
                   PROVE  pc'[Receive(connects)] = "receiving"
        BY <1>4, <2>1 DEF UpMeansListening
      <3>1. pc[Receive(connects)] = "receiving" /\ ws # 0 /\ connects # 0
        BY DEF FeedInv, UpMeansListening, ConnectedHasSocket
      <3>2. connects \in Conns
        BY <3>1, FeedAssumption DEF FeedInv, TypeOK, Conns
      <3> QED BY <1>1, <1>4, <3>1, <3>2, TasksDiffer
    <2> QED
      BY <1>4, <2>1, <2>2, <2>3 DEF FeedInv, ConnectedHasSocket, HealthNotOverstated
  <1>5. CASE NextReceive(n)
    <2>1. pc[Receive(n)] = "receiving" /\ ponged' \in BOOLEAN
      BY <1>1, <1>5 DEF NextReceive, NotePong
    <2>2. CASE /\ listening' = [listening EXCEPT ![n] = ws]
               /\ UNCHANGED <<ws, connects, connected, running, attempt, pc, todo, subscribed,
                              wsConnected>>
      <3>1. listening' \in [Conns -> 0 .. MaxConnects]
        BY <1>1, <2>2
      <3>2. TypeOK'
        BY <2>1, <2>2, <3>1 DEF FeedInv, TypeOK
      <3> QED
        BY <2>2, <3>2 DEF FeedInv, LaterTasksUnborn, ConnectedHasSocket,
           HealthNotOverstated, UpMeansListening, Stopping
    <2>3. CASE /\ listening' = [listening EXCEPT ![n] = 0]
               /\ HandleDisconnect(Receive(n))
      <3>1. listening' \in [Conns -> 0 .. MaxConnects]
        BY <1>1, <1>3, <2>3
      <3> QED BY <1>2, <2>1, <2>3, <3>1, HandleDisconnectInv
    <2>4. CASE /\ ~running \/ ws = 0
               /\ pc' = [pc EXCEPT ![Receive(n)] = "done"]
               /\ UNCHANGED <<ws, connects, connected, running, attempt, listening, todo,
                              subscribed, wsConnected>>
      BY <1>2, <1>4, <2>1, <2>4
    <2> QED BY <1>5, <2>2, <2>3, <2>4 DEF NextReceive
  <1>6. CASE ReceiveRaises(n)
    <2>1. listening' \in [Conns -> 0 .. MaxConnects] /\ ponged' \in BOOLEAN
      BY <1>1, <1>3, <1>6 DEF ReceiveRaises
    <2> QED BY <1>2, <1>6, <2>1, HandleDisconnectInv DEF ReceiveRaises
  <1>7. CASE PongOverdue(n)
    BY <1>1, <1>2, <1>7, HandleDisconnectInv DEF PongOverdue
  <1>8. CASE PingStops(n)
    BY <1>1, <1>2, <1>4, <1>8, TasksDiffer DEF PingStops, clientVars
  <1> QED BY <1>5, <1>6, <1>7, <1>8

LEMMA RunnerNextInv ==
  ASSUME FeedInv, RunnerNext
  PROVE  FeedInv'
PROOF
  <1>1. /\ pc \in [Tasks -> RunnerStates \cup LoopStates] /\ pc[Runner] \in RunnerStates
        /\ \A u \in Loops : pc[u] \in LoopStates
        /\ todo \in [Tasks -> SUBSET Tokens] /\ subscribed \subseteq Tokens
        /\ connects \in 0 .. MaxConnects
    BY DEF FeedInv, TypeOK
  \* The runner moves on within the run; the client is left alone.
  <1>2. ASSUME NEW s \in RunnerStates, pc' = [pc EXCEPT ![Runner] = s], ~Stopping,
               s \in {"scanning", "subscribing"},
               UNCHANGED <<ws, connects, connected, running, attempt, ponged, listening,
                           subscribed, wsConnected>>,
               todo' \in [Tasks -> SUBSET Tokens]
        PROVE  FeedInv'
    <2>1. pc'[Runner] = s /\ \A u \in Loops : pc'[u] = pc[u]
      BY <1>1, <1>2, TasksDiffer
    <2>2. TypeOK'
      <3>1. pc' \in [Tasks -> RunnerStates \cup LoopStates]
        BY <1>1, <1>2
      <3> QED BY <1>1, <1>2, <2>1, <3>1 DEF FeedInv, TypeOK
    <2>3. LaterTasksUnborn'
      BY <1>2, <2>1, TasksDiffer DEF FeedInv, LaterTasksUnborn
    <2>4. ~Stopping'
      BY <1>2, <2>1 DEF Stopping
    <2>5. UpMeansListening'
      <3> SUFFICES ASSUME connected, running
                   PROVE  pc'[Receive(connects)] = "receiving"
        BY <1>2 DEF UpMeansListening
      <3>1. pc[Receive(connects)] = "receiving" /\ connects # 0
        BY <1>2 DEF FeedInv, UpMeansListening, ConnectedHasSocket
      <3>2. connects \in Conns
        BY <1>1, <3>1, FeedAssumption DEF Conns
      <3> QED BY <2>1, <3>1, <3>2, TasksDiffer
    <2> QED
      BY <1>2, <2>2, <2>3, <2>4, <2>5 DEF FeedInv, ConnectedHasSocket, HealthNotOverstated
  \* The runner is shutting the client down: tasks end, none is born.
  <1>3. ASSUME NEW s \in {"stopping", "closing", "stopped"},
               pc' \in [Tasks -> RunnerStates \cup LoopStates], pc'[Runner] = s,
               \A u \in Loops : pc'[u] \in {pc[u], "done"},
               \A k \in Conns : k > connects => /\ pc'[Receive(k)] = pc[Receive(k)]
                                                /\ pc'[Ping(k)] = pc[Ping(k)],
               ws' \in {ws, 0}, connected' \in {connected, FALSE}, running' \in {running, FALSE},
               wsConnected' \in {wsConnected, FALSE},
               UNCHANGED <<connects, attempt, ponged, listening, todo, subscribed>>
        PROVE  FeedInv'
    <2>1. TypeOK'
      <3>1. pc'[Runner] \in RunnerStates /\ \A u \in Loops : pc'[u] \in LoopStates
        BY <1>1, <1>3 DEF RunnerStates, LoopStates
      <3>2. ws' \in 0 .. MaxConnects
        BY <1>3, FeedAssumption DEF FeedInv, TypeOK
      <3>3. connected' \in BOOLEAN /\ running' \in BOOLEAN /\ wsConnected' \in BOOLEAN
        BY <1>3, Zenon DEF FeedInv, TypeOK
      <3> QED BY <1>3, <3>1, <3>2, <3>3 DEF FeedInv, TypeOK
    <2>2. Stopping'
      BY <1>3 DEF Stopping
    <2>3. LaterTasksUnborn'
      BY <1>3 DEF FeedInv, LaterTasksUnborn
    <2>4. connected' => connects' # 0
      BY <1>3 DEF FeedInv, ConnectedHasSocket
    <2> QED
      BY <2>1, <2>2, <2>3, <2>4
      DEF FeedInv, ConnectedHasSocket, HealthNotOverstated, UpMeansListening
  <1>4. CASE FirstConnect
    <2>1. pc[Runner] = "connecting" /\ Runner \in Tasks /\ ~Stopping
      BY <1>4, TasksDiffer DEF FirstConnect, Stopping
    <2>2. CASE /\ Connected
               /\ pc' = [StartTasks(connects') EXCEPT ![Runner] = "scanning"]
               /\ UNCHANGED <<todo, subscribed>>
      BY <1>1, <2>1, <2>2, ConnectedInv DEF RunnerStates
    <2>3. CASE /\ pc' = [pc EXCEPT ![Runner] = "scanning"]
               /\ UNCHANGED <<clientVars, listening, todo, subscribed, wsConnected>>
      BY <1>1, <1>2, <2>1, <2>3 DEF clientVars, RunnerStates
    <2> QED BY <1>4, <2>2, <2>3 DEF FirstConnect
  <1>5. CASE SubscribeMarkets
    <2>1. todo' \in [Tasks -> SUBSET Tokens]
      BY <1>1, <1>5 DEF SubscribeMarkets
    <2>2. ~Stopping
      BY <1>5 DEF SubscribeMarkets, Stopping
    <2> QED BY <1>2, <1>5, <2>1, <2>2 DEF SubscribeMarkets, clientVars, RunnerStates
  <1>6. CASE Disconnect
    <2>1. pc' = [t \in Tasks |-> IF t = Runner THEN "stopping"
                                 ELSE IF t = Receive(connects) THEN "done" ELSE pc[t]]
      BY <1>6 DEF Disconnect
    <2>2. /\ pc' \in [Tasks -> RunnerStates \cup LoopStates] /\ pc'[Runner] = "stopping"
          /\ \A u \in Loops : pc'[u] \in {pc[u], "done"}
      BY <1>1, <2>1, TasksDiffer DEF RunnerStates, LoopStates
    <2>3. \A k \in Conns : k > connects => /\ pc'[Receive(k)] = pc[Receive(k)]
                                           /\ pc'[Ping(k)] = pc[Ping(k)]
      BY <1>1, <2>1, TasksDiffer, FeedAssumption DEF Conns
    <2> QED BY <1>3, <1>6, <2>2, <2>3 DEF Disconnect
  <1>7. CASE CancelPing
    <2>1. pc' = [t \in Tasks |-> IF t = Runner THEN "closing"
                                 ELSE IF t = Ping(connects) THEN "done" ELSE pc[t]]
      BY <1>7 DEF CancelPing
    <2>2. /\ pc' \in [Tasks -> RunnerStates \cup LoopStates] /\ pc'[Runner] = "closing"
          /\ \A u \in Loops : pc'[u] \in {pc[u], "done"}
      BY <1>1, <2>1, TasksDiffer DEF RunnerStates, LoopStates
    <2>3. \A k \in Conns : k > connects => /\ pc'[Receive(k)] = pc[Receive(k)]
                                           /\ pc'[Ping(k)] = pc[Ping(k)]
      BY <1>1, <2>1, TasksDiffer, FeedAssumption DEF Conns
    <2> QED BY <1>3, <1>7, <2>2, <2>3 DEF CancelPing, clientVars
  <1>8. CASE CloseSocket
    <2>1. pc' = [pc EXCEPT ![Runner] = "stopped"]
      BY <1>8 DEF CloseSocket
    <2>2. /\ pc' \in [Tasks -> RunnerStates \cup LoopStates] /\ pc'[Runner] = "stopped"
          /\ \A u \in Loops : pc'[u] = pc[u]
      BY <1>1, <2>1, TasksDiffer DEF RunnerStates
    <2> QED BY <1>3, <1>8, <2>2, TasksDiffer DEF CloseSocket, OnDisconnect
  <1> QED BY <1>4, <1>5, <1>6, <1>7, <1>8 DEF RunnerNext, FirstConnect

LEMMA NextInv ==
  ASSUME FeedInv, [Next]_vars
  PROVE  FeedInv'
PROOF
  <1>1. CASE UNCHANGED vars
    BY <1>1
    DEF vars, clientVars, FeedInv, TypeOK, LaterTasksUnborn, ConnectedHasSocket,
        HealthNotOverstated, UpMeansListening, Stopping
  <1>2. CASE Stopped
    BY <1>1, <1>2 DEF Stopped
  <1> QED
    BY <1>1, <1>2, RunnerNextInv, SendBatchInv, ReconnectInv, LoopNextInv DEF Next

-----------------------------------------------------------------------------
(* The invariant and what follows from it. *)

\* The strengthening is an invariant of the feed: the base case and the step.
THEOREM FeedInvariant == Spec => []FeedInv
PROOF
  <1> QED BY InitInv, NextInv, PTL DEF Spec

\* Every variable of the client and of the runner's tasks keeps its type: no
\* retry goes past the attempts configured, no task leaves its states.
THEOREM FeedTyped == Spec => []TypeOK
PROOF
  <1>1. FeedInv => TypeOK
    BY DEF FeedInv
  <1> QED BY <1>1, FeedInvariant, PTL

\* The runner's websocket_healthy, which the Governor is shown, is not up while
\* the client's own state is disconnected or reconnecting, unless the runner is
\* shutting it down (on_connect, on_disconnect).  It says nothing of a client that was stopped while it was
\* connected: that one is still shown as healthy, see GivenUpMeansDown.
THEOREM HealthIsNotOverstated == Spec => []HealthNotOverstated
PROOF
  <1>1. FeedInv => HealthNotOverstated
    BY DEF FeedInv
  <1> QED BY <1>1, FeedInvariant, PTL

\* While the client is connected and running, whatever handlers raced to make
\* it so, the receive loop of the latest connect is alive (connect, _receive_loop).
THEOREM UpIsListenedTo == Spec => []UpMeansListening
PROOF
  <1>1. FeedInv => UpMeansListening
    BY DEF FeedInv
  <1> QED BY <1>1, FeedInvariant, PTL

-----------------------------------------------------------------------------
(* CryptoDiscovery: numbers and lists of checks *)

Below(T, m) == {k \in T : k < m}

\* Numbers, however many, have a least one: there is no smaller set of smaller
\* numbers.
LEMMA LeastNumber ==
  ASSUME NEW T, T \subseteq Nat, T # {}
  PROVE  \E m \in T : \A k \in T : m <= k
PROOF
  <1> DEFINE F == {Below(T, m) : m \in T}
  <1>1. ASSUME NEW m \in T PROVE Below(T, m) \in FiniteSubsetsOf(Nat)
    <2>1. Below(T, m) \in SUBSET Nat /\ m \in Nat
      BY DEF Below
    <2>2. \A k \in Below(T, m) : k <= m
      BY <2>1 DEF Below
    <2> QED BY <2>1, <2>2, FS_BoundedSetOfNaturals DEF FiniteSubsetsOf
  <1>2. F \subseteq FiniteSubsetsOf(Nat) /\ F # {}
    BY <1>1
  <1>3. \E B \in F : \A C \in F : <<C, B>> \notin StrictSubsetOrdering(Nat)
    <2> HIDE DEF F
    <2> QED BY <1>2, FS_StrictSubsetOrderingWellFounded, WFMin
  <1>4. PICK m \in T : \A k \in T : <<Below(T, k), Below(T, m)>> \notin StrictSubsetOrdering(Nat)
    BY <1>3
  <1>5. ASSUME NEW k \in T, k < m PROVE FALSE
    <2>1. k \in Nat /\ m \in Nat
      OBVIOUS
    <2>2. Below(T, k) \subseteq Below(T, m)
      <3>1. \A j \in T : j \in Nat /\ (j < k => j < m)
        BY <1>5, <2>1
      <3> QED BY <3>1 DEF Below
    <2>3. k \in Below(T, m) /\ k \notin Below(T, k)
      BY <1>5, <2>1 DEF Below
    <2>4. Below(T, k) \in SUBSET Nat /\ Below(T, m) \in SUBSET Nat
      BY DEF Below
    <2> QED BY <1>4, <2>2, <2>3, <2>4 DEF StrictSubsetOrdering
  <1>6. \A k \in T : m \in Nat /\ k \in Nat
    OBVIOUS
  <1> QED BY <1>5, <1>6

\* A set that has 0, and after each of its numbers the next, has them all.
LEMMA NumbersInTurn ==
  ASSUME NEW S, S \subseteq Nat, 0 \in S, \A n \in S : n + 1 \in S
  PROVE  S = Nat
PROOF
  <1> SUFFICES ASSUME Nat \ S # {} PROVE FALSE
    OBVIOUS
  <1>1. PICK m \in Nat \ S : \A k \in Nat \ S : m <= k
    BY LeastNumber
  <1>2. m # 0 /\ m \in Nat /\ m - 1 \in Nat /\ ~(m <= m - 1)
    OBVIOUS
  <1>3. m - 1 \in S
    BY <1>1, <1>2
  <1>4. (m - 1) + 1 = m
    BY <1>2
  <1> QED BY <1>3, <1>4

\* A set of numbers that is not empty has its Min.
LEMMA MinIsLeast ==
  ASSUME NEW T, T \subseteq Nat, T # {}
  PROVE  Min(T) \in T /\ \A k \in T : Min(T) <= k
PROOF
  BY LeastNumber DEF Min

\* The first check that fails names the outcome.
LEMMA FirstOfChecks ==
  ASSUME NEW checks, NEW n \in Nat, Len(checks) = n, NEW otherwise
  PROVE  \/ /\ FirstOf(checks, otherwise) = otherwise
            /\ \A i \in 1 .. n : ~ checks[i][1]
         \/ \E i \in 1 .. n : /\ checks[i][1] /\ FirstOf(checks, otherwise) = checks[i][2]
                              /\ \A j \in 1 .. n : j < i => ~ checks[j][1]
PROOF
  <1> DEFINE failing == {i \in 1 .. Len(checks) : checks[i][1]}
  <1>1. CASE failing = {}
    <2>1. FirstOf(checks, otherwise) = otherwise
      BY <1>1 DEF FirstOf, SelectInSeq
    <2> QED BY <1>1, <2>1
  <1>2. CASE failing # {}
    <2>1. failing \subseteq Nat
      OBVIOUS
    <2>2. Min(failing) \in failing /\ \A k \in failing : Min(failing) <= k
      BY <1>2, <2>1, MinIsLeast
    <2>3. FirstOf(checks, otherwise) = checks[Min(failing)][2]
      BY <1>2, <2>2 DEF FirstOf, SelectInSeq
    <2>4. \A j \in 1 .. n : j < Min(failing) => ~ checks[j][1]
      <3> HIDE DEF failing
      <3> SUFFICES ASSUME NEW j \in 1 .. n, j < Min(failing), checks[j][1] PROVE FALSE
        OBVIOUS
      <3>1. j \in failing
        BY DEF failing
      <3> QED BY <2>1, <2>2, <3>1
    <2> QED BY <2>2, <2>3, <2>4
  <1> QED BY <1>1, <1>2

NamedApart(checks, k, otherwise) == \A i \in 1 .. k : checks[i][1] => checks[i][2] # otherwise

NoneFails(checks, k) == \A i \in 1 .. k : ~ checks[i][1]

\* As far as no failing check has the name of the outcome, none fails.
LEMMA ChecksHold ==
  ASSUME NEW checks, NEW otherwise, NEW k \in Nat, Len(checks) \in Nat, k <= Len(checks),
         FirstOf(checks, otherwise) = otherwise, NamedApart(checks, k, otherwise)
  PROVE  NoneFails(checks, k)
PROOF
  <1>1. PICK n \in Nat : n = Len(checks)
    OBVIOUS
  <1>2. CASE \A i \in 1 .. n : ~ checks[i][1]
    BY <1>1, <1>2 DEF NoneFails
  <1>3. ASSUME NEW i \in 1 .. n, checks[i][1], FirstOf(checks, otherwise) = checks[i][2],
               \A j \in 1 .. n : j < i => ~ checks[j][1]
        PROVE  \A j \in 1 .. k : ~ checks[j][1]
    BY <1>1, <1>3 DEF NamedApart
  <1> QED BY <1>1, <1>2, <1>3, FirstOfChecks DEF NoneFails

\* A name no failing check gives is not the outcome.
LEMMA FirstOfNot ==
  ASSUME NEW checks, NEW otherwise, NEW name, Len(checks) \in Nat, otherwise # name,
         NamedApart(checks, Len(checks), name)
  PROVE  FirstOf(checks, otherwise) # name
PROOF
  <1>1. PICK n \in Nat : n = Len(checks)
    OBVIOUS
  <1>2. ASSUME NEW i \in 1 .. n, checks[i][1], FirstOf(checks, otherwise) = checks[i][2]
        PROVE  FirstOf(checks, otherwise) # name
    BY <1>1, <1>2 DEF NamedApart
  <1> QED BY <1>1, <1>2, FirstOfChecks

-----------------------------------------------------------------------------
(* Sequences flattened and put in order. *)

NextFlat(ss, flat, i) == IF i = 1 THEN ss[i] ELSE flat \o ss[i]

\* f is the function FlattenSeq defines.
Flattens(ss, n, f) == f = [i \in 1 .. n |-> NextFlat(ss, f[i - 1], i)]

\* An element of the flattening follows from the one before.
LEMMA FlattensStep ==
  ASSUME NEW ss, NEW n \in Nat, NEW f, Flattens(ss, n, f), NEW i \in 1 .. n
  PROVE  f[i] = NextFlat(ss, f[i - 1], i)
PROOF
  BY DEF Flattens

\* The first is the first part.
LEMMA FlattensFirst ==
  ASSUME NEW ss, NEW n \in Nat, NEW f, Flattens(ss, n, f), n # 0
  PROVE  f[1] = ss[1]
PROOF
  <1>1. 1 \in 1 .. n
    OBVIOUS
  <1> QED BY <1>1 DEF Flattens, NextFlat

\* There is such a function.
LEMMA FlattensExists ==
  ASSUME NEW ss, NEW n \in Nat
  PROVE  \E f : Flattens(ss, n, f)
PROOF
  <1> DEFINE S == {k \in Nat : \E f : Flattens(ss, k, f)}
  <1>1. 0 \in S
    <2> DEFINE f == [i \in 1 .. 0 |-> <<>>]
    <2>1. Flattens(ss, 0, f)
      BY DEF Flattens
    <2> QED BY <2>1
  <1>2. ASSUME NEW k \in Nat, k \in S PROVE k + 1 \in S
    <2>0. PICK f : Flattens(ss, k, f)
      BY <1>2
    <2> DEFINE g == [i \in 1 .. k + 1 |-> IF i = k + 1 THEN NextFlat(ss, f[k], k + 1) ELSE f[i]]
    <2>1. \A i \in 1 .. k : i \in 1 .. k + 1 /\ i # k + 1
      OBVIOUS
    <2>2. \A i \in 1 .. k : g[i] = f[i]
      BY <2>1
    <2>3. g[k + 1] = NextFlat(ss, f[k], k + 1)
      OBVIOUS
    <2>4. ASSUME NEW i \in 1 .. k + 1 PROVE g[i] = NextFlat(ss, g[i - 1], i)
      <3>1. CASE i = 1
        <4>1. k # 0 => f[1] = ss[1] /\ g[1] = f[1]
          <5> HIDE DEF S
          <5>1. k # 0 => 1 \in 1 .. k
            OBVIOUS
          <5>2. k # 0 => g[1] = f[1]
            BY <2>2, <5>1
          <5> HIDE DEF g
          <5> QED BY <2>0, <5>2, FlattensFirst
        <4>2. g[1] = ss[1]
          <5>1. CASE k = 0
            BY <2>3, <5>1 DEF NextFlat
          <5>2. CASE k # 0
            <6> HIDE DEF g
            <6> QED BY <4>1, <5>2
          <5> QED BY <5>1, <5>2
        <4> HIDE DEF g
        <4> QED BY <3>1, <4>2 DEF NextFlat
      <3>2. CASE i = k + 1 /\ i # 1
        <4>1. k \in 1 .. k /\ i - 1 = k
          BY <3>2
        <4>2. g[i - 1] = f[k]
          BY <2>2, <4>1
        <4> HIDE DEF g
        <4> QED BY <2>3, <3>2, <4>2
      <3>3. CASE i # k + 1 /\ i # 1
        <4>1. i \in 1 .. k /\ i - 1 \in 1 .. k
          BY <3>3
        <4>2. g[i] = f[i] /\ g[i - 1] = f[i - 1]
          BY <2>2, <4>1
        <4>3. f[i] = NextFlat(ss, f[i - 1], i)
          <5> HIDE DEF g, S
          <5> QED BY <2>0, <4>1, FlattensStep
        <4> HIDE DEF g
        <4> QED BY <4>2, <4>3
      <3> QED BY <3>1, <3>2, <3>3
    <2>5. Flattens(ss, k + 1, g)
      BY <2>4 DEF Flattens
    <2> QED BY <2>5
  <1>3. S = Nat
    <2>1. S \subseteq Nat
      OBVIOUS
    <2> HIDE DEF S
    <2> QED BY <1>1, <1>2, <2>1, NumbersInTurn
  <1> QED BY <1>3

\* What is flattened has the elements of its parts.
LEMMA FlattenedIn ==
  ASSUME NEW T, NEW n \in Nat, NEW ss \in [1 .. n -> Seq(T)]
  PROVE  FlattenSeq(ss) \in Seq(T)
PROOF
  <1>1. Len(ss) = n /\ ss \in Seq(Seq(T))
    OBVIOUS
  <1>2. CASE n = 0
    BY <1>1, <1>2 DEF FlattenSeq
  <1>3. CASE n # 0
    <2> DEFINE f == CHOOSE h : h = [i \in 1 .. Len(ss) |-> IF i = 1 THEN ss[i] ELSE h[i - 1] \o ss[i]]
    <2>1. FlattenSeq(ss) = f[Len(ss)]
      BY <1>1, <1>3 DEF FlattenSeq
    <2>2. \E h : h = [i \in 1 .. Len(ss) |-> IF i = 1 THEN ss[i] ELSE h[i - 1] \o ss[i]]
      BY <1>1, FlattensExists DEF Flattens, NextFlat
    <2>3. f = [i \in 1 .. Len(ss) |-> IF i = 1 THEN ss[i] ELSE f[i - 1] \o ss[i]]
      BY <2>2
    <2>4. PICK g : g = f
      OBVIOUS
    <2> HIDE DEF f
    <2>5. Flattens(ss, n, g)
      BY <1>1, <2>3, <2>4 DEF Flattens, NextFlat
    <2> DEFINE S == {k \in Nat : k + 1 <= n => g[k + 1] \in Seq(T)}
    <2>6. 0 \in S
      <3>1. g[1] = ss[1] /\ 1 \in 1 .. n
        BY <1>3, <2>5, FlattensFirst
      <3> QED BY <3>1
    <2>7. ASSUME NEW k \in Nat, k \in S PROVE k + 1 \in S
      <3> SUFFICES ASSUME (k + 1) + 1 <= n PROVE g[(k + 1) + 1] \in Seq(T)
        OBVIOUS
      <3>1. PICK i \in 1 .. n : i = (k + 1) + 1 /\ i # 1 /\ i - 1 = k + 1
        OBVIOUS
      <3>2. g[i - 1] \in Seq(T) /\ ss[i] \in Seq(T)
        BY <2>7, <3>1
      <3>3. g[i] = NextFlat(ss, g[i - 1], i)
        <4> HIDE DEF S
        <4> QED BY <2>5, FlattensStep
      <3>4. g[i] \in Seq(T)
        BY <3>1, <3>2, <3>3 DEF NextFlat
      <3> QED BY <3>1, <3>4
    <2>8. S = Nat
      <3>1. S \subseteq Nat
        OBVIOUS
      <3> HIDE DEF S
      <3> QED BY <2>6, <2>7, <3>1, NumbersInTurn
    <2>9. n - 1 \in S /\ (n - 1) + 1 = n
      <3>1. n - 1 \in Nat /\ (n - 1) + 1 = n
        BY <1>3
      <3> HIDE DEF S
      <3> QED BY <2>8, <3>1
    <2>10. g[n] \in Seq(T)
      BY <1>3, <2>9
    <2> QED BY <1>1, <2>1, <2>4, <2>10
  <1> QED BY <1>2, <1>3

\* A range has as many minutes as lie between its ends.
LEMMA SpanSize ==
  ASSUME NEW from \in Int, NEW to \in Int, from <= to
  PROVE  IsFiniteSet(Span(from, to)) /\ Cardinality(Span(from, to)) = to - from
PROOF
  <1>1. PICK last \in Int : last = to - 1
    OBVIOUS
  <1>2. IsFiniteSet(from .. last) /\ Cardinality(from .. last) = IF from > last THEN 0 ELSE last - from + 1
    BY FS_Interval
  <1> QED BY <1>1, <1>2 DEF Span

\* Candles of a range of minutes, one each: sorting them loses none.
LEMMA SortedIn ==
  ASSUME NEW T, NEW candles \in Seq(T), \A c \in T : c.open \in Int,
         NEW from \in Int, NEW to \in Int, from <= to,
         ToSet(Opens(candles)) = Span(from, to), Cardinality(ToSet(Opens(candles))) = Len(Opens(candles))
  PROVE  Sorted(candles) \in Seq(T)
PROOF
  <1>1. PICK size \in Nat : size = Len(candles) /\ DOMAIN candles = 1 .. size
    OBVIOUS
  <1>2. PICK opens : opens = Opens(candles)
    OBVIOUS
  <1>3. opens = [i \in 1 .. size |-> candles[i].open]
    BY <1>1, <1>2 DEF Opens
  <1>4. \A i \in 1 .. size : candles[i] \in T /\ opens[i] = candles[i].open /\ opens[i] \in Int
    BY <1>1, <1>3
  <1>5. Len(opens) = size
    BY <1>3
  <1>6. ToSet(opens) = Span(from, to) /\ ToSet(opens) = {opens[i] : i \in 1 .. size}
    BY <1>2, <1>3 DEF ToSet
  <1>7. opens \in Surjection(1 .. size, Span(from, to))
    BY <1>3, <1>6 DEF Surjection
  <1>8. IsFiniteSet(1 .. size) /\ Cardinality(1 .. size) = size
    <2>1. 1 \in Int /\ size \in Int
      OBVIOUS
    <2>2. IsFiniteSet(1 .. size) /\ Cardinality(1 .. size) = IF 1 > size THEN 0 ELSE size - 1 + 1
      BY <2>1, FS_Interval
    <2> QED BY <2>2
  <1>9. Cardinality(Span(from, to)) = size /\ size = to - from
    BY <1>2, <1>5, <1>6, SpanSize
  <1>10. opens \in Injection(1 .. size, Span(from, to))
    BY <1>7, <1>8, <1>9, FS_SurjSameCardinalityImpliesInj
  <1>11. \A i, j \in 1 .. size : opens[i] = opens[j] => i = j
    BY <1>10 DEF Injection, IsInjective
  <1> DEFINE Earlier(i) == {j \in 1 .. size : candles[j].open < candles[i].open
                                              \/ (candles[j].open = candles[i].open /\ j < i)}
  <1>12. ASSUME NEW n \in 1 .. size PROVE \E i \in 1 .. size : Cardinality(Earlier(i)) = n - 1
    <2>1. PICK i \in 1 .. size : opens[i] = from + n - 1
      <3>1. from + n - 1 \in Span(from, to)
        BY <1>9 DEF Span
      <3> QED BY <1>6, <3>1
    <2>2. Earlier(i) = {j \in 1 .. size : opens[j] < from + n - 1}
      BY <1>4, <1>11, <2>1
    <2>3. PICK E : E = Earlier(i)
      OBVIOUS
    <2> HIDE DEF Earlier
    <2>4. E \subseteq 1 .. size /\ \A j \in 1 .. size : j \in E <=> opens[j] < from + n - 1
      BY <2>2, <2>3
    <2>5. PICK f : f = [j \in E |-> opens[j]]
      OBVIOUS
    <2>6. f \in [E -> Span(from, from + n - 1)]
      <3>1. ASSUME NEW j \in E PROVE opens[j] \in Span(from, from + n - 1)
        <4>1. opens[j] \in Span(from, to) /\ opens[j] < from + n - 1
          BY <1>6, <2>4
        <4> QED BY <4>1 DEF Span
      <3> QED BY <2>5, <3>1
    <2>7. ASSUME NEW m \in Span(from, from + n - 1) PROVE \E j \in E : f[j] = m
      <3>1. m \in Span(from, to) /\ m < from + n - 1
        BY <1>9 DEF Span
      <3>2. PICK j \in 1 .. size : opens[j] = m
        BY <1>6, <3>1
      <3> QED BY <2>4, <2>5, <3>1, <3>2
    <2>8. f \in Bijection(E, Span(from, from + n - 1))
      <3>1. f \in Surjection(E, Span(from, from + n - 1))
        BY <2>6, <2>7 DEF Surjection
      <3>2. f \in Injection(E, Span(from, from + n - 1))
        BY <1>11, <2>4, <2>5, <2>6 DEF Injection, IsInjective
      <3> QED BY <3>1, <3>2 DEF Bijection
    <2>9. IsFiniteSet(E)
      BY <1>8, <2>4, FS_Subset
    <2>10. Cardinality(E) = Cardinality(Span(from, from + n - 1))
      BY <2>8, <2>9, FS_Bijection DEF ExistsBijection
    <2>11. Cardinality(Span(from, from + n - 1)) = n - 1
      <3>1. PICK m \in Int : m = from + n - 1 /\ from <= m /\ m - from = n - 1
        OBVIOUS
      <3> QED BY <3>1, SpanSize
    <2> QED BY <2>3, <2>10, <2>11
  <1>13. Sorted(candles) = [n \in 1 .. size |-> candles[CHOOSE i \in 1 .. size : Cardinality(Earlier(i)) = n - 1]]
    BY <1>1 DEF Sorted
  <1>14. \A n \in 1 .. size : candles[CHOOSE i \in 1 .. size : Cardinality(Earlier(i)) = n - 1] \in T
    <2> HIDE DEF Earlier
    <2> QED BY <1>4, <1>12
  <1> HIDE DEF Earlier
  <1>15. Sorted(candles) \in [1 .. size -> T]
    BY <1>13, <1>14
  <1> QED BY <1>15

-----------------------------------------------------------------------------
(* Time *)

\* A time lies in its minute.
LEMMA MinuteOf ==
  ASSUME NEW t \in Int
  PROVE  Minute(t) \in Int /\ PerMinute * Minute(t) <= t /\ t < PerMinute * Minute(t) + PerMinute
PROOF
  <1>1. PerMinute \in Int /\ PerMinute > 0
    BY KlinesAssumption
  <1> QED BY <1>1 DEF Minute

\* A later time is in the same minute or a later one.
LEMMA MinutesPass ==
  ASSUME NEW t \in Int, NEW u \in Int, t <= u
  PROVE  Minute(t) <= Minute(u)
PROOF
  <1>1. PerMinute \in Int /\ PerMinute > 0
    BY KlinesAssumption
  <1> QED BY <1>1 DEF Minute

\* Two times less than a minute apart are in minutes that differ by one at most.
LEMMA MinuteBefore ==
  ASSUME NEW t \in Int, NEW u \in Int, u - PerMinute < t
  PROVE  Minute(u) - 1 <= Minute(t)
PROOF
  <1>1. PerMinute \in Int /\ PerMinute > 0
    BY KlinesAssumption
  <1> QED BY <1>1 DEF Minute

-----------------------------------------------------------------------------
(* What a request for candles returns *)

\* Candles that are those of the exchange, up to a minute.
Candles(high, until) ==
  {c \in [open : Int, high : Nat, sound : BOOLEAN] :
      0 <= c.open /\ c.open <= until => c.high = high[c.open]}

Got(replies) == replies \in Seq(Replies) /\ replies # <<>>

\* A request ends without an error or with one of those an exchange or the network may cause, after an
\* attempt at least.
LEMMA RequestError ==
  ASSUME NEW replies, Got(replies)
  PROVE  Request(replies).error \in Failures \union {""} /\ Request(replies).attempts >= 1
PROOF
  <1>1. PICK n \in Nat : n = Len(replies) /\ n # 0 /\ \A i \in 1 .. n : replies[i] \in Replies
    BY DEF Got
  <1>2. Last(replies) \in Replies
    BY <1>1 DEF Last
  <1> DEFINE I == {i \in 1 .. Len(replies) : replies[i] \notin Transient}
  <1>3. CASE I = {}
    <2>1. replies[n] \in Transient
      BY <1>1, <1>3
    <2>2. Request(replies).error = replies[n] /\ Request(replies).attempts = n
      BY <1>1, <1>3 DEF Request, SelectInSeq, Last
    <2>3. n >= 1
      BY <1>1
    <2> QED BY <2>1, <2>2, <2>3 DEF Failures
  <1>4. CASE I # {}
    <2>1. Min(I) \in I
      <3>1. I \subseteq Nat
        OBVIOUS
      <3> HIDE DEF I
      <3> QED BY <1>4, <3>1, MinIsLeast
    <2>2. Min(I) # 0 /\ replies[Min(I)] \in Replies
      BY <1>1, <2>1
    <2>3. /\ Request(replies).error = IF replies[Min(I)] = "ok" THEN "" ELSE replies[Min(I)]
          /\ Request(replies).attempts = Min(I)
      BY <1>4, <2>2 DEF Request, SelectInSeq
    <2>4. Min(I) >= 1
      <3>1. Min(I) \in 1 .. Len(replies)
        BY <2>1
      <3> HIDE DEF I
      <3> QED BY <1>1, <3>1
    <2> QED BY <2>2, <2>3, <2>4 DEF Replies
  <1> QED BY <1>3, <1>4

\* The candles before a row that is refused are candles served.
LEMMA WellFormedIn ==
  ASSUME NEW T, NEW rows \in Seq(T)
  PROVE  WellFormed(rows) \in Seq(T)
PROOF
  <1> DEFINE I == {i \in 1 .. Len(rows) : ~ rows[i].sound}
  <1>1. CASE I = {}
    BY <1>1 DEF WellFormed, SelectInSeq
  <1>2. CASE I # {}
    <2>1. Min(I) \in I
      <3>1. I \subseteq Nat
        OBVIOUS
      <3> HIDE DEF I
      <3> QED BY <1>2, <3>1, MinIsLeast
    <2>2. PICK last \in Int : last = Min(I) - 1 /\ last < Len(rows)
      <3>1. Min(I) \in 1 .. Len(rows)
        BY <2>1
      <3> HIDE DEF I
      <3> QED BY <3>1
    <2>3. SubSeq(rows, 1, last) \in Seq(T)
      <3>1. \A i \in 1 .. last : rows[i] \in T
        BY <2>2
      <3>2. 1 \in Int
        OBVIOUS
      <3> QED BY <3>1, <3>2, SubSeqProperties
    <2>4. Min(I) # 0
      BY <2>1
    <2>5. WellFormed(rows) = SubSeq(rows, 1, last)
      BY <1>2, <2>2, <2>4 DEF WellFormed, SelectInSeq
    <2> QED BY <2>3, <2>5
  <1> QED BY <1>1, <1>2

NamesIn(checks, k, names) == \A i \in 1 .. k : checks[i][1] => checks[i][2] \in names

\* The outcome of a list of checks is one of the names they give.
LEMMA FirstOfIn ==
  ASSUME NEW checks, NEW otherwise, NEW names, Len(checks) \in Nat, otherwise \in names,
         NamesIn(checks, Len(checks), names)
  PROVE  FirstOf(checks, otherwise) \in names
PROOF
  <1>1. PICK n \in Nat : n = Len(checks)
    OBVIOUS
  <1>2. ASSUME NEW i \in 1 .. n, checks[i][1], FirstOf(checks, otherwise) = checks[i][2]
        PROVE  FirstOf(checks, otherwise) \in names
    BY <1>1, <1>2 DEF NamesIn
  <1> QED BY <1>1, <1>2, FirstOfChecks

PageErrors ==
  Failures \union {"", "invalid_page_payload", "invalid_row", "duplicate_klines", "non_monotonic_klines",
                   "out_of_range_klines", "partial_kline_page"}

Named(request) == request.error \in Failures \union {""}

\* A page is given one of the errors of fetch_chunk; without one, all its rows are candles and it has every
\* minute once at most and none of another page.
LEMMA PageErrorIn ==
  ASSUME NEW source, NEW range, NEW request, NEW listed, NEW rows, NEW candles, Named(request)
  PROVE  /\ PageError(source, range, request, listed, rows, candles) \in PageErrors
         /\ PageError(source, range, request, listed, rows, candles) = ""
              => /\ Len(candles) = Len(rows)
                 /\ Cardinality(ToSet(Opens(candles))) = Len(Opens(candles))
                 /\ ToSet(Opens(candles)) \subseteq Span(range.from, range.to)
PROOF
  <1> DEFINE opens == Opens(candles)
             minutes == Span(range.from, range.to)
             refused == Len(candles) # Len(rows)
  <1>1. PICK c : c = << <<request.error # "", request.error>>,
                   <<~ listed, "invalid_page_payload">>,
                   <<refused, "invalid_row">>,
                   <<Cardinality(ToSet(opens)) # Len(opens), "duplicate_klines">>,
                   <<source = "binance" /\ ~ Increasing(opens), "non_monotonic_klines">>,
                   <<ToSet(opens) \ minutes # {}, "out_of_range_klines">>,
                   <<source = "binance" /\ minutes \ ToSet(opens) # {}, "partial_kline_page">> >>
    OBVIOUS
  <1>2. PageError(source, range, request, listed, rows, candles) = FirstOf(c, "")
    BY <1>1 DEF PageError
  <1> HIDE DEF opens, minutes, refused
  <1>3. Len(c) = 7
    BY <1>1
  <1>4. /\ c[1][2] = request.error /\ (c[1][1] <=> request.error # "")
        /\ c[2][2] = "invalid_page_payload" /\ c[3][2] = "invalid_row" /\ (c[3][1] <=> refused)
        /\ c[4][2] = "duplicate_klines" /\ (c[4][1] <=> Cardinality(ToSet(opens)) # Len(opens))
        /\ c[5][2] = "non_monotonic_klines"
        /\ c[6][2] = "out_of_range_klines" /\ (c[6][1] <=> ToSet(opens) \ minutes # {})
        /\ c[7][2] = "partial_kline_page"
    BY <1>1
  <1>5. FirstOf(c, "") \in PageErrors
    <2>1. NamesIn(c, 7, PageErrors)
      <3>1. \A i \in 1 .. 7 : i = 1 \/ i = 2 \/ i = 3 \/ i = 4 \/ i = 5 \/ i = 6 \/ i = 7
        OBVIOUS
      <3>2. /\ c[1][2] \in PageErrors /\ c[2][2] \in PageErrors /\ c[3][2] \in PageErrors /\ c[4][2] \in PageErrors
            /\ c[5][2] \in PageErrors /\ c[6][2] \in PageErrors /\ c[7][2] \in PageErrors
        BY <1>4 DEF PageErrors, Named
      <3> QED BY <3>1, <3>2 DEF NamesIn
    <2>2. "" \in PageErrors /\ 7 \in Nat
      BY DEF PageErrors
    <2> QED BY <1>3, <2>1, <2>2, FirstOfIn
  <1>6. ASSUME FirstOf(c, "") = ""
        PROVE  ~ refused /\ Cardinality(ToSet(opens)) = Len(opens) /\ ToSet(opens) \subseteq minutes
    <2>1. NamedApart(c, 7, "")
      <3>1. \A i \in 1 .. 7 : i = 1 \/ i = 2 \/ i = 3 \/ i = 4 \/ i = 5 \/ i = 6 \/ i = 7
        OBVIOUS
      <3>2. (c[1][1] => c[1][2] # "") /\ c[2][2] # "" /\ c[3][2] # "" /\ c[4][2] # "" /\ c[5][2] # ""
            /\ c[6][2] # "" /\ c[7][2] # ""
        BY <1>4
      <3> QED BY <3>1, <3>2 DEF NamedApart
    <2>2. 7 \in Nat /\ 7 <= 7
      OBVIOUS
    <2>3. NoneFails(c, 7)
      BY <1>3, <1>6, <2>1, <2>2, ChecksHold
    <2>4. ~ c[3][1] /\ ~ c[4][1] /\ ~ c[6][1]
      <3>1. 3 \in 1 .. 7 /\ 4 \in 1 .. 7 /\ 6 \in 1 .. 7
        OBVIOUS
      <3> QED BY <2>3, <3>1 DEF NoneFails
    <2>5. ~ refused /\ Cardinality(ToSet(opens)) = Len(opens) /\ ToSet(opens) \ minutes = {}
      BY <1>4, <2>4
    <2> QED BY <2>5
  <1> QED BY <1>2, <1>5, <1>6 DEF opens, minutes, refused

\* The audit of a page with nothing wrong.
Audited(audit, range, received) ==
  /\ DOMAIN audit = {"sequence", "from", "to", "expected", "received", "attempts", "error", "status"}
  /\ audit.from = range.from /\ audit.to = range.to /\ audit.expected = range.to - range.from
  /\ audit.received = received /\ audit.attempts >= 1 /\ audit.status = "complete" /\ audit.error = ""

\* A page read well: its candles are among those served, and if nothing is
\* wrong with it they are those of its minutes, each once, and its audit says so.
PageFine(page, T, range) ==
  /\ page.candles \in Seq(T) /\ page.audit.error \in PageErrors
  /\ page.audit.error = "" /\ page.missing = {} =>
        /\ Cardinality(ToSet(Opens(page.candles))) = Len(Opens(page.candles))
        /\ ToSet(Opens(page.candles)) = Span(range.from, range.to)
        /\ Audited(page.audit, range, Len(page.candles))

\* fetch_chunk, for whatever is served.
LEMMA PageOfFine ==
  ASSUME NEW T, NEW source, NEW sequence, NEW range, NEW reply, Got(reply.replies), reply.rows \in Seq(T)
  PROVE  PageFine(PageOf(source, sequence, range, reply), T, range)
PROOF
  <1> DEFINE request == Request(reply.replies)
             rows == RowsRead(request, reply)
             candles == WellFormed(rows)
             error == PageError(source, range, request, reply.listed, rows, candles)
             missing == Span(range.from, range.to) \ ToSet(Opens(candles))
  <1>1. Named(request) /\ request.attempts >= 1
    BY RequestError DEF Named
  <1>2. rows \in Seq(T)
    <2> HIDE DEF request
    <2>1. <<>> \in Seq(T)
      OBVIOUS
    <2> QED BY <2>1 DEF RowsRead
  <1>3. candles \in Seq(T)
    <2> HIDE DEF rows
    <2> QED BY <1>2, WellFormedIn
  <1>4. error \in PageErrors /\ (error = "" => /\ Len(candles) = Len(rows)
                                               /\ Cardinality(ToSet(Opens(candles))) = Len(Opens(candles))
                                               /\ ToSet(Opens(candles)) \subseteq Span(range.from, range.to))
    <2> HIDE DEF request, rows, candles
    <2> QED BY <1>1, PageErrorIn
  <1>5. PICK page : page = PageOf(source, sequence, range, reply)
    OBVIOUS
  <1>6. page = PageRead(source, sequence, range, request, rows, candles, error)
    BY <1>5 DEF PageOf
  <1> HIDE DEF request, rows, candles, error
  <1>7. page.candles = candles /\ page.audit.error = error /\ page.missing = missing
    BY <1>6 DEF PageRead
  <1>8. missing = {} => Span(range.from, range.to) \subseteq ToSet(Opens(candles))
    OBVIOUS
  <1>9. ASSUME error = "", missing = {} PROVE Audited(page.audit, range, Len(page.candles))
    <2> DEFINE received == IF source = "binance" THEN Len(rows) ELSE Len(candles)
    <2>1. PICK audit : audit = page.audit
      OBVIOUS
    <2>2. audit = [sequence |-> sequence, from |-> range.from, to |-> range.to, expected |-> range.to - range.from,
                   received |-> received, attempts |-> request.attempts, error |-> error, status |-> "complete"]
      BY <1>6, <1>9, <2>1 DEF PageRead
    <2>3. received = Len(page.candles)
      <3> HIDE DEF missing
      <3> QED BY <1>4, <1>7, <1>9
    <2> HIDE DEF missing, received
    <2>4. /\ DOMAIN audit = {"sequence", "from", "to", "expected", "received", "attempts", "error", "status"}
          /\ audit.from = range.from /\ audit.to = range.to /\ audit.expected = range.to - range.from
          /\ audit.received = received /\ audit.attempts = request.attempts /\ audit.status = "complete"
          /\ audit.error = error
      <3> HIDE <1>9
      <3> QED BY <2>2
    <2> QED BY <1>1, <1>9, <2>1, <2>3, <2>4 DEF Audited
  <1> HIDE DEF missing
  <1> QED BY <1>3, <1>4, <1>5, <1>7, <1>8, <1>9 DEF PageFine

\* The pages of a range lie in it.
LEMMA PagesWithin ==
  ASSUME NEW from \in Int, NEW to \in Int
  PROVE  \E n \in Nat : /\ DOMAIN Pages(from, to) = 1 .. n /\ Len(Pages(from, to)) = n
                        /\ \A i \in 1 .. n : /\ Pages(from, to)[i].from \in Int /\ Pages(from, to)[i].to \in Int
                                             /\ from <= Pages(from, to)[i].from /\ Pages(from, to)[i].to <= to
PROOF
  <1>1. PageLimit \in Nat /\ PageLimit > 0
    BY KlinesAssumption
  <1>2. PICK count \in Int : count = (to - from + PageLimit - 1) \div PageLimit
    BY <1>1
  <1>3. PICK n \in Nat : 1 .. count = 1 .. n
    <2>1. CASE count >= 0
      BY <2>1
    <2>2. CASE count < 0
      <3>1. 1 .. count = 1 .. 0
        BY <2>2
      <3> QED BY <3>1
    <2> QED BY <2>1, <2>2
  <1>4. PICK pages : pages = Pages(from, to)
    OBVIOUS
  <1>5. pages = [i \in 1 .. n |-> [from |-> from + (i - 1) * PageLimit,
                                  to |-> IF from + i * PageLimit < to THEN from + i * PageLimit ELSE to]]
    BY <1>2, <1>3, <1>4 DEF Pages
  <1>6. ASSUME NEW i \in 1 .. n
        PROVE  pages[i].from \in Int /\ pages[i].to \in Int /\ from <= pages[i].from /\ pages[i].to <= to
    <2>1. PICK before \in Nat, after \in Nat : before = (i - 1) * PageLimit /\ after = i * PageLimit
      <3>1. (i - 1) * PageLimit \in Nat
        BY <1>1
      <3>2. i * PageLimit \in Nat
        BY <1>1
      <3> QED BY <3>1, <3>2
    <2>2. pages[i] = [from |-> from + before, to |-> IF from + after < to THEN from + after ELSE to]
      BY <1>5, <2>1
    <2> QED BY <2>2
  <1>7. DOMAIN pages = 1 .. n /\ Len(pages) = n
    BY <1>5
  <1> QED BY <1>4, <1>6, <1>7

\* No page of a range is empty, and together they are the range.
LEMMA PagesCut ==
  ASSUME NEW from \in Int, NEW to \in Int
  PROVE  /\ \A i \in DOMAIN Pages(from, to) : Pages(from, to)[i].from < Pages(from, to)[i].to
         /\ \A m \in Span(from, to) : \E i \in DOMAIN Pages(from, to) :
               m \in Span(Pages(from, to)[i].from, Pages(from, to)[i].to)
PROOF
  <1>1. PICK limit \in Nat : limit = PageLimit /\ limit > 0
    BY KlinesAssumption
  <1>2. PICK count \in Int : /\ count = (to - from + limit - 1) \div limit
                             /\ limit * count <= to - from + limit - 1 /\ to - from + limit - 1 < limit * count + limit
    <2>1. PICK size \in Int : size = to - from + limit - 1
      BY <1>1
    <2>2. size \div limit \in Int /\ limit * (size \div limit) <= size /\ size < limit * (size \div limit) + limit
      BY <1>1, <2>1
    <2> QED BY <2>1, <2>2
  <1>3. PICK pages : pages = Pages(from, to)
    OBVIOUS
  <1>4. pages = [i \in 1 .. count |-> [from |-> from + (i - 1) * limit,
                                      to |-> IF from + i * limit < to THEN from + i * limit ELSE to]]
    BY <1>1, <1>2, <1>3 DEF Pages
  <1>5. ASSUME NEW i \in 1 .. count
        PROVE  \E before \in Int : /\ before = (i - 1) * limit /\ i * limit = before + limit /\ before >= 0
                                   /\ before + limit <= limit * count
    <2>1. i \in Int /\ 1 <= i /\ i <= count
      BY <1>2
    <2>2. (i - 1) * limit \in Int /\ i * limit = (i - 1) * limit + limit /\ (i - 1) * limit >= 0
      BY <1>1, <2>1
    <2>3. PICK rest \in Int : rest = count - i /\ rest >= 0 /\ count = i + rest
      BY <1>2, <2>1
    <2>4. rest * limit >= 0 /\ limit * count = i * limit + rest * limit
      BY <1>1, <2>1, <2>3
    <2>5. rest * limit \in Int
      BY <1>1, <2>3
    <2> QED BY <2>2, <2>4, <2>5
  <1>6. ASSUME NEW i \in 1 .. count PROVE pages[i].from < pages[i].to
    <2>1. PICK before \in Int : /\ before = (i - 1) * limit /\ i * limit = before + limit /\ before >= 0
                               /\ before + limit <= limit * count
      BY <1>5
    <2>2. pages[i] = [from |-> from + before, to |-> IF from + before + limit < to THEN from + before + limit ELSE to]
      <3>1. from + i * limit = from + before + limit
        BY <1>1, <2>1
      <3> QED BY <1>4, <2>1, <3>1
    <2>3. PICK all \in Int : all = limit * count /\ all <= to - from + limit - 1 /\ before + limit <= all
      BY <1>1, <1>2, <2>1
    <2>4. before < to - from
      BY <1>1, <2>3
    <2> QED BY <1>1, <2>2, <2>4
  <1>7. ASSUME NEW m \in Span(from, to) PROVE \E i \in 1 .. count : m \in Span(pages[i].from, pages[i].to)
    <2>1. m \in Int /\ from <= m /\ m <= to - 1
      BY DEF Span
    <2>2. PICK d \in Nat : d = m - from
      BY <2>1
    <2>3. PICK k \in Int : k = d \div limit /\ limit * k <= d /\ d < limit * k + limit /\ 0 <= k
      BY <1>1, <2>2
    <2>4. k < count
      <3>1. SUFFICES ASSUME count <= k PROVE FALSE
        BY <2>3
      <3>2. PICK rest \in Int : rest = k - count /\ rest >= 0 /\ k = count + rest
        BY <2>3, <3>1
      <3>3. limit * k = limit * count + rest * limit /\ rest * limit >= 0 /\ rest * limit \in Int /\ limit * count \in Int
        BY <1>1, <3>2
      <3>4. PICK all \in Int : all = limit * count /\ to - from + limit - 1 < all + limit /\ all <= limit * k
        BY <1>2, <3>3
      <3>5. d <= to - from - 1 /\ limit * k <= d /\ limit * k \in Int
        BY <1>1, <2>1, <2>2, <2>3
      <3> QED BY <1>1, <3>4, <3>5
    <2>5. PICK i \in 1 .. count : i = k + 1
      BY <2>3, <2>4
    <2>6. PICK before \in Int : /\ before = (i - 1) * limit /\ i * limit = before + limit /\ before >= 0
                               /\ before + limit <= limit * count
      BY <1>5
    <2>7. before = limit * k
      BY <1>1, <2>3, <2>5, <2>6
    <2>8. pages[i] = [from |-> from + before, to |-> IF from + before + limit < to THEN from + before + limit ELSE to]
      <3>1. from + i * limit = from + before + limit
        BY <1>1, <2>6
      <3> QED BY <1>4, <2>6, <3>1
    <2>9. from + before <= m /\ m < from + before + limit
      BY <1>1, <2>1, <2>2, <2>3, <2>6, <2>7
    <2>10. from + before <= m /\ m <= pages[i].to - 1 /\ pages[i].from = from + before /\ pages[i].to \in Int
      BY <1>1, <2>1, <2>8, <2>9
    <2> QED BY <2>1, <2>10 DEF Span
  <1>8. DOMAIN pages = 1 .. count
    BY <1>4
  <1> QED BY <1>3, <1>6, <1>7, <1>8

\* What was fetched, page by page.
AllFine(fetched, n, T, from, to) ==
  /\ DOMAIN fetched = 1 .. n /\ Len(fetched) = n /\ DOMAIN Pages(from, to) = 1 .. n
  /\ \A i \in 1 .. n : PageFine(fetched[i], T, Pages(from, to)[i])

AllGot(replies, T, from, to) ==
  \A i \in DOMAIN Pages(from, to) : Got(replies[i].replies) /\ replies[i].rows \in Seq(T)

\* Every page of a request is read well.
LEMMA FetchedFine ==
  ASSUME NEW T, NEW source, NEW start, NEW from \in Int, NEW to \in Int, NEW replies, AllGot(replies, T, from, to)
  PROVE  \E n \in Nat : AllFine(Fetched(source, start, from, to, replies), n, T, from, to)
PROOF
  <1>1. PICK n \in Nat : DOMAIN Pages(from, to) = 1 .. n
    BY PagesWithin
  <1>2. PICK fetched : fetched = Fetched(source, start, from, to, replies)
    OBVIOUS
  <1>3. fetched = [i \in 1 .. n |-> PageOf(source, i + start - 1, Pages(from, to)[i], replies[i])]
    BY <1>1, <1>2 DEF Fetched
  <1>4. ASSUME NEW i \in 1 .. n PROVE PageFine(fetched[i], T, Pages(from, to)[i])
    <2>1. Got(replies[i].replies) /\ replies[i].rows \in Seq(T)
      BY <1>1 DEF AllGot
    <2>2. fetched[i] = PageOf(source, i + start - 1, Pages(from, to)[i], replies[i])
      BY <1>3
    <2> QED BY <2>1, <2>2, PageOfFine
  <1>5. DOMAIN fetched = 1 .. n /\ Len(fetched) = n
    BY <1>3
  <1>6. AllFine(fetched, n, T, from, to)
    BY <1>1, <1>4, <1>5 DEF AllFine
  <1> QED BY <1>2, <1>6

\* A request without a first error has no page with an error.
LEMMA FirstErrorIn ==
  ASSUME NEW fetched, NEW n \in Nat, NEW T, NEW from, NEW to, AllFine(fetched, n, T, from, to)
  PROVE  /\ FirstError(fetched) \in PageErrors
         /\ FirstError(fetched) = "" => \A i \in 1 .. n : fetched[i].audit.error = ""
PROOF
  <1> DEFINE Failed(i) == fetched[i].audit.error # ""
             I == {i \in 1 .. n : Failed(i)}
  <1>1. Len(fetched) = n /\ \A i \in 1 .. n : fetched[i].audit.error \in PageErrors
    BY DEF AllFine, PageFine
  <1>2. CASE I = {}
    <2>1. FirstError(fetched) = ""
      BY <1>1, <1>2 DEF FirstError, SelectInSeq
    <2>2. "" \in PageErrors
      BY DEF PageErrors
    <2> QED BY <1>1, <1>2, <2>1, <2>2
  <1>3. CASE I # {}
    <2>1. Min(I) \in I
      <3> HIDE DEF Failed
      <3>1. I \subseteq Nat
        OBVIOUS
      <3> HIDE DEF I
      <3> QED BY <1>3, <3>1, MinIsLeast
    <2>2. Min(I) # 0 /\ Min(I) \in 1 .. n /\ fetched[Min(I)].audit.error # ""
      <3>1. Min(I) # 0 /\ Min(I) \in 1 .. n /\ Failed(Min(I))
        <4> HIDE DEF Failed
        <4> QED BY <2>1
      <3> QED BY <3>1
    <2>3. FirstError(fetched) = fetched[Min(I)].audit.error
      BY <1>1, <1>3, <2>2 DEF FirstError, SelectInSeq
    <2> HIDE DEF I
    <2> QED BY <1>1, <2>2, <2>3
  <1> QED BY <1>2, <1>3

\* What an audit of a page of a complete result says.
PageCounts(audit, from, to) ==
  /\ audit.from \in Int /\ audit.to \in Int
  /\ from <= audit.from /\ audit.from < audit.to /\ audit.to <= to
  /\ Audited(audit, audit, audit.to - audit.from)

\* The audits of a complete result, that cover its range.
PagesCover(pages, from, to) ==
  /\ pages \in Seq(ToSet(pages))
  /\ \A i \in DOMAIN pages : PageCounts(pages[i], from, to)
  /\ \A m \in Span(from, to) : \E i \in DOMAIN pages : m \in Span(pages[i].from, pages[i].to)

NothingWrong(page) == page.audit.error = "" /\ page.missing = {}

\* A page with nothing wrong is counted as it is.
LEMMA PageCounted ==
  ASSUME NEW T, NEW page, NEW range, PageFine(page, T, range), NothingWrong(page),
         NEW from, NEW to, range.from \in Int, range.to \in Int,
         from <= range.from, range.from < range.to, range.to <= to
  PROVE  PageCounts(page.audit, from, to) /\ page.audit.from = range.from /\ page.audit.to = range.to
PROOF
  <1>1. /\ Audited(page.audit, range, Len(page.candles)) /\ page.candles \in Seq(T)
        /\ Cardinality(Span(range.from, range.to)) = Len(Opens(page.candles))
    BY DEF PageFine, NothingWrong
  <1>2. Len(Opens(page.candles)) = Len(page.candles)
    BY <1>1 DEF Opens
  <1>3. Cardinality(Span(range.from, range.to)) = range.to - range.from
    <2>1. PICK a \in Int, b \in Int : a = range.from /\ b = range.to /\ a < b
      OBVIOUS
    <2>2. a <= b
      BY <2>1
    <2> QED BY <2>1, <2>2, SpanSize
  <1>4. Audited(page.audit, range, range.to - range.from)
    BY <1>1, <1>2, <1>3
  <1>5. page.audit.from = range.from /\ page.audit.to = range.to
    BY <1>4 DEF Audited
  <1>6. Audited(page.audit, page.audit, page.audit.to - page.audit.from)
    BY <1>4, <1>5 DEF Audited
  <1> QED BY <1>5, <1>6 DEF PageCounts

\* Pages without errors of a result that misses nothing.
LEMMA NothingMissing ==
  ASSUME NEW T, NEW fetched, NEW n \in Nat, NEW from, NEW to, AllFine(fetched, n, T, from, to),
         \A i \in 1 .. n : fetched[i].audit.error = "", Missing(fetched) = {}
  PROVE  \A i \in 1 .. n : NothingWrong(fetched[i])
PROOF
  <1>1. ASSUME NEW i \in 1 .. n PROVE fetched[i].missing = {}
    BY DEF AllFine, Missing
  <1> QED BY <1>1 DEF NothingWrong

\* The audits of pages with nothing wrong cover the range.
LEMMA PagesRead ==
  ASSUME NEW T, NEW fetched, NEW n \in Nat, NEW from \in Int, NEW to \in Int, AllFine(fetched, n, T, from, to),
         \A i \in 1 .. n : NothingWrong(fetched[i])
  PROVE  PagesCover([i \in DOMAIN fetched |-> fetched[i].audit], from, to)
PROOF
  <1>1. PICK pages : pages = [i \in DOMAIN fetched |-> fetched[i].audit]
    OBVIOUS
  <1>2. DOMAIN pages = 1 .. n /\ DOMAIN Pages(from, to) = 1 .. n /\ \A i \in 1 .. n : pages[i] = fetched[i].audit
    BY <1>1 DEF AllFine
  <1>3. pages \in Seq(ToSet(pages))
    <2>1. \A i \in 1 .. n : pages[i] \in ToSet(pages)
      BY <1>2 DEF ToSet
    <2>2. pages = [i \in 1 .. n |-> pages[i]]
      BY <1>1, <1>2
    <2>3. pages \in [1 .. n -> ToSet(pages)]
      BY <2>1, <2>2
    <2> QED BY <2>3
  <1>4. ASSUME NEW i \in 1 .. n
        PROVE  /\ PageCounts(pages[i], from, to)
               /\ pages[i].from = Pages(from, to)[i].from /\ pages[i].to = Pages(from, to)[i].to
    <2>1. PICK range : range = Pages(from, to)[i]
      OBVIOUS
    <2>2. range.from \in Int /\ range.to \in Int /\ from <= range.from /\ range.to <= to
      BY <1>2, <2>1, PagesWithin
    <2>3. range.from < range.to
      BY <1>2, <2>1, PagesCut
    <2>4. PageFine(fetched[i], T, range)
      BY <2>1 DEF AllFine
    <2>5. PICK page : page = fetched[i] /\ NothingWrong(page) /\ PageFine(page, T, range)
      BY <2>4
    <2>6. PageCounts(page.audit, from, to) /\ page.audit.from = range.from /\ page.audit.to = range.to
      BY <2>2, <2>3, <2>5, PageCounted
    <2> QED BY <1>2, <2>1, <2>5, <2>6
  <1>5. ASSUME NEW m \in Span(from, to) PROVE \E i \in 1 .. n : m \in Span(pages[i].from, pages[i].to)
    <2>1. PICK i \in 1 .. n : m \in Span(Pages(from, to)[i].from, Pages(from, to)[i].to)
      BY <1>2, PagesCut
    <2> QED BY <1>4, <2>1
  <1> QED BY <1>1, <1>2, <1>3, <1>4, <1>5 DEF PagesCover

Statuses ==
  PageErrors \union {"complete", "partial_coverage", "binance_server_time_regressed",
                     "entry_after_binance_server_time", "non_contiguous_kline_coverage",
                     "invalid_kline_fetch_range", "kline_page_limit_exceeded", "error", "not_requested"}

\* What Binance is found complete for has every page whole and is contiguous.
LEMMA BinanceStatusIn ==
  ASSUME NEW from, NEW to, NEW last, last \in PageErrors, NEW before, NEW after, NEW fetched,
         NEW error, error \in PageErrors
  PROVE  /\ BinanceStatus(from, to, last, before, after, fetched, error) \in Statuses
         /\ BinanceStatus(from, to, last, before, after, fetched, error) = "complete" =>
               /\ error = "" /\ Missing(fetched) = {}
               /\ Contiguous(FlattenSeq([i \in DOMAIN fetched |-> fetched[i].candles]), from, to)
PROOF
  <1> DEFINE regressed == after < before
             early == PerMinute * to > after
             failed == \E i \in DOMAIN fetched : fetched[i].audit.error \notin {"", "partial_kline_page"}
             partial == error # "" \/ Missing(fetched) # {}
             contiguous == Contiguous(FlattenSeq([i \in DOMAIN fetched |-> fetched[i].candles]), from, to)
  <1>1. PICK c : c = << <<last # "", last>>,
               <<regressed, "binance_server_time_regressed">>,
               <<early, "entry_after_binance_server_time">>,
               <<failed, error>>,
               <<partial, "partial_coverage">>,
               <<~ contiguous, "non_contiguous_kline_coverage">> >>
    OBVIOUS
  <1>2. BinanceStatus(from, to, last, before, after, fetched, error) = FirstOf(c, "complete")
    BY <1>1 DEF BinanceStatus
  <1> HIDE DEF regressed, early, failed, partial, contiguous
  <1>3. Len(c) = 6
    BY <1>1
  <1>4. /\ c[1][2] = last /\ c[2][2] = "binance_server_time_regressed"
        /\ c[3][2] = "entry_after_binance_server_time" /\ c[4][2] = error
        /\ c[5][2] = "partial_coverage" /\ (c[5][1] <=> partial)
        /\ c[6][2] = "non_contiguous_kline_coverage" /\ (c[6][1] <=> ~ contiguous)
    BY <1>1
  <1>5. \A i \in 1 .. 6 : i = 1 \/ i = 2 \/ i = 3 \/ i = 4 \/ i = 5 \/ i = 6
    OBVIOUS
  <1>6. FirstOf(c, "complete") \in Statuses
    <2>1. /\ c[1][2] \in Statuses /\ c[2][2] \in Statuses /\ c[3][2] \in Statuses
          /\ c[4][2] \in Statuses /\ c[5][2] \in Statuses /\ c[6][2] \in Statuses
      BY <1>4 DEF Statuses
    <2>2. NamesIn(c, 6, Statuses)
      BY <1>5, <2>1 DEF NamesIn
    <2>3. "complete" \in Statuses /\ 6 \in Nat
      BY DEF Statuses
    <2> QED BY <1>3, <2>2, <2>3, FirstOfIn
  <1>7. ASSUME FirstOf(c, "complete") = "complete" PROVE ~ partial /\ contiguous
    <2>1. /\ c[1][2] # "complete" /\ c[2][2] # "complete" /\ c[3][2] # "complete"
          /\ c[4][2] # "complete" /\ c[5][2] # "complete" /\ c[6][2] # "complete"
      BY <1>4 DEF PageErrors, Failures, Transient
    <2>2. NamedApart(c, 6, "complete")
      BY <1>5, <2>1 DEF NamedApart
    <2>3. 6 \in Nat /\ 6 <= 6 /\ 5 \in 1 .. 6 /\ 6 \in 1 .. 6
      OBVIOUS
    <2>4. NoneFails(c, 6)
      BY <1>3, <1>7, <2>2, <2>3, ChecksHold
    <2>5. ~ c[5][1] /\ ~ c[6][1]
      BY <2>3, <2>4 DEF NoneFails
    <2> QED BY <1>4, <2>5
  <1> QED BY <1>2, <1>6, <1>7 DEF contiguous, partial

\* What is believed of a result: if it is complete it is one candle of each
\* minute of the range, in order, all among those served, and the audits of
\* its pages cover the range.
ResultHolds(result, T, from, to) ==
  /\ {"source", "status", "from", "to", "pages", "candles"} \subseteq DOMAIN result
  /\ result.status \in Statuses
  /\ result.status = "complete" =>
        /\ result.candles \in Seq(T) /\ Contiguous(result.candles, from, to)
        /\ result.from = from /\ result.to = to /\ PagesCover(result.pages, from, to)

\* A result without candles claims nothing.
LEMMA EmptyHolds ==
  ASSUME NEW T, NEW source, NEW status, NEW error, NEW a, NEW b, NEW from, NEW to,
         status \in Statuses, status # "complete"
  PROVE  ResultHolds(Empty(source, status, error, a, b), T, from, to)
PROOF
  BY DEF ResultHolds, Empty

\* A range is refused because it is empty or too long.
LEMMA BadRangeIn ==
  ASSUME NEW from, NEW to
  PROVE  BadRange(from, to) \in {"", "invalid_kline_fetch_range", "kline_page_limit_exceeded"}
PROOF
  <1> DEFINE long == Len(Pages(from, to)) > MaxPages
             names == {"", "invalid_kline_fetch_range", "kline_page_limit_exceeded"}
  <1>1. PICK c : c = << <<from >= to, "invalid_kline_fetch_range">>, <<long, "kline_page_limit_exceeded">> >>
    OBVIOUS
  <1>2. BadRange(from, to) = FirstOf(c, "")
    BY <1>1 DEF BadRange
  <1> HIDE DEF long
  <1>3. Len(c) = 2
    BY <1>1
  <1>4. c[1][2] = "invalid_kline_fetch_range" /\ c[2][2] = "kline_page_limit_exceeded"
    BY <1>1
  <1>5. \A i \in 1 .. 2 : i = 1 \/ i = 2
    OBVIOUS
  <1>6. c[1][2] \in names /\ c[2][2] \in names /\ "" \in names
    BY <1>4
  <1> HIDE DEF names
  <1>7. NamesIn(c, 2, names)
    BY <1>5, <1>6 DEF NamesIn
  <1>8. FirstOf(c, "") \in names
    <2>1. Len(c) \in Nat /\ NamesIn(c, Len(c), names)
      BY <1>3, <1>7
    <2> QED BY <1>6, <2>1, FirstOfIn
  <1> QED BY <1>2, <1>8 DEF names

\* BinanceHistoricalKlineClient.fetch_klines: a complete result is what was served.
LEMMA BinanceHolds ==
  ASSUME NEW T, NEW from \in Int, NEW to \in Int, NEW answer, NEW before, NEW after,
         Got(answer.time), Got(answer.timeAfter), AllGot(answer.pages, T, from, to)
  PROVE  ResultHolds(BinanceResult(from, to, answer, before, after), T, from, to)
PROOF
  <1>1. PICK result : result = BinanceResult(from, to, answer, before, after)
    OBVIOUS
  <1>2. CASE BadRange(from, to) # ""
    <2>1. result = Empty("binance", BadRange(from, to), "", from, to)
      BY <1>1, <1>2 DEF BinanceResult
    <2>2. BadRange(from, to) \in Statuses /\ BadRange(from, to) # "complete"
      <3>1. BadRange(from, to) \in {"invalid_kline_fetch_range", "kline_page_limit_exceeded"}
        BY <1>2, BadRangeIn
      <3> QED BY <3>1 DEF Statuses
    <2> QED BY <1>1, <2>1, <2>2, EmptyHolds
  <1>3. CASE BadRange(from, to) = "" /\ Request(answer.time).error # ""
    <2>1. PICK first : first = Request(answer.time).error
      OBVIOUS
    <2>2. result = Empty("binance", first, first, from, to)
      BY <1>1, <1>3, <2>1 DEF BinanceResult
    <2>3. first \in Failures
      BY <1>3, <2>1, RequestError
    <2>4. first \in Statuses /\ first # "complete"
      BY <2>3 DEF Statuses, PageErrors, Failures, Transient
    <2> QED BY <1>1, <2>2, <2>4, EmptyHolds
  <1>4. CASE BadRange(from, to) = "" /\ Request(answer.time).error = ""
    <2>1. PICK fetched : fetched = Fetched("binance", 1, from, to, answer.pages)
      OBVIOUS
    <2>2. PICK last : last = Request(answer.timeAfter).error
      OBVIOUS
    <2>3. result = BinancePages(from, to, last, before, after, fetched)
      BY <1>1, <1>4, <2>1, <2>2 DEF BinanceResult
    <2>4. PICK n \in Nat : AllFine(fetched, n, T, from, to)
      BY <2>1, FetchedFine
    <2>5. last \in PageErrors
      BY <2>2, RequestError DEF PageErrors
    <2>6. FirstError(fetched) \in PageErrors /\ (FirstError(fetched) = "" => \A i \in 1 .. n : fetched[i].audit.error = "")
      BY <2>4, FirstErrorIn
    <2>7. PICK parts : parts = [i \in DOMAIN fetched |-> fetched[i].candles]
      OBVIOUS
    <2>8. FlattenSeq(parts) \in Seq(T)
      <3>1. parts \in [1 .. n -> Seq(T)]
        BY <2>4, <2>7 DEF AllFine, PageFine
      <3> QED BY <3>1, FlattenedIn
    <2>9. PICK status : status = BinanceStatus(from, to, last, before, after, fetched, FirstError(fetched))
      OBVIOUS
    <2>10. /\ status \in Statuses
           /\ status = "complete" => /\ FirstError(fetched) = "" /\ Missing(fetched) = {}
                                     /\ Contiguous(FlattenSeq(parts), from, to)
      BY <2>5, <2>6, <2>7, <2>9, BinanceStatusIn
    <2>11. PICK pages : pages = [i \in DOMAIN fetched |-> fetched[i].audit]
      OBVIOUS
    <2>12. ASSUME status = "complete" PROVE PagesCover(pages, from, to)
      <3>1. \A i \in 1 .. n : NothingWrong(fetched[i])
        BY <2>4, <2>6, <2>10, <2>12, NothingMissing
      <3> QED BY <2>4, <2>11, <3>1, PagesRead
    <2>13. /\ {"source", "status", "from", "to", "pages", "candles"} \subseteq DOMAIN result
           /\ result.status = status /\ result.candles = FlattenSeq(parts) /\ result.pages = pages
           /\ result.from = from /\ result.to = to
      BY <2>3, <2>7, <2>9, <2>11 DEF BinancePages, Result
    <2> QED BY <1>1, <2>8, <2>10, <2>12, <2>13 DEF ResultHolds
  <1> QED BY <1>2, <1>3, <1>4

Minuted(T) == \A c \in T : c.open \in Int

\* Two empty ranges are the same range.
LEMMA EmptySpan ==
  ASSUME NEW from \in Int, NEW to \in Int, ~ (from <= to)
  PROVE  from <= from /\ Span(from, to) = Span(from, from)
PROOF
  <1>1. Span(from, to) = {}
    BY DEF Span
  <1>2. Span(from, from) = {}
    BY DEF Span
  <1> QED BY <1>1, <1>2

\* A complete page of Coinbase keeps its candles when it is sorted.
LEMMA SortedFine ==
  ASSUME NEW T, Minuted(T), NEW from \in Int, NEW to \in Int, NEW page,
         NEW range, range.from \in Int, range.to \in Int, PageFine(page, T, range),
         page.audit.error = "", page.missing = {}
  PROVE  Sorted(page.candles) \in Seq(T)
PROOF
  <1>1. /\ page.candles \in Seq(T)
        /\ Cardinality(ToSet(Opens(page.candles))) = Len(Opens(page.candles))
        /\ ToSet(Opens(page.candles)) = Span(range.from, range.to)
    BY DEF PageFine
  <1>2. CASE range.from <= range.to
    BY <1>1, <1>2, SortedIn DEF Minuted
  <1>3. CASE ~ (range.from <= range.to)
    <2>1. range.from <= range.from /\ Span(range.from, range.to) = Span(range.from, range.from)
      BY <1>3, EmptySpan
    <2> QED BY <1>1, <2>1, SortedIn DEF Minuted
  <1> QED BY <1>2, <1>3

\* What Coinbase is found complete for has every page whole and is contiguous.
LEMMA CoinbaseStatusIn ==
  ASSUME NEW from, NEW to, NEW fetched, NEW sorted, NEW error, error \in PageErrors
  PROVE  /\ CoinbaseStatus(from, to, fetched, sorted, error) \in Statuses
         /\ CoinbaseStatus(from, to, fetched, sorted, error) = "complete" =>
               /\ error = "" /\ Missing(fetched) = {}
               /\ Contiguous(FlattenSeq(sorted), from, to)
PROOF
  <1> DEFINE failed == error # ""
             partial == Missing(fetched) # {}
             contiguous == Contiguous(FlattenSeq(sorted), from, to)
  <1>1. PICK c : c = << <<failed, "error">>, <<partial, "partial_coverage">>,
                        <<~ contiguous, "non_contiguous_kline_coverage">> >>
    OBVIOUS
  <1>2. CoinbaseStatus(from, to, fetched, sorted, error) = FirstOf(c, "complete")
    BY <1>1 DEF CoinbaseStatus
  <1> HIDE DEF failed, partial, contiguous
  <1>3. Len(c) = 3
    BY <1>1
  <1>4. /\ c[1][2] = "error" /\ (c[1][1] <=> failed)
        /\ c[2][2] = "partial_coverage" /\ (c[2][1] <=> partial)
        /\ c[3][2] = "non_contiguous_kline_coverage" /\ (c[3][1] <=> ~ contiguous)
    BY <1>1
  <1>5. \A i \in 1 .. 3 : i = 1 \/ i = 2 \/ i = 3
    OBVIOUS
  <1>6. FirstOf(c, "complete") \in Statuses
    <2>1. c[1][2] \in Statuses /\ c[2][2] \in Statuses /\ c[3][2] \in Statuses
      BY <1>4 DEF Statuses
    <2>2. NamesIn(c, 3, Statuses)
      BY <1>5, <2>1 DEF NamesIn
    <2>3. "complete" \in Statuses /\ 3 \in Nat
      BY DEF Statuses
    <2> QED BY <1>3, <2>2, <2>3, FirstOfIn
  <1>7. ASSUME FirstOf(c, "complete") = "complete" PROVE ~ failed /\ ~ partial /\ contiguous
    <2>1. c[1][2] # "complete" /\ c[2][2] # "complete" /\ c[3][2] # "complete"
      BY <1>4
    <2>2. NamedApart(c, 3, "complete")
      BY <1>5, <2>1 DEF NamedApart
    <2>3. 3 \in Nat /\ 3 <= 3 /\ 1 \in 1 .. 3 /\ 2 \in 1 .. 3 /\ 3 \in 1 .. 3
      OBVIOUS
    <2>4. NoneFails(c, 3)
      BY <1>3, <1>7, <2>2, <2>3, ChecksHold
    <2>5. ~ c[1][1] /\ ~ c[2][1] /\ ~ c[3][1]
      BY <2>3, <2>4 DEF NoneFails
    <2> QED BY <1>4, <2>5
  <1> QED BY <1>2, <1>6, <1>7 DEF failed, partial, contiguous

\* CoinbaseHistoricalCandleClient.fetch_klines: a complete result is what was served.
LEMMA CoinbaseHolds ==
  ASSUME NEW T, Minuted(T), NEW from \in Int, NEW to \in Int, NEW answer, NEW before, NEW after,
         AllGot(answer.pages, T, from, to)
  PROVE  ResultHolds(CoinbaseResult(from, to, answer, before, after), T, from, to)
PROOF
  <1>1. PICK result : result = CoinbaseResult(from, to, answer, before, after)
    OBVIOUS
  <1>2. CASE BadRange(from, to) # ""
    <2>1. result = Empty("coinbase", BadRange(from, to), "", from, to)
      BY <1>1, <1>2 DEF CoinbaseResult
    <2>2. BadRange(from, to) \in Statuses /\ BadRange(from, to) # "complete"
      <3>1. BadRange(from, to) \in {"invalid_kline_fetch_range", "kline_page_limit_exceeded"}
        BY <1>2, BadRangeIn
      <3> QED BY <3>1 DEF Statuses
    <2> QED BY <1>1, <2>1, <2>2, EmptyHolds
  <1>3. CASE BadRange(from, to) = ""
    <2>1. PICK fetched : fetched = Fetched("coinbase", 0, from, to, answer.pages)
      OBVIOUS
    <2>2. PICK sorted : sorted = [i \in DOMAIN fetched |-> Sorted(fetched[i].candles)]
      OBVIOUS
    <2>3. result = CoinbasePages(from, to, before, after, fetched, sorted)
      BY <1>1, <1>3, <2>1, <2>2 DEF CoinbaseResult
    <2>4. PICK n \in Nat : AllFine(fetched, n, T, from, to)
      BY <2>1, FetchedFine
    <2>5. FirstError(fetched) \in PageErrors /\ (FirstError(fetched) = "" => \A i \in 1 .. n : fetched[i].audit.error = "")
      BY <2>4, FirstErrorIn
    <2>6. PICK status : status = CoinbaseStatus(from, to, fetched, sorted, FirstError(fetched))
      OBVIOUS
    <2>7. /\ status \in Statuses
          /\ status = "complete" => /\ FirstError(fetched) = "" /\ Missing(fetched) = {}
                                    /\ Contiguous(FlattenSeq(sorted), from, to)
      BY <2>5, <2>6, CoinbaseStatusIn
    <2>8. ASSUME status = "complete" PROVE FlattenSeq(sorted) \in Seq(T)
      <3>1. ASSUME NEW i \in 1 .. n PROVE sorted[i] \in Seq(T)
        <4>1. PICK page, range : page = fetched[i] /\ range = Pages(from, to)[i]
          OBVIOUS
        <4>2. PageFine(page, T, range) /\ DOMAIN fetched = 1 .. n /\ DOMAIN Pages(from, to) = 1 .. n
          BY <2>4, <4>1 DEF AllFine
        <4>3. range.from \in Int /\ range.to \in Int
          BY <4>1, <4>2, PagesWithin
        <4>4. page.audit.error = ""
          BY <2>5, <2>7, <2>8, <4>1
        <4>5. page.missing = {}
          BY <2>7, <2>8, <4>1, <4>2 DEF Missing
        <4>6. Sorted(page.candles) \in Seq(T)
          BY <4>2, <4>3, <4>4, <4>5, SortedFine
        <4> QED BY <2>2, <4>1, <4>2, <4>6
      <3>2. sorted \in [1 .. n -> Seq(T)]
        BY <2>2, <2>4, <3>1 DEF AllFine
      <3> QED BY <3>2, FlattenedIn
    <2>9. PICK pages : pages = [i \in DOMAIN fetched |-> fetched[i].audit]
      OBVIOUS
    <2>10. ASSUME status = "complete" PROVE PagesCover(pages, from, to)
      <3>1. \A i \in 1 .. n : NothingWrong(fetched[i])
        BY <2>4, <2>5, <2>7, <2>10, NothingMissing
      <3> QED BY <2>4, <2>9, <3>1, PagesRead
    <2>11. /\ {"source", "status", "from", "to", "pages", "candles"} \subseteq DOMAIN result
           /\ result.status = status /\ result.candles = FlattenSeq(sorted) /\ result.pages = pages
           /\ result.from = from /\ result.to = to
      BY <2>3, <2>6, <2>9 DEF CoinbasePages, Result
    <2> QED BY <1>1, <2>7, <2>8, <2>10, <2>11 DEF ResultHolds
  <1> QED BY <1>2, <1>3

\* A request in flight: what Binance and Coinbase served is theirs.
RequestHolds(asked, T, from, to) ==
  /\ asked.from = from /\ asked.to = to
  /\ Got(asked.binance.time) /\ Got(asked.binance.timeAfter)
  /\ AllGot(asked.binance.pages, T, from, to) /\ AllGot(asked.coinbase.pages, T, from, to)

\* A request never sent claims nothing.
LEMMA NotAskedHolds ==
  ASSUME NEW T, NEW from, NEW to
  PROVE  ResultHolds(NotAsked, T, from, to) /\ NotAsked.status = "not_requested"
PROOF
  <1>1. "not_requested" \in Statuses
    BY DEF Statuses
  <1> QED BY <1>1, EmptyHolds DEF NotAsked, Empty

\* MultiSourceHistoricalKlineClient: whichever source is believed, a complete result is what was served.
LEMMA ConcludedHolds ==
  ASSUME NEW T, Minuted(T), NEW from \in Int, NEW to \in Int,
         NEW asked, RequestHolds(asked, T, from, to)
  PROVE  ResultHolds(Concluded(asked), T, from, to)
PROOF
  <1>1. CASE asked = NotAsked
    BY <1>1, NotAskedHolds DEF Concluded
  <1>2. CASE asked # NotAsked
    <2>1. PICK primary : primary = BinanceResult(from, to, asked.binance, asked.exchangeTime, ExchangeTime)
      OBVIOUS
    <2>2. PICK fallback : fallback = CoinbaseResult(from, to, asked.coinbase, asked.at, clock)
      OBVIOUS
    <2>3. Concluded(asked) = Chosen(primary, fallback)
      BY <1>2, <2>1, <2>2 DEF Concluded, RequestHolds
    <2>4. ResultHolds(primary, T, from, to)
      BY <2>1, BinanceHolds DEF RequestHolds
    <2>5. ResultHolds(fallback, T, from, to)
      BY <2>2, CoinbaseHolds DEF RequestHolds
    <2> QED BY <2>3, <2>4, <2>5 DEF Chosen
  <1> QED BY <1>1, <1>2

\* What is kept of a result claims no more than the result.
LEMMA KeptHolds ==
  ASSUME NEW T, NEW from, NEW to, NEW result, ResultHolds(result, T, from, to)
  PROVE  ResultHolds(Kept(result), T, from, to)
PROOF
  <1>1. CASE result.status = "complete"
    <2>1. PICK kept : kept = Kept(result)
      OBVIOUS
    <2>2. kept = [result EXCEPT !.before = PerMinute * result.to, !.after = PerMinute * result.to]
      BY <1>1, <2>1 DEF Kept
    <2>3. /\ DOMAIN kept = DOMAIN result /\ kept.status = result.status /\ kept.candles = result.candles
          /\ kept.from = result.from /\ kept.to = result.to /\ kept.pages = result.pages
      BY <2>2 DEF ResultHolds
    <2> QED BY <2>1, <2>3 DEF ResultHolds
  <1>2. CASE result.status # "complete"
    BY <1>2 DEF Kept, NotAsked, Empty, ResultHolds
  <1> QED BY <1>1, <1>2

\* A request never sent stays one.
LEMMA NotAskedStays == Kept(Concluded(NotAsked)) = NotAsked
PROOF
  BY DEF Kept, Concluded, NotAsked, Empty

-----------------------------------------------------------------------------
(* What the exchanges serve *)

\* Levels are positive.
LEMMA PeakTyped ==
  ASSUME NEW p \in [Minutes -> Levels], NEW m \in Minutes
  PROVE  p[m] \in Nat /\ p[m] # 0
PROOF
  BY DiscoveryAssumption

\* A page is served with the highs of the exchange.
LEMMA ServedIn ==
  ASSUME peak \in [Minutes -> Levels], NEW kind, NEW range, range.from \in Int, range.to \in Int,
         Span(range.from, range.to) \subseteq Minutes, NEW until
  PROVE  Served(kind, range) \in Seq(Candles(peak, until))
PROOF
  <1> DEFINE T == Candles(peak, until)
  <1>1. PICK n \in Nat : 1 .. (range.to - range.from) = 1 .. n /\ \A i \in 1 .. n : range.from + i - 1 \in Span(range.from, range.to)
    <2>1. CASE range.to >= range.from
      BY <2>1 DEF Span
    <2>2. CASE range.to < range.from
      <3>1. PICK size \in Int : size = range.to - range.from /\ size < 0
        BY <2>2
      <3>2. 1 .. size = 1 .. 0
        BY <3>1
      <3> QED BY <3>1, <3>2
    <2> QED BY <2>1, <2>2
  <1>2. PICK whole : whole = [i \in 1 .. (range.to - range.from) |->
                     [open |-> range.from + i - 1, high |-> peak[range.from + i - 1], sound |-> TRUE]]
    OBVIOUS
  <1>3. ASSUME NEW i \in 1 .. n PROVE whole[i] \in T
    <2>1. PICK m \in Int : m = range.from + i - 1
      OBVIOUS
    <2>2. m \in Minutes
      BY <1>1, <2>1
    <2>3. peak[m] \in Nat
      BY <2>2, PeakTyped
    <2>4. whole[i] = [open |-> m, high |-> peak[m], sound |-> TRUE]
      BY <1>1, <1>2, <2>1
    <2> QED BY <2>3, <2>4 DEF Candles
  <1>4. whole \in [1 .. n -> T]
    BY <1>1, <1>2, <1>3
  <1> HIDE DEF T
  <1>5. whole \in Seq(T) /\ Len(whole) = n
    BY <1>4
  <1>6. Reverse(whole) \in Seq(T)
    <2>1. Reverse(whole) = [i \in 1 .. n |-> whole[(n - i) + 1]]
      BY <1>5 DEF Reverse
    <2>2. \A i \in 1 .. n : (n - i) + 1 \in 1 .. n
      OBVIOUS
    <2>3. Reverse(whole) \in [1 .. n -> T]
      BY <1>4, <2>1, <2>2
    <2> QED BY <2>3
  <1>7. Front(whole) \in Seq(T)
    <2>1. 1 \in Int /\ n - 1 \in Int /\ \A i \in 1 .. n - 1 : whole[i] \in T
      BY <1>4
    <2>2. SubSeq(whole, 1, n - 1) \in Seq(T)
      BY <2>1, SubSeqProperties
    <2> QED BY <1>5, <2>2 DEF Front
  <1>8. <<>> \in Seq(T)
    OBVIOUS
  <1>9. Served(kind, range) = CASE kind = "whole" -> whole
                                [] kind = "newest_first" -> Reverse(whole)
                                [] kind = "short" -> Front(whole)
                                [] OTHER -> <<>>
    BY <1>2 DEF Served
  <1>10. Served(kind, range) \in Seq(T)
    <2> HIDE DEF Served
    <2> QED BY <1>5, <1>6, <1>7, <1>8, <1>9
  <1> QED BY <1>10 DEF T

\* So is a whole request.
LEMMA AskedHolds ==
  ASSUME peak \in [Minutes -> Levels], NEW from \in Int, NEW to \in Int, Span(from, to) \subseteq Minutes,
         NEW answer \in Answers, NEW until
  PROVE  RequestHolds(Asked(from, to, answer), Candles(peak, until), from, to)
PROOF
  <1>1. /\ Got(answer.binance.time) /\ Got(answer.binance.timeAfter)
        /\ Got(answer.binance.replies) /\ Got(answer.coinbase.replies)
    BY DiscoveryAssumption DEF Got
  <1>2. ASSUME NEW a, Got(a.replies)
        PROVE  AllGot(Answered(a, from, to).pages, Candles(peak, until), from, to)
    <2>1. ASSUME NEW i \in DOMAIN Pages(from, to)
          PROVE  /\ Answered(a, from, to).pages[i].replies = a.replies
                 /\ Answered(a, from, to).pages[i].rows \in Seq(Candles(peak, until))
      <3>1. PICK range : range = Pages(from, to)[i]
        OBVIOUS
      <3>2. range.from \in Int /\ range.to \in Int /\ from <= range.from /\ range.to <= to
        BY <3>1, PagesWithin
      <3>3. Span(range.from, range.to) \subseteq Span(from, to)
        BY <3>2 DEF Span
      <3>4. Served(a.kind, range) \in Seq(Candles(peak, until))
        BY <3>2, <3>3, ServedIn
      <3> QED BY <3>1, <3>4 DEF Answered
    <2> QED BY <1>2, <2>1 DEF AllGot
  <1>3. /\ AllGot(Answered(answer.binance, from, to).pages, Candles(peak, until), from, to)
        /\ AllGot(Answered(answer.coinbase, from, to).pages, Candles(peak, until), from, to)
    BY <1>1, <1>2
  <1>4. PICK asked : asked = Asked(from, to, answer)
    OBVIOUS
  <1>5. /\ asked.from = from /\ asked.to = to
        /\ asked.binance = Answered(answer.binance, from, to) /\ asked.coinbase = Answered(answer.coinbase, from, to)
    BY <1>4 DEF Asked
  <1>6. /\ Answered(answer.binance, from, to).time = answer.binance.time
        /\ Answered(answer.binance, from, to).timeAfter = answer.binance.timeAfter
    BY DEF Answered
  <1> QED BY <1>1, <1>3, <1>4, <1>5, <1>6 DEF RequestHolds

-----------------------------------------------------------------------------
(* A base and a tail merged, and what is concluded from them *)

HistoryStatuses ==
  Statuses \union {"merged_kline_source_mismatch", "merged_kline_start_mismatch", "merged_kline_end_mismatch",
                   "merged_kline_overlap_range_mismatch", "merged_kline_server_time_mismatch",
                   "merged_kline_duplicate_klines", "merged_kline_overlap_conflict"}

MergedHighs(base, tail) ==
  LET old == ByOpen(base.candles)
      new == ByOpen(tail.candles)
  IN  [m \in DOMAIN old \union DOMAIN new |-> IF m \in DOMAIN new THEN new[m] ELSE old[m]]

\* Parts that can be merged: of one source, the tail from a minute in the base or at the end of it, read later.
Mergeable(base, tail, from, to) ==
  /\ base.source = tail.source /\ base.from = from /\ tail.to = to
  /\ ~ (tail.from < from \/ tail.from > base.to \/ base.to > to)
  /\ ~ (tail.after < base.after)

\* A merge is complete only of complete parts that cover the range.
LEMMA MergeStatus ==
  ASSUME NEW base, NEW tail, NEW from, NEW to, base.status \in Statuses, tail.status \in Statuses
  PROVE  /\ Merge(base, tail, from, to).status \in HistoryStatuses
         /\ Merge(base, tail, from, to).status = "complete" =>
               /\ base.status = "complete" /\ tail.status = "complete"
               /\ Mergeable(base, tail, from, to)
               /\ Span(from, to) \subseteq DOMAIN MergedHighs(base, tail)
PROOF
  <1> DEFINE old == ByOpen(base.candles)
             new == ByOpen(tail.candles)
             both == [m \in DOMAIN old \union DOMAIN new |-> IF m \in DOMAIN new THEN new[m] ELSE old[m]]
             missing == Span(from, to) \ DOMAIN both
             sources == base.source # tail.source
             starts == base.from # from
             ends == tail.to # to
             overlap == tail.from < from \/ tail.from > base.to \/ base.to > to
             times == base.after < base.before \/ tail.after < tail.before \/ tail.after < base.after
                                    \/ tail.after < PerMinute * to
             twice == Cardinality(DOMAIN old) # Len(base.candles) \/ Cardinality(DOMAIN new) # Len(tail.candles)
             conflict == \E m \in DOMAIN old \intersect DOMAIN new : old[m] # new[m]
             partial == missing # {}
  <1> HIDE DEF old, new, both, missing, sources, starts, ends, overlap, times, twice, conflict, partial
  <1>1. PICK c : c = << <<base.status # "complete", base.status>>,
                             <<tail.status # "complete", tail.status>>,
                             <<sources, "merged_kline_source_mismatch">>,
                             <<starts, "merged_kline_start_mismatch">>,
                             <<ends, "merged_kline_end_mismatch">>,
                             <<overlap, "merged_kline_overlap_range_mismatch">>,
                             <<times, "merged_kline_server_time_mismatch">>,
                             <<twice, "merged_kline_duplicate_klines">>,
                             <<conflict, "merged_kline_overlap_conflict">>,
                             <<partial, "partial_coverage">> >>
    OBVIOUS
  <1>2. Merge(base, tail, from, to).status = FirstOf(c, "complete")
    BY <1>1 DEF Merge, old, new, both, missing, sources, starts, ends, overlap, times, twice, conflict, partial
  <1>3. both = MergedHighs(base, tail)
    BY DEF MergedHighs, both, old, new
  <1>4. ~ partial => Span(from, to) \subseteq DOMAIN both
    BY DEF partial, missing
  <1>5. Len(c) = 10
    BY <1>1
  <1>6. /\ c[1][2] = base.status /\ (c[1][1] <=> base.status # "complete")
        /\ c[2][2] = tail.status /\ (c[2][1] <=> tail.status # "complete")
        /\ c[3][2] = "merged_kline_source_mismatch" /\ (c[3][1] <=> sources)
        /\ c[4][2] = "merged_kline_start_mismatch" /\ (c[4][1] <=> starts)
        /\ c[5][2] = "merged_kline_end_mismatch" /\ (c[5][1] <=> ends)
        /\ c[6][2] = "merged_kline_overlap_range_mismatch" /\ (c[6][1] <=> overlap)
        /\ c[7][2] = "merged_kline_server_time_mismatch" /\ (c[7][1] <=> times) /\ c[8][2] = "merged_kline_duplicate_klines"
        /\ c[9][2] = "merged_kline_overlap_conflict" /\ c[10][2] = "partial_coverage"
        /\ (c[10][1] <=> partial)
    BY <1>1
  <1>7. \A i \in 1 .. 10 : i = 1 \/ i = 2 \/ i = 3 \/ i = 4 \/ i = 5 \/ i = 6 \/ i = 7 \/ i = 8 \/ i = 9 \/ i = 10
    OBVIOUS
  <1>8. FirstOf(c, "complete") \in HistoryStatuses
    <2>1. /\ c[1][2] \in HistoryStatuses /\ c[2][2] \in HistoryStatuses /\ c[3][2] \in HistoryStatuses
          /\ c[4][2] \in HistoryStatuses /\ c[5][2] \in HistoryStatuses /\ c[6][2] \in HistoryStatuses
          /\ c[7][2] \in HistoryStatuses /\ c[8][2] \in HistoryStatuses /\ c[9][2] \in HistoryStatuses
          /\ c[10][2] \in HistoryStatuses
      BY <1>6 DEF HistoryStatuses, Statuses
    <2>2. NamesIn(c, 10, HistoryStatuses)
      BY <1>7, <2>1 DEF NamesIn
    <2>3. "complete" \in HistoryStatuses /\ 10 \in Nat
      BY DEF HistoryStatuses, Statuses
    <2> QED BY <1>5, <2>2, <2>3, FirstOfIn
  <1>9. ASSUME FirstOf(c, "complete") = "complete"
        PROVE  /\ base.status = "complete" /\ tail.status = "complete"
               /\ ~ sources /\ ~ starts /\ ~ ends /\ ~ overlap /\ ~ times /\ ~ partial
    <2>1. /\ (c[1][1] => c[1][2] # "complete") /\ (c[2][1] => c[2][2] # "complete") /\ c[3][2] # "complete"
          /\ c[4][2] # "complete" /\ c[5][2] # "complete" /\ c[6][2] # "complete" /\ c[7][2] # "complete"
          /\ c[8][2] # "complete" /\ c[9][2] # "complete" /\ c[10][2] # "complete"
      BY <1>6
    <2>2. NamedApart(c, 10, "complete")
      BY <1>7, <2>1 DEF NamedApart
    <2>3. /\ 10 \in Nat /\ 10 <= 10 /\ 1 \in 1 .. 10 /\ 2 \in 1 .. 10 /\ 3 \in 1 .. 10 /\ 4 \in 1 .. 10
          /\ 5 \in 1 .. 10 /\ 6 \in 1 .. 10 /\ 7 \in 1 .. 10 /\ 10 \in 1 .. 10
      OBVIOUS
    <2>4. NoneFails(c, 10)
      BY <1>5, <1>9, <2>2, <2>3, ChecksHold
    <2>5. ~ c[1][1] /\ ~ c[2][1] /\ ~ c[3][1] /\ ~ c[4][1] /\ ~ c[5][1] /\ ~ c[6][1] /\ ~ c[7][1] /\ ~ c[10][1]
      BY <2>3, <2>4 DEF NoneFails
    <2> QED BY <1>6, <2>5
  <1>10. ~ sources /\ ~ starts /\ ~ ends /\ ~ overlap /\ ~ times => Mergeable(base, tail, from, to)
    BY DEF Mergeable, sources, starts, ends, overlap, times
  <1> QED BY <1>2, <1>3, <1>4, <1>8, <1>9, <1>10

\* The high of a minute is that of the exchange.
LEMMA HighOf ==
  ASSUME NEW p, NEW until \in Int, NEW candles \in Seq(Candles(p, until)), NEW m \in Int, 0 <= m, m <= until,
         m \in DOMAIN ByOpen(candles)
  PROVE  ByOpen(candles)[m] = p[m]
PROOF
  <1>1. m \in ToSet(Opens(candles))
    BY DEF ByOpen
  <1>2. PICK i \in DOMAIN candles : candles[i].open = m
    BY <1>1 DEF ToSet, Opens
  <1>3. candles[i] \in ToSet(candles)
    BY DEF ToSet
  <1>4. ByOpen(candles)[m] = (CHOOSE c \in ToSet(candles) : c.open = m).high
    BY <1>1 DEF ByOpen
  <1>5. PICK c \in ToSet(candles) : c.open = m /\ c = CHOOSE d \in ToSet(candles) : d.open = m
    BY <1>2, <1>3
  <1>6. c \in Candles(p, until)
    BY DEF ToSet
  <1>7. c.high = p[m]
    BY <1>5, <1>6 DEF Candles
  <1> QED BY <1>4, <1>5, <1>7

\* Contiguous candles have every minute of their range.
LEMMA ContiguousOpens ==
  ASSUME NEW candles, NEW from \in Int, NEW to \in Int, Contiguous(candles, from, to), NEW m \in Span(from, to)
  PROVE  m \in DOMAIN ByOpen(candles)
PROOF
  <1>1. PICK opens : opens = Opens(candles)
    OBVIOUS
  <1>2. opens = [i \in 1 .. (to - from) |-> from + i - 1]
    BY <1>1 DEF Contiguous
  <1>3. PICK i \in 1 .. (to - from) : from + i - 1 = m
    <2>1. m \in Int /\ from <= m /\ m <= to - 1
      BY DEF Span
    <2>2. m - from + 1 \in 1 .. (to - from) /\ from + (m - from + 1) - 1 = m
      BY <2>1
    <2> QED BY <2>2
  <1>4. opens[i] = m /\ i \in DOMAIN opens
    BY <1>2, <1>3
  <1>5. m \in ToSet(opens)
    BY <1>4 DEF ToSet
  <1> QED BY <1>1, <1>5 DEF ByOpen

\* The tail covers the last minute of the base, so that the minute that was
\* open when the base was read is read again.
LEMMA MergedHigh ==
  ASSUME NEW p, NEW from \in Int, 0 <= from, NEW mid \in Int, NEW to \in Int, NEW base, NEW tail,
         ResultHolds(base, Candles(p, mid - 2), from, mid), ResultHolds(tail, Candles(p, to - 2), mid - 1, to),
         Merge(base, tail, from, to).status = "complete",
         NEW m \in Span(from, to), m <= to - 2
  PROVE  MergedHighs(base, tail)[m] = p[m]
PROOF
  <1> DEFINE old == ByOpen(base.candles)
             new == ByOpen(tail.candles)
  <1>1. m \in Int /\ from <= m /\ m <= to - 1 /\ 0 <= m
    BY DEF Span
  <1>2. /\ base.status = "complete" /\ tail.status = "complete"
        /\ m \in DOMAIN MergedHighs(base, tail)
    BY MergeStatus DEF ResultHolds
  <1>3. /\ base.candles \in Seq(Candles(p, mid - 2))
        /\ tail.candles \in Seq(Candles(p, to - 2)) /\ Contiguous(tail.candles, mid - 1, to)
    BY <1>2 DEF ResultHolds
  <1>4. MergedHighs(base, tail)[m] = IF m \in DOMAIN new THEN new[m] ELSE old[m]
    BY <1>2 DEF MergedHighs
  <1>5. m \in DOMAIN new \union DOMAIN old
    BY <1>2 DEF MergedHighs
  <1> HIDE DEF old, new
  <1>6. CASE m \in DOMAIN new
    <2>1. new[m] = p[m]
      <3>1. to - 2 \in Int
        OBVIOUS
      <3> QED BY <1>1, <1>3, <1>6, <3>1, HighOf DEF new
    <2> QED BY <1>4, <1>6, <2>1
  <1>7. CASE m \notin DOMAIN new
    <2>1. m \notin Span(mid - 1, to)
      <3>1. mid - 1 \in Int
        OBVIOUS
      <3> QED BY <1>3, <1>7, <3>1, ContiguousOpens DEF new
    <2>2. m <= mid - 2 /\ mid - 2 \in Int
      BY <1>1, <2>1 DEF Span
    <2>3. old[m] = p[m]
      BY <1>1, <1>3, <1>5, <1>7, <2>2, HighOf DEF old
    <2> QED BY <1>4, <1>7, <2>3
  <1> QED BY <1>6, <1>7

\* The candles of a merge have the merged highs.
LEMMA MergedCandles ==
  ASSUME NEW from \in Int, NEW to \in Int, NEW base, NEW tail
  PROVE  \E n \in Nat :
            /\ DOMAIN Merge(base, tail, from, to).candles = 1 .. n
            /\ \A i \in 1 .. n : Merge(base, tail, from, to).candles[i].high
                                    = MergedHighs(base, tail)[Merge(base, tail, from, to).candles[i].open]
PROOF
  <1>1. PICK both : both = MergedHighs(base, tail)
    OBVIOUS
  <1>2. PICK minutes : minutes = Span(from, to) \intersect DOMAIN both
    OBVIOUS
  <1>3. PICK n \in Nat : n = Cardinality(minutes)
    <2>1. IsFiniteSet(Span(from, to))
      <3>1. from \in Int /\ to - 1 \in Int
        OBVIOUS
      <3> QED BY <3>1, FS_Interval DEF Span
    <2>2. IsFiniteSet(minutes)
      BY <1>2, <2>1, FS_Subset
    <2> QED BY <2>2, FS_CardinalityType
  <1>4. PICK kept : kept = InOrder(minutes)
    OBVIOUS
  <1>5. DOMAIN kept = 1 .. n
    BY <1>3, <1>4 DEF InOrder
  <1>6. Merge(base, tail, from, to).candles
          = [i \in DOMAIN kept |-> [open |-> kept[i], high |-> both[kept[i]], sound |-> TRUE]]
    BY <1>1, <1>2, <1>4 DEF Merge, MergedHighs
  <1>7. PICK candles : candles = Merge(base, tail, from, to).candles
    OBVIOUS
  <1>8. DOMAIN candles = 1 .. n /\ \A i \in 1 .. n : candles[i].high = both[candles[i].open]
    BY <1>5, <1>6, <1>7
  <1> QED BY <1>1, <1>7, <1>8

AuditStatuses ==
  {"complete", "invalid_historical_barrier_evidence_range", "invalid_row", "duplicate_klines", "non_monotonic_klines",
   "out_of_range_klines", "partial_coverage", "historical_barrier_uncovered_entry_tail"}

\* Candles of a range that is not empty, one of every minute.
OneEach(candles, from, to) ==
  /\ ~ (from >= to) /\ Opens(candles) # <<>>
  /\ ToSet(Opens(candles)) = Span(from, to) /\ Cardinality(ToSet(Opens(candles))) = Len(Opens(candles))

\* An audit is complete only when there is a candle of every minute of the range.
LEMMA AuditStatusIn ==
  ASSUME NEW candles, NEW from, NEW to
  PROVE  /\ AuditStatus(candles, from, to) \in AuditStatuses
         /\ AuditStatus(candles, from, to) = "complete" => OneEach(candles, from, to)
PROOF
  <1> DEFINE opens == Opens(candles)
             badly == WellFormed(candles) # candles
             twice == Cardinality(ToSet(opens)) # Len(opens)
             disorder == ~ Increasing(opens)
             outside == ToSet(opens) \ Span(from, to) # {}
             partial == ToSet(opens) # Span(from, to)
             none == opens = <<>>
             empty == from >= to
  <1> HIDE DEF opens, badly, twice, disorder, outside, partial, none, empty
  <1>1. PICK c : c = << <<empty, "invalid_historical_barrier_evidence_range">>,
                   <<badly, "invalid_row">>,
                   <<twice, "duplicate_klines">>,
                   <<disorder, "non_monotonic_klines">>,
                   <<outside, "out_of_range_klines">>,
                   <<partial, "partial_coverage">>,
                   <<none, "historical_barrier_uncovered_entry_tail">> >>
    OBVIOUS
  <1>2. AuditStatus(candles, from, to) = FirstOf(c, "complete")
    BY <1>1 DEF AuditStatus, opens, badly, twice, disorder, outside, partial, none, empty
  <1>3. Len(c) = 7
    BY <1>1
  <1>4. /\ c[1][2] = "invalid_historical_barrier_evidence_range" /\ (c[1][1] <=> empty) /\ c[2][2] = "invalid_row"
        /\ c[3][2] = "duplicate_klines" /\ (c[3][1] <=> twice) /\ c[4][2] = "non_monotonic_klines"
        /\ c[5][2] = "out_of_range_klines" /\ c[6][2] = "partial_coverage" /\ (c[6][1] <=> partial)
        /\ c[7][2] = "historical_barrier_uncovered_entry_tail" /\ (c[7][1] <=> none)
    BY <1>1
  <1>5. \A i \in 1 .. 7 : i = 1 \/ i = 2 \/ i = 3 \/ i = 4 \/ i = 5 \/ i = 6 \/ i = 7
    OBVIOUS
  <1>6. FirstOf(c, "complete") \in AuditStatuses
    <2>1. /\ c[1][2] \in AuditStatuses /\ c[2][2] \in AuditStatuses /\ c[3][2] \in AuditStatuses
          /\ c[4][2] \in AuditStatuses /\ c[5][2] \in AuditStatuses /\ c[6][2] \in AuditStatuses
          /\ c[7][2] \in AuditStatuses
      BY <1>4 DEF AuditStatuses
    <2>2. NamesIn(c, 7, AuditStatuses)
      BY <1>5, <2>1 DEF NamesIn
    <2>3. "complete" \in AuditStatuses /\ 7 \in Nat
      BY DEF AuditStatuses
    <2> QED BY <1>3, <2>2, <2>3, FirstOfIn
  <1>7. ASSUME FirstOf(c, "complete") = "complete" PROVE ~ empty /\ ~ twice /\ ~ partial /\ ~ none
    <2>1. /\ c[1][2] # "complete" /\ c[2][2] # "complete" /\ c[3][2] # "complete" /\ c[4][2] # "complete"
          /\ c[5][2] # "complete" /\ c[6][2] # "complete" /\ c[7][2] # "complete"
      BY <1>4
    <2>2. NamedApart(c, 7, "complete")
      BY <1>5, <2>1 DEF NamedApart
    <2>3. 7 \in Nat /\ 7 <= 7 /\ 1 \in 1 .. 7 /\ 3 \in 1 .. 7 /\ 6 \in 1 .. 7 /\ 7 \in 1 .. 7
      OBVIOUS
    <2>4. NoneFails(c, 7)
      BY <1>3, <1>7, <2>2, <2>3, ChecksHold
    <2>5. ~ c[1][1] /\ ~ c[3][1] /\ ~ c[6][1] /\ ~ c[7][1]
      BY <2>3, <2>4 DEF NoneFails
    <2> QED BY <1>4, <2>5
  <1>8. ~ empty /\ ~ twice /\ ~ partial /\ ~ none => OneEach(candles, from, to)
    BY DEF OneEach, empty, twice, partial, none, opens
  <1> QED BY <1>2, <1>6, <1>7, <1>8

\* An audit that finds no first touch has seen no high at the barrier.
LEMMA TouchFound ==
  ASSUME NEW candles, NEW n \in Nat, DOMAIN candles = 1 .. n, NEW from \in Int, 0 <= from, NEW to \in Int, NEW threshold,
         ToSet(Opens(candles)) = Span(from, to), Audit(candles, from, to, threshold).touch = Never
  PROVE  \A i \in 1 .. n : ~ (candles[i].high >= threshold)
PROOF
  <1> DEFINE Touches(i) == candles[i].high >= threshold
             touching == {i \in DOMAIN candles : Touches(i)}
  <1>1. Audit(candles, from, to, threshold).touch = IF touching = {} THEN Never ELSE candles[Min(touching)].open
    BY DEF Audit
  <1>2. ASSUME touching # {} PROVE FALSE
    <2> HIDE DEF Touches
    <2>1. touching \subseteq Nat
      OBVIOUS
    <2>2. Min(touching) \in touching
      <3> HIDE DEF touching
      <3> QED BY <1>2, <2>1, MinIsLeast
    <2>3. Min(touching) \in 1 .. n
      BY <2>2
    <2>4. candles[Min(touching)].open \in ToSet(Opens(candles))
      <3> HIDE DEF touching
      <3> QED BY <2>3 DEF ToSet, Opens
    <2> HIDE DEF touching
    <2>5. Never \in Span(from, to)
      BY <1>1, <1>2, <2>4
    <2> QED BY <2>5 DEF Never, Span
  <1>3. ASSUME NEW i \in 1 .. n, Touches(i) PROVE FALSE
    <2> HIDE DEF Touches
    <2>1. i \in touching
      BY <1>3
    <2> QED BY <1>2, <2>1
  <1> QED BY <1>3

\* A history that discovery trusts.
Trusted(window, threshold, entry, result) ==
  /\ ~ (threshold <= 0) /\ result.source \in {"binance", "coinbase"}
  /\ result.from = window.from /\ PerMinute * result.to = entry
  /\ ~ (entry > window.expiry) /\ ~ (result.after < entry) /\ result.missing = {}
  /\ AuditStatus(result.candles, window.from, Minute(entry)) = "complete"

\* A history is verified only when it is complete, covers the window and has no touch.
LEMMA VerdictIn ==
  ASSUME NEW window, window.status = "verified", NEW threshold, NEW entry, NEW result, result.status \in HistoryStatuses
  PROVE  /\ Verdict(window, threshold, entry, result) # "shadow_entry"
         /\ Verdict(window, threshold, entry, result) = "verified" =>
               /\ result.status = "complete" /\ Trusted(window, threshold, entry, result)
               /\ OneEach(result.candles, window.from, Minute(entry))
               /\ Audit(result.candles, window.from, Minute(entry), threshold).touch = Never
PROOF
  <1>1. PICK audit : audit = Audit(result.candles, window.from, Minute(entry), threshold)
    OBVIOUS
  <1>2. audit.status = AuditStatus(result.candles, window.from, Minute(entry))
    BY <1>1 DEF Audit
  <1>3. /\ audit.status \in AuditStatuses
        /\ audit.status = "complete" => OneEach(result.candles, window.from, Minute(entry))
    BY <1>2, AuditStatusIn
  <1> DEFINE untrusted == window.status # "verified"
             level == threshold <= 0
             incomplete == result.status # "complete"
             sources == result.source \notin {"binance", "coinbase"}
             starts == result.from # window.from
             ends == PerMinute * result.to # entry
             expired == entry > window.expiry
             times == result.after < entry
             partial == result.missing # {}
             refused == audit.status # "complete"
             crossed == audit.touch # Never
  <1> HIDE DEF untrusted, level, incomplete, sources, starts, ends, expired, times, partial, refused, crossed
  <1>4. PICK c : c = << <<untrusted, window.status>>,
                   <<level, "invalid_barrier_threshold">>,
                   <<incomplete, result.status>>,
                   <<sources, "historical_evidence_source_mismatch">>,
                   <<starts, "historical_evidence_start_mismatch">>,
                   <<ends, "historical_evidence_end_mismatch">>,
                   <<expired, "historical_evidence_after_expiry">>,
                   <<times, "historical_evidence_server_time_before_entry">>,
                   <<partial, "partial_coverage">>,
                   <<refused, audit.status>>,
                   <<crossed, "barrier_already_crossed">> >>
    OBVIOUS
  <1>5. Verdict(window, threshold, entry, result) = FirstOf(c, "verified")
    BY <1>1, <1>4
       DEF Verdict, Minute, untrusted, level, incomplete, sources, starts, ends, expired, times, partial, refused, crossed
  <1>6. Len(c) = 11
    BY <1>4
  <1>7. /\ (c[1][1] <=> untrusted)
        /\ c[2][2] = "invalid_barrier_threshold" /\ (c[2][1] <=> level)
        /\ c[3][2] = result.status /\ (c[3][1] <=> incomplete)
        /\ c[4][2] = "historical_evidence_source_mismatch" /\ (c[4][1] <=> sources)
        /\ c[5][2] = "historical_evidence_start_mismatch" /\ (c[5][1] <=> starts)
        /\ c[6][2] = "historical_evidence_end_mismatch" /\ (c[6][1] <=> ends)
        /\ c[7][2] = "historical_evidence_after_expiry" /\ (c[7][1] <=> expired)
        /\ c[8][2] = "historical_evidence_server_time_before_entry" /\ (c[8][1] <=> times)
        /\ c[9][2] = "partial_coverage" /\ (c[9][1] <=> partial)
        /\ c[10][2] = audit.status /\ (c[10][1] <=> refused)
        /\ c[11][2] = "barrier_already_crossed" /\ (c[11][1] <=> crossed)
    BY <1>4
  <1>8. \A i \in 1 .. 11 : i = 1 \/ i = 2 \/ i = 3 \/ i = 4 \/ i = 5 \/ i = 6 \/ i = 7 \/ i = 8 \/ i = 9 \/ i = 10 \/ i = 11
    OBVIOUS
  <1>9. ~ untrusted
    BY DEF untrusted
  <1>10. /\ result.status # "shadow_entry" /\ result.status # "verified"
         /\ audit.status # "shadow_entry" /\ audit.status # "verified"
    BY <1>3 DEF AuditStatuses, HistoryStatuses, Statuses, PageErrors, Failures, Transient
  <1>11. ASSUME NEW name, name \in {"shadow_entry", "verified"} PROVE NamedApart(c, 11, name)
    <2>1. /\ ~ c[1][1] /\ c[2][2] # name /\ c[3][2] # name /\ c[4][2] # name /\ c[5][2] # name /\ c[6][2] # name
          /\ c[7][2] # name /\ c[8][2] # name /\ c[9][2] # name /\ c[10][2] # name /\ c[11][2] # name
      BY <1>7, <1>9, <1>10, <1>11
    <2> QED BY <1>8, <2>1 DEF NamedApart
  <1>12. FirstOf(c, "verified") # "shadow_entry"
    <2>1. NamedApart(c, 11, "shadow_entry") /\ 11 \in Nat
      BY <1>11
    <2> QED BY <1>6, <2>1, FirstOfNot
  <1>13. ASSUME FirstOf(c, "verified") = "verified"
         PROVE  /\ ~ incomplete /\ ~ refused /\ ~ crossed
                /\ ~ level /\ ~ sources /\ ~ starts /\ ~ ends /\ ~ expired /\ ~ times /\ ~ partial
    <2>1. NamedApart(c, 11, "verified")
      BY <1>11
    <2>2. /\ 11 \in Nat /\ 11 <= 11 /\ 2 \in 1 .. 11 /\ 3 \in 1 .. 11 /\ 4 \in 1 .. 11 /\ 5 \in 1 .. 11 /\ 6 \in 1 .. 11
          /\ 7 \in 1 .. 11 /\ 8 \in 1 .. 11 /\ 9 \in 1 .. 11 /\ 10 \in 1 .. 11 /\ 11 \in 1 .. 11
      OBVIOUS
    <2>3. NoneFails(c, 11)
      BY <1>6, <1>13, <2>1, <2>2, ChecksHold
    <2>4. /\ ~ c[2][1] /\ ~ c[3][1] /\ ~ c[4][1] /\ ~ c[5][1] /\ ~ c[6][1] /\ ~ c[7][1] /\ ~ c[8][1] /\ ~ c[9][1]
          /\ ~ c[10][1] /\ ~ c[11][1]
      BY <2>2, <2>3 DEF NoneFails
    <2> QED BY <1>7, <2>4
  <1>14. FirstOf(c, "verified") = "verified" => result.status = "complete" /\ audit.status = "complete" /\ audit.touch = Never
    BY <1>13 DEF incomplete, refused, crossed
  <1>15. /\ ~ refused /\ ~ level /\ ~ sources /\ ~ starts /\ ~ ends /\ ~ expired /\ ~ times /\ ~ partial
         => Trusted(window, threshold, entry, result)
    BY <1>2 DEF Trusted, refused, level, sources, starts, ends, expired, times, partial
  <1> QED BY <1>1, <1>3, <1>5, <1>12, <1>13, <1>14, <1>15

\* The evidence has the status of the verdict.
LEMMA EvidenceStatus ==
  ASSUME NEW window, NEW threshold, NEW entry, NEW result
  PROVE  Evidence(window, threshold, entry, result).status = Verdict(window, threshold, entry, result)
PROOF
  BY DEF Evidence, Artifact

-----------------------------------------------------------------------------
(* What is left in files, and what is believed of it *)

CandlesWithin(candles, a, b) == {j \in DOMAIN candles : candles[j].open \in Span(a, b)}

\* Of candles that are one of each minute of a range, a part of the range has as many as it has minutes.
LEMMA CountIn ==
  ASSUME NEW candles, NEW n \in Nat, DOMAIN candles = 1 .. n, NEW from \in Int, NEW to \in Int,
         OneEach(candles, from, to), NEW a \in Int, NEW b \in Int, from <= a, a <= b, b <= to
  PROVE  Cardinality(CandlesWithin(candles, a, b)) = b - a
PROOF
  <1>1. PICK opens : opens = Opens(candles)
    OBVIOUS
  <1>2. opens = [i \in 1 .. n |-> candles[i].open]
    BY <1>1 DEF Opens
  <1>3. ToSet(opens) = {opens[i] : i \in 1 .. n} /\ Len(opens) = n
    BY <1>2 DEF ToSet
  <1>4. ToSet(opens) = Span(from, to) /\ Cardinality(Span(from, to)) = n
    BY <1>1, <1>3 DEF OneEach
  <1>5. opens \in Surjection(1 .. n, Span(from, to))
    <2>1. Span(from, to) = {opens[i] : i \in 1 .. n}
      BY <1>3, <1>4
    <2>2. opens \in [1 .. n -> Span(from, to)]
      BY <1>2, <2>1
    <2>3. \A m \in Span(from, to) : \E i \in 1 .. n : opens[i] = m
      BY <2>1
    <2> QED BY <2>2, <2>3 DEF Surjection
  <1>6. IsFiniteSet(1 .. n) /\ Cardinality(1 .. n) = n
    <2>1. 1 \in Int /\ n \in Int
      OBVIOUS
    <2>2. IsFiniteSet(1 .. n) /\ Cardinality(1 .. n) = IF 1 > n THEN 0 ELSE n - 1 + 1
      BY <2>1, FS_Interval
    <2> QED BY <2>2
  <1>7. opens \in Injection(1 .. n, Span(from, to))
    BY <1>4, <1>5, <1>6, FS_SurjSameCardinalityImpliesInj
  <1>8. \A i, j \in 1 .. n : opens[i] = opens[j] => i = j
    BY <1>7 DEF Injection, IsInjective
  <1>9. PICK E : E = CandlesWithin(candles, a, b)
    OBVIOUS
  <1>10. E \subseteq 1 .. n /\ \A j \in 1 .. n : j \in E <=> opens[j] \in Span(a, b)
    BY <1>2, <1>9 DEF CandlesWithin
  <1>11. PICK f : f = [j \in E |-> opens[j]]
    OBVIOUS
  <1>12. f \in [E -> Span(a, b)]
    BY <1>10, <1>11
  <1>13. ASSUME NEW m \in Span(a, b) PROVE \E j \in E : f[j] = m
    <2>1. m \in Span(from, to)
      BY DEF Span
    <2>2. PICK j \in 1 .. n : opens[j] = m
      BY <1>3, <1>4, <2>1
    <2> QED BY <1>10, <1>11, <2>2
  <1>14. f \in Bijection(E, Span(a, b))
    <2>1. f \in Surjection(E, Span(a, b))
      BY <1>12, <1>13 DEF Surjection
    <2>2. f \in Injection(E, Span(a, b))
      BY <1>8, <1>10, <1>11, <1>12 DEF Injection, IsInjective
    <2> QED BY <2>1, <2>2 DEF Bijection
  <1>15. IsFiniteSet(E)
    BY <1>6, <1>10, FS_Subset
  <1>16. Cardinality(E) = Cardinality(Span(a, b))
    BY <1>14, <1>15, FS_Bijection DEF ExistsBijection
  <1> QED BY <1>9, <1>16, SpanSize

NoError(result) == result.error = ""

\* The pages of a merge, numbered anew.
Renumbered(pages) == [i \in DOMAIN pages |-> [pages[i] EXCEPT !.sequence = i]]

\* A merge is of the source of its parts, of the time of the tail, with the pages of both.
LEMMA MergedRecord ==
  ASSUME NEW base, NEW tail, NEW from, NEW to
  PROVE  /\ Merge(base, tail, from, to).source = base.source
         /\ Merge(base, tail, from, to).from = from /\ Merge(base, tail, from, to).to = to
         /\ Merge(base, tail, from, to).before = base.before /\ Merge(base, tail, from, to).after = tail.after
         /\ Merge(base, tail, from, to).pages = Renumbered(base.pages \o tail.pages)
PROOF
  BY DEF Merge, Renumbered

\* A complete merge has no error.
LEMMA MergedWell ==
  ASSUME NEW base, NEW tail, NEW from, NEW to, Merge(base, tail, from, to).status = "complete"
  PROVE  NoError(Merge(base, tail, from, to))
PROOF
  BY DEF Merge, NoError

\* A page counts in a longer range too.
LEMMA PageCountsIn ==
  ASSUME NEW audit, NEW from \in Int, NEW to \in Int, NEW first \in Int, NEW last \in Int, first <= from, to <= last,
         PageCounts(audit, from, to)
  PROVE  PageCounts(audit, first, last)
PROOF
  <1>1. /\ audit.from \in Int /\ audit.to \in Int /\ from <= audit.from /\ audit.from < audit.to /\ audit.to <= to
        /\ Audited(audit, audit, audit.to - audit.from)
    BY DEF PageCounts
  <1>2. first <= audit.from /\ audit.to <= last
    BY <1>1
  <1> QED BY <1>1, <1>2 DEF PageCounts

\* What _page_audit_reasons asks of a page.
PageStands(p, i, candles, from, to) ==
  /\ p.sequence = i /\ from <= p.from /\ p.from < p.to /\ p.to <= to
  /\ p.expected = p.to - p.from
  /\ p.received = Cardinality(CandlesWithin(candles, p.from, p.to))
  /\ p.attempts >= 1 /\ p.status = "complete" /\ p.error = ""

\* A page that counts, numbered anew, is believed.
LEMMA PageBelieved ==
  ASSUME NEW candles, NEW n \in Nat, DOMAIN candles = 1 .. n, NEW from \in Int, NEW to \in Int,
         OneEach(candles, from, to), NEW audit, PageCounts(audit, from, to), NEW i
  PROVE  /\ PageStands([audit EXCEPT !.sequence = i], i, candles, from, to)
         /\ [audit EXCEPT !.sequence = i].from = audit.from /\ [audit EXCEPT !.sequence = i].to = audit.to
PROOF
  <1>0. ASSUME NEW a \in Int, NEW b \in Int, from <= a, a <= b, b <= to
        PROVE  Cardinality(CandlesWithin(candles, a, b)) = b - a
    BY <1>0, CountIn
  <1>1. PICK p : p = [audit EXCEPT !.sequence = i]
    OBVIOUS
  <1>2. /\ audit.from \in Int /\ audit.to \in Int /\ from <= audit.from /\ audit.from < audit.to /\ audit.to <= to
        /\ Audited(audit, audit, audit.to - audit.from)
    BY DEF PageCounts
  <1>3. "sequence" \in DOMAIN audit /\ audit.expected = audit.to - audit.from /\ audit.received = audit.to - audit.from
        /\ audit.attempts >= 1 /\ audit.status = "complete"
    BY <1>2 DEF Audited
  <1>4. NoError(audit)
    BY <1>2 DEF Audited, NoError
  <1>5. /\ p.sequence = i /\ p.from = audit.from /\ p.to = audit.to /\ p.expected = audit.expected
        /\ p.received = audit.received /\ p.attempts = audit.attempts /\ p.status = audit.status /\ p.error = audit.error
    BY <1>1, <1>3, <1>2 DEF Audited
  <1>6. NoError(p)
    BY <1>4, <1>5 DEF NoError
  <1>7. Cardinality(CandlesWithin(candles, p.from, p.to)) = p.to - p.from
    <2>1. PICK a \in Int, b \in Int : a = p.from /\ b = p.to /\ from <= a /\ a < b /\ a <= b /\ b <= to
      BY <1>2, <1>5
    <2>2. Cardinality(CandlesWithin(candles, a, b)) = b - a
      BY <1>0, <2>1
    <2> QED BY <2>1, <2>2
  <1>8. /\ p.sequence = i /\ from <= p.from /\ p.from < p.to /\ p.to <= to /\ p.expected = p.to - p.from
        /\ p.received = p.to - p.from /\ p.attempts >= 1 /\ p.status = "complete"
    BY <1>2, <1>3, <1>5
  <1>9. PageStands(p, i, candles, from, to)
    BY <1>6, <1>7, <1>8 DEF PageStands, NoError
  <1> QED BY <1>1, <1>5, <1>9

\* The pages of a merge cover its range and are believed.
LEMMA MergedPages ==
  ASSUME NEW from \in Int, NEW mid \in Int, NEW to \in Int, from < mid, mid <= to, from < to,
         NEW old, NEW new, PagesCover(old, from, mid), PagesCover(new, mid - 1, to),
         NEW result, result.pages = Renumbered(old \o new),
         NEW n \in Nat, DOMAIN result.candles = 1 .. n, OneEach(result.candles, from, to)
  PROVE  PagesHold(result, from, to)
PROOF
  <1>1. PICK k \in Nat, l \in Nat : k = Len(old) /\ DOMAIN old = 1 .. k /\ l = Len(new) /\ DOMAIN new = 1 .. l
    BY DEF PagesCover
  <1>2. PICK all : all = old \o new
    OBVIOUS
  <1>3. /\ DOMAIN all = 1 .. (k + l)
        /\ \A i \in 1 .. k : all[i] = old[i]
        /\ \A i \in 1 .. l : all[k + i] = new[i]
    BY <1>1, <1>2 DEF PagesCover
  <1>4. ASSUME NEW i \in 1 .. (k + l), i \notin 1 .. k PROVE \E j \in 1 .. l : i = k + j
    <2>1. i - k \in 1 .. l /\ i = k + (i - k)
      BY <1>4
    <2> QED BY <2>1
  <1>5. ASSUME NEW i \in 1 .. (k + l) PROVE PageCounts(all[i], from, to)
    <2>1. CASE i \in 1 .. k
      <3>1. PageCounts(all[i], from, mid)
        BY <1>1, <1>3, <2>1 DEF PagesCover
      <3>2. from <= from
        OBVIOUS
      <3> QED BY <3>1, <3>2, PageCountsIn
    <2>2. CASE \E j \in 1 .. l : i = k + j
      <3>1. PageCounts(all[i], mid - 1, to)
        <4>1. PICK j \in 1 .. l : i = k + j
          BY <2>2
        <4>2. all[k + j] = new[j] /\ PageCounts(new[j], mid - 1, to)
          BY <1>1, <1>3 DEF PagesCover
        <4> QED BY <4>1, <4>2
      <3>2. from <= mid - 1 /\ mid - 1 \in Int /\ to <= to
        OBVIOUS
      <3> QED BY <3>1, <3>2, PageCountsIn
    <2> QED BY <1>4, <2>1, <2>2
  <1>6. PICK pages : pages = result.pages
    OBVIOUS
  <1>7. DOMAIN pages = 1 .. (k + l) /\ \A i \in 1 .. (k + l) : pages[i] = [all[i] EXCEPT !.sequence = i]
    BY <1>2, <1>3, <1>6 DEF Renumbered
  <1>8. ASSUME NEW i \in 1 .. (k + l) 
        PROVE  /\ PageStands(pages[i], i, result.candles, from, to)
               /\ pages[i].from = all[i].from /\ pages[i].to = all[i].to
    <2>1. PICK audit : audit = all[i]
      OBVIOUS
    <2>2. PICK candles : candles = result.candles
      OBVIOUS
    <2>3. PageCounts(audit, from, to) /\ pages[i] = [audit EXCEPT !.sequence = i]
      BY <1>5, <1>7, <2>1
    <2>4. DOMAIN candles = 1 .. n /\ OneEach(candles, from, to)
      BY <2>2
    <2>5. /\ PageStands([audit EXCEPT !.sequence = i], i, candles, from, to)
          /\ [audit EXCEPT !.sequence = i].from = audit.from /\ [audit EXCEPT !.sequence = i].to = audit.to
      BY <2>3, <2>4, PageBelieved
    <2> QED BY <2>1, <2>2, <2>3, <2>5
  <1>9. ASSUME NEW i \in 1 .. (k + l)
        PROVE  pages[i].from = all[i].from /\ pages[i].to = all[i].to /\ Span(pages[i].from, pages[i].to) \subseteq Span(from, to)
    <2>1. /\ all[i].from \in Int /\ all[i].to \in Int /\ from <= all[i].from /\ all[i].to <= to
      BY <1>5 DEF PageCounts
    <2>2. pages[i].from = all[i].from /\ pages[i].to = all[i].to
      BY <1>8
    <2> QED BY <2>1, <2>2 DEF Span
  <1>10. ASSUME NEW m \in Span(from, to) PROVE \E i \in 1 .. (k + l) : m \in Span(pages[i].from, pages[i].to)
    <2>1. m \in Int /\ (m \in Span(from, mid) \/ m \in Span(mid - 1, to))
      BY DEF Span
    <2>2. CASE m \in Span(from, mid)
      <3>1. PICK i \in 1 .. k : m \in Span(old[i].from, old[i].to)
        BY <1>1, <2>2 DEF PagesCover
      <3>2. i \in 1 .. (k + l) /\ all[i] = old[i]
        BY <1>3
      <3> QED BY <1>9, <3>1, <3>2
    <2>3. CASE m \in Span(mid - 1, to)
      <3>1. PICK i \in 1 .. l : m \in Span(new[i].from, new[i].to)
        BY <1>1, <2>3 DEF PagesCover
      <3>2. k + i \in 1 .. (k + l) /\ all[k + i] = new[i]
        BY <1>3
      <3> QED BY <1>9, <3>1, <3>2
    <2> QED BY <2>1, <2>2, <2>3
  <1>11. UNION {Span(pages[i].from, pages[i].to) : i \in DOMAIN pages} = Span(from, to)
    BY <1>7, <1>9, <1>10
  <1>12. pages # <<>>
    <2>1. from \in Span(from, to)
      BY DEF Span
    <2>2. \E i \in 1 .. (k + l) : TRUE
      BY <1>10, <2>1
    <2>3. DOMAIN pages # {}
      BY <1>7, <2>2
    <2> QED BY <2>3
  <1>13. \A i \in DOMAIN pages : PageStands(pages[i], i, result.candles, from, to)
    BY <1>7, <1>8
  <1>14. /\ result.pages # <<>>
         /\ \A i \in DOMAIN result.pages : PageStands(result.pages[i], i, result.candles, from, to)
         /\ UNION {Span(result.pages[i].from, result.pages[i].to) : i \in DOMAIN result.pages} = Span(from, to)
    BY <1>6, <1>11, <1>12, <1>13
  <1> QED BY <1>14 DEF PagesHold, PageStands, CandlesWithin

\* Where no condition holds there is no reason.
LEMMA NoReasons ==
  ASSUME NEW checks, \A d \in checks : ~ d[1]
  PROVE  ReasonsOf(checks) = {}
PROOF
  BY DEF ReasonsOf

\* The row says what its evidence must say.
LEMMA RowSays ==
  ASSUME NEW row, NEW e, row.evidence = e, e.source = "binance", ~ (row.threshold <= 0), ~ (PerMinute * e.from >= e.to),
         ~ (e.to > row.expiry), row.entry = e.to, ~ (e.findings.count <= 0), ~ (e.findings.expected <= 0),
         e.findings.missing = {}, e.findings.touch = Never
  PROVE  RowReasons(row) = {}
PROOF
  <1> DEFINE source == e.source # "binance"
             level == row.threshold <= 0
             range == PerMinute * e.from >= e.to
             late == e.to > row.expiry
             entry == row.entry # e.to
             count == e.findings.count <= 0
             expected == e.findings.expected <= 0
             partial == e.findings.missing # {}
             crossed == e.findings.touch # Never
  <1>1. ~ source /\ ~ level /\ ~ range /\ ~ late /\ ~ entry /\ ~ count /\ ~ expected /\ ~ partial /\ ~ crossed
    OBVIOUS
  <1> DEFINE checks == {
            <<source, "historical_barrier_evidence_source_mismatch">>,
            <<level, "invalid_barrier_threshold">>,
            <<range, "invalid_historical_barrier_evidence_range">>,
            <<late, "historical_barrier_evidence_after_expiry">>,
            <<entry, "historical_barrier_entry_time_mismatch">>,
            <<count, "invalid_historical_barrier_evidence_candle_count">>,
            <<expected, "invalid_historical_barrier_expected_candle_count">>,
            <<partial, "historical_barrier_evidence_has_missing_ranges">>,
            <<crossed, "verified_historical_barrier_evidence_has_crossing">>}
  <1>2. RowReasons(row) = ReasonsOf(checks)
    BY DEF RowReasons
  <1> HIDE DEF source, level, range, late, entry, count, expected, partial, crossed
  <1>3. \A d \in checks : ~ d[1]
    BY <1>1
  <1> HIDE DEF checks
  <1> QED BY <1>2, <1>3, NoReasons

\* The rules in the row are those of the artifact.
LEMMA RulesBind ==
  ASSUME NEW row, NEW e, row.evidence = e, row.window.status = "verified", row.window = e.artifact.window,
         e.window = e.artifact.window, row.window.from = e.from, row.window.expiry = row.expiry
  PROVE  WindowReasons(row) = {}
PROOF
  <1> DEFINE artifact == e.artifact
             untrusted == row.window.status # "verified"
             unbound == row.window # artifact.window \/ row.evidence.window # artifact.window
             start == row.window.from # row.evidence.from
             expiry == row.window.expiry # row.expiry
  <1>1. ~ untrusted /\ ~ unbound /\ ~ start /\ ~ expiry
    OBVIOUS
  <1> DEFINE checks == {
            <<untrusted, row.window.status>>,
            <<unbound, "historical_barrier_rule_window_artifact_binding_mismatch">>,
            <<start, "historical_barrier_evidence_start_mismatch">>,
            <<expiry, "historical_barrier_rule_window_expiry_mismatch">>}
  <1>2. WindowReasons(row) = ReasonsOf(checks)
    BY DEF WindowReasons
  <1> HIDE DEF untrusted, unbound, start, expiry
  <1>3. \A d \in checks : ~ d[1]
    BY <1>1
  <1> HIDE DEF checks
  <1> QED BY <1>2, <1>3, NoReasons

\* A file written whole can be read.
LEMMA FileRead ==
  ASSUME NEW files, NEW directory, NEW digest, File(directory, digest, TRUE) \in files
  PROVE  ReadError(files, directory, digest) = ""
PROOF
  <1>1. PICK f \in files : f.directory = directory /\ f.digest = digest /\ f.whole = TRUE
    BY DEF File
  <1> QED BY <1>1 DEF ReadError

\* A row whose own words, rules and files are in order is believed.
LEMMA RowBelieved ==
  ASSUME NEW row, NEW e, row.evidence = e, e.status = "verified", RowReasons(row) = {}, WindowReasons(row) = {}
  PROVE  IntegrityReasons(row, FilesOf(e)) = FileReasons(row)
PROOF
  <1> DEFINE evidence == ReadError(FilesOf(e), "evidence", row.evidence.artifact) # ""
             candles == ReadError(FilesOf(e), "candles", row.evidence.snapshot) # ""
             checks == {<<evidence, "historical_barrier_evidence_artifact_mismatch">>,
                        <<candles, "historical_barrier_candle_snapshot_mismatch">>}
  <1>1. ~ evidence /\ ~ candles
    <2>1. /\ File("evidence", row.evidence.artifact, TRUE) \in FilesOf(e)
          /\ File("candles", row.evidence.snapshot, TRUE) \in FilesOf(e)
      BY DEF FilesOf
    <2>2. ~ evidence
      BY <2>1, FileRead
    <2>3. ~ candles
      BY <2>1, FileRead
    <2> QED BY <2>2, <2>3
  <1>2. IntegrityReasons(row, FilesOf(e)) = IF ReasonsOf(checks) # {} THEN ReasonsOf(checks) ELSE FileReasons(row)
    BY DEF IntegrityReasons
  <1> HIDE DEF evidence, candles
  <1>3. \A d \in checks : ~ d[1]
    BY <1>1
  <1> HIDE DEF checks
  <1> QED BY <1>2, <1>3, NoReasons

\* The artifact and the candles say what the row says, and were served by Binance.
LEMMA FilesBind ==
  ASSUME NEW row, NEW e, NEW a, NEW s, NEW audit, row.evidence = e, e.artifact = a, e.snapshot = s,
         audit = Audit(s.candles, e.from, e.to \div PerMinute, row.threshold),
         a.source = s.source, a.entry = e.to, a.snapshot = s, a.status = "verified", a.findings = e.findings,
         e.findings = Findings(audit, s), e.findings.touch = Never, a.threshold = row.threshold,
         s.from = e.from, PerMinute * s.to = e.to, NoError(s), ~ (s.after < s.before), ~ (s.after < e.to),
         PagesHold(s, e.from, e.to \div PerMinute), audit.status = "complete", s.status = "complete",
         a.fetchStatus = s.status, s.missing = audit.missing, a.audit = audit, audit.touch = Never
  PROVE  FileReasons(row) = {} <=> s.source = "binance"
PROOF
  <1> DEFINE unbound == a.source # "binance" \/ a.entry # e.to \/ a.snapshot # s \/ a.status # "verified"
                          \/ a.findings.count # e.findings.count \/ a.findings.expected # e.findings.expected
                          \/ a.findings.missing # e.findings.missing \/ a.findings.touch # Never
             level == a.threshold # row.threshold
             snapshot == s.source # "binance" \/ s.from # e.from \/ PerMinute * s.to # e.to \/ s.error # ""
             times == s.after < s.before \/ s.after < e.to
             pages == ~ PagesHold(s, e.from, e.to \div PerMinute)
             refused == audit.status # "complete"
             status == s.status # audit.status \/ a.fetchStatus # s.status
             report == s.missing # audit.missing \/ a.audit # audit
             crossed == audit.touch # Never
             candidate == e.findings # Findings(audit, s)
             checks == {
            <<unbound, "historical_barrier_evidence_artifact_binding_mismatch">>,
            <<level, "historical_barrier_evidence_threshold_mismatch">>,
            <<snapshot, "historical_barrier_candle_snapshot_binding_mismatch">>,
            <<times, "historical_barrier_candle_server_time_mismatch">>,
            <<pages, "historical_barrier_candle_page_audit_mismatch">>,
            <<refused, audit.status>>,
            <<status, "historical_barrier_candle_snapshot_status_mismatch">>,
            <<report, "historical_barrier_evidence_report_mismatch">>,
            <<crossed, "barrier_already_crossed">>,
            <<candidate, "historical_barrier_candidate_mismatch">>}
  <1>1. ~ level /\ ~ times /\ ~ pages /\ ~ refused /\ ~ status /\ ~ report /\ ~ crossed /\ ~ candidate
    OBVIOUS
  <1>2. s.source = "binance" => ~ unbound
    OBVIOUS
  <1>3. s.source = "binance" => ~ snapshot
    BY DEF NoError
  <1>4. s.source # "binance" => unbound
    OBVIOUS
  <1>5. FileReasons(row) = ReasonsOf(checks)
    BY DEF FileReasons
  <1> HIDE DEF unbound, level, snapshot, times, pages, refused, status, report, crossed, candidate
  <1>6. CASE s.source = "binance"
    <2>1. \A d \in checks : ~ d[1]
      BY <1>1, <1>2, <1>3, <1>6
    <2> HIDE DEF checks
    <2> QED BY <1>5, <1>6, <2>1, NoReasons
  <1>7. CASE s.source # "binance"
    <2>1. PICK d \in checks : d = <<unbound, "historical_barrier_evidence_artifact_binding_mismatch">>
      OBVIOUS
    <2>2. d[1]
      BY <1>4, <1>7, <2>1
    <2> HIDE DEF checks
    <2>3. d[2] \in ReasonsOf(checks)
      BY <2>2 DEF ReasonsOf
    <2> QED BY <1>5, <1>7, <2>3
  <1> QED BY <1>6, <1>7

\* The row of a market with its history, as the validator reads it.
HistoryRow(window, threshold, entry, expiry, evidence) ==
  [entry |-> entry, threshold |-> threshold, expiry |-> expiry, window |-> window, evidence |-> evidence]

\* A complete, trusted history of sound pages.
Sound(window, threshold, entry, result) ==
  /\ window.status = "verified" /\ Verdict(window, threshold, entry, result) = "verified"
  /\ result.status = "complete" /\ Trusted(window, threshold, entry, result)
  /\ OneEach(result.candles, window.from, Minute(entry))
  /\ Audit(result.candles, window.from, Minute(entry), threshold).touch = Never
  /\ PagesHold(result, window.from, Minute(entry)) /\ NoError(result) /\ ~ (result.after < result.before)

\* The validator believes the row of a sound history if Binance served it: the
\* evidence names Binance, and so must the artifact and the candles.
LEMMA HistoryBelieved ==
  ASSUME NEW window, NEW threshold, NEW entry \in Int, NEW result, window.from \in Int,
         NEW n \in Nat, DOMAIN result.candles = 1 .. n, Sound(window, threshold, entry, result)
  PROVE  IntegrityReasons(HistoryRow(window, threshold, entry, window.expiry, Evidence(window, threshold, entry, result)),
                          FilesOf(Evidence(window, threshold, entry, result))) = {}
         <=> result.source = "binance"
PROOF
  <1>1. PICK minute \in Int : minute = Minute(entry) /\ minute = entry \div PerMinute
    BY MinuteOf DEF Minute
  <1>2. PICK from \in Int : from = window.from
    OBVIOUS
  <1>3. PICK audit : audit = Audit(result.candles, from, minute, threshold)
    OBVIOUS
  <1>4. PICK a : a = Artifact(window, threshold, entry, result)
    OBVIOUS
  <1>5. PICK e : e = Evidence(window, threshold, entry, result)
    OBVIOUS
  <1>6. PICK row : row = HistoryRow(window, threshold, entry, window.expiry, e)
    OBVIOUS
  <1>7. /\ window.status = "verified" /\ Verdict(window, threshold, entry, result) = "verified"
        /\ result.status = "complete" /\ Trusted(window, threshold, entry, result)
        /\ OneEach(result.candles, from, minute) /\ audit.touch = Never
        /\ PagesHold(result, from, minute) /\ NoError(result) /\ ~ (result.after < result.before)
    BY <1>1, <1>2, <1>3 DEF Sound
  <1>8. /\ a.source = result.source /\ a.window = window /\ a.threshold = threshold /\ a.entry = entry
        /\ a.fetchStatus = result.status /\ a.snapshot = result /\ a.status = "verified"
        /\ a.audit = audit /\ a.findings = Findings(audit, result)
    BY <1>1, <1>2, <1>3, <1>4, <1>7 DEF Artifact
  <1>9. /\ e.status = a.status /\ e.source = "binance" /\ e.from = from /\ e.to = entry
        /\ e.window = window /\ e.artifact = a /\ e.snapshot = result /\ e.findings = a.findings
    BY <1>2, <1>4, <1>5 DEF Evidence
  <1>10. /\ row.entry = entry /\ row.threshold = threshold /\ row.expiry = window.expiry /\ row.window = window
         /\ row.evidence = e
    BY <1>6 DEF HistoryRow
  <1>11. /\ ~ (from >= minute) /\ ToSet(Opens(result.candles)) = Span(from, minute) /\ Opens(result.candles) # <<>>
    BY <1>7 DEF OneEach
  <1>12. /\ audit.status = "complete" /\ audit.missing = {} /\ audit.expected = minute - from
    <2>1. audit.status = "complete"
      BY <1>1, <1>2, <1>3, <1>7 DEF Audit, Trusted
    <2>2. audit.missing = {}
      BY <1>3, <1>11 DEF Audit
    <2>3. audit.expected = minute - from
      BY <1>3, <1>11 DEF Audit
    <2> QED BY <2>1, <2>2, <2>3
  <1>13. /\ ~ (threshold <= 0) /\ result.from = from /\ PerMinute * result.to = entry /\ ~ (entry > window.expiry)
         /\ ~ (result.after < entry) /\ result.missing = {}
    BY <1>2, <1>7 DEF Trusted
  <1>14. /\ e.findings.count = n /\ e.findings.expected = minute - from /\ e.findings.missing = {} /\ e.findings.touch = Never
    <2>1. Len(result.candles) = n
      OBVIOUS
    <2>2. PICK f : f = Findings(audit, result)
      OBVIOUS
    <2>3. f.expected = audit.expected /\ f.count = n /\ f.missing = result.missing /\ f.touch = audit.touch
      BY <2>1, <2>2 DEF Findings
    <2> QED BY <1>7, <1>8, <1>9, <1>12, <1>13, <2>2, <2>3
  <1>15. ~ (n <= 0) /\ ~ (minute - from <= 0) /\ ~ (PerMinute * from >= entry)
    <2>1. n # 0
      <3>1. Opens(result.candles) = [i \in 1 .. n |-> result.candles[i].open]
        BY DEF Opens
      <3> QED BY <1>11, <3>1
    <2>2. PerMinute * from < PerMinute * minute
      <3>1. PerMinute \in Nat \ {0}
        BY KlinesAssumption
      <3> QED BY <1>11, <3>1
    <2>3. PerMinute * minute <= entry
      BY <1>1, MinuteOf
    <2>4. PerMinute * from \in Int /\ PerMinute * minute \in Int
      BY KlinesAssumption
    <2> QED BY <1>11, <2>1, <2>2, <2>3, <2>4
  <1>16. RowReasons(row) = {}
    BY <1>9, <1>10, <1>13, <1>14, <1>15, RowSays
  <1>17. WindowReasons(row) = {}
    BY <1>2, <1>7, <1>8, <1>9, <1>10, RulesBind
  <1>18. FileReasons(row) = {} <=> result.source = "binance"
    <2>1. audit = Audit(result.candles, e.from, e.to \div PerMinute, row.threshold)
      BY <1>1, <1>3, <1>9, <1>10
    <2>2. PagesHold(result, e.from, e.to \div PerMinute)
      BY <1>1, <1>7, <1>9
    <2>3. result.missing = audit.missing
      BY <1>12, <1>13
    <2>4. row.evidence = e /\ e.artifact = a /\ e.snapshot = result
      BY <1>9, <1>10
    <2>5. /\ a.source = result.source /\ a.entry = e.to /\ a.snapshot = result /\ a.status = "verified"
          /\ a.findings = e.findings /\ e.findings = Findings(audit, result) /\ e.findings.touch = Never
          /\ a.threshold = row.threshold /\ a.fetchStatus = result.status /\ a.audit = audit
      BY <1>8, <1>9, <1>10, <1>14
    <2>6. /\ result.from = e.from /\ PerMinute * result.to = e.to /\ NoError(result)
          /\ ~ (result.after < result.before) /\ ~ (result.after < e.to)
      BY <1>7, <1>9, <1>13
    <2>7. audit.status = "complete" /\ result.status = "complete" /\ audit.touch = Never
      BY <1>7, <1>12
    <2> HIDE <1>8, <1>9, <1>10, <1>14
    <2> QED BY <2>1, <2>2, <2>3, <2>4, <2>5, <2>6, <2>7, FilesBind
  <1>19. IntegrityReasons(row, FilesOf(e)) = FileReasons(row)
    BY <1>8, <1>9, <1>10, <1>16, <1>17, RowBelieved
  <1> QED BY <1>5, <1>6, <1>18, <1>19

-----------------------------------------------------------------------------
(* What is recommended *)

\* A barrier that fails is a reason against the entry.
LEMMA BarrierFailureIn ==
  ASSUME NEW m, NEW spot
  PROVE  BarrierFailure(m, spot) # "shadow_entry"
PROOF
  <1> DEFINE unknown == Barrier(m) = "unknown"
             crossed == /\ Kind(m) = "touch_before_expiry" /\ spot > 0
                        /\ (IF Barrier(m) = "up" THEN spot >= ThresholdPrice(m) ELSE spot <= ThresholdPrice(m))
  <1> HIDE DEF unknown, crossed
  <1>1. PICK c : c = << <<unknown, "unverifiable_barrier_direction">>, <<crossed, "already_crossed_barrier">> >>
    OBVIOUS
  <1>2. BarrierFailure(m, spot) = FirstOf(c, "")
    BY <1>1 DEF BarrierFailure, FirstFailure, unknown, crossed
  <1>3. Len(c) = 2 /\ c[1][2] = "unverifiable_barrier_direction" /\ c[2][2] = "already_crossed_barrier"
    BY <1>1
  <1>4. \A i \in 1 .. 2 : i = 1 \/ i = 2
    OBVIOUS
  <1>5. NamedApart(c, 2, "shadow_entry") /\ 2 \in Nat
    BY <1>3, <1>4 DEF NamedApart
  <1> QED BY <1>2, <1>3, <1>5, FirstOfNot

\* An entry is recommended only on timely evidence, and into a touch market
\* only when its history is verified.
LEMMA ActionNeeds ==
  ASSUME NEW m, NEW quotes, NEW spot, NEW now, NEW history, NEW timing,
         history # "shadow_entry", timing # "shadow_entry",
         Action(m, quotes, spot, now, history, timing) = "shadow_entry"
  PROVE  timing = "" /\ (Kind(m) = "touch_before_expiry" => history = "verified")
PROOF
  <1> DEFINE edge == Edge(m, quotes, spot, now)
             dark == spot <= 0
             barred == BarrierFailure(m, spot) # ""
             unproved == Kind(m) = "touch_before_expiry" /\ history # "verified"
             late == timing # ""
             noAsk == edge.ask <= 0
             parser == ParserConfidence(m) < 75
             thin == Depth(quotes) < 1
             wide == WiderSpread(quotes) > 5
             small == edge.edge <= MinEdge
             unsure == Confidence(m, quotes, spot, now) < MinConfidence
             expiry == ExpiryStatus(m) # "verified"
             resolution == ResolutionStatus(m) # "verified"
  <1> HIDE DEF edge, dark, barred, unproved, late, noAsk, parser, thin, wide, small, unsure, expiry, resolution
  <1>1. PICK c : c = <<
            <<dark, "missing_spot_price">>,
            <<barred, BarrierFailure(m, spot)>>,
            <<unproved, history>>,
            <<late, timing>>,
            <<noAsk, "missing_side_ask">>,
            <<parser, "low_parser_confidence">>,
            <<thin, "insufficient_depth">>,
            <<wide, "spread_too_wide">>,
            <<small, "edge_too_low">>,
            <<unsure, "confidence_too_low">>,
            <<expiry, ExpiryStatus(m)>>,
            <<resolution, ResolutionStatus(m)>> >>
    OBVIOUS
  <1>2. Action(m, quotes, spot, now, history, timing) = FirstOf(c, "shadow_entry")
    BY <1>1 DEF Action, edge, dark, barred, unproved, late, noAsk, parser, thin, wide, small, unsure, expiry, resolution
  <1>3. Len(c) = 12
    BY <1>1
  <1>4. /\ c[1][2] = "missing_spot_price" /\ c[2][2] = BarrierFailure(m, spot)
        /\ c[3][2] = history /\ (c[3][1] <=> unproved) /\ c[4][2] = timing /\ (c[4][1] <=> late)
    BY <1>1
  <1>5. \A i \in 1 .. 4 : i = 1 \/ i = 2 \/ i = 3 \/ i = 4
    OBVIOUS
  <1>6. c[1][2] # "shadow_entry" /\ c[2][2] # "shadow_entry" /\ c[3][2] # "shadow_entry" /\ c[4][2] # "shadow_entry"
    BY <1>4, BarrierFailureIn
  <1>7. NamedApart(c, 4, "shadow_entry")
    BY <1>5, <1>6 DEF NamedApart
  <1>8. 4 \in Nat /\ 12 \in Nat /\ 4 <= 12 /\ 3 \in 1 .. 4 /\ 4 \in 1 .. 4
    OBVIOUS
  <1>9. NoneFails(c, 4)
    BY <1>2, <1>3, <1>7, <1>8, ChecksHold
  <1>10. ~ c[3][1] /\ ~ c[4][1]
    BY <1>8, <1>9 DEF NoneFails
  <1>11. ~ unproved /\ ~ late
    BY <1>4, <1>10
  <1> QED BY <1>11 DEF unproved, late

\* An entry is in time when the spot price and the book are.
LEMMA TimingIn ==
  ASSUME NEW m
  PROVE  /\ Timing(m) # "shadow_entry"
         /\ Timing(m) = "" => Timely(batch.spot) /\ Timely(batch.books[m])
PROOF
  <1> DEFINE spot == Timely(batch.spot)
             book == Timely(batch.books[m])
  <1> HIDE DEF spot, book
  <1>1. PICK c : c = << <<~ spot, "spot_timestamp">>, <<~ book, "orderbook_timestamp">> >>
    OBVIOUS
  <1>2. Timing(m) = FirstOf(c, "")
    BY <1>1 DEF Timing, FirstFailure, spot, book
  <1>3. /\ Len(c) = 2 /\ c[1][2] = "spot_timestamp" /\ c[2][2] = "orderbook_timestamp"
        /\ (c[1][1] <=> ~ spot) /\ (c[2][1] <=> ~ book)
    BY <1>1
  <1>4. \A i \in 1 .. 2 : i = 1 \/ i = 2
    OBVIOUS
  <1>5. NamedApart(c, 2, "shadow_entry") /\ NamedApart(c, 2, "")
    BY <1>3, <1>4 DEF NamedApart
  <1>6. 2 \in Nat /\ 2 <= 2 /\ 1 \in 1 .. 2 /\ 2 \in 1 .. 2
    OBVIOUS
  <1>7. FirstOf(c, "") # "shadow_entry"
    BY <1>3, <1>5, <1>6, FirstOfNot
  <1>8. ASSUME FirstOf(c, "") = "" PROVE spot /\ book
    <2>1. NoneFails(c, 2)
      BY <1>3, <1>5, <1>6, <1>8, ChecksHold
    <2>2. ~ c[1][1] /\ ~ c[2][1]
      BY <1>6, <2>1 DEF NoneFails
    <2> QED BY <1>3, <2>2
  <1> QED BY <1>2, <1>7, <1>8 DEF spot, book

\* A verified window has a start, and ends at the market's expiry.
LEMMA WindowFrom ==
  ASSUME NEW m \in Markets, Window(m).status = "verified"
  PROVE  Window(m).from \in Nat /\ Window(m).expiry = ExpiryTime(m)
PROOF
  <1> DEFINE noStart == Text[m].ruleStart = NoTime
             twoWindows == "two_windows" \in Text[m].faults
             noExpiry == ExpiryTime(m) = NoTime
             mismatch == Text[m].ruleEnd # ExpiryTime(m)
  <1> HIDE DEF noStart, twoWindows, noExpiry, mismatch
  <1>1. PICK c : c = << <<noStart, "missing_explicit_rule_start_time">>,
                        <<twoWindows, "conflicting_explicit_rule_windows">>,
                        <<noExpiry, "missing_or_invalid_expected_expiry">>,
                        <<mismatch, "rule_window_expiry_mismatch">> >>
    OBVIOUS
  <1>2. PICK window : window = Window(m)
    OBVIOUS
  <1>3. window.from = Text[m].ruleStart /\ window.expiry = Text[m].ruleEnd /\ window.status = FirstOf(c, "verified")
    BY <1>1, <1>2 DEF Window, StatusAfter, noStart, twoWindows, noExpiry, mismatch
  <1>4. /\ Len(c) = 4 /\ c[1][2] = "missing_explicit_rule_start_time" /\ (c[1][1] <=> noStart)
        /\ c[2][2] = "conflicting_explicit_rule_windows" /\ c[3][2] = "missing_or_invalid_expected_expiry"
        /\ c[4][2] = "rule_window_expiry_mismatch" /\ (c[4][1] <=> mismatch)
    BY <1>1
  <1>5. \A i \in 1 .. 4 : i = 1 \/ i = 2 \/ i = 3 \/ i = 4
    OBVIOUS
  <1>6. NamedApart(c, 4, "verified")
    BY <1>4, <1>5 DEF NamedApart
  <1>7. 4 \in Nat /\ 4 <= 4 /\ 1 \in 1 .. 4 /\ 4 \in 1 .. 4
    OBVIOUS
  <1>8. FirstOf(c, "verified") = "verified"
    BY <1>2, <1>3
  <1>9. NoneFails(c, 4)
    BY <1>4, <1>6, <1>7, <1>8, ChecksHold
  <1>10. ~ noStart /\ ~ mismatch
    BY <1>4, <1>7, <1>9 DEF NoneFails
  <1>11. Text[m].ruleStart \in Nat \union {NoTime}
    BY DiscoveryAssumption
  <1>12. Text[m].ruleStart # NoTime
    BY <1>10 DEF noStart
  <1>13. Text[m].ruleEnd = ExpiryTime(m)
    BY <1>10 DEF mismatch
  <1> QED BY <1>2, <1>3, <1>11, <1>12, <1>13

-----------------------------------------------------------------------------
(* The inductive invariant *)

PreloadMinute == Minute(batch.preloadEnd)
EntryMinute == Minute(batch.entry)

\* What a row rests on: the minutes it speaks of are over.
RowHolds(row, high) ==
  /\ row.entry \in Int /\ row.entry <= clock /\ row.entry <= MaxClock + PerMinute
  /\ row.oldest \in Feed!Evidence(row.entry)
  /\ row.market \in TouchMarkets =>
        /\ Window(row.market).from \in Nat
        /\ \A m \in Window(row.market).from .. (Minute(row.entry) - 2) : high[m] < ThresholdPrice(row.market)

BatchFields == {"stage", "eligible", "preloadEnd", "base", "entry", "spot", "books", "tail", "rows"}
Stages == {"idle", "preloading", "preloaded", "observing", "closing", "writing"}

BatchTyped ==
  /\ DOMAIN batch = BatchFields /\ batch.stage \in Stages
  /\ batch.eligible \subseteq Tradable
  /\ batch.preloadEnd \in Nat /\ batch.entry \in Nat
  /\ DOMAIN batch.base = Starts
  /\ batch.spot.at \in Int
  /\ DOMAIN batch.books = Markets /\ \A m \in Markets : batch.books[m].at \in Int

MarketTyped ==
  /\ clock \in Nat /\ offset \in Offsets
  /\ price \in Levels /\ peak \in [Minutes -> Levels]

\* The preload ends in the past, the entry is after it, and what closes is
\* after the entry.
Timeline ==
  /\ batch.preloadEnd <= clock /\ batch.preloadEnd <= MaxClock
  /\ batch.stage \in {"preloading", "preloaded"} => clock <= MaxClock
  /\ batch.stage \in {"observing", "closing"} => batch.preloadEnd < batch.entry /\ batch.entry <= MaxClock + PerMinute
  /\ batch.stage = "closing" => batch.entry <= clock

\* Of the base, all but the last minute is as the exchange has it; of the tail,
\* all but the last.
BaseHolds ==
  \A s \in Starts : batch.base[s] # NotAsked =>
     /\ s \in Nat /\ s < PreloadMinute
     /\ batch.stage = "preloaded" =>
           RequestHolds(batch.base[s], Candles(peak, PreloadMinute - 2), s, PreloadMinute)
     /\ batch.stage \in {"observing", "closing"} =>
           ResultHolds(batch.base[s], Candles(peak, PreloadMinute - 2), s, PreloadMinute)

TailHolds ==
  batch.stage = "closing" =>
     \/ batch.tail = NotAsked
     \/ RequestHolds(batch.tail, Candles(peak, EntryMinute - 2), PreloadMinute - 1, EntryMinute)

RowsHold == \A row \in candidates \union batch.rows : RowHolds(row, peak)

DiscoveryInv == MarketTyped /\ BatchTyped /\ Timeline /\ BaseHolds /\ TailHolds /\ RowsHold

\* Only markets are traded.
LEMMA TradableMarkets == Tradable \subseteq Markets
PROOF
  BY DEF Tradable, EligibleAmong

\* The invariant is stronger than the property.
LEMMA InvExcludesTouches == DiscoveryInv => EntriesUncrossed
PROOF
  <1> SUFFICES ASSUME DiscoveryInv PROVE EntriesUncrossed
    OBVIOUS
  <1>1. DiscoveryTypeOK
    BY DEF DiscoveryInv, MarketTyped, BatchTyped, Timeline, RowsHold, RowHolds, DiscoveryTypeOK, Stages
  <1>2. ASSUME NEW c \in candidates, c.market \in TouchMarkets,
               NEW m \in Window(c.market).from .. (Minute(c.entry) - 2)
        PROVE  peak[m] < ThresholdPrice(c.market)
    BY <1>2 DEF DiscoveryInv, RowsHold, RowHolds
  <1> QED BY <1>1, <1>2 DEF EntriesUncrossed

\* Timely evidence precedes the entry by a minute at most.
LEMMA OldestIn ==
  ASSUME BatchTyped, NEW m \in Markets, Timely(batch.spot), Timely(batch.books[m])
  PROVE  Oldest(m) \in Feed!Evidence(batch.entry)
PROOF
  <1>1. PICK a \in Int, b \in Int, e \in Int : a = batch.spot.at /\ b = batch.books[m].at /\ e = batch.entry
    BY DEF BatchTyped
  <1>2. PerMinute \in Int
    BY KlinesAssumption
  <1>3. a \in (e - PerMinute) .. e /\ b \in (e - PerMinute) .. e
    BY <1>1, <1>2 DEF Timely
  <1>4. Min({a, b}) \in {a, b}
    <2>1. \E x \in {a, b} : \A y \in {a, b} : x <= y
      <3>1. a <= b \/ b <= a
        OBVIOUS
      <3> QED BY <3>1
    <2> QED BY <2>1 DEF Min
  <1>5. Oldest(m) = Min({a, b})
    BY <1>1 DEF Oldest
  <1> QED BY <1>1, <1>3, <1>4, <1>5 DEF Feed!Evidence

\* The minutes up to the entry's are among those the exchange has candles of.
LEMMA MinutesCover ==
  ASSUME NEW t \in Int, t <= MaxClock + PerMinute, NEW m \in Nat, m <= Minute(t)
  PROVE  m \in Minutes
PROOF
  <1>1. MaxClock \in Int /\ PerMinute \in Int /\ PerMinute > 0 /\ MaxLate \in Int /\ MaxLate >= 0
    BY KlinesAssumption, DiscoveryAssumption
  <1>2. PICK last \in Int : last = MaxClock + 2 * PerMinute + MaxLate /\ t <= last
    BY <1>1
  <1>3. Minute(t) \in Int /\ Minute(last) \in Int /\ Minute(t) <= Minute(last)
    BY <1>2, MinuteOf, MinutesPass
  <1> QED BY <1>2, <1>3 DEF Minutes

\* What a recommendation rests on: timely evidence and, in a touch market, a
\* verified history, merged from what was asked.
Verified(m, base, merged, tail) ==
  /\ Window(m).from \in Nat /\ Window(m).from \in Starts /\ Window(m).from < PreloadMinute
  /\ Window(m).status = "verified" /\ Window(m).expiry = ExpiryTime(m)
  /\ ResultHolds(base, Candles(peak, PreloadMinute - 2), Window(m).from, PreloadMinute)
  /\ Histories(tail)[m] = Evidence(Window(m), ThresholdPrice(m), batch.entry, merged)
  /\ Verdict(Window(m), ThresholdPrice(m), batch.entry, merged) = "verified"
  /\ merged.status = "complete" /\ Trusted(Window(m), ThresholdPrice(m), batch.entry, merged)
  /\ OneEach(merged.candles, Window(m).from, EntryMinute)
  /\ Audit(merged.candles, Window(m).from, EntryMinute, ThresholdPrice(m)).touch = Never

\* build_candidate recommends an entry only on timely evidence, and into a touch
\* market only when its history is verified.
LEMMA HistoryVerified ==
  ASSUME DiscoveryInv, batch.stage = "closing", NEW tail,
         ResultHolds(tail, Candles(peak, EntryMinute - 2), PreloadMinute - 1, EntryMinute),
         NEW m \in batch.eligible, Recommended(m, Histories(tail)),
         NEW from, from = Window(m).from, NEW base, base = batch.base[from],
         NEW merged, merged = Merge(base, tail, from, EntryMinute)
  PROVE  /\ Timely(batch.spot) /\ Timely(batch.books[m])
         /\ m \in TouchMarkets => Verified(m, base, merged, tail)
PROOF
  <1>1. m \in Markets /\ batch.entry \in Int /\ batch.preloadEnd \in Int
    BY TradableMarkets DEF DiscoveryInv, BatchTyped
  <1>2. PICK history : history = HistoryStatus(m, Histories(tail))
    OBVIOUS
  <1>3. PICK window : window = Window(m)
    OBVIOUS
  <1>4. ASSUME m \in HaveHistory
        PROVE  /\ history = Verdict(window, ThresholdPrice(m), batch.entry, merged)
               /\ Histories(tail)[m] = Evidence(window, ThresholdPrice(m), batch.entry, merged)
               /\ from \in Nat /\ from \in Starts /\ from < PreloadMinute
               /\ window.status = "verified" /\ window.expiry = ExpiryTime(m)
               /\ ResultHolds(base, Candles(peak, PreloadMinute - 2), from, PreloadMinute)
               /\ merged.status \in HistoryStatuses
    <2>1. Planned(m) /\ base # NotAsked
      BY <1>4 DEF HaveHistory
    <2>2. from \in Starts
      BY <1>1, <2>1 DEF Starts
    <2>3. /\ from \in Nat /\ from < PreloadMinute
          /\ ResultHolds(base, Candles(peak, PreloadMinute - 2), from, PreloadMinute)
      BY <2>1, <2>2 DEF DiscoveryInv, BaseHolds
    <2>4. merged.status \in HistoryStatuses
      <3>1. base.status \in Statuses /\ tail.status \in Statuses
        BY <2>3 DEF ResultHolds
      <3> QED BY <3>1, MergeStatus
    <2>5. m \in DOMAIN Histories(tail) /\ Histories(tail)[m] = Evidence(window, ThresholdPrice(m), batch.entry, merged)
      BY <1>3, <1>4 DEF Histories, EntryMinute
    <2>6. history = Verdict(window, ThresholdPrice(m), batch.entry, merged)
      BY <1>2, <2>5, EvidenceStatus DEF HistoryStatus
    <2>7. Window(m).status = "verified"
      BY <2>1 DEF Planned
    <2>8. window.status = "verified" /\ window.expiry = ExpiryTime(m)
      BY <1>1, <1>3, <2>7, WindowFrom
    <2> QED BY <2>2, <2>3, <2>4, <2>5, <2>6, <2>8
  <1>5. ASSUME m \notin HaveHistory
        PROVE  history = "historical_entry_coverage_unavailable"
    BY <1>2, <1>5 DEF HistoryStatus, Histories
  <1>6. history # "shadow_entry"
    <2>1. CASE m \in HaveHistory
      BY <1>4, <2>1, VerdictIn
    <2> QED BY <1>5, <2>1
  <1>7. Timing(m) = "" /\ (Kind(m) = "touch_before_expiry" => history = "verified")
    <2>1. PICK timing : timing = Timing(m)
      OBVIOUS
    <2>2. PICK quotes, level, entry : quotes = batch.books[m].quotes /\ level = batch.spot.level /\ entry = batch.entry
      OBVIOUS
    <2>3. Action(m, quotes, level, entry, history, timing) = "shadow_entry"
      BY <1>2, <2>1, <2>2 DEF Recommended
    <2>4. timing # "shadow_entry"
      BY <2>1, TimingIn
    <2> QED BY <1>6, <2>1, <2>3, <2>4, ActionNeeds
  <1>8. Timely(batch.spot) /\ Timely(batch.books[m])
    BY <1>7, TimingIn
  <1>9. m \in TouchMarkets => history = "verified"
    BY <1>7 DEF TouchMarkets
  <1> HIDE <1>7
  <1>10. ASSUME m \in TouchMarkets PROVE Verified(m, base, merged, tail)
    <2>1. m \in HaveHistory /\ history = "verified"
      BY <1>5, <1>9, <1>10
    <2>2. Verdict(window, ThresholdPrice(m), batch.entry, merged) = "verified"
      BY <1>4, <2>1
    <2>3. PICK threshold, entry : threshold = ThresholdPrice(m) /\ entry = batch.entry
      OBVIOUS
    <2>4. /\ merged.status = "complete" /\ Trusted(window, threshold, entry, merged)
          /\ OneEach(merged.candles, window.from, Minute(entry))
          /\ Audit(merged.candles, window.from, Minute(entry), threshold).touch = Never
      <3>1. window.status = "verified" /\ merged.status \in HistoryStatuses
        BY <1>4, <2>1
      <3> QED BY <2>2, <2>3, <3>1, VerdictIn
    <2> QED BY <1>3, <1>4, <2>1, <2>2, <2>3, <2>4 DEF Verified, EntryMinute
  <1> QED BY <1>8, <1>10

\* build_candidate recommends an entry into a touch market only if its barrier is untouched.
LEMMA RowMade ==
  ASSUME DiscoveryInv, batch.stage = "closing", NEW tail,
         ResultHolds(tail, Candles(peak, EntryMinute - 2), PreloadMinute - 1, EntryMinute),
         NEW m \in batch.eligible, Recommended(m, Histories(tail)), NEW verifiable
  PROVE  RowHolds(Feed!Row(m, batch.entry, Oldest(m), verifiable), peak)
PROOF
  <1>1. m \in Markets /\ batch.entry \in Int /\ batch.preloadEnd \in Int
    BY TradableMarkets DEF DiscoveryInv, BatchTyped
  <1>2. PreloadMinute \in Int /\ EntryMinute \in Int
    BY <1>1, MinuteOf DEF PreloadMinute, EntryMinute
  <1>3. PICK from : from = Window(m).from
    OBVIOUS
  <1>4. PICK base : base = batch.base[from]
    OBVIOUS
  <1>5. PICK merged : merged = Merge(base, tail, from, EntryMinute)
    OBVIOUS
  <1>6. /\ Timely(batch.spot) /\ Timely(batch.books[m])
        /\ m \in TouchMarkets => Verified(m, base, merged, tail)
    BY <1>3, <1>4, <1>5, HistoryVerified
  <1>7. Oldest(m) \in Feed!Evidence(batch.entry)
    BY <1>1, <1>6, OldestIn DEF DiscoveryInv
  <1>8. m \in TouchMarkets => from \in Nat
    BY <1>3, <1>6 DEF Verified
  <1>9. ASSUME m \in TouchMarkets, NEW k \in from .. (EntryMinute - 2)
        PROVE  peak[k] < ThresholdPrice(m)
    <2>1. /\ from \in Nat /\ merged.status = "complete"
          /\ ResultHolds(base, Candles(peak, PreloadMinute - 2), from, PreloadMinute)
          /\ ToSet(Opens(merged.candles)) = Span(from, EntryMinute)
          /\ Audit(merged.candles, from, EntryMinute, ThresholdPrice(m)).touch = Never
      BY <1>3, <1>6, <1>9 DEF Verified, OneEach
    <2>2. PICK first \in Int : first = from /\ 0 <= first
      BY <2>1
    <2>3. PICK n \in Nat : /\ DOMAIN merged.candles = 1 .. n
                           /\ \A i \in 1 .. n : merged.candles[i].high = MergedHighs(base, tail)[merged.candles[i].open]
      <3>1. PICK to \in Int : to = EntryMinute
        BY <1>2
      <3>2. merged = Merge(base, tail, first, to)
        BY <1>5, <2>2, <3>1
      <3>3. \E n \in Nat : /\ DOMAIN Merge(base, tail, first, to).candles = 1 .. n
                           /\ \A i \in 1 .. n : Merge(base, tail, first, to).candles[i].high
                                = MergedHighs(base, tail)[Merge(base, tail, first, to).candles[i].open]
        BY MergedCandles
      <3> QED BY <3>2, <3>3
    <2>4. \A i \in 1 .. n : ~ (merged.candles[i].high >= ThresholdPrice(m))
      BY <1>2, <2>1, <2>2, <2>3, TouchFound
    <2>5. k \in Span(first, EntryMinute) /\ k <= EntryMinute - 2 /\ k \in Nat
      BY <1>2, <1>9, <2>2 DEF Span
    <2>6. PICK i \in 1 .. n : merged.candles[i].open = k
      <3>1. k \in ToSet(Opens(merged.candles))
        BY <2>1, <2>2, <2>5
      <3> QED BY <2>3, <3>1 DEF ToSet, Opens
    <2>7. MergedHighs(base, tail)[k] = peak[k]
      BY <1>2, <1>5, <2>1, <2>2, <2>5, MergedHigh
    <2>8. peak[k] \in Nat
      <3>1. batch.entry <= MaxClock + PerMinute
        BY DEF DiscoveryInv, Timeline
      <3>2. k <= Minute(batch.entry)
        BY <1>2, <2>5 DEF EntryMinute
      <3>3. k \in Minutes
        BY <1>1, <2>5, <3>1, <3>2, MinutesCover
      <3> QED BY <3>3, PeakTyped DEF DiscoveryInv, MarketTyped
    <2>9. ThresholdPrice(m) \in Nat
      BY <1>1, DiscoveryAssumption
    <2>10. ~ (peak[k] >= ThresholdPrice(m))
      BY <2>3, <2>4, <2>6, <2>7
    <2> QED BY <2>8, <2>9, <2>10
  <1>10. PICK row : row = Feed!Row(m, batch.entry, Oldest(m), verifiable)
    OBVIOUS
  <1>11. row.market = m /\ row.entry = batch.entry /\ row.oldest = Oldest(m)
    BY <1>10 DEF Feed!Row
  <1>12. batch.entry <= clock /\ batch.entry <= MaxClock + PerMinute
    BY DEF DiscoveryInv, Timeline
  <1> QED BY <1>1, <1>3, <1>7, <1>8, <1>9, <1>10, <1>11, <1>12 DEF RowHolds, EntryMinute

-----------------------------------------------------------------------------
(* Steps *)

\* The minutes that are over do not change.
PastStays == \A m \in Nat : m <= Minute(clock) - 2 /\ m \in Minutes => peak'[m] = peak[m]

\* The clock of the exchange is less than a minute away.
LEMMA ExchangeMinute ==
  ASSUME MarketTyped
  PROVE  /\ Minute(ExchangeTime) \in Int /\ Minute(clock) - 1 <= Minute(ExchangeTime)
         /\ Minute(ExchangeTime + 1) \in Int /\ Minute(clock) - 1 <= Minute(ExchangeTime + 1)
PROOF
  <1>1. offset \in Int /\ -PerMinute < offset /\ clock \in Int /\ PerMinute \in Int
    BY DiscoveryAssumption, KlinesAssumption DEF MarketTyped
  <1>2. PICK t \in Int : t = ExchangeTime /\ clock - PerMinute < t /\ clock - PerMinute < t + 1 /\ t + 1 \in Int
    BY <1>1 DEF ExchangeTime
  <1> QED BY <1>1, <1>2, MinuteOf, MinuteBefore

\* A move changes the minute of the exchange only.
LEMMA MoveKeeps ==
  ASSUME MarketTyped, Move
  PROVE  MarketTyped' /\ PastStays /\ clock' = clock /\ UNCHANGED <<batch, candidates>>
PROOF
  <1>1. PICK minute \in Int : minute = Minute(ExchangeTime) /\ Minute(clock) - 1 <= minute
    BY ExchangeMinute
  <1>2. PICK level \in Levels : price' = level /\ peak' = IF level > peak[minute] THEN [peak EXCEPT ![minute] = level] ELSE peak
    BY <1>1 DEF Move
  <1>3. clock' = clock /\ offset' = offset /\ UNCHANGED <<batch, candidates>>
    BY DEF Move
  <1>4. peak' \in [Minutes -> Levels]
    BY <1>2 DEF MarketTyped
  <1>5. Minute(clock) \in Int
    BY MinuteOf DEF MarketTyped
  <1>6. ASSUME NEW m \in Nat, m <= Minute(clock) - 2, m \in Minutes PROVE peak'[m] = peak[m]
    <2>1. m # minute
      BY <1>1, <1>5, <1>6
    <2> QED BY <1>2, <1>6, <2>1 DEF MarketTyped
  <1> QED BY <1>2, <1>3, <1>4, <1>6 DEF MarketTyped, PastStays

\* So does the passing of time.
LEMMA TickKeeps ==
  ASSUME MarketTyped, Tick
  PROVE  MarketTyped' /\ PastStays /\ clock' = clock + 1 /\ UNCHANGED <<batch, candidates>>
PROOF
  <1>1. PICK minute \in Int : minute = Minute(ExchangeTime + 1) /\ Minute(clock) - 1 <= minute
    BY ExchangeMinute
  <1>2. peak' = [peak EXCEPT ![minute] = price] \/ peak' = peak
    BY <1>1 DEF Tick
  <1>3. clock' = clock + 1 /\ offset' = offset /\ price' = price /\ UNCHANGED <<batch, candidates>>
    BY DEF Tick
  <1>4. peak' \in [Minutes -> Levels]
    BY <1>2 DEF MarketTyped
  <1>5. Minute(clock) \in Int
    BY MinuteOf DEF MarketTyped
  <1>6. ASSUME NEW m \in Nat, m <= Minute(clock) - 2, m \in Minutes PROVE peak'[m] = peak[m]
    <2>1. m # minute
      BY <1>1, <1>5, <1>6
    <2> QED BY <1>2, <1>6, <2>1 DEF MarketTyped
  <1> QED BY <1>3, <1>4, <1>6 DEF MarketTyped, PastStays

\* So the candles of a range that ends now or before stay what they are.
LEMMA CandlesStay ==
  ASSUME MarketTyped, PastStays, NEW t \in Int, t <= clock, t <= MaxClock + PerMinute
  PROVE  Candles(peak', Minute(t) - 2) = Candles(peak, Minute(t) - 2)
PROOF
  <1>1. PICK minute \in Int : minute = Minute(t) /\ minute <= Minute(clock) /\ Minute(clock) \in Int
    BY MinuteOf, MinutesPass DEF MarketTyped
  <1>2. ASSUME NEW m \in Int, 0 <= m, m <= minute - 2 PROVE peak'[m] = peak[m]
    <2>1. m \in Nat /\ m <= Minute(clock) - 2 /\ m <= Minute(t)
      BY <1>1, <1>2
    <2>2. m \in Minutes
      BY <2>1, MinutesCover
    <2> QED BY <2>1, <2>2 DEF PastStays
  <1>3. \A c \in [open : Int, high : Nat, sound : BOOLEAN] :
           (0 <= c.open /\ c.open <= minute - 2) => peak'[c.open] = peak[c.open]
    BY <1>2
  <1> QED BY <1>1, <1>3 DEF Candles

\* What a row rests on does not change with the market.
LEMMA RowStays ==
  ASSUME MarketTyped, PastStays, clock' \in Nat, clock <= clock', NEW row, RowHolds(row, peak)
  PROVE  RowHolds(row, peak)'
PROOF
  <1>1. row.entry \in Int /\ row.entry <= clock /\ row.entry <= MaxClock + PerMinute
    BY DEF RowHolds
  <1>2. row.entry <= clock'
    BY <1>1 DEF MarketTyped
  <1>3. ASSUME row.market \in TouchMarkets, NEW m \in Window(row.market).from .. (Minute(row.entry) - 2)
        PROVE  peak'[m] < ThresholdPrice(row.market)
    <2>1. Window(row.market).from \in Nat /\ peak[m] < ThresholdPrice(row.market)
      BY <1>3 DEF RowHolds
    <2>2. PICK minute \in Int : minute = Minute(row.entry) /\ minute <= Minute(clock) /\ Minute(clock) \in Int
      BY <1>1, MinuteOf, MinutesPass DEF MarketTyped
    <2>3. m \in Nat /\ m <= Minute(clock) - 2 /\ m <= Minute(row.entry)
      BY <1>3, <2>1, <2>2
    <2>4. m \in Minutes
      BY <1>1, <2>3, MinutesCover
    <2>5. peak'[m] = peak[m]
      BY <2>3, <2>4 DEF PastStays
    <2> QED BY <2>1, <2>5
  <1> QED BY <1>1, <1>2, <1>3 DEF RowHolds

\* The market moves.
LEMMA MarketStep ==
  ASSUME DiscoveryInv, Move \/ Tick
  PROVE  DiscoveryInv'
PROOF
  <1>1. MarketTyped /\ BatchTyped /\ Timeline
    BY DEF DiscoveryInv
  <1>2. MarketTyped' /\ PastStays /\ (clock' = clock \/ clock' = clock + 1) /\ UNCHANGED <<batch, candidates>>
    BY <1>1, MoveKeeps, TickKeeps
  <1>3. clock \in Nat /\ clock' \in Nat /\ clock <= clock'
    BY <1>1, <1>2 DEF MarketTyped
  <1>4. BatchTyped'
    BY <1>1, <1>2 DEF BatchTyped
  <1>5. Timeline'
    <2>1. batch.preloadEnd \in Int /\ batch.entry \in Int
      BY <1>1 DEF BatchTyped
    <2>2. batch'.preloadEnd <= clock' /\ (batch'.stage = "closing" => batch'.entry <= clock')
      BY <1>1, <1>2, <1>3, <2>1 DEF Timeline
    <2>3. batch'.stage \in {"preloading", "preloaded"} => clock' <= MaxClock
      <3>1. CASE clock' = clock
        BY <1>1, <1>2, <3>1 DEF Timeline
      <3>2. CASE clock' # clock
        <4>1. Tick
          BY <1>1, <3>2, MoveKeeps
        <4>2. batch.stage \in {"preloading", "preloaded"} => clock < MaxClock /\ clock' = clock + 1
          BY <4>1 DEF Tick
        <4> QED BY <1>2, <1>3, <4>2, DiscoveryAssumption
      <3> QED BY <3>1, <3>2
    <2> QED BY <1>1, <1>2, <2>2, <2>3 DEF Timeline
  <1>6. /\ batch.preloadEnd \in Int /\ batch.preloadEnd <= clock /\ batch.preloadEnd <= MaxClock + PerMinute
        /\ batch.entry \in Int
        /\ batch.stage = "closing" => batch.entry <= clock /\ batch.entry <= MaxClock + PerMinute
    BY <1>1, DiscoveryAssumption, KlinesAssumption DEF BatchTyped, Timeline
  <1>7. BaseHolds'
    <2>1. Candles(peak', PreloadMinute - 2) = Candles(peak, PreloadMinute - 2)
      BY <1>1, <1>2, <1>6, CandlesStay DEF PreloadMinute
    <2>2. PreloadMinute' = PreloadMinute
      BY <1>2 DEF PreloadMinute
    <2>3. ASSUME NEW s \in Starts, batch'.base[s] # NotAsked
          PROVE  /\ s \in Nat /\ s < PreloadMinute
                 /\ batch'.stage = "preloaded" =>
                       RequestHolds(batch'.base[s], Candles(peak', PreloadMinute - 2), s, PreloadMinute)
                 /\ batch'.stage \in {"observing", "closing"} =>
                       ResultHolds(batch'.base[s], Candles(peak', PreloadMinute - 2), s, PreloadMinute)
      BY <1>2, <2>1, <2>3 DEF DiscoveryInv, BaseHolds
    <2> QED BY <2>2, <2>3 DEF BaseHolds
  <1>8. TailHolds'
    <2> SUFFICES ASSUME batch'.stage = "closing" PROVE TailHolds'
      BY DEF TailHolds
    <2>1. Candles(peak', EntryMinute - 2) = Candles(peak, EntryMinute - 2)
      BY <1>1, <1>2, <1>6, CandlesStay DEF EntryMinute
    <2>2. PreloadMinute' = PreloadMinute /\ EntryMinute' = EntryMinute
      BY <1>2 DEF PreloadMinute, EntryMinute
    <2>3. \/ batch'.tail = NotAsked
          \/ RequestHolds(batch'.tail, Candles(peak', EntryMinute - 2), PreloadMinute - 1, EntryMinute)
      BY <1>2, <2>1 DEF DiscoveryInv, TailHolds
    <2> QED BY <2>2, <2>3 DEF TailHolds
  <1>9. RowsHold'
    <2>1. ASSUME NEW row \in candidates \union batch.rows PROVE RowHolds(row, peak)'
      BY <1>1, <1>2, <1>3, RowStays DEF DiscoveryInv, RowsHold
    <2> QED BY <1>2, <2>1 DEF RowsHold
  <1> QED BY <1>2, <1>4, <1>5, <1>7, <1>8, <1>9 DEF DiscoveryInv

\* A batch that takes a step finds the market as it was.
LEMMA BatchStepKeeps ==
  ASSUME MarketTyped, UNCHANGED <<clock, market>>, NEW row, RowHolds(row, peak)
  PROVE  RowHolds(row, peak)'
PROOF
  BY DEF market, RowHolds

\* A step of the batch leaves the market.
LEMMA MarketSame ==
  ASSUME MarketTyped, UNCHANGED <<clock, market>>
  PROVE  MarketTyped'
PROOF
  BY DEF market, MarketTyped

\* A batch that is over leaves nothing but rows it had made.
LEMMA IdleHolds ==
  ASSUME DiscoveryInv, UNCHANGED <<clock, market>>, batch' = Idle,
         \A row \in candidates' : row \in candidates \union batch.rows
  PROVE  DiscoveryInv'
PROOF
  <1>1. MarketTyped'
    BY MarketSame DEF DiscoveryInv
  <1>2. /\ DOMAIN Idle = BatchFields /\ Idle.stage = "idle" /\ Idle.eligible = {} /\ Idle.preloadEnd = 0 /\ Idle.entry = 0
        /\ DOMAIN Idle.base = Starts /\ (\A s \in Starts : Idle.base[s] = NotAsked)
        /\ Idle.spot.at \in Int /\ DOMAIN Idle.books = Markets /\ (\A m \in Markets : Idle.books[m].at \in Int)
        /\ Idle.rows = {}
    BY DEF Idle, BatchFields, NotObserved, NoBook
  <1>3. BatchTyped'
    BY <1>2 DEF BatchTyped, Stages
  <1>4. Timeline'
    BY <1>1, <1>2, DiscoveryAssumption DEF Timeline, MarketTyped
  <1>5. BaseHolds' /\ TailHolds'
    BY <1>2 DEF BaseHolds, TailHolds
  <1>6. RowsHold'
    <2>1. ASSUME NEW row \in candidates' \union batch'.rows PROVE RowHolds(row, peak)'
      <3>1. row \in candidates \union batch.rows
        BY <1>2
      <3> QED BY <3>1, BatchStepKeeps DEF DiscoveryInv, RowsHold
    <2> QED BY <2>1 DEF RowsHold
  <1> QED BY <1>1, <1>3, <1>4, <1>5, <1>6 DEF DiscoveryInv

\* A listing that fails leaves what the invariant speaks of.
LEMMA ListingDiesHolds ==
  ASSUME DiscoveryInv, UNCHANGED <<clock, market, batch, candidates>>
  PROVE  DiscoveryInv'
PROOF
  BY DEF DiscoveryInv, market, MarketTyped, BatchTyped, Timeline, BaseHolds, TailHolds, RowsHold, RowHolds, PreloadMinute, EntryMinute

\* The minute of a time begins before it.
LEMMA FloorOf ==
  ASSUME NEW t \in Nat
  PROVE  Minute(t) \in Nat /\ Floor(t) \in Nat /\ Floor(t) <= t /\ t < Floor(t) + PerMinute
PROOF
  <1>1. PerMinute \in Nat /\ PerMinute > 0
    BY KlinesAssumption
  <1>2. PICK minute \in Nat : minute = Minute(t) /\ PerMinute * minute <= t /\ t < PerMinute * minute + PerMinute
    BY <1>1 DEF Minute
  <1>3. PerMinute * minute \in Nat
    BY <1>1
  <1> QED BY <1>2, <1>3 DEF Floor

\* fetch_market_universe and the filters.
LEMMA BatchStartHolds ==
  ASSUME DiscoveryInv, BatchStart
  PROVE  DiscoveryInv'
PROOF
  <1>1. UNCHANGED <<clock, market>> /\ candidates' = candidates
    BY DEF BatchStart
  <1>2. CASE batch' = batch
    BY <1>1, <1>2, ListingDiesHolds
  <1>3. CASE batch' # batch
    <2>1. PICK read : batch' = [Idle EXCEPT !.stage = "preloading", !.preloadEnd = Floor(clock),
                                            !.eligible = EligibleAmong(Listed(read), Avoided)]
      BY <1>3 DEF BatchStart
    <2>2. clock <= MaxStart
      BY DEF BatchStart
    <2>3. /\ DOMAIN batch' = BatchFields /\ batch'.stage = "preloading" /\ batch'.preloadEnd = Floor(clock)
          /\ batch'.eligible = EligibleAmong(Listed(read), Avoided) /\ batch'.entry = 0
          /\ DOMAIN batch'.base = Starts /\ (\A s \in Starts : batch'.base[s] = NotAsked)
          /\ batch'.spot.at \in Int /\ DOMAIN batch'.books = Markets /\ (\A m \in Markets : batch'.books[m].at \in Int)
          /\ batch'.rows = {}
      BY <2>1 DEF Idle, BatchFields, NotObserved, NoBook
    <2>4. MarketTyped'
      BY <1>1, MarketSame DEF DiscoveryInv
    <2>5. batch'.eligible \subseteq Tradable
      <3>1. Listed(read) \subseteq Markets
        BY DiscoveryAssumption DEF Listed
      <3> QED BY <2>3, <3>1 DEF Tradable, EligibleAmong
    <2>6. clock \in Nat /\ Floor(clock) \in Nat /\ Floor(clock) <= clock
      BY FloorOf DEF DiscoveryInv, MarketTyped
    <2>7. BatchTyped'
      BY <2>3, <2>5, <2>6 DEF BatchTyped, Stages
    <2>8. Timeline'
      <3>1. Floor(clock) <= MaxClock /\ clock <= MaxClock
        BY <2>2, <2>6, DiscoveryAssumption
      <3> QED BY <1>1, <2>3, <2>6, <3>1 DEF Timeline
    <2>9. BaseHolds' /\ TailHolds'
      BY <2>3 DEF BaseHolds, TailHolds
    <2>10. RowsHold'
      <3>1. ASSUME NEW row \in candidates' \union batch'.rows PROVE RowHolds(row, peak)'
        <4>1. row \in candidates \union batch.rows
          BY <1>1, <2>3
        <4> QED BY <1>1, <4>1, BatchStepKeeps DEF DiscoveryInv, RowsHold
      <3> QED BY <3>1 DEF RowsHold
    <2> QED BY <2>4, <2>7, <2>8, <2>9, <2>10 DEF DiscoveryInv
  <1> QED BY <1>2, <1>3

\* Rows that stay still hold.
LEMMA RowsSame ==
  ASSUME DiscoveryInv, UNCHANGED <<clock, market>>, candidates' = candidates, batch'.rows = batch.rows
  PROVE  RowsHold'
PROOF
  <1>1. ASSUME NEW row \in candidates' \union batch'.rows PROVE RowHolds(row, peak)'
    BY BatchStepKeeps DEF DiscoveryInv, RowsHold
  <1> QED BY <1>1 DEF RowsHold

\* The minutes a request may ask for.
LEMMA SpanCovered ==
  ASSUME NEW t \in Int, t <= MaxClock + PerMinute, NEW from \in Nat
  PROVE  Span(from, Minute(t)) \subseteq Minutes
PROOF
  <1>1. Minute(t) \in Int
    BY MinuteOf
  <1>2. ASSUME NEW m \in Span(from, Minute(t)) PROVE m \in Minutes
    <2>1. m \in Nat /\ m <= Minute(t)
      BY <1>1 DEF Span
    <2> QED BY <2>1, MinutesCover
  <1> QED BY <1>2

\* The preload is asked for.
LEMMA PreloadReadHolds ==
  ASSUME DiscoveryInv, PreloadRead
  PROVE  DiscoveryInv'
PROOF
  <1>1. UNCHANGED <<clock, market>> /\ candidates' = candidates /\ batch.stage = "preloading"
    BY DEF PreloadRead
  <1>2. PICK answers \in [Wanted -> Answers] :
          batch' = [batch EXCEPT !.stage = "preloaded",
                       !.base = [s \in Starts |->
                                    IF s \in Wanted THEN Asked(s, PreloadMinute, answers[s]) ELSE NotAsked]]
    BY DEF PreloadRead, PreloadMinute
  <1>3. BatchTyped /\ Timeline /\ MarketTyped
    BY DEF DiscoveryInv
  <1>4. /\ DOMAIN batch' = BatchFields /\ batch'.stage = "preloaded"
        /\ batch'.base = [s \in Starts |-> IF s \in Wanted THEN Asked(s, PreloadMinute, answers[s]) ELSE NotAsked]
        /\ batch'.eligible = batch.eligible /\ batch'.preloadEnd = batch.preloadEnd /\ batch'.entry = batch.entry
        /\ batch'.spot = batch.spot /\ batch'.books = batch.books /\ batch'.rows = batch.rows
    BY <1>2, <1>3 DEF BatchTyped, BatchFields
  <1>5. MarketTyped'
    BY <1>1, <1>3, MarketSame
  <1>6. BatchTyped'
    BY <1>3, <1>4 DEF BatchTyped, Stages
  <1>7. Timeline'
    BY <1>1, <1>3, <1>4 DEF Timeline
  <1>8. ASSUME NEW s \in Starts, batch'.base[s] # NotAsked
        PROVE  /\ s \in Nat /\ s < PreloadMinute
               /\ RequestHolds(batch'.base[s], Candles(peak, PreloadMinute - 2), s, PreloadMinute)
    <2>1. s \in Wanted /\ batch'.base[s] = Asked(s, PreloadMinute, answers[s])
      BY <1>4, <1>8
    <2>2. PICK m \in batch.eligible : Planned(m) /\ s = Window(m).from /\ s < PreloadMinute
      BY <2>1 DEF Wanted, PreloadMinute
    <2>3. s \in Nat
      <3>1. m \in Markets /\ Window(m).status = "verified"
        BY <1>3, <2>2, TradableMarkets DEF BatchTyped, Planned
      <3> QED BY <2>2, <3>1, WindowFrom
    <2>4. Span(s, PreloadMinute) \subseteq Minutes
      <3>1. batch.preloadEnd \in Int /\ batch.preloadEnd <= MaxClock + PerMinute
        BY <1>3, DiscoveryAssumption, KlinesAssumption DEF BatchTyped, Timeline
      <3> QED BY <2>3, <3>1, SpanCovered DEF PreloadMinute
    <2>5. PreloadMinute \in Int
      BY <1>3, MinuteOf DEF PreloadMinute, BatchTyped
    <2>6. answers[s] \in Answers
      BY <2>1
    <2>7. RequestHolds(Asked(s, PreloadMinute, answers[s]), Candles(peak, PreloadMinute - 2), s, PreloadMinute)
      BY <1>3, <2>3, <2>4, <2>5, <2>6, AskedHolds DEF MarketTyped
    <2> QED BY <2>1, <2>2, <2>3, <2>7
  <1>9. BaseHolds'
    <2>1. PreloadMinute' = PreloadMinute /\ peak' = peak
      BY <1>1, <1>4 DEF PreloadMinute, market
    <2> QED BY <1>4, <1>8, <2>1 DEF BaseHolds
  <1>10. TailHolds'
    BY <1>4 DEF TailHolds
  <1> QED BY <1>1, <1>4, <1>5, <1>6, <1>7, <1>9, <1>10, RowsSame DEF DiscoveryInv

\* Candles are of minutes.
LEMMA CandlesMinuted ==
  ASSUME NEW p, NEW until
  PROVE  Minuted(Candles(p, until))
PROOF
  BY DEF Minuted, Candles

\* The preload is kept and the entry committed to.
LEMMA PreloadDoneHolds ==
  ASSUME DiscoveryInv, PreloadDone
  PROVE  DiscoveryInv'
PROOF
  <1>1. UNCHANGED <<clock, market>> /\ candidates' = candidates /\ batch.stage = "preloaded"
    BY DEF PreloadDone
  <1>2. batch' = [batch EXCEPT !.stage = "observing", !.entry = NextEntry,
                     !.base = [s \in Starts |-> Kept(Concluded(batch.base[s]))]]
    BY DEF PreloadDone
  <1>3. BatchTyped /\ Timeline /\ MarketTyped
    BY DEF DiscoveryInv
  <1>4. /\ DOMAIN batch' = BatchFields /\ batch'.stage = "observing"
        /\ batch'.base = [s \in Starts |-> Kept(Concluded(batch.base[s]))]
        /\ batch'.eligible = batch.eligible /\ batch'.preloadEnd = batch.preloadEnd /\ batch'.entry = NextEntry
        /\ batch'.spot = batch.spot /\ batch'.books = batch.books /\ batch'.rows = batch.rows
    BY <1>2, <1>3 DEF BatchTyped, BatchFields
  <1>5. MarketTyped'
    BY <1>1, <1>3, MarketSame
  <1>6. NextEntry \in Nat /\ clock < NextEntry /\ NextEntry <= MaxClock + PerMinute
    <2>1. clock \in Nat /\ clock <= MaxClock
      BY <1>1, <1>3 DEF MarketTyped, Timeline
    <2>2. Floor(clock) \in Nat /\ Floor(clock) <= clock /\ clock < Floor(clock) + PerMinute
      BY <2>1, FloorOf
    <2> QED BY <2>1, <2>2, KlinesAssumption, DiscoveryAssumption DEF NextEntry
  <1>7. BatchTyped'
    BY <1>3, <1>4, <1>6 DEF BatchTyped, Stages
  <1>8. Timeline'
    <2>1. batch.preloadEnd < NextEntry
      BY <1>3, <1>6 DEF BatchTyped, MarketTyped, Timeline
    <2> QED BY <1>1, <1>3, <1>4, <1>6, <2>1 DEF Timeline
  <1>9. ASSUME NEW s \in Starts, batch'.base[s] # NotAsked
        PROVE  /\ s \in Nat /\ s < PreloadMinute
               /\ ResultHolds(batch'.base[s], Candles(peak, PreloadMinute - 2), s, PreloadMinute)
    <2>1. batch'.base[s] = Kept(Concluded(batch.base[s]))
      BY <1>4
    <2>2. batch.base[s] # NotAsked
      BY <1>9, <2>1, NotAskedStays
    <2>3. /\ s \in Nat /\ s < PreloadMinute
          /\ RequestHolds(batch.base[s], Candles(peak, PreloadMinute - 2), s, PreloadMinute)
      BY <1>1, <2>2 DEF DiscoveryInv, BaseHolds
    <2>4. PreloadMinute \in Int
      BY <1>3, MinuteOf DEF PreloadMinute, BatchTyped
    <2>5. ResultHolds(Concluded(batch.base[s]), Candles(peak, PreloadMinute - 2), s, PreloadMinute)
      BY <2>3, <2>4, CandlesMinuted, ConcludedHolds
    <2> QED BY <2>1, <2>3, <2>5, KeptHolds
  <1>10. BaseHolds'
    <2>1. PreloadMinute' = PreloadMinute /\ peak' = peak
      BY <1>1, <1>4 DEF PreloadMinute, market
    <2> QED BY <1>4, <1>9, <2>1 DEF BaseHolds
  <1>11. TailHolds'
    BY <1>4 DEF TailHolds
  <1> QED BY <1>1, <1>4, <1>5, <1>7, <1>8, <1>10, <1>11, RowsSame DEF DiscoveryInv

\* Observing changes neither the base nor the times of the batch.
LEMMA ObservingHolds ==
  ASSUME DiscoveryInv, UNCHANGED <<clock, market>>, candidates' = candidates, batch.stage = "observing", BatchTyped',
         batch'.stage = "observing", batch'.base = batch.base, batch'.preloadEnd = batch.preloadEnd,
         batch'.entry = batch.entry, batch'.rows = batch.rows
  PROVE  DiscoveryInv'
PROOF
  <1>1. BatchTyped /\ Timeline /\ MarketTyped
    BY DEF DiscoveryInv
  <1>2. MarketTyped'
    BY <1>1, MarketSame
  <1>3. Timeline'
    BY <1>1 DEF Timeline
  <1>4. BaseHolds'
    <2>1. PreloadMinute' = PreloadMinute /\ peak' = peak
      BY DEF PreloadMinute, market
    <2> QED BY <2>1 DEF DiscoveryInv, BaseHolds
  <1>5. TailHolds'
    BY DEF TailHolds
  <1> QED BY <1>2, <1>3, <1>4, <1>5, RowsSame DEF DiscoveryInv

\* The spot price is read.
LEMMA ReadSpotHolds ==
  ASSUME DiscoveryInv, ReadSpot
  PROVE  DiscoveryInv'
PROOF
  <1>1. UNCHANGED <<clock, market>> /\ candidates' = candidates /\ batch.stage = "observing"
    BY DEF ReadSpot, Observing
  <1>2. PICK level : batch' = [batch EXCEPT !.spot = [at |-> clock, level |-> level]]
    BY DEF ReadSpot
  <1>3. BatchTyped /\ clock \in Nat
    BY DEF DiscoveryInv, MarketTyped
  <1>4. /\ DOMAIN batch' = BatchFields /\ batch'.stage = "observing" /\ batch'.base = batch.base
        /\ batch'.eligible = batch.eligible /\ batch'.preloadEnd = batch.preloadEnd /\ batch'.entry = batch.entry
        /\ batch'.spot.at = clock /\ batch'.books = batch.books /\ batch'.rows = batch.rows
    BY <1>1, <1>2, <1>3 DEF BatchTyped, BatchFields
  <1>5. BatchTyped'
    BY <1>3, <1>4 DEF BatchTyped, Stages
  <1> QED BY <1>1, <1>4, <1>5, ObservingHolds

\* A book is read.
LEMMA ReadBookHolds ==
  ASSUME DiscoveryInv, NEW m \in Markets, ReadBook(m)
  PROVE  DiscoveryInv'
PROOF
  <1>1. UNCHANGED <<clock, market>> /\ candidates' = candidates /\ batch.stage = "observing"
    BY DEF ReadBook, Observing
  <1>2. PICK quotes : batch' = [batch EXCEPT !.books[m] = [at |-> clock, quotes |-> quotes]]
    BY DEF ReadBook
  <1>3. BatchTyped /\ clock \in Nat
    BY DEF DiscoveryInv, MarketTyped
  <1>4. /\ DOMAIN batch' = BatchFields /\ batch'.stage = "observing" /\ batch'.base = batch.base
        /\ batch'.eligible = batch.eligible /\ batch'.preloadEnd = batch.preloadEnd /\ batch'.entry = batch.entry
        /\ batch'.spot = batch.spot /\ batch'.rows = batch.rows
        /\ batch'.books = [batch.books EXCEPT ![m] = [at |-> clock, quotes |-> quotes]]
    BY <1>1, <1>2, <1>3 DEF BatchTyped, BatchFields
  <1>5. DOMAIN batch'.books = Markets /\ \A k \in Markets : batch'.books[k].at \in Int
    BY <1>3, <1>4 DEF BatchTyped
  <1>6. BatchTyped'
    BY <1>3, <1>4, <1>5 DEF BatchTyped, Stages
  <1> QED BY <1>1, <1>4, <1>6, ObservingHolds

\* The tail starts with the last minute of the preload: no rule that deserved
\* a preload starts later.
LEMMA TailStartIs ==
  ASSUME DiscoveryInv
  PROVE  /\ TailStart = PreloadMinute - 1 /\ PreloadMinute \in Int
         /\ AskedStarts # {} => PreloadMinute - 1 \in Nat
PROOF
  <1>1. PICK minute \in Int : minute = PreloadMinute
    BY MinuteOf DEF PreloadMinute, DiscoveryInv, BatchTyped
  <1>2. \A s \in AskedStarts : s \in Nat /\ s < minute
    BY <1>1 DEF AskedStarts, DiscoveryInv, BaseHolds
  <1>3. Max(AskedStarts \union {minute - 1}) = minute - 1
    <2>1. \A s \in AskedStarts \union {minute - 1} : s \in Int /\ s <= minute - 1
      BY <1>2
    <2>2. minute - 1 \in AskedStarts \union {minute - 1}
      OBVIOUS
    <2> HIDE <1>2
    <2>3. \A x \in AskedStarts \union {minute - 1} :
             (\A y \in AskedStarts \union {minute - 1} : x >= y) <=> x = minute - 1
      BY <2>1, <2>2
    <2> QED BY <2>2, <2>3 DEF Max
  <1>4. AskedStarts # {} => minute - 1 \in Nat
    BY <1>2
  <1> QED BY <1>1, <1>3, <1>4 DEF TailStart, PreloadMinute

\* The tail is asked for, when the entry has come.
LEMMA TailReadHolds ==
  ASSUME DiscoveryInv, TailRead
  PROVE  DiscoveryInv'
PROOF
  <1>1. UNCHANGED <<clock, market>> /\ candidates' = candidates /\ batch.stage = "observing" /\ clock >= batch.entry
    BY DEF TailRead, Observing, EntryReached
  <1>2. PICK answer \in Answers :
          batch' = [batch EXCEPT !.stage = "closing",
                       !.tail = IF AskedStarts = {} THEN NotAsked ELSE Asked(TailStart, EntryMinute, answer)]
    BY DEF TailRead, EntryMinute
  <1>3. BatchTyped /\ Timeline /\ MarketTyped
    BY DEF DiscoveryInv
  <1>4. /\ DOMAIN batch' = BatchFields /\ batch'.stage = "closing" /\ batch'.base = batch.base
        /\ batch'.tail = (IF AskedStarts = {} THEN NotAsked ELSE Asked(TailStart, EntryMinute, answer))
        /\ batch'.eligible = batch.eligible /\ batch'.preloadEnd = batch.preloadEnd /\ batch'.entry = batch.entry
        /\ batch'.spot = batch.spot /\ batch'.books = batch.books /\ batch'.rows = batch.rows
    BY <1>2, <1>3 DEF BatchTyped, BatchFields
  <1>5. MarketTyped'
    BY <1>1, <1>3, MarketSame
  <1>6. BatchTyped'
    BY <1>3, <1>4 DEF BatchTyped, Stages
  <1>7. Timeline'
    <2>1. batch.entry <= clock
      BY <1>1, <1>3 DEF BatchTyped, MarketTyped
    <2> QED BY <1>1, <1>3, <1>4, <2>1 DEF Timeline
  <1>8. PreloadMinute' = PreloadMinute /\ EntryMinute' = EntryMinute /\ peak' = peak
    BY <1>1, <1>4 DEF PreloadMinute, EntryMinute, market
  <1>9. BaseHolds'
    BY <1>1, <1>4, <1>8 DEF DiscoveryInv, BaseHolds
  <1>10. TailHolds'
    <2>1. ASSUME AskedStarts # {}
          PROVE  RequestHolds(batch'.tail, Candles(peak, EntryMinute - 2), PreloadMinute - 1, EntryMinute)
      <3>1. TailStart = PreloadMinute - 1 /\ PreloadMinute - 1 \in Nat /\ PreloadMinute - 1 \in Int
        BY <2>1, TailStartIs
      <3>2. batch.entry \in Int /\ batch.entry <= MaxClock + PerMinute
        BY <1>1, <1>3 DEF BatchTyped, Timeline
      <3>3. EntryMinute \in Int /\ Span(PreloadMinute - 1, EntryMinute) \subseteq Minutes
        BY <3>1, <3>2, MinuteOf, SpanCovered DEF EntryMinute
      <3>4. batch'.tail = Asked(PreloadMinute - 1, EntryMinute, answer)
        BY <1>4, <2>1, <3>1
      <3> QED BY <1>3, <3>1, <3>3, <3>4, AskedHolds DEF MarketTyped
    <2> QED BY <1>4, <1>8, <2>1 DEF TailHolds
  <1> QED BY <1>1, <1>4, <1>5, <1>6, <1>7, <1>9, <1>10, RowsSame DEF DiscoveryInv

\* What is concluded of the tail is one candle of every minute, if it is complete.
LEMMA TailHeld ==
  ASSUME DiscoveryInv, batch.stage = "closing", NEW tail, tail = Concluded(batch.tail)
  PROVE  ResultHolds(tail, Candles(peak, EntryMinute - 2), PreloadMinute - 1, EntryMinute)
PROOF
  <1>1. PreloadMinute - 1 \in Int /\ EntryMinute \in Int
    <2>1. batch.preloadEnd \in Int /\ batch.entry \in Int
      BY DEF DiscoveryInv, BatchTyped
    <2>2. PreloadMinute \in Int /\ EntryMinute \in Int
      BY <2>1, MinuteOf DEF PreloadMinute, EntryMinute
    <2> QED BY <2>2
  <1>2. CASE batch.tail = NotAsked
    BY <1>2, NotAskedHolds DEF Concluded
  <1>3. CASE RequestHolds(batch.tail, Candles(peak, EntryMinute - 2), PreloadMinute - 1, EntryMinute)
    BY <1>1, <1>3, CandlesMinuted, ConcludedHolds
  <1> QED BY <1>2, <1>3 DEF DiscoveryInv, TailHolds

\* The rows are made.
LEMMA TailDoneHolds ==
  ASSUME DiscoveryInv, TailDone
  PROVE  DiscoveryInv'
PROOF
  <1>1. UNCHANGED <<clock, market>> /\ candidates' = candidates /\ batch.stage = "closing"
    BY DEF TailDone
  <1>2. PICK tail : tail = Concluded(batch.tail)
    OBVIOUS
  <1>3. batch' = [Idle EXCEPT !.stage = "writing", !.entry = batch.entry, !.rows = Rows(Histories(tail))]
    BY <1>2 DEF TailDone
  <1>4. BatchTyped /\ Timeline /\ MarketTyped
    BY DEF DiscoveryInv
  <1>5. /\ DOMAIN batch' = BatchFields /\ batch'.stage = "writing" /\ batch'.eligible = {} /\ batch'.preloadEnd = 0
        /\ batch'.entry = batch.entry /\ batch'.rows = Rows(Histories(tail))
        /\ DOMAIN batch'.base = Starts /\ (\A s \in Starts : batch'.base[s] = NotAsked)
        /\ batch'.spot.at \in Int /\ DOMAIN batch'.books = Markets /\ (\A m \in Markets : batch'.books[m].at \in Int)
    BY <1>3 DEF Idle, BatchFields, NotObserved, NoBook
  <1>6. MarketTyped'
    BY <1>1, <1>4, MarketSame
  <1>7. BatchTyped'
    BY <1>4, <1>5 DEF BatchTyped, Stages
  <1>8. Timeline'
    BY <1>5, <1>6, DiscoveryAssumption DEF Timeline, MarketTyped
  <1>9. BaseHolds' /\ TailHolds'
    BY <1>5 DEF BaseHolds, TailHolds
  <1>10. ResultHolds(tail, Candles(peak, EntryMinute - 2), PreloadMinute - 1, EntryMinute)
    BY <1>1, <1>2, TailHeld
  <1>11. RowsHold'
    <2>1. ASSUME NEW row \in Rows(Histories(tail)) PROVE RowHolds(row, peak)
      <3>1. PICK m \in batch.eligible : /\ Recommended(m, Histories(tail))
                                        /\ row = Feed!Row(m, batch.entry, Oldest(m), Verifiable(m, Histories(tail)))
        BY DEF Rows
      <3> QED BY <1>1, <1>10, <3>1, RowMade
    <2>2. ASSUME NEW row \in candidates' \union batch'.rows PROVE RowHolds(row, peak)'
      <3>1. RowHolds(row, peak)
        BY <1>1, <1>5, <2>1 DEF DiscoveryInv, RowsHold
      <3> QED BY <1>1, <1>4, <3>1, BatchStepKeeps
    <2> QED BY <2>2 DEF RowsHold
  <1> QED BY <1>6, <1>7, <1>8, <1>9, <1>11 DEF DiscoveryInv

\* The rows are written, or the batch dies.
LEMMA BatchOverHolds ==
  ASSUME DiscoveryInv, BatchEnd \/ BatchDies
  PROVE  DiscoveryInv'
PROOF
  <1>1. UNCHANGED <<clock, market>> /\ batch' = Idle
    BY DEF BatchEnd, BatchDies
  <1>2. \A row \in candidates' : row \in candidates \union batch.rows
    BY DEF BatchEnd, BatchDies
  <1> QED BY <1>1, <1>2, IdleHolds

\* The invariant holds at first.
LEMMA DiscoveryInitHolds == DiscoveryInit => DiscoveryInv
PROOF
  <1> SUFFICES ASSUME DiscoveryInit PROVE DiscoveryInv
    OBVIOUS
  <1>1. Min(Levels) \in Levels
    BY MinIsLeast, DiscoveryAssumption
  <1>2. MarketTyped
    BY <1>1, KlinesAssumption DEF DiscoveryInit, MarketTyped
  <1>3. /\ DOMAIN Idle = BatchFields /\ Idle.stage = "idle" /\ Idle.eligible = {} /\ Idle.preloadEnd = 0 /\ Idle.entry = 0
        /\ DOMAIN Idle.base = Starts /\ (\A s \in Starts : Idle.base[s] = NotAsked)
        /\ Idle.spot.at \in Int /\ DOMAIN Idle.books = Markets /\ (\A m \in Markets : Idle.books[m].at \in Int)
        /\ Idle.rows = {}
    BY DEF Idle, BatchFields, NotObserved, NoBook
  <1>4. batch = Idle /\ candidates = {}
    BY DEF DiscoveryInit
  <1>5. BatchTyped
    BY <1>3, <1>4 DEF BatchTyped, Stages
  <1>6. Timeline
    BY <1>2, <1>3, <1>4, DiscoveryAssumption DEF Timeline, MarketTyped
  <1>7. BaseHolds /\ TailHolds /\ RowsHold
    BY <1>3, <1>4 DEF BaseHolds, TailHolds, RowsHold
  <1> QED BY <1>2, <1>5, <1>6, <1>7 DEF DiscoveryInv

\* Every step keeps it.
LEMMA DiscoveryStepHolds == DiscoveryInv /\ [DiscoveryNext]_discoveryVars => DiscoveryInv'
PROOF
  <1> SUFFICES ASSUME DiscoveryInv, [DiscoveryNext]_discoveryVars PROVE DiscoveryInv'
    OBVIOUS
  <1>1. CASE Tick \/ Move
    BY <1>1, MarketStep
  <1>2. CASE BatchStart
    BY <1>2, BatchStartHolds
  <1>3. CASE ListingDies
    BY <1>3, ListingDiesHolds DEF ListingDies
  <1>4. CASE BatchStep
    <2>1. CASE PreloadRead
      BY <2>1, PreloadReadHolds
    <2>2. CASE PreloadDone
      BY <2>2, PreloadDoneHolds
    <2>3. CASE ReadSpot
      BY <2>3, ReadSpotHolds
    <2>4. CASE \E m \in Markets : ReadBook(m)
      BY <2>4, ReadBookHolds
    <2>5. CASE TailRead
      BY <2>5, TailReadHolds
    <2>6. CASE TailDone
      BY <2>6, TailDoneHolds
    <2>7. CASE BatchEnd
      BY <2>7, BatchOverHolds
    <2> QED BY <1>4, <2>1, <2>2, <2>3, <2>4, <2>5, <2>6, <2>7 DEF BatchStep
  <1>5. CASE BatchDies
    BY <1>5, BatchOverHolds
  <1>6. CASE UNCHANGED discoveryVars
    BY <1>6, ListingDiesHolds DEF discoveryVars
  <1> QED BY <1>1, <1>2, <1>3, <1>4, <1>5, <1>6 DEF DiscoveryNext

\* An entry into a touch market is recommended only if no candle of the exchange
\* had reached its barrier: the last minute of the preload, which may have been
\* open when it was read, is read again by the tail.
THEOREM NoEntryAfterATouch == DiscoverySpec => []EntriesUncrossed
PROOF
  <1>1. DiscoverySpec => []DiscoveryInv
    BY DiscoveryInitHolds, DiscoveryStepHolds, PTL DEF DiscoverySpec
  <1> QED BY <1>1, InvExcludesTouches, PTL

-----------------------------------------------------------------------------
(* What the readers of the candidate file are promised *)

\* The clocks kept of a complete base do not differ.
Settled(result) == result.status = "complete" => result.before = result.after

\* A verified history is sound, and of the source of its parts.
LEMMA VerifiedSound ==
  ASSUME DiscoveryInv, NEW tail, NEW m,
         ResultHolds(tail, Candles(peak, EntryMinute - 2), PreloadMinute - 1, EntryMinute),
         NEW base, Settled(base), NEW merged, merged = Merge(base, tail, Window(m).from, EntryMinute),
         Verified(m, base, merged, tail)
  PROVE  /\ Sound(Window(m), ThresholdPrice(m), batch.entry, merged) /\ merged.source = tail.source
         /\ \E n \in Nat : DOMAIN merged.candles = 1 .. n
PROOF
  <1>1. PICK window : window = Window(m)
    OBVIOUS
  <1>2. PICK mid \in Int, to \in Int : mid = PreloadMinute /\ to = EntryMinute
    BY MinuteOf DEF PreloadMinute, EntryMinute, DiscoveryInv, BatchTyped
  <1>3. PICK threshold, entry : threshold = ThresholdPrice(m) /\ entry = batch.entry
    OBVIOUS
  <1>4. PICK from \in Nat : from = window.from /\ from < mid
    BY <1>1, <1>2 DEF Verified
  <1>5. /\ window.status = "verified" /\ Verdict(window, threshold, entry, merged) = "verified"
        /\ ResultHolds(base, Candles(peak, mid - 2), from, mid)
        /\ merged.status = "complete" /\ Trusted(window, threshold, entry, merged)
        /\ OneEach(merged.candles, from, to) /\ Audit(merged.candles, from, to, threshold).touch = Never
    BY <1>1, <1>2, <1>3, <1>4 DEF Verified
  <1>6. base.status \in Statuses /\ tail.status \in Statuses
    BY <1>5 DEF ResultHolds
  <1>7. merged = Merge(base, tail, from, to)
    BY <1>1, <1>2, <1>4
  <1>8. base.status = "complete" /\ tail.status = "complete" /\ Mergeable(base, tail, from, to)
    BY <1>5, <1>6, <1>7, MergeStatus
  <1>9. /\ base.source = tail.source /\ ~ (base.to > to) /\ ~ (tail.after < base.after)
    BY <1>8 DEF Mergeable
  <1>10. /\ base.to = mid /\ PagesCover(base.pages, from, mid) /\ PagesCover(tail.pages, mid - 1, to)
    BY <1>2, <1>5, <1>8 DEF ResultHolds
  <1>11. from < mid /\ mid <= to /\ from < to /\ from \in Int
    BY <1>4, <1>9, <1>10
  <1>12. /\ merged.source = base.source /\ merged.before = base.before /\ merged.after = tail.after
         /\ merged.pages = Renumbered(base.pages \o tail.pages)
    BY <1>7, MergedRecord
  <1>13. PICK n \in Nat : DOMAIN merged.candles = 1 .. n
    BY <1>2, <1>7, <1>11, MergedCandles
  <1>14. PagesHold(merged, from, to)
    <2>1. PICK old, new : old = base.pages /\ new = tail.pages
      OBVIOUS
    <2>2. PagesCover(old, from, mid) /\ PagesCover(new, mid - 1, to) /\ merged.pages = Renumbered(old \o new)
      BY <1>10, <1>12, <2>1
    <2> QED BY <1>5, <1>11, <1>13, <2>2, MergedPages
  <1>15. NoError(merged)
    BY <1>5, <1>7, MergedWell
  <1>16. ~ (merged.after < merged.before)
    BY <1>8, <1>9, <1>12 DEF Settled
  <1>17. Sound(window, threshold, entry, merged)
    <2>1. to = Minute(entry)
      BY <1>2, <1>3 DEF EntryMinute
    <2> QED BY <1>4, <1>5, <1>14, <1>15, <1>16, <2>1 DEF Sound
  <1> QED BY <1>1, <1>3, <1>9, <1>12, <1>13, <1>17

\* The row of a touch market can be verified if Binance served its candles.
LEMMA VerifiableWhenBinance ==
  ASSUME DiscoveryInv, batch.stage = "closing", NEW tail,
         ResultHolds(tail, Candles(peak, EntryMinute - 2), PreloadMinute - 1, EntryMinute),
         \A s \in Starts : Settled(batch.base[s]),
         NEW m \in batch.eligible, Recommended(m, Histories(tail)), m \in TouchMarkets
  PROVE  Verifiable(m, Histories(tail)) <=> tail.source = "binance"
PROOF
  <1>1. PICK from : from = Window(m).from
    OBVIOUS
  <1>2. PICK base : base = batch.base[from]
    OBVIOUS
  <1>3. PICK merged : merged = Merge(base, tail, from, EntryMinute)
    OBVIOUS
  <1>4. Verified(m, base, merged, tail)
    BY <1>1, <1>2, <1>3, HistoryVerified
  <1>5. Settled(base)
    BY <1>1, <1>2, <1>4 DEF Verified
  <1>6. PICK window, threshold : window = Window(m) /\ threshold = ThresholdPrice(m)
    OBVIOUS
  <1>7. PICK entry \in Int : entry = batch.entry
    BY DEF DiscoveryInv, BatchTyped
  <1>8. /\ Sound(window, threshold, entry, merged) /\ merged.source = tail.source
        /\ \E n \in Nat : DOMAIN merged.candles = 1 .. n
    BY <1>1, <1>3, <1>4, <1>5, <1>6, <1>7, VerifiedSound
  <1>9. PICK evidence : evidence = Evidence(window, threshold, entry, merged)
    OBVIOUS
  <1>10. window.from \in Int /\ window.expiry = ExpiryTime(m) /\ Histories(tail)[m] = evidence
    BY <1>4, <1>6, <1>7, <1>9 DEF Verified
  <1>11. IntegrityReasons(HistoryRow(window, threshold, entry, window.expiry, evidence), FilesOf(evidence)) = {}
         <=> merged.source = "binance"
    BY <1>8, <1>9, <1>10, HistoryBelieved
  <1>12. Verifiable(m, Histories(tail))
         <=> IntegrityReasons(HistoryRow(window, threshold, entry, window.expiry, evidence), FilesOf(evidence)) = {}
    BY <1>6, <1>7, <1>10 DEF Verifiable, HistoryRow
  <1> QED BY <1>8, <1>11, <1>12

\* Rows that may stand in one file.
Publishable(rows, entry) ==
  \E recommended \in SUBSET Tradable, history \in Feed!Histories :
  \E oldest \in [recommended -> Feed!Evidence(entry)] : rows = Feed!Batch(entry, oldest, history)

\* What the promise to the readers needs: the entry is a minute to come when it
\* is committed to, and the rows are those of one file.
PromiseInv ==
  /\ batch.stage \in {"observing", "closing"} => \A s \in Starts : Settled(batch.base[s])
  /\ batch.stage \in {"observing", "closing", "writing"} =>
        batch.entry % PerMinute = 0 /\ \A c \in candidates : c.entry < batch.entry
  /\ batch.stage = "writing" => batch.entry <= clock /\ Publishable(batch.rows, batch.entry)

\* A part of a file could have been written as a whole.
LEMMA PartPublishable ==
  ASSUME NEW rows, NEW entry, Publishable(rows, entry), NEW part, part \subseteq rows
  PROVE  Publishable(part, entry)
PROOF
  <1>1. PICK recommended \in SUBSET Tradable, history \in Feed!Histories :
          \E oldest \in [recommended -> Feed!Evidence(entry)] : rows = Feed!Batch(entry, oldest, history)
    BY DEF Publishable
  <1>2. PICK oldest \in [recommended -> Feed!Evidence(entry)] : rows = Feed!Batch(entry, oldest, history)
    BY <1>1
  <1> DEFINE RowOf(m) == Feed!Row(m, entry, oldest[m], m \in TouchMarkets => history = "binance")
  <1>3. rows = {RowOf(m) : m \in recommended}
    BY <1>2 DEF Feed!Batch
  <1>4. PICK kept : kept = {m \in recommended : RowOf(m) \in part}
    OBVIOUS
  <1>5. PICK rest : rest = [m \in kept |-> oldest[m]]
    OBVIOUS
  <1>6. rest \in [kept -> Feed!Evidence(entry)] /\ kept \in SUBSET Tradable
    BY <1>4, <1>5
  <1>7. part = {RowOf(m) : m \in kept}
    <2> HIDE DEF RowOf
    <2> QED BY <1>3, <1>4
  <1>8. Feed!Batch(entry, rest, history)
          = {Feed!Row(m, entry, rest[m], m \in TouchMarkets => history = "binance") : m \in kept}
    BY <1>5 DEF Feed!Batch
  <1>9. \A m \in kept : rest[m] = oldest[m]
    BY <1>5
  <1>10. part = Feed!Batch(entry, rest, history)
    BY <1>7, <1>8, <1>9
  <1> QED BY <1>6, <1>10 DEF Publishable

\* The rows discovery makes may stand in one file.
LEMMA RowsPublishable ==
  ASSUME DiscoveryInv, batch.stage = "closing", NEW tail,
         ResultHolds(tail, Candles(peak, EntryMinute - 2), PreloadMinute - 1, EntryMinute),
         \A s \in Starts : Settled(batch.base[s])
  PROVE  Publishable(Rows(Histories(tail)), batch.entry)
PROOF
  <1>1. PICK histories : histories = Histories(tail)
    OBVIOUS
  <1>2. PICK entry : entry = batch.entry
    OBVIOUS
  <1>3. PICK recommended : recommended = {m \in batch.eligible : Recommended(m, histories)}
    OBVIOUS
  <1>4. PICK history \in Feed!Histories : history = "binance" <=> tail.source = "binance"
    <2>1. "binance" \in Feed!Histories /\ "coinbase" \in Feed!Histories
      BY DEF Feed!Histories
    <2> QED BY <2>1
  <1>5. PICK oldest : oldest = [m \in recommended |-> Oldest(m)]
    OBVIOUS
  <1>6. recommended \in SUBSET Tradable
    BY <1>3 DEF DiscoveryInv, BatchTyped
  <1>7. ASSUME NEW m \in recommended
        PROVE  /\ Oldest(m) \in Feed!Evidence(entry)
               /\ Verifiable(m, histories) = (m \in TouchMarkets => history = "binance")
    <2>1. m \in batch.eligible /\ Recommended(m, Histories(tail)) /\ m \in Markets
      BY <1>1, <1>3, <1>6, TradableMarkets
    <2>2. Timely(batch.spot) /\ Timely(batch.books[m])
      BY <2>1, HistoryVerified
    <2>3. Oldest(m) \in Feed!Evidence(entry)
      BY <1>2, <2>1, <2>2, OldestIn DEF DiscoveryInv
    <2>4. m \in TouchMarkets => (Verifiable(m, histories) <=> history = "binance")
      BY <1>1, <1>4, <2>1, VerifiableWhenBinance
    <2>5. m \notin TouchMarkets => Verifiable(m, histories) = TRUE
      BY DEF Verifiable
    <2>6. Verifiable(m, histories) \in BOOLEAN
      BY DEF Verifiable
    <2> HIDE DEF Verifiable
    <2> QED BY <2>3, <2>4, <2>5, <2>6
  <1>8. oldest \in [recommended -> Feed!Evidence(entry)]
    BY <1>5, <1>7
  <1>9. Rows(histories) = {Feed!Row(m, entry, Oldest(m), Verifiable(m, histories)) : m \in recommended}
    BY <1>2, <1>3 DEF Rows
  <1>10. Feed!Batch(entry, oldest, history)
           = {Feed!Row(m, entry, oldest[m], m \in TouchMarkets => history = "binance") : m \in recommended}
    BY <1>5 DEF Feed!Batch
  <1>11. ASSUME NEW m \in recommended
         PROVE  Feed!Row(m, entry, Oldest(m), Verifiable(m, histories))
                  = Feed!Row(m, entry, oldest[m], m \in TouchMarkets => history = "binance")
    BY <1>5, <1>7
  <1>12. Rows(histories) = Feed!Batch(entry, oldest, history)
    BY <1>9, <1>10, <1>11
  <1> QED BY <1>1, <1>2, <1>6, <1>8, <1>12 DEF Publishable

\* A minute's first tick is no part of a minute away from a minute.
LEMMA MinuteEven ==
  ASSUME NEW k \in Int
  PROVE  (PerMinute * k) % PerMinute = 0
PROOF
  <1>1. PerMinute \in Nat /\ PerMinute > 0
    BY KlinesAssumption
  <1> QED BY <1>1

\* While a batch observes and closes, what was committed to stays.
LEMMA CommittedStays ==
  ASSUME PromiseInv, candidates' = candidates, batch.stage \in {"observing", "closing"},
         batch'.stage \in {"observing", "closing"}, batch'.base = batch.base, batch'.entry = batch.entry
  PROVE  PromiseInv'
PROOF
  BY DEF PromiseInv, Settled

\* Before the commitment and after the batch nothing is promised.
LEMMA NothingPromised ==
  ASSUME batch'.stage \in {"idle", "preloading", "preloaded"}
  PROVE  PromiseInv'
PROOF
  BY DEF PromiseInv

\* The base is kept, and the entry is a minute to come.
LEMMA PreloadDonePromises ==
  ASSUME DiscoveryInv, PreloadDone
  PROVE  PromiseInv'
PROOF
  <1>1. UNCHANGED <<clock, market>> /\ candidates' = candidates
    BY DEF PreloadDone
  <1>2. /\ batch'.stage = "observing" /\ batch'.entry = NextEntry
        /\ batch'.base = [s \in Starts |-> Kept(Concluded(batch.base[s]))]
    BY DEF PreloadDone, DiscoveryInv, BatchTyped, BatchFields
  <1>3. ASSUME NEW s \in Starts PROVE Settled(batch'.base[s])
    <2>1. PICK result : result = Concluded(batch.base[s])
      OBVIOUS
    <2>2. batch'.base[s] = Kept(result)
      BY <1>2, <2>1
    <2>3. Settled(Kept(result))
      <3>1. CASE result.status = "complete"
        BY <3>1 DEF Kept, Settled
      <3>2. CASE result.status # "complete"
        BY <3>2 DEF Kept, Settled, NotAsked, Empty
      <3> QED BY <3>1, <3>2
    <2> QED BY <2>2, <2>3
  <1>4. PICK minute \in Int : minute = Minute(clock)
    BY MinuteOf DEF DiscoveryInv, MarketTyped
  <1>5. NextEntry = PerMinute * (minute + 1) /\ minute + 1 \in Int
    BY <1>4, KlinesAssumption DEF NextEntry, Floor
  <1>6. NextEntry % PerMinute = 0
    BY <1>5, MinuteEven
  <1>7. clock < NextEntry /\ NextEntry \in Int
    <2>1. clock \in Nat
      BY DEF DiscoveryInv, MarketTyped
    <2>2. Floor(clock) \in Nat /\ clock < Floor(clock) + PerMinute
      BY <2>1, FloorOf
    <2> QED BY <2>1, <2>2, KlinesAssumption DEF NextEntry
  <1>8. ASSUME NEW c \in candidates PROVE c.entry < NextEntry
    <2>1. c.entry \in Int /\ c.entry <= clock
      BY DEF DiscoveryInv, RowsHold, RowHolds
    <2>2. clock \in Int
      BY DEF DiscoveryInv, MarketTyped
    <2> QED BY <1>7, <2>1, <2>2
  <1> QED BY <1>1, <1>2, <1>3, <1>6, <1>8 DEF PromiseInv

\* The rows are made when their entry has come.
LEMMA TailDonePromises ==
  ASSUME DiscoveryInv, PromiseInv, TailDone
  PROVE  PromiseInv'
PROOF
  <1>1. UNCHANGED <<clock, market>> /\ candidates' = candidates /\ batch.stage = "closing"
    BY DEF TailDone
  <1>2. PICK tail : tail = Concluded(batch.tail)
    OBVIOUS
  <1>3. batch'.stage = "writing" /\ batch'.entry = batch.entry /\ batch'.rows = Rows(Histories(tail))
    BY <1>2 DEF TailDone, Idle
  <1>4. ResultHolds(tail, Candles(peak, EntryMinute - 2), PreloadMinute - 1, EntryMinute)
    BY <1>1, <1>2, TailHeld
  <1>5. Publishable(batch'.rows, batch'.entry)
    BY <1>1, <1>3, <1>4, RowsPublishable DEF PromiseInv
  <1>6. Publishable(batch.rows, batch.entry)'
    BY <1>5 DEF Publishable
  <1>7. batch'.entry <= clock'
    BY <1>1, <1>3 DEF DiscoveryInv, Timeline
  <1>8. batch'.entry % PerMinute = 0 /\ \A c \in candidates' : c.entry < batch'.entry
    BY <1>1, <1>3 DEF PromiseInv
  <1> QED BY <1>3, <1>6, <1>7, <1>8 DEF PromiseInv

\* A market that moves and a clock that ticks break no promise.
LEMMA PromiseStays ==
  ASSUME PromiseInv, UNCHANGED <<batch, candidates>>, clock \in Int, clock' \in Int, clock <= clock', DiscoveryInv
  PROVE  PromiseInv'
PROOF
  <1>1. Publishable(batch.rows, batch.entry) => Publishable(batch.rows, batch.entry)'
    BY DEF Publishable
  <1>2. batch.stage = "writing" => batch.entry <= clock'
    <2>1. batch.entry \in Int
      BY DEF DiscoveryInv, BatchTyped
    <2> QED BY <2>1 DEF PromiseInv
  <1> QED BY <1>1, <1>2 DEF PromiseInv, Settled

\* Every step keeps the promise.
LEMMA PromiseStepHolds == DiscoveryInv /\ PromiseInv /\ [DiscoveryNext]_discoveryVars => PromiseInv'
PROOF
  <1> SUFFICES ASSUME DiscoveryInv, PromiseInv, [DiscoveryNext]_discoveryVars PROVE PromiseInv'
    OBVIOUS
  <1>0. clock \in Int /\ DOMAIN batch = BatchFields
    BY DEF DiscoveryInv, MarketTyped, BatchTyped
  <1>1. CASE Tick \/ Move
    <2>1. UNCHANGED <<batch, candidates>> /\ clock' \in Int /\ clock <= clock'
      BY <1>0, <1>1 DEF Tick, Move
    <2> QED BY <1>0, <2>1, PromiseStays
  <1>2. CASE UNCHANGED <<clock, batch, candidates>>
    BY <1>0, <1>2, PromiseStays
  <1>3. CASE BatchStart
    <2>1. CASE batch' = batch
      BY <1>2, <1>3, <2>1 DEF BatchStart
    <2>2. CASE batch' # batch
      <3>1. batch'.stage = "preloading"
        BY <1>3, <2>2 DEF BatchStart, Idle
      <3> QED BY <3>1, NothingPromised
    <2> QED BY <2>1, <2>2
  <1>4. CASE ListingDies
    BY <1>2, <1>4 DEF ListingDies
  <1>5. CASE BatchStep
    <2>1. CASE PreloadRead
      <3>1. batch'.stage = "preloaded"
        BY <1>0, <2>1 DEF PreloadRead, BatchFields
      <3> QED BY <3>1, NothingPromised
    <2>2. CASE PreloadDone
      BY <2>2, PreloadDonePromises
    <2>3. CASE ReadSpot
      <3>1. /\ candidates' = candidates /\ batch.stage = "observing" /\ batch'.stage = "observing"
            /\ batch'.base = batch.base /\ batch'.entry = batch.entry
        BY <1>0, <2>3 DEF ReadSpot, Observing, BatchFields
      <3> QED BY <3>1, CommittedStays
    <2>4. ASSUME NEW m \in Markets, ReadBook(m) PROVE PromiseInv'
      <3>1. /\ candidates' = candidates /\ batch.stage = "observing" /\ batch'.stage = "observing"
            /\ batch'.base = batch.base /\ batch'.entry = batch.entry
        BY <1>0, <2>4 DEF ReadBook, Observing, BatchFields
      <3> QED BY <3>1, CommittedStays
    <2>5. CASE TailRead
      <3>1. /\ candidates' = candidates /\ batch.stage = "observing" /\ batch'.stage = "closing"
            /\ batch'.base = batch.base /\ batch'.entry = batch.entry
        BY <1>0, <2>5 DEF TailRead, Observing, BatchFields
      <3> QED BY <3>1, CommittedStays
    <2>6. CASE TailDone
      BY <2>6, TailDonePromises
    <2>7. CASE BatchEnd
      <3>1. batch'.stage = "idle"
        BY <2>7 DEF BatchEnd, Idle
      <3> QED BY <3>1, NothingPromised
    <2> QED BY <1>5, <2>1, <2>2, <2>3, <2>4, <2>5, <2>6, <2>7 DEF BatchStep
  <1>6. CASE BatchDies
    <2>1. batch'.stage = "idle"
      BY <1>6 DEF BatchDies, Idle
    <2> QED BY <2>1, NothingPromised
  <1>7. CASE UNCHANGED discoveryVars
    BY <1>2, <1>7 DEF discoveryVars
  <1> QED BY <1>1, <1>3, <1>4, <1>5, <1>6, <1>7 DEF DiscoveryNext

\* The rows of a batch are published for its readers.
LEMMA RowsArePublished ==
  ASSUME DiscoveryInv, PromiseInv, batch.stage = "writing", candidates' \subseteq batch.rows, clock' = clock
  PROVE  Feed!Publish
PROOF
  <1>1. PICK entry : entry = batch.entry
    OBVIOUS
  <1>2. /\ entry % PerMinute = 0 /\ entry <= clock /\ entry \in Nat /\ clock \in Nat
        /\ \A c \in candidates : c.entry < entry
    BY <1>1 DEF DiscoveryInv, MarketTyped, BatchTyped, PromiseInv
  <1>3. entry \in {t \in 0 .. clock : t % PerMinute = 0}
    BY <1>2
  <1>4. Publishable(candidates', entry)
    BY <1>1, PartPublishable DEF PromiseInv
  <1>5. \E recommended \in SUBSET Tradable, history \in Feed!Histories :
        \E oldest \in [recommended -> Feed!Evidence(entry)] : candidates' = Feed!Batch(entry, oldest, history)
    BY <1>4 DEF Publishable
  <1> QED BY <1>2, <1>3, <1>5 DEF Feed!Publish

\* Every step of discovery is one its readers were promised, or none to them.
LEMMA StepIsPromised ==
  ASSUME DiscoveryInv, PromiseInv, [DiscoveryNext]_discoveryVars
  PROVE  [Feed!Publish \/ Feed!TimePasses]_<<clock, candidates>>
PROOF
  <1>1. CASE Tick
    BY <1>1 DEF Tick, Feed!TimePasses
  <1>2. CASE BatchEnd \/ (BatchDies /\ candidates' # candidates)
    <2>1. batch.stage = "writing" /\ candidates' \subseteq batch.rows /\ clock' = clock
      BY <1>2 DEF BatchEnd, BatchDies
    <2> QED BY <2>1, RowsArePublished
  <1>3. CASE UNCHANGED <<clock, candidates>>
    BY <1>3
  <1>4. CASE Move \/ BatchStart \/ ListingDies \/ (BatchDies /\ candidates' = candidates) \/ UNCHANGED discoveryVars
    BY <1>3, <1>4 DEF Move, BatchStart, ListingDies, BatchDies, discoveryVars
  <1>5. CASE BatchStep
    BY <1>2, <1>3, <1>5 DEF BatchStep, PreloadRead, PreloadDone, ReadSpot, ReadBook, TailRead, TailDone
  <1> QED BY <1>1, <1>2, <1>4, <1>5 DEF DiscoveryNext

\* The file of candidates is what CandidateFeed promises its readers: replaced
\* as a whole by rows of a later entry on timely evidence, of one history,
\* that can be verified when Binance served it.
THEOREM DiscoveryFeeds == DiscoverySpec => FeedsAsPromised
PROOF
  <1>1. DiscoveryInit => PromiseInv /\ Feed!FeedInit
    BY DEF DiscoveryInit, PromiseInv, Idle, Feed!FeedInit
  <1>2. DiscoverySpec => []DiscoveryInv
    BY DiscoveryInitHolds, DiscoveryStepHolds, PTL DEF DiscoverySpec
  <1>3. DiscoverySpec => []PromiseInv
    BY <1>1, <1>2, PromiseStepHolds, PTL DEF DiscoverySpec
  <1> QED BY <1>1, <1>2, <1>3, StepIsPromised, PTL DEF DiscoverySpec, FeedsAsPromised, Feed!FeedSpec
=============================================================================
