------------------------------ MODULE BookCache ------------------------------
(***************************************************************************)
(* The order books the paper runner trades on: the per-token caches of     *)
(* polysignal/ingestion/orderbook_cache.py, filled by the receive loops    *)
(* from the messages the parser lets through, and the subscriptions they   *)
(* depend on.  The tokens are those of the markets that every scan lists.  *)
(*                                                                         *)
(* The exchange is external: it serves a token once asked on a connection, *)
(* with a snapshot first, and sends what it has to say in order.  Of the   *)
(* client, FeedClient has the attempts and delays; here are the sockets it *)
(* replaces without closing them, whose receive loops read on.             *)
(***************************************************************************)
EXTENDS Integers, Sequences, FiniteSets

CONSTANTS
  Tokens,    \* the tokens of the markets
  Levels,    \* price levels of each token's book, both sides
  Forms,     \* how the exchange tells a change: the book, an update, a delta
  Limits,    \* values of max_subscriptions
  MaxSize,   \* bound: sizes at a level
  MaxWire,   \* bound: messages under way
  MaxTasks,  \* bound: receive loops and tasks about to connect
  Unsure     \* view of a cache that does not follow the exchange's book

Kinds == {"book", "update", "delta"}

ASSUME CacheAssumption ==
  /\ DOMAIN Levels = Tokens /\ MaxSize \in Nat \ {0} /\ MaxWire \in Nat \ {0}
  /\ Forms \subseteq Kinds
  /\ Limits \subseteq Nat \ {0} /\ MaxTasks \in Nat
  /\ \A t \in Tokens : Unsure \notin [Levels[t] -> 0 .. MaxSize]

VARIABLES
  truth,       \* the exchange's books
  served,      \* tokens the exchange serves on the client's socket
  wire,        \* messages under way on it, oldest first
  link,        \* the client's socket: up, broken, or down when none is read
  connected,   \* _connected
  isRunning,   \* _running
  connecting,  \* tasks about to connect: the start, handlers of a disconnect
  outdated,    \* receive loops still waiting for a socket that was replaced
  former,      \* tokens the replaced sockets may speak of
  subscribed,  \* subscription_manager._subscribed
  todo,        \* tokens each task has yet to send
  maxSubscriptions,
  book,        \* _caches: bids and asks
  based        \* auxiliary: tokens whose cache followed the exchange so far

exchangeVars == <<truth, served>>
taskVars == <<connected, isRunning, connecting, outdated, former>>
clientVars == <<link, taskVars>>
cacheVars == <<book, based>>
subscriptionVars == <<subscribed, todo, maxSubscriptions>>
bookVars == <<exchangeVars, wire, clientVars, cacheVars, subscriptionVars>>

Sizes == 0 .. MaxSize
BooksOf(t) == [Levels[t] -> Sizes]
Blank(t) == [l \in Levels[t] |-> 0]
AreBooks(bs) ==
  /\ bs \in [Tokens -> UNION {BooksOf(t) : t \in Tokens}]
  /\ \A t \in Tokens : bs[t] \in BooksOf(t)

\* The handlers of a disconnect, and the runner.
Subscribers == {"handler", "runner"}

-----------------------------------------------------------------------------
(* Messages: the levels they name, with their sizes. *)

Held(b) == {l \in DOMAIN b : b[l] > 0}

Restricted(b, ls) == [l \in ls |-> b[l]]

Snapshot(t, b) == [token |-> t, kind |-> "book", levels |-> Restricted(b, Held(b))]

Update(t, b, ls) == [token |-> t, kind |-> "update", levels |-> Restricted(b, ls)]

\* A change of some levels in the fields bids and asks, whatever its type.
Delta(t, b, ls) == [token |-> t, kind |-> "delta", levels |-> Restricted(b, ls)]

Telling(form, t, b, l) ==
  IF form = "book" THEN Snapshot(t, b)
  ELSE IF form = "update" THEN Update(t, b, {l}) ELSE Delta(t, b, {l})

\* parse_message: a message without levels comes to nothing.
Parsed(msg) == DOMAIN msg.levels # {}

ApplySnapshotMerged(b, levels) ==    \* deviation: old levels survive
  [l \in DOMAIN b |-> IF l \in DOMAIN levels THEN levels[l] ELSE b[l]]

ApplySnapshot(b, levels) ==
  [l \in DOMAIN b |-> IF l \in DOMAIN levels THEN levels[l] ELSE 0]

ApplyUpdateNoRemoval(b, levels) ==    \* deviation: size 0 is not a removal
  [l \in DOMAIN b |-> IF l \in DOMAIN levels /\ levels[l] > 0 THEN levels[l] ELSE b[l]]

\* Size 0 removes the level.
ApplyUpdate(b, levels) ==
  [l \in DOMAIN b |-> IF l \in DOMAIN levels THEN levels[l] ELSE b[l]]

\* What has bids or asks is parsed as a snapshot, a delta too: the levels it
\* does not name are gone.
Applied(b, msg) ==
  IF msg.kind = "update" THEN ApplyUpdate(b, msg.levels) ELSE ApplySnapshot(b, msg.levels)

\* The caches after a message, on whichever socket it came.
Applies(msg) ==
  book' = IF Parsed(msg) THEN [book EXCEPT ![msg.token] = Applied(@, msg)] ELSE book

\* Whether the cache follows the exchange's book after a message: it does from
\* a snapshot on, until the book is empty or a change is taken for a snapshot.
Follows(msg) ==
  IF ~Parsed(msg) \/ msg.kind = "delta" THEN based \ {msg.token}
  ELSE IF msg.kind = "book" THEN based \cup {msg.token} ELSE based

-----------------------------------------------------------------------------
(* The exchange and the connection *)

Says(msg) == wire' = Append(wire, msg)

Calm == Len(wire) < MaxWire

\* A level changes; who is served is told in one of the forms.
BookChanges(t) ==
  /\ \E l \in Levels[t], size \in Sizes :
       /\ size # truth[t][l]
       /\ truth' = [truth EXCEPT ![t][l] = size]
       /\ IF t \in served
            THEN Calm /\ \E form \in Forms : Says(Telling(form, t, truth'[t], l))
            ELSE UNCHANGED wire
  /\ UNCHANGED <<served, clientVars, cacheVars, subscriptionVars>>

\* A tick repeats the size of the best levels, on either side or both.
Ticks(t) ==
  /\ t \in served /\ Calm
  /\ \E ls \in (SUBSET Held(truth[t])) \ {{}} : Says(Update(t, truth[t], ls))
  /\ UNCHANGED <<exchangeVars, clientVars, cacheVars, subscriptionVars>>

\* The connection breaks, with the last messages it carried.
Break ==
  /\ link = "up"
  /\ link' = "broken"
  /\ served' = {}
  /\ \E n \in 0 .. Len(wire) : wire' = SubSeq(wire, 1, n)
  /\ UNCHANGED <<truth, taskVars, cacheVars, subscriptionVars>>

-----------------------------------------------------------------------------
(* The client *)

\* _handle_disconnect begins: it will connect, unless the client has stopped.
\* The caches stay as they are.
StartHandler ==
  /\ connected' = FALSE
  /\ connecting' = connecting + (IF isRunning THEN 1 ELSE 0)

\* recv raises once nothing is left to read on a broken socket.
Notice ==
  /\ link = "broken" /\ wire = <<>>
  /\ link' = "down"
  /\ StartHandler
  /\ UNCHANGED <<exchangeVars, wire, isRunning, outdated, former, cacheVars, subscriptionVars>>

Tasks == connecting + outdated + (IF link = "down" THEN 0 ELSE 1)

\* _ping_loop misses a pong: the socket will be replaced, and is read meanwhile.
PongTimeout ==
  /\ connected /\ isRunning /\ link # "down"
  /\ Tasks < MaxTasks
  /\ StartHandler
  /\ UNCHANGED <<exchangeVars, wire, link, isRunning, outdated, former, cacheVars,
                 subscriptionVars>>

\* The attempts are exhausted, or the start failed.
GiveUp ==
  /\ connecting > 0
  /\ connecting' = connecting - 1
  /\ isRunning' = FALSE
  /\ UNCHANGED <<exchangeVars, wire, link, connected, outdated, former, cacheVars,
                 subscriptionVars>>

\* A receive loop whose socket was replaced reads one more message from it, or
\* none in its time, and then meets the loop of the present socket, where recv
\* raises for one of them; it just ends if the client has stopped.
Wake ==
  /\ outdated > 0
  /\ outdated' = outdated - 1
  /\ former' = IF outdated = 1 THEN {} ELSE former
  /\ \/ UNCHANGED cacheVars
     \/ \E t \in former : \E form \in Forms, b \in BooksOf(t), l \in Levels[t] :
          /\ Applies(Telling(form, t, b, l))
          /\ based' = based \ {t}
  /\ StartHandler \/ (~isRunning /\ UNCHANGED <<connected, connecting>>)
  /\ UNCHANGED <<exchangeVars, wire, link, isRunning, subscriptionVars>>

-----------------------------------------------------------------------------
(* Subscriptions *)

\* Elements of the slice [:slots] of n of them.
SliceLength(n, slots) ==
  IF slots < 0 THEN (IF n + slots < 0 THEN 0 ELSE n + slots)
  ELSE IF n < slots THEN n ELSE slots

\* What may be left of the tokens: those not yet subscribed, in any order, up
\* to the limit.
CanSubscribe(tokens, already) ==
  LET new == tokens \ already
  IN  {cut \in SUBSET new :
         Cardinality(cut) = SliceLength(Cardinality(new), maxSubscriptions - Cardinality(already))}

ClearNot == subscribed    \* deviation: resubscribe_all does not clear first

Clear == {}

Mentioned == {wire[i].token : i \in DOMAIN wire}

\* connect, of the start or of a handler, and the beginning of resubscribe_all.
\* A receive loop of the socket that is replaced waits on, unless it has found
\* that the client had stopped.
Reconnect ==
  /\ connecting > 0
  /\ connecting' = connecting - 1
  /\ link' = "up" /\ connected' = TRUE /\ isRunning' = TRUE
  /\ served' = {} /\ wire' = <<>>
  /\ \/ /\ link # "down"
        /\ outdated' = outdated + 1
        /\ former' = former \cup served \cup Mentioned
     \/ /\ link = "down" \/ ~isRunning
        /\ UNCHANGED <<outdated, former>>
  /\ subscribed' = Clear
  /\ \E tokens \in CanSubscribe(subscribed, subscribed') :
       todo' = [todo EXCEPT !["handler"] = @ \cup tokens]
  /\ based' = {}
  /\ UNCHANGED <<truth, book, maxSubscriptions>>

\* _subscribe_markets, in every scan while the runner believes in a connection.
Scan ==
  /\ connected
  /\ todo["runner"] = {}
  /\ \E tokens \in CanSubscribe(Tokens, subscribed) :
       /\ tokens # {}
       /\ todo' = [todo EXCEPT !["runner"] = tokens]
  /\ UNCHANGED <<exchangeVars, wire, clientVars, cacheVars, subscribed, maxSubscriptions>>

\* subscribe_batch; a batch of several tokens is so many sends.  A send that
\* raises loses its tokens; a broken connection may still accept one.
SendBatch(task) ==
  /\ \E t \in todo[task] :
       /\ todo' = [todo EXCEPT ![task] = @ \ {t}]
       /\ \/ /\ link = "up"
             /\ Says(Snapshot(t, truth[t]))
             /\ served' = served \cup {t}
             /\ subscribed' = subscribed \cup {t}
          \/ /\ link = "broken"
             /\ subscribed' = subscribed \cup {t}
             /\ UNCHANGED <<served, wire>>
          \/ /\ link # "up"
             /\ UNCHANGED <<served, wire, subscribed>>
  /\ UNCHANGED <<truth, clientVars, cacheVars, maxSubscriptions>>

-----------------------------------------------------------------------------
(* The caches *)

\* The loop of the present socket reads, parses and applies a message.  A cache
\* may begin with an update, and keeps what it has when the book is empty.
Receive ==
  /\ wire # <<>>
  /\ wire' = Tail(wire)
  /\ Applies(Head(wire))
  /\ based' = Follows(Head(wire))
  /\ UNCHANGED <<exchangeVars, clientVars, subscriptionVars>>

-----------------------------------------------------------------------------
BookInit ==
  /\ truth \in {bs \in [Tokens -> UNION {BooksOf(t) : t \in Tokens}] : AreBooks(bs)}
  /\ served = {} /\ wire = <<>>
  /\ link = "down" /\ connected = FALSE /\ isRunning = FALSE
  /\ connecting = 1 /\ outdated = 0 /\ former = {}
  /\ subscribed = {} /\ todo = [k \in Subscribers |-> {}]
  /\ maxSubscriptions \in Limits
  /\ book = [t \in Tokens |-> Blank(t)] /\ based = {}

BookNext ==
  \/ \E t \in Tokens : BookChanges(t) \/ Ticks(t)
  \/ \E k \in Subscribers : SendBatch(k)
  \/ Break \/ Notice \/ PongTimeout \/ GiveUp \/ Wake
  \/ Reconnect \/ Scan \/ Receive

\* Scans go on, sends end, messages are read while the client runs, and the
\* keepalive of the library makes recv raise on a broken connection.
BookFairness ==
  /\ WF_bookVars(Scan) /\ WF_bookVars(isRunning /\ Receive) /\ WF_bookVars(Notice)
  /\ \A k \in Subscribers : WF_bookVars(SendBatch(k))

BookSpec == BookInit /\ [][BookNext]_bookVars /\ BookFairness

-----------------------------------------------------------------------------
(* The refinement *)

View(t) == IF t \in based THEN book[t] ELSE Unsure

ViewAfter(view, msg) ==
  IF ~Parsed(msg) \/ msg.kind = "delta" THEN Unsure
  ELSE IF msg.kind = "book" THEN Applied(Blank(msg.token), msg)
  ELSE IF view = Unsure THEN Unsure ELSE Applied(view, msg)

\* The view that holds once these have been gone through.
Latest(view, views) == IF views = <<>> THEN view ELSE views[Len(views)]

\* The views of token t that follow view as the messages are read, after each.
ViewsOf(t, view, msgs) ==
  LET views[i \in 0 .. Len(msgs)] ==
        IF i = 0 THEN <<>>
        ELSE IF msgs[i].token = t
          THEN Append(views[i - 1], ViewAfter(Latest(view, views[i - 1]), msgs[i]))
          ELSE views[i - 1]
  IN  views

ViewsUnderWay(t) == ViewsOf(t, View(t), wire)[Len(wire)]

Replica == INSTANCE BookReplica
  WITH Books <- [t \in Tokens |-> BooksOf(t)],
       Empty <- [t \in Tokens |-> Blank(t)],
       Misread <- "delta" \in Forms,
       copy <- [t \in Tokens |-> View(t)],
       feed <- [t \in Tokens |-> ViewsUnderWay(t)],
       live <- served

-----------------------------------------------------------------------------
CacheTypeOK ==
  /\ AreBooks(truth) /\ AreBooks(book)
  /\ link \in {"up", "broken", "down"}
  /\ connected \in BOOLEAN /\ isRunning \in BOOLEAN
  /\ connecting \in Nat /\ outdated \in Nat /\ former \subseteq Tokens
  /\ \A i \in DOMAIN wire :
       wire[i].token \in Tokens /\ wire[i].kind \in Kinds
  /\ subscribed \subseteq Tokens /\ served \subseteq Tokens /\ based \subseteq Tokens
  /\ todo \in [Subscribers -> SUBSET Tokens]
  /\ maxSubscriptions \in Limits

(* The caches are replicas of the exchange's books: through partial        *)
(* caches, ticks, updates before a snapshot, changes taken for snapshots,  *)
(* broken and replaced connections and resubscriptions a based cache goes  *)
(* through the exchange's books in their order, and loses them in the ways *)
(* BookReplica names only.                                                 *)
CachesAreReplicas == Replica!ReplicaSpec

(* What a cache will show once the wire is read is the exchange's book, if *)
(* it rests on a snapshot of this socket, none of whose changes came as a  *)
(* delta since and to which no replaced socket has added: no level is      *)
(* missed, none outlives its removal (TokenOrderBookCache.apply_snapshot   *)
(* and apply_update).                                                      *)
SyncedBookIsReal == CacheTypeOK /\ Replica!ServedViewIsReal

\* The client has a connection and reads from it.
Serving == link = "up" /\ connected /\ isRunning

\* As many other tokens are subscribed as may be.
SlotsTaken(t) == Cardinality(subscribed \ {t}) >= maxSubscriptions

(* A token that the exchange does not serve gets its book back while the   *)
(* connection lasts and there is a slot for it: resubscribe_all forgets    *)
(* every token before it sends any, and whichever sends fail and whatever  *)
(* several handlers and the runner send at once, the client's idea of its  *)
(* subscriptions never keeps the next scans from asking again until a      *)
(* snapshot arrives.  The exception is an empty book, which is sent and    *)
(* not applied.                                                            *)
LostBooksComeBack ==
  \A t \in Tokens :
    Serving /\ t \notin served
      ~> t \in based \/ ~Serving \/ truth[t] = Blank(t) \/ SlotsTaken(t)
=============================================================================
