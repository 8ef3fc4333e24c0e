----------------------------- MODULE BookReplica -----------------------------
(***************************************************************************)
(* What the order book cache promises for each token, without messages,    *)
(* parsing or subscriptions: it goes through the books the exchange had    *)
(* since the subscription, each of them and in their order, or it is       *)
(* unsure.  It may become unsure in these ways only: the connection is     *)
(* replaced, a replaced connection still has something to say, the         *)
(* exchange's book is empty, or its changes are such as are misread.       *)
(***************************************************************************)
EXTENDS Integers, Sequences

CONSTANTS
  Tokens,   \* token ids
  Books,    \* what the book of each token may be
  Empty,    \* each token's book without orders, one of its Books
  Misread,  \* whether the exchange may tell a change in a form that is misread
  Unsure    \* no view of the exchange's book: none of the Books

VARIABLES
  truth,    \* the exchange's books
  copy,     \* the cache's view of them
  feed,     \* the views that follow, oldest first
  live      \* tokens the exchange serves

replicaVars == <<truth, copy, feed, live>>

-----------------------------------------------------------------------------
\* The view that holds once everything under way has arrived.
Latest(t) == IF feed[t] = <<>> THEN copy[t] ELSE feed[t][Len(feed[t])]

\* What the cache may make of the news that the book is b, and of the book b
\* as a whole.
Views(t, b) ==
  {b} \cup (IF b = Empty[t] \/ Latest(t) = Unsure \/ Misread THEN {Unsure} ELSE {})

WholeViews(t, b) == IF b = Empty[t] THEN {b, Unsure} ELSE {b}

ReplicaInit ==
  /\ DOMAIN truth = Tokens /\ \A t \in Tokens : truth[t] \in Books[t]
  /\ copy = [t \in Tokens |-> Unsure]
  /\ feed = [t \in Tokens |-> <<>>]
  /\ live = {}

\* The book changes, or the exchange repeats it; a served token hears of it.
Publish(t) ==
  /\ \E b \in Books[t] :
       /\ truth' = [truth EXCEPT ![t] = b]
       /\ IF t \in live
            THEN \E view \in Views(t, b) : feed' = [feed EXCEPT ![t] = Append(@, view)]
            ELSE UNCHANGED feed
  /\ UNCHANGED <<copy, live>>

\* A token begins to be served, with its book as it is now, or is told again.
Serve(t) ==
  /\ live' = live \cup {t}
  /\ \E view \in WholeViews(t, truth[t]) : feed' = [feed EXCEPT ![t] = Append(@, view)]
  /\ UNCHANGED <<truth, copy>>

Deliver(t) ==
  /\ feed[t] # <<>>
  /\ copy' = [copy EXCEPT ![t] = Head(feed[t])]
  /\ feed' = [feed EXCEPT ![t] = Tail(@)]
  /\ UNCHANGED <<truth, live>>

\* The connection breaks: some of the last views do not arrive.
Cut ==
  /\ live' = {}
  /\ feed' = [t \in Tokens |-> feed'[t]]
  /\ \A t \in Tokens : \E n \in 0 .. Len(feed[t]) : feed'[t] = SubSeq(feed[t], 1, n)
  /\ UNCHANGED <<truth, copy>>

\* The connection is replaced: until the next view the cache is unsure.
Forget ==
  /\ live' = {}
  /\ copy' = [t \in Tokens |-> Unsure]
  /\ feed' = [t \in Tokens |-> <<>>]
  /\ UNCHANGED truth

\* A replaced connection speaks of t: the cache is unsure, and so are the views
\* that follow up to some point.
Doubt(t) ==
  /\ copy' = [copy EXCEPT ![t] = Unsure]
  /\ \E n \in 0 .. Len(feed[t]) :
       feed' = [feed EXCEPT ![t] =
                  [i \in 1 .. Len(feed[t]) |-> IF i <= n THEN Unsure ELSE feed[t][i]]]
  /\ UNCHANGED <<truth, live>>

ReplicaNext ==
  \/ \E t \in Tokens : Publish(t) \/ Serve(t) \/ Deliver(t) \/ Doubt(t)
  \/ Cut \/ Forget

ReplicaSpec == ReplicaInit /\ [][ReplicaNext]_replicaVars

-----------------------------------------------------------------------------
(* While a token is served, its view is the exchange's book as soon as     *)
(* everything under way has arrived, unless it is unsure.                  *)
ServedViewIsReal ==
  \A t \in live : Latest(t) # Unsure => Latest(t) = truth[t]
=============================================================================
