----------------------------- MODULE MarketData -----------------------------
(***************************************************************************)
(* Where a market and its book come from: the REST clients with their      *)
(* retries (gamma_client.py, clob_client.py), the conversion of what they  *)
(* return (data_converter.py) and the provider that falls back to invented *)
(* data (data_provider_manager.py).  One market is followed.               *)
(*                                                                         *)
(* The two tokens of a market are read by two concurrent requests, each    *)
(* with its own retries; the pauses between retries are left out.          *)
(***************************************************************************)
EXTENDS Integers, FiniteSets, FiniteSetsExt

CONSTANTS
  Modes,        \* data modes: mock, real_readonly, hybrid
  MaxRetries,   \* max_retries of the REST clients
  RawMarkets,   \* markets as Gamma may list them
  MockMarkets,  \* markets the mock provider makes up
  RawSides,     \* one token's book as the CLOB may return it
  MockBooks     \* books the mock provider makes up

\* What the lifecycle score of a market is made from, and what its book is asked.
Described(m) ==
  /\ m.source \in {"high", "medium", "vague", "none", "unknown"}
  /\ m.text \in {"clear", "vague_title", "vague_description"}

Quoted(side) == side.bid \in Nat /\ side.ask \in Nat

ASSUME DataAssumption ==
  /\ Modes \subseteq {"mock", "real_readonly", "hybrid"}
  /\ MaxRetries \in Nat \ {0}
  /\ \A raw \in RawMarkets : Described(raw)
  /\ \A m \in MockMarkets : m.id = "mock" /\ Described(m)
  /\ \A raw \in RawSides : \A l \in raw.bids \union raw.asks : l.price \in Nat
  /\ \A b \in MockBooks : b.source = "mock" /\ Quoted(b.yes) /\ Quoted(b.no)

VARIABLES
  mode,      \* the provider's data mode
  requests,  \* the REST requests: attempts left and answer
  reading,   \* what the provider is doing
  market,    \* the market, once listed
  book       \* its book, once read

dataVars == <<mode, requests, reading, market, book>>

NoMarket == [id |-> "none"]
NoBook == [source |-> "none"]

-----------------------------------------------------------------------------
(* Requests.                                                               *)

Replies == {"ok", "absent", "refused", "broken"}

Unasked == [left |-> 0, answer |-> "unasked"]
NoRequests == [r \in {"list", "info", "yes", "no"} |-> Unasked]
NewRequest == [left |-> MaxRetries, answer |-> "pending"]

RetriedForever(r, reply) ==    \* deviation: the attempts start over when they run out
  CASE reply = "ok" -> [r EXCEPT !.answer = "ok"]
    [] reply = "absent" -> [r EXCEPT !.answer = "absent"]
    [] reply = "refused" -> [r EXCEPT !.answer = "failed"]
    [] reply = "broken" -> [r EXCEPT !.left = IF r.left > 1 THEN @ - 1 ELSE MaxRetries]

\* 404, 429 and 5xx are raised at once; a timeout, a failed connection,
\* another status or a body that is no JSON is tried again.
ClobRetried(r, reply) ==
  CASE reply = "ok" -> [r EXCEPT !.answer = "ok"]
    [] reply = "absent" -> [r EXCEPT !.answer = "absent"]
    [] reply = "refused" -> [r EXCEPT !.answer = "failed"]
    [] reply = "broken" -> IF r.left > 1 THEN [r EXCEPT !.left = @ - 1]
                           ELSE [r EXCEPT !.answer = "failed"]

\* The Gamma client has the same loop, and its get_markets treats a 404 as
\* any other failure.
GammaRetried(r, reply) == ClobRetried(r, reply)
GammaListed(r, reply) == GammaRetried(r, IF reply = "absent" THEN "refused" ELSE reply)

-----------------------------------------------------------------------------
(* Conversion.                                                             *)

Status(raw) ==
  CASE raw.resolved -> "resolved"
    [] ~raw.resolved /\ (raw.closed \/ ~raw.active) -> "closed"
    [] ~raw.resolved /\ ~raw.closed /\ raw.active -> "open"

\* The tokens field first; if either token is missing there, what clobTokenIds
\* and outcomes say replaces both, even when it names neither.
TokensOf(raw) ==
  IF raw.tokens = {"yes", "no"} \/ ~raw.clobGiven THEN raw.tokens ELSE raw.clobIds

\* The criteria are never filled in and the market is never called ambiguous.
GammaToMarket(raw) ==
  [id |-> "real", status |-> Status(raw), tokens |-> TokensOf(raw),
   forbidden |-> raw.forbidden, volume |-> raw.volume, ambiguous |-> FALSE,
   source |-> raw.source, criteria |-> FALSE, text |-> raw.text,
   closeKnown |-> raw.closeKnown, left |-> raw.left,
   lifeKnown |-> raw.lifeKnown, life |-> raw.life]

ValidLevels(levels) == {l \in levels : 0 < l.price /\ l.price <= 1000 /\ l.size > 0}
LevelsUsd(levels) ==
  FoldSet(LAMBDA l, sum : sum + (l.price * l.size) \div 1000, 0, ValidLevels(levels))

BestBid(levels) ==
  LET prices == {l.price : l \in ValidLevels(levels)}
  IN  IF prices = {} THEN 0 ELSE Max(prices)
BestAsk(levels) ==
  LET prices == {l.price : l \in ValidLevels(levels)}
  IN  IF prices = {} THEN 0 ELSE Min(prices)

NoSide == [bids |-> {}, asks |-> {}]
SideOf(raw) ==
  [bid |-> BestBid(raw.bids), bidUsd |-> LevelsUsd(raw.bids),
   ask |-> BestAsk(raw.asks), askUsd |-> LevelsUsd(raw.asks)]

\* clob_orderbooks_to_snapshot: a token whose book could not be read is an
\* empty side, unless neither could.
Snapshot(sides) ==
  [source |-> "clob", stale |-> FALSE, yes |-> SideOf(sides["yes"]), no |-> SideOf(sides["no"])]

-----------------------------------------------------------------------------
(* The provider.                                                           *)

DataInit ==
  /\ mode \in Modes
  /\ requests = NoRequests
  /\ reading = "listing"
  /\ market = NoMarket
  /\ book = NoBook

Listed(m) == market' = m /\ reading' = "listed" /\ requests' = NoRequests
Lost == reading' = "lost" /\ requests' = NoRequests /\ UNCHANGED market

\* get_markets in mock mode.
ListMock ==
  /\ reading = "listing" /\ mode = "mock"
  /\ \E m \in MockMarkets : Listed(m)
  /\ UNCHANGED <<mode, book>>

AskList ==
  /\ reading = "listing" /\ mode # "mock" /\ requests["list"] = Unasked
  /\ requests' = [requests EXCEPT !["list"] = NewRequest]
  /\ UNCHANGED <<mode, reading, market, book>>

ListReply ==
  /\ requests["list"].answer = "pending"
  /\ \E reply \in Replies :
       requests' = [requests EXCEPT !["list"] = GammaListed(@, reply)]
  /\ UNCHANGED <<mode, reading, market, book>>

\* An empty list leaves nothing to scan.  A failure, or an answer that is no
\* list, ends the scan; in hybrid mode made-up markets take its place.
ListDone ==
  /\ reading = "listing"
  /\ \/ requests["list"].answer = "ok" /\ \E raw \in RawMarkets : Listed(GammaToMarket(raw))
     \/ requests["list"].answer = "ok" /\ Lost
     \/ requests["list"].answer \in {"ok", "failed"} /\ mode = "real_readonly" /\ Lost
     \/ /\ requests["list"].answer \in {"ok", "failed"} /\ mode = "hybrid"
        /\ \E m \in MockMarkets : Listed(m)
  /\ UNCHANGED <<mode, book>>

ProvidedAlways(found) ==    \* deviation: real_readonly falls back as well
  IF found = NoBook THEN MockBooks ELSE {found}

\* get_orderbook without a real book: in hybrid mode one is made up.
Provided(found) ==
  IF found = NoBook /\ mode = "hybrid" THEN MockBooks ELSE {found}

BookRead(found) ==
  /\ book' \in Provided(found)
  /\ reading' = "read" /\ requests' = NoRequests
  /\ UNCHANGED <<mode, market>>

MockBookRead ==
  /\ reading = "booking" /\ mode = "mock"
  /\ book' \in MockBooks
  /\ reading' = "read"
  /\ UNCHANGED <<mode, requests, market>>

\* A listed real market is in the cache; a made-up one is looked up at Gamma,
\* which does not know it.
AskInfo ==
  /\ reading = "booking" /\ mode # "mock" /\ market.id = "mock"
  /\ requests["info"] = Unasked
  /\ requests' = [requests EXCEPT !["info"] = NewRequest]
  /\ UNCHANGED <<mode, reading, market, book>>

InfoReply ==
  /\ requests["info"].answer = "pending"
  /\ \E reply \in Replies \ {"ok"} :
       requests' = [requests EXCEPT !["info"] = GammaRetried(@, reply)]
  /\ UNCHANGED <<mode, reading, market, book>>

NoInfo ==
  /\ reading = "booking"
  /\ requests["info"].answer \in {"absent", "failed"}
  /\ BookRead(NoBook)

TokensMissing ==
  /\ reading = "booking" /\ market.id = "real" /\ market.tokens # {"yes", "no"}
  /\ BookRead(NoBook)

AskTokens ==
  /\ reading = "booking" /\ mode # "mock"
  /\ market.id = "real" /\ market.tokens = {"yes", "no"}
  /\ requests["yes"] = Unasked
  /\ requests' = [requests EXCEPT !["yes"] = NewRequest, !["no"] = NewRequest]
  /\ UNCHANGED <<mode, reading, market, book>>

TokenReply(x) ==
  /\ requests[x].answer = "pending"
  /\ \E reply \in Replies : requests' = [requests EXCEPT ![x] = ClobRetried(@, reply)]
  /\ UNCHANGED <<mode, reading, market, book>>

\* gather with return_exceptions: an answer that does not parse, a 404 and a
\* failure are all a missing book.
TokensDone ==
  /\ reading = "booking"
  /\ \A x \in {"yes", "no"} : requests[x].answer \in {"ok", "absent", "failed"}
  /\ \E parsed \in SUBSET {x \in {"yes", "no"} : requests[x].answer = "ok"} :
       \/ parsed = {} /\ BookRead(NoBook)
       \/ /\ parsed # {}
          /\ \E sides \in [{"yes", "no"} -> RawSides \cup {NoSide}] :
               /\ \A x \in {"yes", "no"} : x \in parsed <=> sides[x] # NoSide
               /\ BookRead(Snapshot(sides))

ListStep == ListMock \/ AskList \/ ListReply \/ ListDone
BookStep ==
  \/ MockBookRead \/ AskInfo \/ InfoReply \/ NoInfo \/ TokensMissing
  \/ AskTokens \/ TokenReply("yes") \/ TokenReply("no") \/ TokensDone
=============================================================================
