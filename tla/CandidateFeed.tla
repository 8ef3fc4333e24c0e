---------------------------- MODULE CandidateFeed ----------------------------
(***************************************************************************)
(* What crypto discovery promises those who read its candidate file: the   *)
(* file is replaced as a whole, its rows recommend entry at one minute     *)
(* that has begun, later than that of the rows they replace, and rest on   *)
(* evidence that precedes the entry by a minute at most; the rows of touch *)
(* markets share the source of their history, and can be verified by their *)
(* files when it is Binance.                                               *)
(* CryptoDiscovery implements it.                                          *)
(***************************************************************************)
EXTENDS Integers

CONSTANTS
    Markets, TouchMarkets,    \* those that pay on a touch before expiry are touch markets
    PerMinute                 \* ticks of the clock in a minute

ASSUME FeedAssumption == TouchMarkets \subseteq Markets /\ PerMinute \in Nat \ {0}

VARIABLES
    clock,          \* of the machine the scripts run on
    candidates      \* crypto_threshold_edge_candidates.csv: the rows that recommend an entry

\* The oldest of the spot price, the quote and the books an entry rests on.
Evidence(entry) == (entry - PerMinute)..entry
Histories == {"binance", "coinbase"}

Row(m, entry, oldest, verifiable) == [market |-> m, entry |-> entry, oldest |-> oldest, verifiable |-> verifiable]

\* The rows that can stand beside each other in one file.
Batch(entry, oldest, history) ==
    {Row(m, entry, oldest[m], m \in TouchMarkets => history = "binance") : m \in DOMAIN oldest}

FeedInit == clock = PerMinute /\ candidates = {}

Publish ==
    /\ \E entry \in {t \in 0..clock : t % PerMinute = 0} :
          /\ \A c \in candidates : c.entry < entry
          /\ \E recommended \in SUBSET Markets, history \in Histories :
             \E oldest \in [recommended -> Evidence(entry)] :
                candidates' = Batch(entry, oldest, history)
    /\ UNCHANGED clock

TimePasses == clock' = clock + 1 /\ UNCHANGED candidates

FeedSpec == FeedInit /\ [][Publish \/ TimePasses]_<<clock, candidates>>
==============================================================================
