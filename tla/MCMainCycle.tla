---------------------------- MODULE MCMainCycle ----------------------------
(***************************************************************************)
(* Two markets under a cap that two orders reach; signals the Governor     *)
(* trades, of either side; fresh and stale books; two starts.  The scores  *)
(* are a strategy's own, as SignalOutput lets it set them: the one wired   *)
(* in main.py does not reach a trade (SignalPath).                         *)
(***************************************************************************)
EXTENDS MainCycle

CONSTANTS m1, m2, s, none

MCMarkets == {m1, m2}
MCOrder == <<m1, m2>>
MCStrategies == {s}
MCCosts == 1 .. 2
MCDays == {0}
MCKinds == {[open |-> TRUE, ambiguous |-> FALSE, autoAllowed |-> TRUE, thin |-> FALSE]}
MCBooks == {[stale |-> b, spread |-> 100, depth |-> [x \in {"yes", "no"} |-> 20]] : b \in BOOLEAN}
Engines == {"microstructure", "liquidity", "event", "wallet", "lifecycle"}
MCScores == {[e \in Engines |-> 95]}
MCSides == {"yes", "no"}
=============================================================================
