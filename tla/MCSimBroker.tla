---------------------------- MODULE MCSimBroker ----------------------------
(***************************************************************************)
(* A small broker: fees of one unit from four units up, one injected       *)
(* fault, quotes from the future, fresh and stale, and a decision whose    *)
(* fill falls on the next day.                                             *)
(***************************************************************************)
EXTENDS SimBroker

CONSTANTS m1, m2, s1, s2, none

MCMarkets == {m1, m2}
MCStrategies == {s1, s2}
MCFee == [n \in 0 .. 8 |-> n \div 4]
MCNotionals == {0, 2, 4}
MCDepths == {0, 3, 4, 8}
MCRates == {2}
MCGrosses == {1, 4, 6}
MCQuoteAges == {-4, 0, 3}
MCFaults == {1}
MCTimes == {1, 3}
MCDays == 0 .. 1
MCCosts == 1 .. 6
MCProceeds == 0 .. 6
=============================================================================
