---------------------------- MODULE MCRiskChain ----------------------------
(***************************************************************************)
(* Three markets and a single probe strategy that may hold two of them;    *)
(* books too wide to pass the Governor and books it accepts; exits that    *)
(* fail for lack of bids; closes that lose most of a position, or win.     *)
(***************************************************************************)
EXTENDS RiskChain

CONSTANTS m1, m2, m3, probe, none

MCThree == {m1, m2, m3}
MCThreeOrder == <<m1, m2, m3>>
MCStrategies == {probe}
MCFee == [n \in 0 .. 8 |-> IF n > 2 THEN 1 ELSE 0]
MCNotionals == {0, 3}
MCDepths == {2, 9}
MCRates == {3}
MCGrosses == {1, 6}
MCQuoteAges == {0}
MCNoFaults == {}
MCSteps == 5
MCTimes == {2 * k : k \in 0 .. MCSteps - 1}
MCDays == 0 .. 3
MCCosts == 1 .. 4
MCProceeds == 0 .. 8
Liquid == [stale |-> FALSE, spread |-> 100, depth |-> [x \in {"yes", "no"} |-> 20]]
MCBooks == {Liquid, [Liquid EXCEPT !.spread = 600]}
MCQualities == {[microstructure |-> 100, liquidity |-> 100],
                [microstructure |-> 50, liquidity |-> 50]}
=============================================================================
