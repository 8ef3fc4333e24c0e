----------------------------- MODULE MCShadowLoop -----------------------------
(***************************************************************************)
(* Two markets, each traded on both sides, three leads, a legacy batch of  *)
(* two probability trades and an arbitrage, and three snapshots of the     *)
(* books: a rise, a fall, and bids missing on one side.                    *)
(***************************************************************************)
EXTENDS ShadowLoop

Lead(m, s, e, c) == [market |-> m, side |-> s, type |-> e, ask |-> 40, confident |-> c]
V2 == "price_dislocation_probability_v2"

MCMarkets == {"m1", "m2"}
MCLeads == {Lead("m1", "YES", V2, TRUE), Lead("m2", "NO", "combined_ask_arbitrage", FALSE),
            Lead("m1", "NO", "crypto_price_threshold_v1", TRUE)}
MCLegacy == <<Lead("m1", "YES", V2, TRUE), Lead("m2", "YES", V2, FALSE),
              Lead("m2", "NO", "combined_ask_arbitrage", FALSE)>>
MCEdgeTypes == {V2, "combined_ask_arbitrage", "crypto_price_threshold_v1"}
Snapshot(yes1, no1, yes2, no2) ==
    [m \in MCMarkets |-> [s \in Sides |->
        IF m = "m1" THEN (IF s = "YES" THEN yes1 ELSE no1) ELSE (IF s = "YES" THEN yes2 ELSE no2)]]
MCSnapshots == {Snapshot(44, NoBid, 44, 40), Snapshot(36, 44, NoBid, 36)}
MCPoints == {[market |-> "m2", combinedAsk |-> 101, flag |-> "none"]}
==============================================================================
