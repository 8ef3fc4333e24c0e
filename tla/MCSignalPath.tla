---------------------------- MODULE MCSignalPath ----------------------------
(***************************************************************************)
(* Hypothetical signals: scores just below a signal-only threshold and at  *)
(* the ends, drops to the thresholds.  Paths: books that are underpriced   *)
(* by much, by little, not at all, wide or one-sided, and markets with     *)
(* everything a score or a check looks at.                                 *)
(***************************************************************************)
EXTENDS SignalPath

MCScores == {59, 80}
MCProfiles == [Components -> {59, 100}]
                \cup {[c \in Components |-> 0]}
                \cup {[c \in Components |-> IF c = "event" THEN 0 ELSE 95]}
MCFlags == {"wallet_signal_only", "event_signal_only", "ambiguous_market",
            "forbidden_auto_category", "market_ambiguous", "event_forbidden_category",
            "copy_risk_low", "copy_risk_medium", "copy_risk_high", "chase_risk_high",
            "timing_risk_high", "event_high_ambiguity", "event_weak_evidence",
            "llm_error", "llm_low_confidence"}
MCSpreads == {200, 400, 600}
MCSides == {"yes", "both"}

Levels(price, size) == {[price |-> price, size |-> size]}
MCRawSides ==
  {[bids |-> Levels(435, 300), asks |-> Levels(440, 300) \cup Levels(0, 5)],
   [bids |-> Levels(400, 60), asks |-> Levels(470, 60)],
   [bids |-> {}, asks |-> Levels(520, 200)]}

Raw == [active |-> TRUE, closed |-> FALSE, resolved |-> FALSE, tokens |-> {"yes"},
        clobGiven |-> TRUE, clobIds |-> {"yes", "no"}, forbidden |-> FALSE,
        volume |-> 200000, source |-> "high", text |-> "clear",
        closeKnown |-> TRUE, left |-> 500, lifeKnown |-> TRUE, life |-> 1000]
MCRawMarkets ==
  {Raw,
   [Raw EXCEPT !.source = "none", !.forbidden = TRUE, !.left = 100],
   [Raw EXCEPT !.clobIds = {}, !.source = "medium"],
   [Raw EXCEPT !.left = 1200, !.volume = 50000],
   [Raw EXCEPT !.closed = TRUE, !.source = "vague"],
   [Raw EXCEPT !.lifeKnown = FALSE, !.left = 3, !.text = "vague_title"]}

Made(forbidden, volume) ==
  [id |-> "mock", status |-> "open", tokens |-> {"yes", "no"}, forbidden |-> forbidden,
   volume |-> volume, ambiguous |-> FALSE, source |-> "unknown", criteria |-> TRUE,
   text |-> "clear", closeKnown |-> TRUE, left |-> 700, lifeKnown |-> TRUE, life |-> 1000]
MCMockMarkets == {Made(FALSE, 150000), Made(TRUE, 40000)}
MadeSide(bid, ask) == [bid |-> bid, ask |-> ask, bidUsd |-> 150, askUsd |-> 150]
MCMockBooks ==
  {[source |-> "mock", stale |-> FALSE, yes |-> MadeSide(450, 455), no |-> MadeSide(440, 445)],
   [source |-> "mock", stale |-> FALSE, yes |-> MadeSide(450, 490), no |-> MadeSide(500, 520)]}

MCAnswers == {[score |-> 100, confidence |-> 90, risks |-> {"event_weak_evidence"}],
              [score |-> 70, confidence |-> 40, risks |-> {}]}
MCScenarios == {"success", "low_confidence", "timeout"}
=============================================================================
