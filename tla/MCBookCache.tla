----------------------------- MODULE MCBookCache -----------------------------
(* Two tokens that compete for slots: one with a bid and an ask that are    *)
(* there or not, the other with a book that stays empty.  The exchange      *)
(* tells a change in any form, and one or both of them may be subscribed.   *)
EXTENDS BookCache, TLC

CONSTANTS yes, no

MCTokens == {yes, no}
MCLevels == (yes :> {"bid", "ask"}) @@ (no :> {})
MCForms == {"book", "update", "delta"}
MCLimits == {1, 2}
=============================================================================
