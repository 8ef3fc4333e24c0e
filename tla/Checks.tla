-------------------------------- MODULE Checks --------------------------------
(***************************************************************************)
(* Lists of checks, as the scripts write them: an if and elif chain whose  *)
(* first condition that holds names a status, and a collection of every    *)
(* reason whose condition holds.                                           *)
(***************************************************************************)
EXTENDS SequencesExt

FirstOf(checks, otherwise) ==
    LET failing == SelectInSeq(checks, LAMBDA c : c[1])
    IN  IF failing = 0 THEN otherwise ELSE checks[failing][2]

FirstFailure(checks) == FirstOf(checks, "")
StatusAfter(checks) == FirstOf(checks, "verified")

ReasonsOf(checks) == {c[2] : c \in {d \in checks : d[1]}}
==============================================================================
