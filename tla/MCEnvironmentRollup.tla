------------------------- MODULE MCEnvironmentRollup -------------------------
(***************************************************************************)
(* Values for TLC: the resources and their kinds.                          *)
(***************************************************************************)
EXTENDS EnvironmentRollup

CONSTANTS b, s, t

BuildAndUnit == [x \in {b, s} |-> IF x = b THEN "Build" ELSE "ServiceUnit"]
TwoUnits     == [x \in {s, t} |-> "ServiceUnit"]
=============================================================================
