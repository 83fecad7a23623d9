--------------------------- MODULE MCBuildPipeline ---------------------------
(***************************************************************************)
(* Values for TLC: commits, events and their creation times.               *)
(***************************************************************************)
EXTENDS BuildPipeline

CONSTANTS c1, c2, e1, e2

OneEvent  == [e \in {e1} |-> 1]
TwoEvents == [e \in {e1, e2} |-> IF e = e1 THEN 1 ELSE 2]
=============================================================================
