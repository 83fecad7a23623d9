--------------------------- MODULE BuildRunObserver ---------------------------
(***************************************************************************)
(* The buildrun-observer: writes the outcome of the most recent BuildRun   *)
(* into the Build's contract and replaces the outcome condition.  A pass   *)
(* reads the BuildRun, the Build and the other BuildRuns, and then hands   *)
(* the Build, with its new contract, to the status writer.                 *)
(***************************************************************************)
EXTENDS BuildCluster

\* A BuildRun created later exists, as far as the cache knows.
Superseded_Itself(r) == \E q \in RunsIn(cRuns) : cRuns[q].created >= cRuns[r].created
Superseded(r) == \E q \in RunsIn(cRuns) : cRuns[q].created > cRuns[r].created

\* A success replaces the image if the run reports one; otherwise the image
\* stays the one the Build had when it was read.
Image_First(b, r) ==
    IF cRuns[r].state = "pushed" /\ b.contract.image = NoRun THEN r ELSE b.contract.image
Image(b, r) == IF cRuns[r].state = "pushed" THEN r ELSE b.contract.image

OutcomeContract(b, r) == [ref |-> r, success |-> cRuns[r].state \in Succeeded,
                          image |-> Image(b, r)]

(* A BuildRun that is gone, not terminal or superseded is dropped.  While its
   Build is not in the cache the pass fails and the BuildRun stays queued,
   which is no step. *)
ObserveRun ==
    /\ bro.pc = "idle"
    /\ \E r \in broQ :
          /\ broQ' = broQ \ {r}
          /\ \/ /\ \/ cRuns[r].state \notin Terminal
                   \/ Exists(cBuild) /\ Superseded(r)
                /\ UNCHANGED bro
             \/ /\ cRuns[r].state \in Terminal
                /\ Exists(cBuild) /\ ~Superseded(r)
                /\ bro' = [pc |-> "write", contract |-> OutcomeContract(cBuild, r)]
    /\ UNCHANGED <<cluster, caches, recQ, obsQ, rec, obs, spent>>

OutcomeCondition(c) == IF c.success THEN "BuildSuccess" ELSE "BuildFailed"

\* The outcome condition that does not describe this run goes.
Replaced_None(c) == {}
Replaced(c) == Outcomes \ {OutcomeCondition(c)}

\* The status writer: the contract of the object it is handed, without the
\* replaced condition and with the new one.
WriteReplacing(b, contract, replaced, cond) ==
    [b EXCEPT !.contract = contract, !.conds = (@ \ replaced) \cup {cond}]

WriteOutcome ==
    /\ bro.pc = "write"
    /\ bro' = IdleBro
    /\ \/ /\ Exists(build)
          /\ build' = WriteReplacing(build, bro.contract, Replaced(bro.contract),
                                     OutcomeCondition(bro.contract))
          /\ UNCHANGED <<broQ, spent>>
       \/ /\ ~Exists(build)
          /\ broQ' = broQ \cup {bro.contract.ref}
          /\ UNCHANGED <<build, spent>>
       \/ /\ Fault
          /\ broQ' = broQ \cup {bro.contract.ref}
          /\ UNCHANGED build
    /\ UNCHANGED <<runs, prereqs, secrets, env, payload, clock, caches, recQ, obsQ,
                   rec, obs>>

BuildRunObserverStep == ObserveRun \/ WriteOutcome
=============================================================================
