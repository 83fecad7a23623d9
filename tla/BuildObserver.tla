---------------------------- MODULE BuildObserver ----------------------------
(***************************************************************************)
(* The build-observer: mirrors the commit of the latest GitHubEvent onto   *)
(* the Build's annotations, and asks for another attempt when the latest   *)
(* BuildRun failed.  A pass reads the Build, patches its commit, lists the *)
(* BuildRuns to decide whether another attempt is due, and then patches    *)
(* the retry annotation.  A patch carries only the annotations it changes  *)
(* and no resourceVersion, so it is never refused as stale.                *)
(***************************************************************************)
EXTENDS BuildCluster

Holding(b, pc) == [pc |-> pc, sha |-> b.sha, retry |-> b.retry,
                   contract |-> b.contract]

ObsDone  == obs' = IdleObs /\ UNCHANGED obsQ
ObsError == obs' = IdleObs /\ obsQ' = TRUE

\* An unresolvable contract ends the pass with an error: the Build stays
\* queued, which is no step.
ObserveBuild ==
    /\ obsQ /\ obs.pc = "idle"
    /\ \/ ~Exists(cBuild) /\ UNCHANGED obs
       \/ /\ Exists(cBuild) /\ cBuild.valid
          /\ obs' = Holding(cBuild, "triggers")
    /\ obsQ' = FALSE
    /\ UNCHANGED <<cluster, caches, recQ, broQ, rec, bro, spent>>

\* The GitHubEvents the policy's triggers match, and those of them with the
\* latest creation time.  Among equals the scan keeps the first it meets in
\* the list, which comes from the cache in no particular order.
Matching     == {e \in Events : payload[e] # OtherEvent}
LatestEvents == {e \in Matching :
                    \A f \in Matching : EventCreated[f] <= EventCreated[e]}

\* The commits the scan may end on; a payload without a commit is left
\* alone, and so is one that is already recorded.
TriggerWanted(b) ==
    {payload[e] : e \in LatestEvents} \ {NoCommit, b.sha}

TriggerCurrent(b) ==
    \/ LatestEvents = {}
    \/ \E e \in LatestEvents : payload[e] \in {NoCommit, b.sha}

(* The list of GitHubEvents and the patch are one step: of all others only a
   delivery changes what the list sees, and one that comes between the two may as
   well come after the patch, since it queues the Build again.  After a patch the
   pass works on the object the API server returned. *)
ApplyTriggers ==
    /\ obs.pc = "triggers"
    /\ \/ /\ TriggerCurrent(obs)
          /\ obs' = [obs EXCEPT !.pc = "retry"]
          /\ UNCHANGED <<build, obsQ>>
       \/ /\ Exists(build)
          /\ \E sha \in TriggerWanted(obs) :
                build' = [build EXCEPT !.sha = sha]
          /\ obs' = Holding(build', "retry")
          /\ UNCHANGED obsQ
       \/ /\ ~Exists(build) /\ TriggerWanted(obs) # {}
          /\ ObsError
          /\ UNCHANGED build
    /\ UNCHANGED <<runs, prereqs, secrets, env, payload, clock, caches, recQ, broQ,
                   rec, bro, spent>>

\* The BuildRuns the scan may take for the most recent one.
MostRecentBuildRun(rs) ==
    {r \in RunsIn(rs) : \A q \in RunsIn(rs) : rs[q].created <= rs[r].created}

Attempts(rs) == Cardinality(RunsIn(rs))

\* Another attempt is due: the contract reports a failure, of the most recent
\* BuildRun in the cache, and the policy allows one more BuildRun.
RetryDue_AnyRun(b, latest) ==
    ~b.contract.success /\ b.contract.ref # NoRun /\ Attempts(cRuns) < MaxAttempts
RetryDue_OneMore(b, latest) ==
    /\ ~b.contract.success /\ b.contract.ref # NoRun /\ b.contract.ref = latest
    /\ Attempts(cRuns) <= MaxAttempts
RetryDue_OneLess(b, latest) ==
    /\ ~b.contract.success /\ b.contract.ref # NoRun /\ b.contract.ref = latest
    /\ Attempts(cRuns) + 1 < MaxAttempts
RetryDue(b, latest) ==
    /\ ~b.contract.success
    /\ b.contract.ref # NoRun
    /\ b.contract.ref = latest
    /\ Attempts(cRuns) < MaxAttempts

\* The annotation the pass leaves; the patch is empty when the copy the pass
\* holds already has it.
RetryWanted(b, latest) ==
    IF b.contract.success THEN 0
    ELSE IF RetryDue(b, latest) THEN Attempts(cRuns) + 1
    ELSE b.retry

ScanRuns ==
    /\ obs.pc = "retry"
    /\ \E latest \in MostRecentBuildRun(cRuns) \cup
                        (IF RunsIn(cRuns) = {} THEN {NoRun} ELSE {}) :
          LET want == RetryWanted(obs, latest)
          IN  obs' = IF MaxAttempts = 0 \/ want = obs.retry THEN IdleObs
                     ELSE [obs EXCEPT !.pc = "patch", !.retry = want]
    /\ UNCHANGED <<cluster, caches, queues, rec, bro, spent>>

\* The BuildRuns may have changed since the list, and so may the Build: the
\* patch is about the annotation alone.
PatchRetry ==
    /\ obs.pc = "patch"
    /\ \/ /\ Exists(build)
          /\ build' = [build EXCEPT !.retry = obs.retry]
          /\ ObsDone
       \/ ~Exists(build) /\ ObsError /\ UNCHANGED build
    /\ UNCHANGED <<runs, prereqs, secrets, env, payload, clock, caches, recQ, broQ,
                   rec, bro, spent>>

ApplyRetry == ScanRuns \/ PatchRetry

\* A list or a patch fails.
BuildObserverFault ==
    /\ obs.pc # "idle"
    /\ Fault
    /\ ObsError
    /\ UNCHANGED <<cluster, caches, recQ, broQ, rec, bro>>

BuildObserverStep == ObserveBuild \/ ApplyTriggers \/ ApplyRetry
=============================================================================
