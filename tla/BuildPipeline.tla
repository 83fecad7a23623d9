---------------------------- MODULE BuildPipeline ----------------------------
(***************************************************************************)
(* The Build pipeline: the three controllers of a Build over one cluster,  *)
(* each with one worker, and what they promise together.                   *)
(***************************************************************************)
EXTENDS BuildReconciler, BuildObserver, BuildRunObserver

Step ==
    \/ CreateBuild \/ DeleteBuild \/ EditSpec \/ ToggleEnvironment
    \/ \E e \in Events : Deliver(e)
    \/ WriteSecret \/ FinishRun \/ Restart
    \/ BuildReconcilerStep
    \/ BuildObserverStep \/ BuildObserverFault
    \/ BuildRunObserverStep

\* With CacheLag the caches may be behind in any step.  Without it the informers
\* come first, and only passes work on copies that are out of date.
Synced == CacheLag \/ (cBuild = build /\ cRuns = runs)

Next == WatchBuild \/ WatchRun \/ (Synced /\ Step)

(* Every controller has a worker that takes what is queued, the watch streams
   deliver, and External Secrets and Shipwright finish what they are given.
   The user, GitHub, faults and restarts owe nothing. *)
Fairness ==
    /\ WF_vars(WatchBuild) /\ WF_vars(WatchRun)
    /\ WF_vars(Synced /\ WriteSecret) /\ WF_vars(Synced /\ FinishRun)
    /\ WF_vars(Synced /\ BuildReconcilerStep)
    /\ WF_vars(Synced /\ BuildObserverStep)
    /\ WF_vars(Synced /\ BuildRunObserverStep)

Spec     == Init /\ [][Next]_vars
FairSpec == Spec /\ Fairness

\* The types; with them, the retry annotation never exceeds the policy's
\* maximum (RetryWanted).
TypeOK ==
    /\ build \in BuildType /\ cBuild \in BuildType
    /\ runs \in [RunName -> RunType] /\ cRuns \in [RunName -> RunType]
    /\ prereqs \subseteq Prerequisites /\ secrets \subseteq SecretNames
    /\ env \in BOOLEAN
    /\ payload \in [Events -> PayloadType]
    /\ clock \in [second: Nat, seq: Nat]
    /\ recQ \in BOOLEAN /\ obsQ \in BOOLEAN /\ broQ \subseteq RunName
    /\ rec \in RecType /\ obs \in ObsType /\ bro \in BroType
    /\ bro.pc = "write" => bro.contract.ref \in RunName
    /\ spent \in SpentType

-----------------------------------------------------------------------------
(* Provisioning *)

Provisioned == prereqs # {} \/ secrets # {} \/ RunsIn(runs) # {}

\* Nothing that was provisioned for a Build outlives it: whatever exists, there
\* is a Build that carries the finalizer, so a teardown is still to come.  It
\* is at risk where the reconciler provisions from a copy of the Build that may
\* have changed since, and where it gives the finalizer up (environments/build.go
\* 158-172) relying on what earlier stages of the pass have removed.
ProvisionedUnderFinalizer == Provisioned => Exists(build) /\ build.finalizer

(* Why it holds, as an inductive invariant.  A pass may rely on what it read:
   a cached copy with the finalizer and without deletion means that the Build
   still has the finalizer, and a cached copy under deletion means that no
   later Build has got one.  The stages of a teardown leave nothing behind. *)
FinalizerInv ==
    /\ ProvisionedUnderFinalizer
    /\ build.finalizer => Exists(build)
    /\ cBuild.finalizer /\ ~cBuild.deleting => build.finalizer
    /\ cBuild.deleting /\ build.finalizer => build.deleting
    /\ rec.pc \in {"ensure", "dispatch"} => build.finalizer
    /\ rec.pc \in {"teardown", "cleanup", "release"} /\ build.finalizer =>
          build.deleting
    /\ rec.pc \in {"cleanup", "release"} => RunsIn(runs) = {}
    /\ rec.pc = "release" => prereqs = {} /\ secrets = {}

\* No BuildRun exists while a Secret it needs does not: Shipwright fails every
\* run of a Build it could not validate (mediators/build/build.go 104-110).
\* The Secrets come from elsewhere and go again during cleanup.
RunsHaveTheirSecrets == RunsIn(runs) # {} => SecretNames \subseteq secrets

ResourceSet(ps, ss, rs) ==
    ({"prerequisite"} \X ps) \cup ({"secret"} \X ss) \cup rs

LifecycleState ==
    IF ~Exists(build) THEN "absent"
    ELSE IF ~build.finalizer THEN "plain"
    ELSE IF ~build.deleting THEN "held" ELSE "deleting"

Lifecycle == INSTANCE FinalizerLifecycle WITH
    Resources <- ResourceSet(Prerequisites, SecretNames, RunName),
    object    <- LifecycleState,
    resources <- ResourceSet(prereqs, secrets, RunsIn(runs))

\* The three controllers, the caches and the crashes together keep the contract
\* of the finalizer.
KeepsLifecycle == Lifecycle!Spec

-----------------------------------------------------------------------------
(* Outcomes *)

Present(r) == r # NoRun /\ runs[r].state # "absent"
Newest(r)  == Present(r) /\ \A q \in RunsIn(runs) : runs[q].seq <= runs[r].seq

\* A step that leaves the same Build behind, not under deletion.
SameBuild == build'.uid = build.uid /\ Exists(build) /\ ~build'.deleting

\* The outcome conditions of a Build always agree with its contract, although
\* one controller writes both and another merges conditions into the same status.
OneOutcome ==
    build.conds \cap Outcomes =
        IF build.contract.ref = NoRun THEN {}
                                      ELSE {OutcomeCondition(build.contract)}

\* "Only the most recent BuildRun speaks for the Build" (observers/buildrun,
\* 101-104): the outcome never moves from a BuildRun to an older one, or to
\* none.  Outcomes arrive in any order, again after a restart, and the Build
\* reconciler writes the same status.  It is about the first Build of its name:
\* a pass that read one that was deleted since may write the outcome of that
\* one's BuildRuns to the Build created in its place.
OutcomeNeverRegresses ==
    [][LET old == build.contract.ref
           new == build'.contract.ref
       IN  SameBuild /\ spent.lives = 1 /\ old # new /\ Present(old) =>
              Present(new) /\ runs[old].seq < runs[new].seq]_vars

\* Nothing has been torn down so far: the first Build of its name, not under
\* deletion.
FirstLife == spent.lives = 1 /\ Exists(build) /\ ~build.deleting

\* "The image is the last one this Build pushed" (observers/buildrun, 154), as
\* far as it holds: a BuildRun that pushed an image speaks for the Build with
\* that image, and with any other outcome the image is one that an earlier
\* BuildRun really pushed.  It is at risk because the image is carried over
\* from a copy of the contract that may be older, or newer, than the BuildRun.
ImageIsOfOutcome ==
    FirstLife =>
        LET told == build.contract
        IN  /\ told.ref # NoRun /\ runs[told.ref].state = "pushed" =>
                  told.image = told.ref
            /\ told.image # NoRun =>
                  /\ runs[told.image].state = "pushed"
                  /\ runs[told.image].seq <= runs[told.ref].seq

\* The BuildRuns started no later than q.
StartedBy(q) == {p \in RunsIn(runs) : runs[p].seq <= runs[q].seq}

\* Attempt n is due for a BuildRun that starts after all of number seq: one of
\* them failed, and counting that one at least n - 1 had been started.
DueAfter(n, seq) ==
    \E q \in RunsIn(runs) :
        /\ runs[q].state = "failed" /\ runs[q].seq <= seq
        /\ n <= Cardinality(StartedBy(q)) + 1

\* "Without this check, applyRetry can race ahead and dispatch a second retry
\* before the first has even run" (observers/build, 37-42): attempt n is only
\* ever dispatched after the BuildRun started as number n - 1, or a later one,
\* has failed, although the pass that asks for it works on copies and patches the
\* annotation some time after it has listed the BuildRuns.
RetryOnlyAfterFailure ==
    FirstLife =>
        \A x \in RunsIn(runs) : x[2] # 0 => DueAfter(x[2], runs[x].seq - 1)

-----------------------------------------------------------------------------
(* At rest *)

\* All BuildRuns have finished and been observed.
Quiet ==
    /\ cBuild = build /\ cRuns = runs
    /\ broQ = {} /\ bro.pc = "idle"
    /\ \A r \in RunsIn(runs) : runs[r].state \in Terminal

\* No pass is under way and none is scheduled.
AtRest ==
    /\ Quiet
    /\ ~recQ /\ rec.pc = "idle"
    /\ ~obsQ /\ obs.pc = "idle"

\* No wake-up is ever lost: when the controllers have seen everything and come to
\* rest, no deletion is pending, and the Build has its finalizer, the condition
\* of its start, a finished BuildRun for the execution its annotations name now,
\* and the commit of the latest event.  Nothing runs a pass again by itself: each
\* relies on the event that its own patches, or another controller's, cause, and
\* on every error being returned (environments/build.go 66-105).
NoWakeUpLost ==
    AtRest =>
        /\ ~build.deleting
        /\ Exists(build) =>
              /\ build.finalizer /\ "BuildStart" \in build.conds
              /\ runs[ExecutionName(build)].state \in Terminal
              /\ TriggerCurrent(build)

\* At rest the contract tells the outcome of the newest BuildRun, although a
\* BuildRun that is superseded, or not yet terminal, is dropped for good; and it
\* is a success, or the attempts are used up, although no BuildRun wakes the
\* observer that asks for another attempt, and an annotation that already has
\* the value wanted wakes nobody.  The last is about the first Build of its name.
OutcomeIsFinal ==
    AtRest /\ Exists(build) =>
        /\ Newest(build.contract.ref)
        /\ build.contract.success <=> runs[build.contract.ref].state \in Succeeded
        /\ spent.lives = 1 =>
              build.contract.success \/ Attempts(runs) >= MaxAttempts

-----------------------------------------------------------------------------
(* Liveness *)

\* Holds for good: the Build is wanted and nothing outside is in the way.
Stable == Exists(build) /\ ~build.deleting /\ build.valid /\ env

\* Whatever happened, a stable Build ends up on the commit the latest event
\* carries, the BuildRun of that execution has finished, the contract tells the
\* outcome of the newest BuildRun, and the condition of its start is there.  A
\* failure is retried until a BuildRun succeeds or the policy's attempts are used
\* up (observers/build, 210-267): no interleaving of the dispatch, the outcome
\* and the retry annotation leaves a failed Build with attempts to go.
Converges ==
    <>[](Stable => /\ TriggerCurrent(build)
                   /\ runs[ExecutionName(build)].state \in Terminal
                   /\ Newest(build.contract.ref)
                   /\ "BuildStart" \in build.conds
                   /\ build.contract.success \/ Attempts(runs) >= MaxAttempts)

\* A deletion completes once the Environment is there and the contract resolves,
\* whatever failed before: every error keeps the finalizer and is retried.
DeletionCompletes ==
    <>[](env /\ build.valid) => (build.deleting ~> ~build.deleting)

-----------------------------------------------------------------------------
(* What the comments say and the code does not do *)

\* "The image is the last one this Build pushed" (observers/buildrun, 154): when
\* all is observed, no BuildRun pushed an image after the one in the contract.
ImageIsLastPushed ==
    Quiet /\ Exists(build) /\ ~build.deleting =>
        \A r \in RunsIn(runs) :
            runs[r].state = "pushed" =>
                LET image == build.contract.image
                IN  image # NoRun /\ runs[r].seq <= runs[image].seq
=============================================================================
