--------------------------- MODULE BuildRestProofs ---------------------------
(***************************************************************************)
(* What the Build pipeline leaves behind when it comes to rest, for any    *)
(* commits, events and bounds, and any cache lag: that no wake-up is lost, *)
(* and that the outcome the contract tells is final.                       *)
(***************************************************************************)
EXTENDS BuildOutcomeProofs

-----------------------------------------------------------------------------
(* Who changes what *)

\* The actions that change anything but the Build.
LEMMA Untouched ==
    ASSUME [Next]_vars
    PROVE  /\ cBuild' = cBuild \/ WatchBuild \/ Restart
           /\ rec' = rec \/ BuildReconcilerStep \/ Restart
           /\ recQ' = recQ \/ BuildReconcilerStep \/ WatchBuild \/ Restart
           /\ obs' = obs \/ BuildObserverStep \/ BuildObserverFault \/ Restart
           /\ \/ obsQ' = obsQ \/ BuildObserverStep \/ BuildObserverFault
              \/ WatchBuild \/ Restart \/ \E e \in Events : Deliver(e)
           /\ payload' = payload \/ \E e \in Events : Deliver(e)
           /\ bro' = bro \/ BuildRunObserverStep \/ Restart
           /\ broQ' = broQ \/ BuildRunObserverStep \/ WatchRun \/ Restart
           /\ runs' = runs \/ FinishRun \/ Dispatch \/ Teardown
           /\ clock' = clock \/ Dispatch
           /\ cRuns' = cRuns \/ WatchRun \/ Restart
<1> USE DEF Next, Step, vars, cluster, caches, queues, passes
<1>1. cBuild' = cBuild \/ WatchBuild \/ Restart
  BY DEF CreateBuild, DeleteBuild, EditSpec, ToggleEnvironment, Deliver,
     WriteSecret, FinishRun, WatchRun, BuildReconcilerStep, ReconcileBuild,
     HandleUpdate, Dispatch, PersistStatus, Teardown, CleanupPrerequisites,
     RemoveFinalizer, BuildObserverStep, ObserveBuild, ApplyTriggers, ApplyRetry,
     ScanRuns, PatchRetry,
     BuildObserverFault, BuildRunObserverStep, ObserveRun, WriteOutcome
<1>2. /\ rec' = rec \/ BuildReconcilerStep \/ Restart
      /\ recQ' = recQ \/ BuildReconcilerStep \/ WatchBuild \/ Restart
  BY DEF CreateBuild, DeleteBuild, EditSpec, ToggleEnvironment, Deliver,
     WriteSecret, FinishRun, WatchBuild, WatchRun,
     BuildObserverStep, ObserveBuild, ApplyTriggers, ApplyRetry, ScanRuns, PatchRetry,
     BuildObserverFault, BuildRunObserverStep, ObserveRun, WriteOutcome
<1>3. /\ obs' = obs \/ BuildObserverStep \/ BuildObserverFault \/ Restart
      /\ \/ obsQ' = obsQ \/ BuildObserverStep \/ BuildObserverFault
         \/ WatchBuild \/ Restart \/ \E e \in Events : Deliver(e)
  BY DEF CreateBuild, DeleteBuild, EditSpec, ToggleEnvironment, Deliver,
     WriteSecret, FinishRun, WatchBuild, WatchRun, BuildReconcilerStep,
     ReconcileBuild, HandleUpdate, Dispatch, PersistStatus, Teardown,
     CleanupPrerequisites, RemoveFinalizer, BuildRunObserverStep, ObserveRun,
     WriteOutcome
<1>4. payload' = payload \/ \E e \in Events : Deliver(e)
  BY DEF CreateBuild, DeleteBuild, EditSpec, ToggleEnvironment,
     WriteSecret, FinishRun, WatchBuild, WatchRun, Restart, BuildReconcilerStep,
     ReconcileBuild, HandleUpdate, Dispatch, PersistStatus, Teardown,
     CleanupPrerequisites, RemoveFinalizer, BuildObserverStep, ObserveBuild,
     ApplyTriggers, ApplyRetry,
     ScanRuns, PatchRetry, BuildObserverFault, BuildRunObserverStep,
     ObserveRun, WriteOutcome
<1>5. /\ bro' = bro \/ BuildRunObserverStep \/ Restart
      /\ broQ' = broQ \/ BuildRunObserverStep \/ WatchRun \/ Restart
  BY DEF CreateBuild, DeleteBuild, EditSpec, ToggleEnvironment, Deliver,
     WriteSecret, FinishRun, WatchBuild, WatchRun, BuildReconcilerStep,
     ReconcileBuild, HandleUpdate, Dispatch, PersistStatus, Teardown,
     CleanupPrerequisites, RemoveFinalizer, BuildObserverStep, ObserveBuild,
     ApplyTriggers, ApplyRetry, ScanRuns, PatchRetry, BuildObserverFault
<1>6. /\ runs' = runs \/ FinishRun \/ Dispatch \/ Teardown
      /\ clock' = clock \/ Dispatch
  BY DEF CreateBuild, DeleteBuild, EditSpec, ToggleEnvironment, Deliver,
     WriteSecret, FinishRun, WatchBuild, WatchRun, Restart, BuildReconcilerStep,
     ReconcileBuild, HandleUpdate, PersistStatus, Teardown,
     CleanupPrerequisites, RemoveFinalizer, BuildObserverStep, ObserveBuild,
     ApplyTriggers, ApplyRetry,
     ScanRuns, PatchRetry, BuildObserverFault, BuildRunObserverStep,
     ObserveRun, WriteOutcome
<1>7. cRuns' = cRuns \/ WatchRun \/ Restart
  BY DEF CreateBuild, DeleteBuild, EditSpec, ToggleEnvironment, Deliver,
     WriteSecret, FinishRun, WatchBuild, BuildReconcilerStep,
     ReconcileBuild, HandleUpdate, Dispatch, PersistStatus, Teardown,
     CleanupPrerequisites, RemoveFinalizer, BuildObserverStep, ObserveBuild,
     ApplyTriggers, ApplyRetry,
     ScanRuns, PatchRetry, BuildObserverFault, BuildRunObserverStep,
     ObserveRun, WriteOutcome
<1> QED
  BY <1>1, <1>2, <1>3, <1>4, <1>5, <1>6, <1>7

-----------------------------------------------------------------------------
(* Copies of the Build *)

\* No copy is of a Build that is yet to be created, and one under deletion
\* carries the finalizer.
CopiesInv ==
    \A b \in {build, cBuild} :
        b.uid <= spent.lives /\ (b.deleting => b.finalizer /\ Exists(b))

\* What a step makes of a Build: only the build-observer changes its annotations,
\* and nothing takes the condition of its start away.
LEMMA BuildStep ==
    ASSUME TypeOK, [Next]_vars, ~CreateBuild, Exists(build)'
    PROVE  /\ build'.uid = build.uid
           /\ "BuildStart" \in build.conds => "BuildStart" \in build'.conds
           /\ build'.sha = build.sha \/ ApplyTriggers
           /\ build'.retry = build.retry \/ ApplyRetry
<1>1. build \in BuildType
  BY DEF TypeOK
<1>2. build' # NoBuild
  BY DEF Exists, NoBuild
<1>3. CASE DeleteBuild \/ RemoveFinalizer
  BY <1>1, <1>2, <1>3 DEF DeleteBuild, RemoveFinalizer, WithoutFinalizer, BuildType
<1>4. CASE EditSpec \/ ReconcileBuild \/ PersistStatus
  BY <1>1, <1>4 DEF EditSpec, ReconcileBuild, AddFinalizer, PersistStatus, BuildType
<1>5. CASE Dispatch
  <2>1. build' = build \/ build' = WriteDispatched(build, rec.contract)
    BY <1>5 DEF Dispatch
  <2> QED
    BY <1>1, <2>1 DEF WriteDispatched, BuildType
<1>6. CASE ApplyTriggers \/ ApplyRetry
  BY <1>1, <1>6 DEF ApplyTriggers, ApplyRetry, ScanRuns, PatchRetry, cluster,
     BuildType
<1>7. CASE WriteOutcome
  <2>1. "BuildStart" \notin Replaced(bro.contract)
    BY DEF Replaced, Outcomes
  <2> QED
    BY <1>1, <1>7, <2>1 DEF WriteOutcome, WriteReplacing, BuildType
<1>8. CASE ~(DeleteBuild \/ RemoveFinalizer \/ EditSpec \/ ReconcileBuild
             \/ PersistStatus \/ Dispatch \/ ApplyTriggers \/ ApplyRetry
             \/ WriteOutcome)
  <2>1. build' = build
    BY <1>2, <1>8 DEF Next, Step, vars, cluster, ToggleEnvironment, Deliver,
       WriteSecret, FinishRun, WatchBuild, WatchRun, Restart,
       BuildReconcilerStep, HandleUpdate, Teardown, CleanupPrerequisites,
       BuildObserverStep, ObserveBuild, BuildObserverFault,
       BuildRunObserverStep, ObserveRun
  <2> QED
    BY <2>1
<1> QED
  BY <1>3, <1>4, <1>5, <1>6, <1>7, <1>8

\* A Build the cache knows is not a new one.
LEMMA BuildKept ==
    ASSUME TypeOK, CopiesInv, [Next]_vars, Exists(cBuild), build'.uid = cBuild.uid
    PROVE  /\ build.uid = build'.uid
           /\ "BuildStart" \in build.conds => "BuildStart" \in build'.conds
           /\ build'.sha = build.sha \/ ApplyTriggers
           /\ build'.retry = build.retry \/ ApplyRetry
<1>1. /\ spent.lives \in Nat /\ cBuild.uid \in Nat
      /\ cBuild.uid # 0 /\ cBuild.uid <= spent.lives
  BY DEF TypeOK, BuildType, SpentType, CopiesInv, Exists
<1>2. ~CreateBuild /\ Exists(build)'
  BY <1>1 DEF CreateBuild, NoBuild, Exists
<1> QED
  BY <1>2, BuildStep

\* Which copy of a Build it is changes only where it is created, deleted or
\* released.
LEMMA SameObject ==
    ASSUME TypeOK, [Next]_vars, ~CreateBuild, ~DeleteBuild, ~RemoveFinalizer
    PROVE  /\ build'.uid = build.uid /\ build'.deleting = build.deleting
           /\ build.finalizer => build'.finalizer
<1>1. build \in BuildType
  BY DEF TypeOK
<1>2. CASE EditSpec \/ ReconcileBuild \/ PersistStatus
  BY <1>1, <1>2 DEF EditSpec, ReconcileBuild, AddFinalizer, PersistStatus, BuildType
<1>3. CASE Dispatch \/ ApplyTriggers \/ ApplyRetry \/ WriteOutcome
  BY <1>1, <1>3 DEF Dispatch, WriteDispatched, ApplyTriggers, ApplyRetry,
     ScanRuns, PatchRetry, cluster, WriteOutcome, WriteReplacing, BuildType
<1>4. CASE ~(EditSpec \/ ReconcileBuild \/ PersistStatus \/ Dispatch
             \/ ApplyTriggers \/ ApplyRetry \/ WriteOutcome)
  BY <1>4 DEF Next, Step, vars, cluster, ToggleEnvironment, Deliver,
     WriteSecret, FinishRun, WatchBuild, WatchRun, Restart,
     BuildReconcilerStep, HandleUpdate, Teardown, CleanupPrerequisites,
     BuildObserverStep, ObserveBuild, BuildObserverFault,
     BuildRunObserverStep, ObserveRun
<1> QED
  BY <1>2, <1>3, <1>4

\* CopiesInv is inductive.
LEMMA CopiesStep ==
    ASSUME TypeOK, CopiesInv, [Next]_vars
    PROVE  CopiesInv'
<1>1. build \in BuildType /\ cBuild \in BuildType /\ spent \in SpentType
  BY DEF TypeOK
<1>2. CASE CreateBuild
  <2>1. /\ build'.uid = spent.lives + 1 /\ ~build'.deleting /\ cBuild' = cBuild
        /\ spent'.lives = spent.lives + 1 /\ spent.lives \in Nat
    BY <1>1, <1>2 DEF CreateBuild, NoBuild, SpentType, caches
  <2>2. cBuild.uid \in Nat
    BY <1>1 DEF BuildType
  <2> QED
    BY <2>1, <2>2 DEF CopiesInv, Exists
<1>3. CASE ~CreateBuild
  <2>1. spent'.lives = spent.lives /\ cBuild' \in {cBuild, build}
    BY <1>3, LivesCount, Untouched DEF WatchBuild, Restart
  <2>2. CASE DeleteBuild \/ RemoveFinalizer
    <3>1. build'.uid <= spent.lives /\ (build'.deleting => build'.finalizer /\ Exists(build'))
      BY <1>1, <2>2 DEF DeleteBuild, RemoveFinalizer, WithoutFinalizer, NoBuild,
         BuildType, CopiesInv, Exists, SpentType
    <3> QED
      BY <2>1, <3>1 DEF CopiesInv, Exists
  <2>3. CASE ~DeleteBuild /\ ~RemoveFinalizer
    <3>1. build'.uid = build.uid /\ build'.deleting = build.deleting
          /\ (build.finalizer => build'.finalizer)
      BY <1>3, <2>3, SameObject
    <3> QED
      BY <2>1, <3>1 DEF CopiesInv, Exists
  <2> QED
    BY <2>2, <2>3
<1> QED
  BY <1>2, <1>3

-----------------------------------------------------------------------------
(* No wake-up is lost *)

\* While the Build is not queued for the reconciler, the pass under way is about
\* the copy in the cache, and the last one has left nothing undone for it.
WorkInv == ~recQ =>
    /\ rec.pc \in {"ensure", "dispatch", "persist"} =>
          Exists(cBuild) /\ ~cBuild.deleting /\ cBuild.finalizer
    /\ rec.pc \in {"ensure", "dispatch"} =>
          rec.exec = ExecutionName(cBuild) /\ rec.conds = cBuild.conds
    /\ rec.pc = "persist" =>
          /\ ExecutionName(cBuild) \in RunsIn(runs)
          /\ "BuildStart" \in rec.conds \cup cBuild.conds
    /\ rec.pc \in {"teardown", "cleanup", "release"} => cBuild.deleting
    /\ rec.pc = "idle" /\ Exists(cBuild) =>
          IF cBuild.deleting THEN cBuild.uid # build.uid
          ELSE /\ cBuild.finalizer
               /\ ExecutionName(cBuild) \in RunsIn(runs)
               /\ cBuild.uid = build.uid => "BuildStart" \in build.conds

\* Steps of others leave the work of the reconciler done.
LEMMA WorkFrame ==
    ASSUME TypeOK, CopiesInv, WorkInv, [Next]_vars,
           recQ => recQ', rec' = rec, cBuild' = cBuild,
           RunsIn(runs) \subseteq RunsIn(runs')
    PROVE  WorkInv'
<1>1. Exists(cBuild) /\ cBuild.uid = build'.uid =>
         /\ cBuild.uid = build.uid
         /\ "BuildStart" \in build.conds => "BuildStart" \in build'.conds
  BY BuildKept
<1> QED
  BY <1>1 DEF WorkInv, ExecutionName, Exists

\* What the reconciler does itself: it reads the copy in the cache, dispatches its
\* execution and persists the condition, or comes back after an error.
LEMMA WorkReconciler ==
    ASSUME TypeOK, CopiesInv, WorkInv, [Next]_vars, BuildReconcilerStep
    PROVE  WorkInv'
<1> SUFFICES ASSUME ~recQ' PROVE WorkInv'
  BY DEF WorkInv
<1>1. /\ build \in BuildType /\ cBuild \in BuildType /\ rec \in RecType
      /\ runs \in [RunName -> RunType]
      /\ ExecutionName(cBuild) \in RunName
  BY DEF TypeOK, BuildType, ExecutionName, RunName
<1>2. cBuild' = cBuild /\ ~RecError
  BY DEF BuildReconcilerStep, ReconcileBuild, HandleUpdate, Dispatch, PersistStatus,
     Teardown, CleanupPrerequisites, RemoveFinalizer, caches, RecError
<1>3. ExecutionName(cBuild)' = ExecutionName(cBuild) /\ Exists(cBuild)' = Exists(cBuild)
  BY <1>2 DEF ExecutionName, Exists
<1>4. CASE ReconcileBuild
  <2>1. runs' = runs /\ build' = build
    BY <1>2, <1>4 DEF ReconcileBuild, AddFinalizer
  <2>2. CASE rec' = rec /\ (~Exists(cBuild) \/ (cBuild.deleting /\ ~cBuild.finalizer))
    <3>1. ~Exists(cBuild) /\ rec'.pc = "idle"
      BY <1>4, <2>2 DEF CopiesInv, ReconcileBuild
    <3> QED
      BY <1>2, <1>3, <3>1 DEF WorkInv, CopiesInv
  <2>3. CASE rec' = Read(cBuild) /\ Exists(cBuild) /\ cBuild.finalizer
    <3>1. /\ rec'.pc = IF cBuild.deleting THEN "teardown" ELSE "ensure"
          /\ rec'.exec = ExecutionName(cBuild) /\ rec'.conds = cBuild.conds
      BY <2>3 DEF Read
    <3> QED
      BY <1>2, <1>3, <2>3, <3>1 DEF WorkInv
  <2> QED
    BY <1>2, <1>4, <2>2, <2>3 DEF ReconcileBuild, AddFinalizer
<1>5. CASE HandleUpdate
  <2>1. RecNext("dispatch") /\ rec.pc = "ensure"
    BY <1>2, <1>5 DEF HandleUpdate
  <2>2. /\ ~recQ /\ rec'.pc = "dispatch"
        /\ rec'.exec = rec.exec /\ rec'.conds = rec.conds
    BY <1>1, <2>1 DEF RecNext, RecType
  <2> QED
    BY <1>2, <1>3, <2>1, <2>2 DEF WorkInv
<1>6. CASE Dispatch
  <2>1. /\ StartRun(rec.exec) /\ rec.pc = "dispatch" /\ ~recQ
        /\ rec' = [IdleRec EXCEPT !.pc = "persist",
                       !.conds = ChangedConditions(rec.conds,
                                         rec.conds \cup {"BuildStart"})]
    BY <1>2, <1>6 DEF Dispatch
  <2>2. rec'.pc = "persist" /\ rec'.conds = {"BuildStart"} \ rec.conds
    BY <2>1 DEF IdleRec, ChangedConditions
  <2>3. rec.exec = ExecutionName(cBuild) /\ rec.conds = cBuild.conds
        /\ Exists(cBuild) /\ ~cBuild.deleting /\ cBuild.finalizer
    BY <2>1 DEF WorkInv
  <2>4. rec.exec \in RunsIn(runs')
    BY <1>1, <2>1, <2>3 DEF StartRun, RunsIn
  <2> QED
    BY <1>2, <1>3, <2>2, <2>3, <2>4 DEF WorkInv
<1>7. CASE PersistStatus
  <2>1. /\ build' = [build EXCEPT !.conds = @ \cup rec.conds]
        /\ rec.pc = "persist" /\ cBuild = build /\ RecDone /\ runs' = runs
    BY <1>2, <1>7 DEF PersistStatus
  <2>2. /\ build'.conds = build.conds \cup rec.conds
        /\ ~recQ /\ rec'.pc = "idle"
    BY <1>1, <2>1 DEF RecDone, IdleRec, BuildType
  <2> QED
    BY <1>2, <1>3, <2>1, <2>2 DEF WorkInv
<1>8. CASE Teardown
  <2>1. RecNext("cleanup") /\ rec.pc = "teardown"
    BY <1>2, <1>8 DEF Teardown
  <2> QED
    BY <1>1, <1>2, <2>1 DEF RecNext, RecType, WorkInv
<1>9. CASE CleanupPrerequisites
  <2>1. RecNext("release") /\ rec.pc = "cleanup"
    BY <1>2, <1>9 DEF CleanupPrerequisites, CleanupFailed
  <2> QED
    BY <1>1, <1>2, <2>1 DEF RecNext, RecType, WorkInv
<1>10. CASE RemoveFinalizer
  <2>1. RecDone /\ rec.pc = "release"
    BY <1>2, <1>10 DEF RemoveFinalizer
  <2>2. cBuild.deleting /\ Exists(cBuild) /\ rec'.pc = "idle"
    BY <2>1 DEF WorkInv, CopiesInv, RecDone, IdleRec
  <2>3. build'.uid = 0
    BY <1>2, <1>10, <2>2 DEF RemoveFinalizer, WithoutFinalizer, NoBuild
  <2> QED
    BY <1>2, <1>3, <2>2, <2>3 DEF WorkInv, Exists
<1> QED
  BY <1>4, <1>5, <1>6, <1>7, <1>8, <1>9, <1>10 DEF BuildReconcilerStep

\* WorkInv is inductive: everything that shows the cache another copy queues it.
LEMMA WorkStep ==
    ASSUME TypeOK, CopiesInv, WorkInv, [Next]_vars
    PROVE  WorkInv'
<1>1. CASE WatchBuild
  BY <1>1 DEF WatchBuild, WorkInv
<1>2. CASE Restart
  BY <1>2 DEF Restart, WorkInv, IdleRec, Exists
<1>3. CASE ~BuildReconcilerStep /\ ~WatchBuild /\ ~Restart
  <2>1. ~Dispatch /\ ~Teardown
    BY <1>3 DEF BuildReconcilerStep
  <2> QED
    BY <1>3, <2>1, Untouched, RunsUntouched, WorkFrame
<1> QED
  BY <1>1, <1>2, <1>3, WorkReconciler

\* While no pass of the build-observer is due, the one under way holds the copy
\* in the cache and the last one has mirrored the latest event onto it, or the
\* Build carries a commit the cache has yet to show; what it is about to patch
\* differs from the copy in the cache.
Holds(b) == obs.sha = b.sha /\ obs.retry = b.retry /\ obs.contract = b.contract
OtherCommit == cBuild.uid = build.uid => build.sha # cBuild.sha
SeenInv == ~obsQ /\ Exists(cBuild) =>
    /\ obs.pc = "triggers" => Holds(cBuild)
    /\ obs.pc = "retry" => OtherCommit \/ (Holds(cBuild) /\ TriggerCurrent(cBuild))
    /\ obs.pc = "patch" =>
          OtherCommit \/ (obs.retry # cBuild.retry /\ TriggerCurrent(cBuild))
    /\ obs.pc = "idle" => OtherCommit \/ TriggerCurrent(cBuild)

\* What the build-observer does itself.
LEMMA SeenObserver ==
    ASSUME TypeOK, CopiesInv, SeenInv, [Next]_vars, BuildObserverStep
    PROVE  SeenInv'
<1> SUFFICES ASSUME ~obsQ', Exists(cBuild)' PROVE SeenInv'
  BY DEF SeenInv
<1>1. build \in BuildType /\ cBuild \in BuildType /\ obs \in ObsType
  BY DEF TypeOK
<1>2. /\ cBuild' = cBuild /\ payload' = payload /\ ~ObsError /\ Exists(cBuild)
      /\ OtherCommit /\ ~ApplyTriggers => OtherCommit'
      /\ TriggerCurrent(cBuild)' = TriggerCurrent(cBuild)
  <2>1. cBuild' = cBuild /\ payload' = payload /\ ~ObsError
    BY DEF BuildObserverStep, ObserveBuild, ApplyTriggers, ApplyRetry,
       ScanRuns, PatchRetry, cluster,
       caches, ObsError
  <2>2. Exists(cBuild)
    BY <2>1 DEF Exists
  <2> QED
    BY <2>1, <2>2, BuildKept DEF OtherCommit, TriggerCurrent, LatestEvents, Matching
<1>3. CASE ObserveBuild
  <2>1. obs' = Holding(cBuild, "triggers")
    BY <1>2, <1>3 DEF ObserveBuild
  <2> QED
    BY <1>2, <2>1 DEF SeenInv, Holds, Holding
<1>4. CASE ApplyTriggers
  <2>1. Holds(cBuild) /\ obs.pc = "triggers"
    BY <1>2, <1>4 DEF ApplyTriggers, SeenInv
  <2>2. CASE TriggerCurrent(obs) /\ obs' = [obs EXCEPT !.pc = "retry"]
    <3>1. TriggerCurrent(cBuild)
      BY <2>1, <2>2 DEF TriggerCurrent, Holds
    <3>2. Holds(cBuild)' /\ obs'.pc = "retry"
      BY <1>1, <1>2, <2>1, <2>2 DEF Holds, ObsType
    <3> QED
      BY <1>2, <3>1, <3>2 DEF SeenInv
  <2>3. ASSUME NEW sha \in TriggerWanted(obs), build' = [build EXCEPT !.sha = sha],
               obs' = Holding(build', "retry")
        PROVE  SeenInv'
    <3>1. build'.sha # cBuild.sha /\ obs'.pc = "retry"
      BY <1>1, <2>1, <2>3 DEF TriggerWanted, Holds, BuildType, Holding
    <3> QED
      BY <1>2, <3>1 DEF SeenInv, OtherCommit
  <2> QED
    BY <1>2, <1>4, <2>2, <2>3 DEF ApplyTriggers
<1>5. CASE ScanRuns
  <2>1. obs.pc = "retry" /\ ~obsQ /\ ~ApplyTriggers
    BY <1>5 DEF ScanRuns, queues, ApplyTriggers
  <2>2. CASE obs' = IdleObs
    BY <1>2, <2>1, <2>2 DEF SeenInv, IdleObs
  <2>3. ASSUME NEW want, want # obs.retry,
               obs' = [obs EXCEPT !.pc = "patch", !.retry = want]
        PROVE  SeenInv'
    <3>1. obs'.pc = "patch" /\ obs'.retry = want
      BY <1>1, <2>3 DEF ObsType
    <3>2. OtherCommit \/ (obs.retry = cBuild.retry /\ TriggerCurrent(cBuild))
      BY <1>2, <2>1 DEF SeenInv, Holds
    <3> QED
      BY <1>2, <2>1, <2>3, <3>1, <3>2 DEF SeenInv
  <2> QED
    BY <1>5, <2>2, <2>3 DEF ScanRuns
<1>6. CASE PatchRetry
  <2>1. obs.pc = "patch" /\ ObsDone /\ ~ApplyTriggers
    BY <1>2, <1>6 DEF PatchRetry, ApplyTriggers
  <2>2. obs'.pc = "idle" /\ ~obsQ
    BY <2>1 DEF ObsDone, IdleObs
  <2> QED
    BY <1>2, <2>1, <2>2 DEF SeenInv
<1> QED
  BY <1>3, <1>4, <1>5, <1>6 DEF BuildObserverStep, ApplyRetry

\* SeenInv is inductive: whatever makes a copy or an event new queues the Build.
LEMMA SeenStep ==
    ASSUME TypeOK, CopiesInv, SeenInv, [Next]_vars
    PROVE  SeenInv'
<1>1. CASE WatchBuild
  BY <1>1 DEF WatchBuild, SeenInv
<1>2. CASE Restart
  BY <1>2 DEF Restart, SeenInv, Exists
<1>3. CASE BuildObserverFault
  BY <1>3 DEF BuildObserverFault, ObsError, SeenInv
<1>4. CASE \E e \in Events : Deliver(e)
  BY <1>4 DEF Deliver, SeenInv, Exists, caches
<1>5. CASE ~(WatchBuild \/ Restart \/ BuildObserverFault \/ BuildObserverStep
             \/ \E e \in Events : Deliver(e))
  <2>1. cBuild' = cBuild /\ obs' = obs /\ payload' = payload /\ obsQ' = obsQ
    BY <1>5, Untouched
  <2>2. ~ApplyTriggers
    BY <1>5 DEF BuildObserverStep
  <2>3. Exists(cBuild) /\ OtherCommit => OtherCommit'
    BY <2>1, <2>2, BuildKept DEF OtherCommit
  <2>4. /\ TriggerCurrent(cBuild)' = TriggerCurrent(cBuild)
        /\ Holds(cBuild)' = Holds(cBuild) /\ Exists(cBuild)' = Exists(cBuild)
    BY <2>1 DEF TriggerCurrent, LatestEvents, Matching, Holds, Exists
  <2> QED
    BY <2>1, <2>3, <2>4 DEF SeenInv
<1> QED
  BY <1>1, <1>2, <1>3, <1>4, <1>5, SeenObserver

\* What the reconciler and the build-observer have left to do at rest.
RestInv == CopiesInv /\ WorkInv /\ SeenInv

\* There is nothing to do at the start.
LEMMA RestInit == Init => RestInv
BY DEF Init, RestInv, CopiesInv, WorkInv, SeenInv, NoBuild, IdleRec, Exists

\* No wake-up is lost, with any cache lag and whatever fails: at rest nothing is
\* left to do for the Build.
THEOREM NoWakeUpIsLost == Spec => []NoWakeUpLost
<1> USE DEF RestInv
<1>1. TypeOK /\ RestInv /\ [Next]_vars => RestInv'
  BY CopiesStep, WorkStep, SeenStep
<1>2. TypeOK /\ RestInv => NoWakeUpLost
  <2> SUFFICES ASSUME TypeOK, RestInv, AtRest PROVE NoWakeUpLost
    BY DEF NoWakeUpLost
  <2>1. cBuild = build /\ ~build.deleting
    BY DEF AtRest, Quiet, WorkInv, CopiesInv
  <2>2. ASSUME Exists(build)
        PROVE  /\ build.finalizer /\ "BuildStart" \in build.conds
               /\ ExecutionName(build) \in RunsIn(runs)
               /\ TriggerCurrent(build)
    BY <2>1, <2>2 DEF AtRest, WorkInv, SeenInv, OtherCommit
  <2> QED
    BY <2>1, <2>2 DEF NoWakeUpLost, AtRest, Quiet
<1> QED
  BY <1>1, <1>2, RestInit, TypeCorrect, PTL DEF Spec

-----------------------------------------------------------------------------
(* The order of BuildRuns *)

\* A BuildRun is what it was, or has finished, or is new.
LEMMA RunsStep ==
    ASSUME TypeOK, [Next]_vars
    PROVE  /\ clock'.seq \in {clock.seq, clock.seq + 1}
           /\ \A x \in RunsIn(runs') :
                 \/ /\ x \in RunsIn(runs) /\ runs'[x].seq = runs[x].seq
                    /\ runs'[x] = runs[x] \/ runs[x].state = "running"
                 \/ /\ x = rec.exec /\ x \notin RunsIn(runs) /\ runs'[x].state = "running"
                    /\ runs'[x].seq = clock.seq + 1 /\ clock'.seq = clock.seq + 1
<1>1. runs \in [RunName -> RunType] /\ clock \in [second: Nat, seq: Nat]
  BY DEF TypeOK
<1>2. CASE FinishRun
  <2>1. PICK q \in RunName, s \in RunResults :
           runs[q].state = "running" /\ runs' = [runs EXCEPT ![q].state = s]
    BY <1>2 DEF FinishRun
  <2>2. \A x \in RunName : /\ runs'[x].seq = runs[x].seq
                           /\ x # q => runs'[x] = runs[x]
    BY <1>1, <2>1 DEF RunType
  <2>3. clock' = clock
    BY <1>2 DEF FinishRun
  <2> QED
    BY <2>1, <2>2, <2>3 DEF RunsIn
<1>3. CASE Dispatch
  <2>1. CASE runs[rec.exec].state = "absent" /\ StartRun(rec.exec)
    <3>1. PICK now \in {clock.second + 1} \cup
                       (IF SameSecond THEN {clock.second} ELSE {}) :
             /\ clock' = [second |-> now, seq |-> clock.seq + 1]
             /\ runs' = [runs EXCEPT ![rec.exec] = [state |-> "running",
                                                  created |-> now,
                                                  seq |-> clock.seq + 1]]
      BY <2>1 DEF StartRun
    <3>2. rec.exec \in RunName
      BY DEF TypeOK, RecType
    <3>3. /\ runs'[rec.exec].state = "running" /\ runs'[rec.exec].seq = clock.seq + 1
          /\ \A x \in RunName : x # rec.exec => runs'[x] = runs[x]
      BY <1>1, <3>1, <3>2
    <3> QED
      BY <2>1, <3>1, <3>2, <3>3 DEF RunsIn
  <2>2. CASE runs' = runs /\ clock' = clock
    BY <2>2 DEF RunsIn
  <2> QED
    BY <1>3, <2>1, <2>2 DEF Dispatch, StartRun
<1>4. CASE Teardown
  <2>1. clock' = clock /\ \A x \in RunName : runs'[x] = runs[x] \/ runs'[x] = AbsentRun
    BY <1>4 DEF Teardown
  <2> QED
    BY <2>1 DEF RunsIn, AbsentRun
<1>5. CASE ~FinishRun /\ ~Dispatch /\ ~Teardown
  BY <1>5, Untouched DEF RunsIn
<1> QED
  BY <1>2, <1>3, <1>4, <1>5

\* BuildRuns are lost only under deletion.
LEMMA RunsKept ==
    ASSUME TypeOK, CopiesInv, FinalizerInv, [Next]_vars,
           ~build'.deleting, RunsIn(runs') # {}
    PROVE  /\ ~build.deleting /\ ~Teardown
           /\ \A x \in RunName : Follows(runs[x], runs'[x])
<1>1. ~build.deleting
  <2>1. CASE RemoveFinalizer
    <3>1. RunsIn(runs) = {} /\ runs' = runs
      BY <2>1 DEF RemoveFinalizer, FinalizerInv
    <3> QED
      BY <3>1
  <2>2. CASE CreateBuild
    BY <2>2 DEF CreateBuild, CopiesInv
  <2>3. CASE DeleteBuild
    BY <2>3 DEF DeleteBuild
  <2> QED
    BY <2>1, <2>2, <2>3, SameObject
<1>2. ~Teardown
  <2>1. SUFFICES ASSUME Teardown PROVE FALSE
    OBVIOUS
  <2>2. RunsIn(runs) = {}
    BY <1>1, <2>1 DEF Teardown, FinalizerInv, ProvisionedUnderFinalizer, Provisioned
  <2>3. RunsIn(runs') \subseteq RunsIn(runs)
    BY <2>1 DEF Teardown, RunsIn, AbsentRun
  <2> QED
    BY <2>2, <2>3
<1> QED
  BY <1>1, <1>2, RunsFollow

\* The cached copies of BuildRuns are numbered like the BuildRuns, and a finished
\* copy shows how its BuildRun ended.
SeqInv ==
    /\ \A x \in RunName : cRuns[x].seq <= clock.seq
    /\ \A q, r \in RunsIn(cRuns) : cRuns[q].seq = cRuns[r].seq => q = r
    /\ \A q \in RunsIn(cRuns), r \in RunsIn(runs) : cRuns[q].seq = runs[r].seq => q = r
    /\ \A x \in RunsIn(runs) :
          cRuns[x].state \in Terminal /\ cRuns[x].seq = runs[x].seq =>
             cRuns[x].state = runs[x].state

\* A copy of a BuildRun that is gone is older than every BuildRun that is there,
\* unless the Build is being deleted.
Gone(x) == runs[x].state = "absent" \/ runs[x].seq # cRuns[x].seq
GoneInv ==
    ~build.deleting =>
        \A x \in RunsIn(cRuns) :
            Gone(x) => \A r \in RunsIn(runs) : cRuns[x].seq < runs[r].seq

\* One of the BuildRuns is the newest.
NewestInv ==
    ~build.deleting /\ RunsIn(runs) # {} => \E r \in RunsIn(runs) : Newest(r)

\* SeqInv is inductive.
LEMMA SeqStep ==
    ASSUME TypeOK, ClockInv, SeqInv, [Next]_vars
    PROVE  SeqInv'
<1>1. /\ clock.seq \in Nat
      /\ \A x \in RunName : cRuns[x].seq \in Nat /\ runs[x].seq \in Nat
      /\ RunsIn(cRuns) \subseteq RunName /\ RunsIn(runs) \subseteq RunName
      /\ cRuns \in [RunName -> RunType] /\ runs \in [RunName -> RunType]
  BY DEF TypeOK, RunType, RunsIn
<1>2. CASE cRuns' = cRuns
  <2>1. \A x \in RunName : cRuns'[x].seq <= clock'.seq
    BY <1>1, <1>2, RunsStep DEF SeqInv
  <2>2. \A q \in RunsIn(cRuns), r \in RunsIn(runs') :
           cRuns[q].seq = runs'[r].seq => r \in RunsIn(runs) /\ cRuns[q].seq = runs[r].seq
    <3> TAKE q \in RunsIn(cRuns), r \in RunsIn(runs')
    <3>1. cRuns[q].seq <= clock.seq
      BY <1>1 DEF SeqInv
    <3> QED
      BY <1>1, <3>1, RunsStep
  <2>3. \A x \in RunsIn(runs') :
           cRuns[x].state \in Terminal /\ cRuns[x].seq = runs'[x].seq =>
              cRuns[x].state = runs'[x].state
    <3> SUFFICES ASSUME NEW x \in RunsIn(runs'), cRuns[x].state \in Terminal,
                        cRuns[x].seq = runs'[x].seq
                 PROVE  cRuns[x].state = runs'[x].state
      OBVIOUS
    <3>1. x \in RunsIn(cRuns) 
      BY DEF RunsIn, Terminal, Succeeded
    <3>2. x \in RunsIn(runs) /\ cRuns[x].seq = runs[x].seq
      BY <2>2, <3>1
    <3>3. cRuns[x].state = runs[x].state
      BY <3>2 DEF SeqInv
    <3>4. runs[x].state # "running"
      BY <3>3 DEF Terminal, Succeeded
    <3> QED
      BY <3>2, <3>3, <3>4, RunsStep
  <2> QED
    BY <1>2, <2>1, <2>2, <2>3 DEF SeqInv
<1>3. CASE runs' = runs /\ \A r \in RunName : cRuns'[r] \in {cRuns[r], runs[r]}
  <2>1. \A x \in RunName : cRuns'[x].seq <= clock'.seq
    <3>1. \A x \in RunName : cRuns'[x].seq <= clock.seq /\ cRuns'[x].seq \in Nat
      BY <1>1, <1>3 DEF SeqInv, ClockInv
    <3> QED
      BY <1>1, <3>1, RunsStep
  <2>2. \A q, r \in RunsIn(cRuns') : cRuns'[q].seq = cRuns'[r].seq => q = r
    BY <1>3 DEF SeqInv, ClockInv, RunsIn
  <2>3. \A q \in RunsIn(cRuns'), r \in RunsIn(runs') :
           cRuns'[q].seq = runs'[r].seq => q = r
    BY <1>3 DEF SeqInv, ClockInv, RunsIn
  <2>4. \A x \in RunsIn(runs') :
          cRuns'[x].state \in Terminal /\ cRuns'[x].seq = runs'[x].seq =>
             cRuns'[x].state = runs'[x].state
    BY <1>1, <1>3 DEF SeqInv
  <2> QED
    BY <2>1, <2>2, <2>3, <2>4 DEF SeqInv
<1> QED
  BY <1>2, <1>3, CacheSees

\* GoneInv is inductive: a BuildRun that starts is newer than every copy.
LEMMA GoneStep ==
    ASSUME TypeOK, CopiesInv, FinalizerInv, SeqInv, GoneInv, [Next]_vars
    PROVE  GoneInv'
<1> SUFFICES ASSUME ~build'.deleting, NEW x \in RunsIn(cRuns'), Gone(x)',
                    NEW r \in RunsIn(runs')
             PROVE  cRuns'[x].seq < runs'[r].seq
  BY DEF GoneInv
<1>1. ~build.deleting /\ \A y \in RunName : Follows(runs[y], runs'[y])
  BY RunsKept
<1>2. x \in RunName /\ r \in RunName /\ clock.seq \in Nat /\ cRuns[x].seq \in Nat
  BY DEF TypeOK, RunType, RunsIn
<1>3. cRuns'[x] = cRuns[x]
  <2>1. SUFFICES ASSUME runs' = runs, cRuns'[x] = runs[x] PROVE FALSE
    BY <1>2, CacheSees
  <2> QED
    BY <2>1 DEF Gone, RunsIn
<1>4. x \in RunsIn(cRuns) /\ Gone(x)
  BY <1>1, <1>2, <1>3 DEF RunsIn, Gone, Follows
<1>5. CASE r \in RunsIn(runs) /\ runs'[r].seq = runs[r].seq
  BY <1>1, <1>3, <1>4, <1>5 DEF GoneInv
<1>6. CASE runs'[r].seq = clock.seq + 1
  <2>1. cRuns[x].seq <= clock.seq
    BY <1>2 DEF SeqInv
  <2> QED
    BY <1>2, <1>3, <1>6, <2>1
<1> QED
  BY <1>5, <1>6, RunsStep

\* NewestInv is inductive: a BuildRun that starts is the newest.
LEMMA NewestStep ==
    ASSUME TypeOK, CopiesInv, FinalizerInv, ClockInv, NewestInv, [Next]_vars
    PROVE  NewestInv'
<1> SUFFICES ASSUME ~build'.deleting, RunsIn(runs') # {}
             PROVE  \E r \in RunsIn(runs') :
                       \A q \in RunsIn(runs') : runs'[q].seq <= runs'[r].seq
  BY RunIsNotNoRun DEF NewestInv, Newest, Present, RunsIn
<1>1. ~build.deleting /\ \A y \in RunName : Follows(runs[y], runs'[y])
  BY RunsKept
<1>2. /\ clock.seq \in Nat /\ \A y \in RunName : runs[y].seq \in Nat
      /\ \A y \in RunName : runs[y].seq <= clock.seq
      /\ RunsIn(runs) \subseteq RunName /\ RunsIn(runs') \subseteq RunName
  BY DEF TypeOK, RunType, RunsIn, ClockInv
<1>3. ASSUME NEW x \in RunsIn(runs'), x \notin RunsIn(runs)
      PROVE  \A q \in RunsIn(runs') : runs'[q].seq <= runs'[x].seq
  <2>1. runs'[x].seq = clock.seq + 1
    BY <1>3, RunsStep
  <2>2. \A q \in RunsIn(runs') : runs'[q].seq \in {clock.seq + 1, runs[q].seq}
    BY RunsStep
  <2> QED
    BY <1>2, <2>1, <2>2
<1>4. CASE RunsIn(runs') \subseteq RunsIn(runs)
  <2>1. PICK r \in RunsIn(runs) : \A q \in RunsIn(runs) : runs[q].seq <= runs[r].seq
    BY <1>1, <1>4 DEF NewestInv, Newest
  <2>2. r \in RunsIn(runs') /\ runs'[r].seq = runs[r].seq
    BY <1>1, <2>1 DEF Follows, RunsIn
  <2>3. \A q \in RunsIn(runs') : runs'[q].seq = runs[q].seq
    BY <1>4, RunsStep
  <2> QED
    BY <1>4, <2>1, <2>2, <2>3
<1> QED
  BY <1>3, <1>4

-----------------------------------------------------------------------------
(* The outcome at rest *)

\* Every finished BuildRun the cache shows as it is, and that is not queued, is
\* superseded, or the contract tells its outcome, or is about to.
Tells(c, r) == c.ref = r /\ (c.success <=> cRuns[r].state \in Succeeded)
ToldInv ==
    Exists(build) /\ ~build.deleting =>
        \A r \in RunsIn(cRuns) \ broQ :
            cRuns[r].state \in Terminal /\ cRuns[r] = runs[r] =>
                \/ Superseded(r)
                \/ bro.pc = "write" /\ Tells(bro.contract, r)
                \/ bro.pc = "idle" /\ Tells(build.contract, r)

\* ToldInv is inductive: a BuildRun is dropped for one created later, and that one
\* is there for good.
LEMMA ToldStep ==
    ASSUME TypeOK, CopiesInv, FinalizerInv, OutcomeInv, ClockInv, SeqInv, GoneInv,
           ToldInv, [Next]_vars
    PROVE  ToldInv'
<1> SUFFICES ASSUME Exists(build)', ~build'.deleting,
                    NEW r \in RunsIn(cRuns') \ broQ',
                    cRuns'[r].state \in Terminal, cRuns'[r] = runs'[r]
             PROVE  \/ Superseded(r)'
                    \/ bro'.pc = "write" /\ Tells(bro.contract, r)'
                    \/ bro'.pc = "idle" /\ Tells(build.contract, r)'
  BY DEF ToldInv
<1>1. r \in RunName /\ r \in RunsIn(runs')
  BY DEF RunsIn
<1>2. ~build.deleting
  BY <1>1, RunsKept
<1>3. /\ r \in RunsIn(runs)
      /\ runs'[r].seq = runs[r].seq
      /\ runs'[r] = runs[r] \/ runs[r].state = "running"
  BY <1>1, RunsStep DEF Terminal, Succeeded
<1>4. Exists(build)
  BY <1>3 DEF FinalizerInv, ProvisionedUnderFinalizer, Provisioned
<1>5. \A x \in RunName : /\ runs[x].created = runs[x].seq
                         /\ cRuns[x].created = cRuns[x].seq
                         /\ runs[x].seq \in Nat /\ cRuns[x].seq \in Nat
  BY DEF ClockInv, TypeOK, RunType
<1>6. bro.pc \in {"idle", "write"} /\ build \in BuildType /\ broQ \subseteq RunName
  BY DEF TypeOK, BroType
<1>7. CASE Restart
  BY <1>1, <1>7 DEF Restart, RunsIn
<1>8. CASE WatchRun
  <2>1. PICK q \in RunName : /\ cRuns' = [cRuns EXCEPT ![q] = runs[q]]
                             /\ broQ' = broQ \cup {q}
    BY <1>8 DEF WatchRun
  <2>2. runs' = runs /\ bro' = bro /\ build' = build
    BY <1>8 DEF WatchRun, cluster, passes
  <2>3. /\ q # r /\ cRuns'[q] = runs[q]
        /\ \A x \in RunName : x # q => cRuns'[x] = cRuns[x]
    BY <2>1 DEF TypeOK
  <2>4. r \in RunsIn(cRuns) \ broQ /\ cRuns[r].state \in Terminal /\ cRuns[r] = runs[r]
    BY <1>1, <2>1, <2>2, <2>3 DEF RunsIn
  <2>5. CASE Superseded(r)
    <3>1. PICK p \in RunsIn(cRuns) : cRuns[p].created > cRuns[r].created
      BY <2>5 DEF Superseded
    <3>2. p \in RunName /\ cRuns[p].seq > cRuns[r].seq
      BY <1>1, <1>5, <3>1 DEF RunsIn
    <3>3. CASE p = q
      <4>1. ~Gone(q)
        <5>1. SUFFICES ASSUME Gone(q) PROVE FALSE
          OBVIOUS
        <5>2. cRuns[q].seq < runs[r].seq
          BY <1>2, <1>3, <3>1, <3>3, <5>1 DEF GoneInv
        <5> QED
          BY <1>1, <1>5, <2>4, <3>2, <3>3, <5>2
      <4>2. q \in RunsIn(cRuns') /\ cRuns'[q].created = cRuns[q].created
        BY <1>5, <2>3, <4>1 DEF Gone, RunsIn
      <4> QED
        BY <1>1, <2>3, <3>1, <3>3, <4>2 DEF Superseded
    <3>4. CASE p # q
      BY <1>1, <2>3, <3>1, <3>2, <3>4 DEF Superseded, RunsIn
    <3> QED
      BY <3>3, <3>4
  <2>6. CASE ~Superseded(r)
    BY <1>1, <1>2, <1>4, <2>2, <2>3, <2>4, <2>6 DEF ToldInv, Tells
  <2> QED
    BY <2>5, <2>6
<1>9. CASE ~WatchRun /\ ~Restart
  <2>1. cRuns' = cRuns
    BY <1>9, Untouched
  <2>2. runs[r] = cRuns[r] /\ cRuns[r].state \in Terminal
    <3>1. cRuns[r].state \in Terminal /\ cRuns[r].seq = runs[r].seq
      BY <1>3, <2>1
    <3>2. cRuns[r].state = runs[r].state
      BY <1>3, <3>1 DEF SeqInv
    <3>3. runs[r].state # "running"
      BY <3>1, <3>2 DEF Terminal, Succeeded
    <3> QED
      BY <1>3, <2>1, <3>1, <3>3
  <2>3. Superseded(r)' = Superseded(r)
    BY <2>1 DEF Superseded
  <2>4. SUFFICES ASSUME ~Superseded(r)
                 PROVE  \/ bro'.pc = "write" /\ Tells(bro.contract, r)'
                        \/ bro'.pc = "idle" /\ Tells(build.contract, r)'
    BY <2>3
  <2>5. \A c : Tells(c, r)' = Tells(c, r)
    BY <2>1 DEF Tells
  <2>6. r \notin broQ => \/ bro.pc = "write" /\ Tells(bro.contract, r)
                         \/ bro.pc = "idle" /\ Tells(build.contract, r)
    BY <1>2, <1>4, <2>1, <2>2, <2>4 DEF ToldInv
  <2>7. CASE ObserveRun
    <3>1. PICK q \in broQ :
             /\ broQ' = broQ \ {q}
             /\ \/ /\ cRuns[q].state \notin Terminal \/ Superseded(q)
                   /\ UNCHANGED bro
                \/ /\ cRuns[q].state \in Terminal /\ ~Superseded(q)
                   /\ bro' = [pc |-> "write", contract |-> OutcomeContract(cBuild, q)]
      BY <2>7 DEF ObserveRun
    <3>2. build' = build /\ bro.pc = "idle"
      BY <2>7 DEF ObserveRun, cluster
    <3>3. CASE q = r
      <4>1. bro' = [pc |-> "write", contract |-> OutcomeContract(cBuild, r)]
        BY <2>2, <2>4, <3>1, <3>3
      <4>2. bro'.pc = "write" /\ bro'.contract.ref = r
            /\ bro'.contract.success = (cRuns[r].state \in Succeeded)
        BY <4>1 DEF OutcomeContract
      <4> QED
        BY <2>1, <4>2 DEF Tells
    <3>4. CASE q # r
      <4>1. r \notin broQ /\ Tells(build.contract, r)
        BY <2>6, <3>1, <3>2, <3>4
      <4>2. ~(cRuns[q].state \in Terminal /\ ~Superseded(q))
        <5>1. SUFFICES ASSUME cRuns[q].state \in Terminal, ~Superseded(q) PROVE FALSE
          OBVIOUS
        <5>2. q \in RunsIn(cRuns) /\ r \in RunsIn(cRuns)
          BY <1>1, <1>6, <2>2, <5>1 DEF RunsIn, Terminal, Succeeded
        <5>3. ~(cRuns[r].created > cRuns[q].created)
              /\ ~(cRuns[q].created > cRuns[r].created)
          BY <2>4, <5>1, <5>2 DEF Superseded
        <5>4. cRuns[q].seq = cRuns[r].seq
          BY <1>1, <1>5, <1>6, <5>3
        <5> QED
          BY <3>4, <5>2, <5>4 DEF SeqInv
      <4> QED
        BY <2>5, <3>1, <3>2, <4>1, <4>2
    <3> QED
      BY <3>3, <3>4
  <2>8. CASE WriteOutcome
    <3>1. bro.pc = "write" /\ bro'.pc = "idle" /\ r \notin broQ
      BY <2>8 DEF WriteOutcome, IdleBro
    <3>2. Tells(bro.contract, r)
      BY <2>6, <3>1
    <3>3. build' = WriteReplacing(build, bro.contract, Replaced(bro.contract),
                                  OutcomeCondition(bro.contract))
      BY <1>4, <2>8, <3>2 DEF WriteOutcome, Tells
    <3>4. build'.contract = bro.contract
      BY <1>6, <3>3 DEF WriteReplacing, BuildType
    <3> QED
      BY <2>5, <3>1, <3>2, <3>4
  <2>9. CASE ~ObserveRun /\ ~WriteOutcome
    <3>1. bro' = bro /\ broQ' = broQ
      BY <1>9, <2>9, Untouched DEF BuildRunObserverStep
    <3>2. build'.contract = build.contract
      BY <1>4, <2>9, ContractWritten DEF CreateBuild, NoBuild, Exists
    <3> QED
      BY <2>5, <2>6, <3>1, <3>2
  <2> QED
    BY <2>7, <2>8, <2>9
<1> QED
  BY <1>7, <1>8, <1>9

-----------------------------------------------------------------------------
(* Attempts *)

\* In a first life the cache only gains BuildRuns.
LEMMA CacheGrows ==
    ASSUME TypeOK, TypeOK', LifeInv, FirstLife, [Next]_vars
    PROVE  /\ RunsIn(cRuns) \subseteq RunsIn(cRuns')
           /\ \A y \in RunsIn(cRuns) : cRuns'[y].seq = cRuns[y].seq
           /\ Attempts(cRuns) \in Nat /\ Attempts(cRuns') \in Nat
           /\ Attempts(cRuns) <= Attempts(cRuns')
           /\ Attempts(cRuns) = Attempts(cRuns') => RunsIn(cRuns) = RunsIn(cRuns')
<1>1. \A y \in RunName : Follows(cRuns[y], runs[y])
  BY DEF LifeInv
<1>2. \A y \in RunsIn(cRuns) : y \in RunsIn(cRuns') /\ cRuns'[y].seq = cRuns[y].seq
  BY <1>1, CacheSees DEF RunsIn, Follows
<1>3. /\ Attempts(cRuns) \in Nat /\ Attempts(cRuns') \in Nat
      /\ IsFiniteSet(RunsIn(cRuns'))
  BY AttemptsAreCounted DEF TypeOK
<1>4. /\ Cardinality(RunsIn(cRuns)) <= Cardinality(RunsIn(cRuns'))
      /\ Cardinality(RunsIn(cRuns)) = Cardinality(RunsIn(cRuns')) =>
            RunsIn(cRuns) = RunsIn(cRuns')
  BY <1>2, <1>3, FS_Subset
<1> QED
  BY <1>2, <1>3, <1>4 DEF Attempts

\* No execution is more than one attempt ahead of the BuildRuns the cache has, and
\* a BuildRun that is ahead is newer than all of them.
AttemptsInv ==
    FirstLife =>
        /\ \A x \in RunsIn(runs) :
              /\ x[2] <= Attempts(cRuns) + 1
              /\ x[2] = Attempts(cRuns) + 1 =>
                    \A y \in RunsIn(cRuns) : cRuns[y].seq < runs[x].seq
        /\ build.retry <= Attempts(cRuns) + 1
        /\ cBuild.retry <= Attempts(cRuns) + 1
        /\ rec.exec[2] <= Attempts(cRuns) + 1
        /\ obs.pc = "patch" => obs.retry <= Attempts(cRuns) + 1

\* What a pass of the reconciler executes is what it read.
LEMMA Executes ==
    ASSUME TypeOK, [Next]_vars
    PROVE  rec'.exec \in {rec.exec, ExecutionName(cBuild), <<NoCommit, 0>>}
<1>1. rec \in RecType
  BY DEF TypeOK
<1>2. CASE rec' = IdleRec
  BY <1>2 DEF IdleRec
<1>3. CASE rec' = Read(cBuild)
  BY <1>3 DEF Read
<1>4. ASSUME NEW pc, RecNext(pc) PROVE rec'.exec = rec.exec
  BY <1>1, <1>4 DEF RecNext, RecType
<1>5. CASE Dispatch
  BY <1>2, <1>5 DEF Dispatch, RecError, IdleRec
<1>6. CASE BuildReconcilerStep /\ ~Dispatch
  BY <1>2, <1>3, <1>4, <1>6 DEF BuildReconcilerStep, ReconcileBuild, AddFinalizer,
     HandleUpdate, PersistStatus, Teardown, CleanupPrerequisites, CleanupFailed,
     RemoveFinalizer, RecDone, RecError
<1>7. CASE Restart
  BY <1>2, <1>7 DEF Restart
<1> QED
  BY <1>5, <1>6, <1>7, Untouched

\* AttemptsInv is inductive.
LEMMA AttemptsStep ==
    ASSUME TypeOK, TypeOK', OutcomeInv, SeqInv, LifeInv, AttemptsInv, [Next]_vars
    PROVE  AttemptsInv'
<1> SUFFICES ASSUME FirstLife' PROVE AttemptsInv'
  BY DEF AttemptsInv
<1> DEFINE n == Attempts(cRuns)
<1>1. CASE spent.lives = 0 /\ CreateBuild
  <2>1. /\ \A x \in RunName : runs'[x].state = "absent"
        /\ build'.retry = 0 /\ cBuild'.retry = 0 /\ rec'.exec = <<NoCommit, 0>>
        /\ obs'.pc = "idle"
    BY <1>1 DEF LifeInv, CreateBuild, NoBuild, IdleRec, IdleObs, caches, passes
  <2>2. Attempts(cRuns') \in Nat /\ RunsIn(runs') = {}
    BY <2>1, AttemptsAreCounted DEF TypeOK, RunsIn
  <2> QED
    BY <2>1, <2>2 DEF AttemptsInv
<1>2. CASE FirstLife
  <2>1. /\ n \in Nat /\ n' \in Nat /\ n <= n'
        /\ n = n' => RunsIn(cRuns) = RunsIn(cRuns')
        /\ \A y \in RunsIn(cRuns) : cRuns'[y].seq = cRuns[y].seq
    BY <1>2, CacheGrows
  <2>2. /\ \A x \in RunsIn(runs) :
              /\ x[2] <= n + 1
              /\ x[2] = n + 1 => \A y \in RunsIn(cRuns) : cRuns[y].seq < runs[x].seq
        /\ build.retry <= n + 1 /\ cBuild.retry <= n + 1 /\ rec.exec[2] <= n + 1
        /\ obs.pc = "patch" => obs.retry <= n + 1
    BY <1>2 DEF AttemptsInv
  <2>3. build \in BuildType /\ cBuild \in BuildType /\ rec \in RecType
        /\ obs \in ObsType
    BY DEF TypeOK
  <2>4. /\ build.retry \in Nat /\ cBuild.retry \in Nat /\ rec.exec[2] \in Nat
        /\ obs.retry \in Nat
        /\ \A x \in RunName : x[2] \in Nat
    BY <2>3, BoundsAssumption DEF BuildType, RecType, ObsType, RunName, Retries
  <2>5. \A y \in RunsIn(cRuns) : cRuns[y].seq <= clock.seq /\ cRuns[y].seq \in Nat
    BY DEF SeqInv, RunsIn, TypeOK, RunType
  <2>6. clock.seq \in Nat /\ RunsIn(runs) \subseteq RunName
    BY DEF TypeOK, RunsIn
  <2>11. \A i \in Nat : i <= n + 1 /\ i = n' + 1 => i = n + 1 /\ n = n'
    BY <2>1
  <2> HIDE DEF n
  <2>7. ASSUME NEW x \in RunsIn(runs')
        PROVE  /\ x[2] <= n' + 1
               /\ x[2] = n' + 1 => \A y \in RunsIn(cRuns') : cRuns'[y].seq < runs'[x].seq
    <3>1. CASE x \in RunsIn(runs) /\ runs'[x].seq = runs[x].seq
      <4>1. x[2] <= n + 1 /\ x[2] \in Nat
        BY <2>2, <2>4, <2>6, <3>1
      <4>2. ASSUME x[2] = n' + 1
            PROVE  x[2] = n + 1 /\ n = n'
        BY <2>11, <4>1, <4>2
      <4>3. ASSUME x[2] = n' + 1, NEW y \in RunsIn(cRuns')
            PROVE  cRuns'[y].seq < runs'[x].seq
        BY <2>1, <2>2, <3>1, <4>2, <4>3
      <4> QED
        BY <2>1, <4>1, <4>3
    <3>2. CASE x = rec.exec /\ runs'[x].seq = clock.seq + 1
      <4>1. x[2] <= n + 1 /\ x[2] \in Nat
        BY <2>2, <2>4, <3>2
      <4>2. ASSUME x[2] = n' + 1, NEW y \in RunsIn(cRuns')
            PROVE  cRuns'[y].seq < runs'[x].seq
        <5>1. n = n'
          BY <2>11, <4>1, <4>2
        <5>2. y \in RunsIn(cRuns) /\ cRuns'[y].seq = cRuns[y].seq
          BY <2>1, <4>2, <5>1
        <5>3. cRuns[y].seq <= clock.seq /\ cRuns[y].seq \in Nat
          BY <2>5, <5>2
        <5> QED
          BY <2>6, <3>2, <5>2, <5>3
      <4> QED
        BY <2>1, <4>1, <4>2
    <3> QED
      BY <3>1, <3>2, RunsStep
  <2>8. build'.retry <= n' + 1
    <3>1. CASE build'.retry = build.retry
      BY <2>1, <2>2, <2>4, <3>1
    <3>2. CASE ApplyRetry
      <4>1. CASE build' = build
        BY <3>1, <4>1
      <4>2. CASE obs.pc = "patch" /\ build' = [build EXCEPT !.retry = obs.retry]
        <5>1. build'.retry = obs.retry /\ obs.retry <= n + 1 /\ obs.retry \in Nat
          BY <2>2, <2>3, <2>4, <4>2 DEF BuildType
        <5> QED
          BY <2>1, <5>1
      <4> QED
        BY <3>2, <4>1, <4>2 DEF ApplyRetry, ScanRuns, PatchRetry, cluster
    <3>3. ~CreateBuild /\ Exists(build)'
      BY <1>2 DEF CreateBuild, FirstLife, Exists
    <3> QED
      BY <3>1, <3>2, <3>3, BuildStep
  <2>9. cBuild'.retry <= n' + 1
    <3>1. cBuild' \in {cBuild, build}
      BY Untouched DEF WatchBuild, Restart
    <3> QED
      BY <2>1, <2>2, <2>4, <3>1
  <2>10. rec'.exec[2] <= n' + 1
    <3>1. rec'.exec[2] \in {rec.exec[2], cBuild.retry, 0}
      BY Executes DEF ExecutionName
    <3> QED
      BY <2>1, <2>2, <2>4, <3>1
  <2>12. obs'.pc = "patch" => obs'.retry <= n' + 1
    <3>1. CASE obs' = obs
      BY <2>1, <2>2, <2>4, <3>1
    <3>2. CASE ScanRuns
      <4>1. PICK latest : \/ obs' = IdleObs
                          \/ /\ RetryWanted(obs, latest) # obs.retry
                             /\ obs' = [obs EXCEPT !.pc = "patch",
                                           !.retry = RetryWanted(obs, latest)]
        BY <3>2 DEF ScanRuns
      <4>2. CASE obs' = IdleObs
        BY <4>2 DEF IdleObs
      <4>3. CASE obs'.retry = RetryWanted(obs, latest)
                 /\ RetryWanted(obs, latest) # obs.retry
        <5>1. obs'.retry \in {0, n + 1}
          BY <4>3 DEF RetryWanted, n
        <5> QED
          BY <2>1, <5>1
      <4> QED
        BY <2>3, <4>1, <4>2, <4>3 DEF ObsType
    <3>3. CASE ObserveBuild \/ ApplyTriggers \/ PatchRetry \/ BuildObserverFault
      BY <2>3, <2>1, <2>2, <2>4, <3>3 DEF ObserveBuild, ApplyTriggers, PatchRetry, BuildObserverFault,
         ObsDone, ObsError, IdleObs, Holding, ObsType
    <3> QED
      BY <3>1, <3>2, <3>3, Untouched DEF Restart, IdleObs, BuildObserverStep, ApplyRetry
  <2> QED
    BY <2>7, <2>8, <2>9, <2>10, <2>12 DEF AttemptsInv, n
<1> QED
  BY <1>1, <1>2, FirstLifeStep

-----------------------------------------------------------------------------
(* Retries *)

\* The annotations the Build has now are not those the cache shows.
OtherAnnotations ==
    cBuild.uid = build.uid => build.sha # cBuild.sha \/ build.retry # cBuild.retry

\* No other attempt is due for this copy, or the one it asks for has yet to start:
\* its contract reports no failure, or not that of the newest BuildRun, or the
\* attempts are used up, or the execution it asks for is newer than that failure.
Undue(b) ==
    \/ b.contract.success \/ b.contract.ref = NoRun \/ Attempts(cRuns) >= MaxAttempts
    \/ \E q \in RunsIn(cRuns) : cRuns[q].seq > cRuns[b.contract.ref].seq
    \/ \A x \in RunsIn(runs) :
          x[2] = b.retry => runs[x].seq > cRuns[b.contract.ref].seq

\* The last pass of the build-observer left no attempt to ask for.
RetryInv ==
    FirstLife /\ ~obsQ /\ Exists(cBuild) /\ obs.pc = "idle" =>
        OtherAnnotations \/ Undue(cBuild)

\* What is undue stays so.
LEMMA UndueStays ==
    ASSUME TypeOK, TypeOK', SeqInv, LifeInv, FirstLife, [Next]_vars, Undue(cBuild),
           cBuild' = cBuild
    PROVE  Undue(cBuild)'
<1> DEFINE ref == cBuild.contract.ref
<1> SUFFICES ASSUME ~cBuild.contract.success, ref # NoRun, Attempts(cRuns') < MaxAttempts
             PROVE  Undue(cBuild)'
  <2>1. CASE cBuild.contract.success \/ ref = NoRun
    BY <2>1 DEF Undue
  <2>2. CASE ~(Attempts(cRuns') < MaxAttempts)
    <3>1. Attempts(cRuns') \in Nat
      BY CacheGrows
    <3>2. Attempts(cRuns') >= MaxAttempts
      BY <2>2, <3>1, BoundsAssumption
    <3> QED
      BY <3>2 DEF Undue
  <2> QED
    BY <2>1, <2>2
<1>1. Attempts(cRuns) < MaxAttempts /\ Attempts(cRuns) \in Nat
  BY CacheGrows, BoundsAssumption
<1>2. ref \in RunName /\ ref \in RunsIn(cRuns)
  <2>1. ref \in RunName
    BY DEF TypeOK, BuildType, ContractType
  <2>2. cRuns[ref].state \in Terminal
    BY DEF LifeInv, Faithful
  <2> QED
    BY <2>1, <2>2 DEF RunsIn, Terminal, Succeeded
<1>3. cRuns'[ref].seq = cRuns[ref].seq /\ cBuild'.contract.ref = ref
      /\ cBuild'.retry = cBuild.retry
  BY <1>2, CacheGrows
<1> HIDE DEF ref
<1>4. CASE \E q \in RunsIn(cRuns) : cRuns[q].seq > cRuns[ref].seq
  <2>1. PICK q \in RunsIn(cRuns) : cRuns[q].seq > cRuns[ref].seq
    BY <1>4
  <2>2. q \in RunsIn(cRuns') /\ cRuns'[q].seq = cRuns[q].seq
    BY <2>1, CacheGrows
  <2>3. cRuns'[q].seq > cRuns'[cBuild'.contract.ref].seq
    BY <1>3, <2>1, <2>2
  <2> QED
    BY <2>2, <2>3 DEF Undue
<1>5. CASE \A x \in RunsIn(runs) : x[2] = cBuild.retry => runs[x].seq > cRuns[ref].seq
  <2>1. ASSUME NEW x \in RunsIn(runs'), x[2] = cBuild.retry
        PROVE  runs'[x].seq > cRuns[ref].seq
    <3>1. CASE x \in RunsIn(runs) /\ runs'[x].seq = runs[x].seq
      BY <1>5, <2>1, <3>1
    <3>2. CASE runs'[x].seq = clock.seq + 1
      <4>1. cRuns[ref].seq <= clock.seq /\ cRuns[ref].seq \in Nat /\ clock.seq \in Nat
        BY <1>2 DEF SeqInv, TypeOK, RunType
      <4> QED
        BY <3>2, <4>1
    <3> QED
      BY <3>1, <3>2, RunsStep
  <2>2. \A x \in RunsIn(runs') :
           x[2] = cBuild'.retry => runs'[x].seq > cRuns'[cBuild'.contract.ref].seq
    BY <1>3, <2>1
  <2> QED
    BY <2>2 DEF Undue
<1> QED
  BY <1>1, <1>4, <1>5, BoundsAssumption DEF Undue, ref

\* After a pass that held the copy in the cache, no attempt is left to ask for: it
\* has written one that differs, or the one it wanted was there already.
LEMMA RetryApplied ==
    ASSUME TypeOK, ClockInv, SeqInv, LifeInv, AttemptsInv, FirstLife,
           Holds(cBuild), NEW latest, RetryWanted(obs, latest) = obs.retry,
           latest \in MostRecentBuildRun(cRuns) \cup
                        (IF RunsIn(cRuns) = {} THEN {NoRun} ELSE {})
    PROVE  Undue(cBuild)
<1> DEFINE ref == cBuild.contract.ref
<1>1. obs.contract = cBuild.contract /\ obs.retry = cBuild.retry
  BY DEF Holds
<1> SUFFICES ASSUME ~cBuild.contract.success, ref # NoRun, Attempts(cRuns) < MaxAttempts
             PROVE  Undue(cBuild)
  <2>1. CASE cBuild.contract.success \/ ref = NoRun
    BY <2>1 DEF Undue
  <2>2. CASE ~(Attempts(cRuns) < MaxAttempts)
    <3>1. Attempts(cRuns) \in Nat
      BY AttemptsAreCounted DEF TypeOK
    <3>2. Attempts(cRuns) >= MaxAttempts
      BY <2>2, <3>1, BoundsAssumption
    <3> QED
      BY <3>2 DEF Undue
  <2> QED
    BY <2>1, <2>2
<1>2. ref \in RunName /\ ref \in RunsIn(cRuns)
  <2>1. ref \in RunName
    BY DEF TypeOK, BuildType, ContractType
  <2>2. cRuns[ref].state \in Terminal
    BY DEF LifeInv, Faithful
  <2> QED
    BY <2>1, <2>2 DEF RunsIn, Terminal, Succeeded
<1>3. latest \in RunsIn(cRuns) /\ \A q \in RunsIn(cRuns) : cRuns[q].created <= cRuns[latest].created
  BY <1>2 DEF MostRecentBuildRun
<1>4. CASE latest = ref
  <2>1. cBuild.retry = Attempts(cRuns) + 1
    BY <1>1, <1>4 DEF RetryWanted, RetryDue
  <2>2. \A x \in RunsIn(runs) : x[2] = cBuild.retry => cRuns[ref].seq < runs[x].seq
    BY <1>2, <2>1 DEF AttemptsInv
  <2>3. \A x \in RunName : runs[x].seq \in Nat /\ cRuns[x].seq \in Nat
    BY DEF TypeOK, RunType
  <2>4. \A x \in RunsIn(runs) : x[2] = cBuild.retry => runs[x].seq > cRuns[ref].seq
    BY <1>2, <2>2, <2>3 DEF RunsIn
  <2> QED
    BY <2>4 DEF Undue
<1>5. CASE latest # ref
  <2>1. latest \in RunName /\ cRuns[ref].created <= cRuns[latest].created
    BY <1>2, <1>3 DEF RunsIn
  <2>2. cRuns[ref].seq <= cRuns[latest].seq
        /\ cRuns[ref].seq \in Nat /\ cRuns[latest].seq \in Nat
    BY <1>2, <2>1 DEF ClockInv, TypeOK, RunType
  <2>3. cRuns[ref].seq # cRuns[latest].seq
    BY <1>2, <1>3, <1>5 DEF SeqInv
  <2>4. cRuns[latest].seq > cRuns[ref].seq
    BY <2>2, <2>3
  <2> QED
    BY <1>3, <2>4 DEF Undue
<1> QED
  BY <1>4, <1>5

\* RetryInv is inductive.
LEMMA RetryStep ==
    ASSUME TypeOK, TypeOK', CopiesInv, OutcomeInv, ClockInv, SeqInv, LifeInv, SeenInv,
           AttemptsInv, RetryInv, [Next]_vars
    PROVE  RetryInv'
<1> SUFFICES ASSUME FirstLife', ~obsQ', Exists(cBuild)', obs'.pc = "idle"
             PROVE  (OtherAnnotations \/ Undue(cBuild))'
  BY DEF RetryInv
<1>1. CASE spent.lives = 0 /\ CreateBuild
  BY <1>1 DEF LifeInv, CreateBuild, NoBuild, Exists, caches
<1>2. CASE FirstLife
  <2>1. /\ ~WatchBuild /\ ~Restart /\ ~BuildObserverFault
        /\ ~\E e \in Events : Deliver(e)
    <3>1. ~WatchBuild /\ ~BuildObserverFault
      BY DEF WatchBuild, BuildObserverFault, ObsError
    <3>2. ~Restart
      BY DEF Restart, Exists
    <3>3. ~\E e \in Events : Deliver(e)
      BY DEF Deliver, Exists, caches
    <3> QED
      BY <3>1, <3>2, <3>3
  <2>2. cBuild' = cBuild /\ Exists(cBuild)
    BY <2>1, Untouched DEF Exists
  <2>3. ~ObserveBuild /\ ~ApplyTriggers
    <3>1. ~ObserveBuild
      BY <2>2 DEF ObserveBuild, Holding
    <3>2. ASSUME ApplyTriggers PROVE FALSE
      <4>1. ~ObsError
        BY DEF ObsError
      <4>2. obs'.pc = "retry"
        BY <3>2, <4>1 DEF ApplyTriggers, Holding, TypeOK, ObsType
      <4> QED
        BY <4>2
    <3> QED
      BY <3>1, <3>2
  <2>4. CASE ApplyRetry
    <3>1. /\ ~obsQ /\ cRuns' = cRuns /\ runs' = runs
          /\ obs.pc \in {"retry", "patch"}
      <4>1. CASE ScanRuns
        BY <4>1 DEF ScanRuns, caches, cluster, queues
      <4>2. CASE PatchRetry
        BY <4>2 DEF PatchRetry, ObsDone, ObsError, caches
      <4> QED
        BY <2>4, <4>1, <4>2 DEF ApplyRetry
    <3>2. Undue(cBuild)' = Undue(cBuild)
      BY <2>2, <3>1 DEF Undue
    <3>3. build'.uid = cBuild.uid => build.uid = cBuild.uid /\ build'.sha = build.sha
      BY <2>2, <2>3, BuildKept
    <3>4. CASE OtherCommit
      BY <2>2, <3>3, <3>4 DEF OtherCommit, OtherAnnotations
    <3>5. CASE ScanRuns /\ Holds(cBuild)
      <4>1. PICK latest \in MostRecentBuildRun(cRuns) \cup
                              (IF RunsIn(cRuns) = {} THEN {NoRun} ELSE {}) :
               \/ MaxAttempts = 0 \/ RetryWanted(obs, latest) = obs.retry
               \/ obs' = [obs EXCEPT !.pc = "patch",
                                     !.retry = RetryWanted(obs, latest)]
        BY <3>5 DEF ScanRuns
      <4>2. CASE MaxAttempts = 0
        <5>1. Attempts(cRuns) \in Nat
          BY AttemptsAreCounted DEF TypeOK
        <5>2. Attempts(cRuns) >= MaxAttempts
          BY <4>2, <5>1
        <5> QED
          BY <3>2, <5>2 DEF Undue
      <4>3. CASE RetryWanted(obs, latest) = obs.retry
        BY <1>2, <3>2, <3>5, <4>1, <4>3, RetryApplied
      <4> QED
        BY <4>1, <4>2, <4>3 DEF TypeOK, ObsType
    <3>6. CASE PatchRetry /\ obs.retry # cBuild.retry
      <4>1. build' = [build EXCEPT !.retry = obs.retry]
        BY <3>6 DEF PatchRetry, ObsError
      <4>2. build'.retry # cBuild.retry
        BY <3>6, <4>1 DEF TypeOK, BuildType
      <4> QED
        BY <2>2, <4>2 DEF OtherAnnotations
    <3>7. /\ ScanRuns => obs.pc = "retry"
          /\ PatchRetry => obs.pc = "patch"
      BY DEF ScanRuns, PatchRetry
    <3> QED
      BY <2>2, <2>4, <3>1, <3>4, <3>5, <3>6, <3>7 DEF SeenInv, ApplyRetry
  <2>5. CASE ~ApplyRetry
    <3>1. obs' = obs /\ obsQ' = obsQ
      BY <2>1, <2>3, <2>5, Untouched DEF BuildObserverStep
    <3>2. OtherAnnotations \/ Undue(cBuild)
      BY <1>2, <2>2, <3>1 DEF RetryInv
    <3>3. CASE OtherAnnotations
      BY <2>2, <2>3, <2>5, <3>3, BuildKept DEF OtherAnnotations
    <3>4. CASE Undue(cBuild)
      BY <1>2, <2>2, <3>4, UndueStays
    <3> QED
      BY <3>2, <3>3, <3>4
  <2> QED
    BY <2>4, <2>5
<1> QED
  BY <1>1, <1>2, FirstLifeStep

-----------------------------------------------------------------------------
(* The outcome is final *)

\* What the contract is at rest follows from these.
OrderInv == SeqInv /\ GoneInv /\ NewestInv
FinalInv == ToldInv /\ AttemptsInv /\ RetryInv

\* At rest nothing newer than what the contract tells exists, and no attempt is due.
LEMMA RestIsFinal ==
    ASSUME TypeOK, RestInv, OrderInv, FinalInv, ClockInv, AtRest, Exists(build)
    PROVE  /\ Newest(build.contract.ref)
           /\ build.contract.success <=> runs[build.contract.ref].state \in Succeeded
           /\ spent.lives = 1 =>
                 build.contract.success \/ Attempts(runs) >= MaxAttempts
<1> DEFINE ref == build.contract.ref
           x   == ExecutionName(build)
<1>1. /\ cBuild = build /\ cRuns = runs /\ broQ = {} /\ bro.pc = "idle"
      /\ ~obsQ /\ obs.pc = "idle"
      /\ \A r \in RunsIn(runs) : runs[r].state \in Terminal
  BY DEF AtRest, Quiet
<1>2. ~build.deleting /\ x \in RunsIn(runs)
  BY <1>1 DEF AtRest, RestInv, WorkInv
<1>3. PICK r \in RunsIn(runs) : Newest(r)
  BY <1>2 DEF OrderInv, NewestInv
<1>4. ~Superseded(r)
  <2>1. \A q \in RunsIn(runs) : runs[q].seq <= runs[r].seq
    BY <1>3 DEF Newest
  <2>2. \A q \in RunsIn(runs) : runs[q].created = runs[q].seq /\ runs[q].seq \in Nat
    BY DEF ClockInv, RunsIn, TypeOK, RunType
  <2> QED
    BY <1>1, <2>1, <2>2 DEF Superseded
<1>5. ref = r /\ (build.contract.success <=> runs[r].state \in Succeeded)
  BY <1>1, <1>2, <1>3, <1>4 DEF FinalInv, ToldInv, Tells
<1>6. ASSUME spent.lives = 1
      PROVE  build.contract.success \/ Attempts(runs) >= MaxAttempts
  <2>1. Undue(build)
    BY <1>1, <1>2, <1>6 DEF FinalInv, RetryInv, FirstLife, OtherAnnotations
  <2>2. \A q \in RunsIn(runs) : runs[q].seq \in Nat /\ runs[q].seq <= runs[ref].seq
    BY <1>3, <1>5 DEF Newest, RunsIn, TypeOK, RunType
  <2>3. x[2] = build.retry
    BY DEF ExecutionName
  <2>4. ref # NoRun /\ ref \in RunsIn(runs)
    BY <1>3, <1>5, RunIsNotNoRun DEF RunsIn
  <2> HIDE DEF ref, x
  <2>5. ~\E q \in RunsIn(runs) : runs[q].seq > runs[ref].seq
    BY <2>2, <2>4
  <2>6. ~\A y \in RunsIn(runs) : y[2] = build.retry => runs[y].seq > runs[ref].seq
    BY <1>2, <2>3, <2>5
  <2> QED
    BY <1>1, <2>1, <2>4, <2>5, <2>6 DEF Undue, ref
<1> QED
  BY <1>3, <1>5, <1>6

\* The invariants start to hold: there is nothing.
LEMMA FinalInit == Init => OrderInv /\ FinalInv
<1> SUFFICES ASSUME Init PROVE OrderInv /\ FinalInv
  OBVIOUS
<1>1. /\ RunsIn(runs) = {} /\ RunsIn(cRuns) = {} /\ ~Exists(build)
      /\ \A y \in RunName : cRuns[y].seq = 0
      /\ clock.seq = 0
  BY DEF Init, RunsIn, AbsentRun, NoBuild, Exists
<1>2. OrderInv
  BY <1>1 DEF OrderInv, SeqInv, GoneInv, NewestInv
<1>3. FinalInv
  BY <1>1 DEF FinalInv, ToldInv, AttemptsInv, RetryInv, FirstLife
<1> QED
  BY <1>2, <1>3

\* At rest the contract tells the outcome of the newest BuildRun, with any cache
\* lag and whatever fails, and in a first life no attempt is left; if creation
\* times tell BuildRuns apart.
THEOREM OutcomesAreFinal ==
    ASSUME ~SameSecond
    PROVE  Spec => []OutcomeIsFinal
<1> DEFINE IInv == RestInv /\ OrderInv /\ FinalInv
           Base == TypeOK /\ FinalizerInv /\ OutcomeInv /\ ClockInv /\ LifeInv
<1>1. Base /\ TypeOK' /\ IInv /\ [Next]_vars => IInv'
  BY CopiesStep, WorkStep, SeenStep, SeqStep, GoneStep, NewestStep, ToldStep,
     AttemptsStep, RetryStep
  DEF RestInv, OrderInv, FinalInv
<1>2. Base /\ IInv => OutcomeIsFinal
  BY RestIsFinal DEF OutcomeIsFinal
<1>3. Spec => []Base
  BY FinalizerInvariant, LifeInvariant, PTL
<1>4. Base => TypeOK
  OBVIOUS
<1> HIDE DEF IInv, Base
<1>5. Init => IInv
  BY RestInit, FinalInit DEF IInv
<1> QED
  BY <1>1, <1>2, <1>3, <1>4, <1>5, PTL DEF Spec

-----------------------------------------------------------------------------
(* Retries follow failures *)

\* An attempt the annotations, or a copy of them, ask for is due for the next
\* BuildRun; so it was for each BuildRun when it started.
Asked(n) == n = 0 \/ DueAfter(n, clock.seq)
DueInv ==
    FirstLife =>
        /\ Asked(build.retry) /\ Asked(cBuild.retry)
        /\ Asked(obs.retry) /\ Asked(rec.exec[2])
        /\ RetryOnlyAfterFailure

\* What is due stays due: BuildRuns that have failed stay, and so do those that
\* were started no later.
LEMMA DueStays ==
    ASSUME TypeOK, TypeOK', LifeInv, FirstLife, [Next]_vars,
           NEW n \in Nat, NEW s \in Int, NEW t \in Int, s <= t, DueAfter(n, s)
    PROVE  DueAfter(n, t)'
<1>1. PICK q \in RunsIn(runs) : /\ runs[q].state = "failed" /\ runs[q].seq <= s
                                /\ n <= Cardinality(StartedBy(q)) + 1
  BY DEF DueAfter
<1>2. \A r \in RunsIn(runs) : /\ r \in RunsIn(runs') /\ runs'[r].seq = runs[r].seq
                              /\ runs[r].state = "failed" => runs'[r].state = "failed"
  <2>1. ~Teardown
    BY FirstLifePasses
  <2>2. \A r \in RunName : Follows(runs[r], runs'[r])
    BY <2>1, RunsFollow
  <2> QED
    BY <2>2 DEF Follows, RunsIn, Terminal
<1>3. StartedBy(q) \subseteq StartedBy(q)'
  BY <1>1, <1>2 DEF StartedBy
<1>4. Cardinality(StartedBy(q)) <= Cardinality(StartedBy(q)')
      /\ Cardinality(StartedBy(q)) \in Nat /\ Cardinality(StartedBy(q)') \in Nat
  <2>1. IsFiniteSet(RunsIn(runs')) /\ StartedBy(q)' \subseteq RunsIn(runs')
    BY AttemptsAreCounted DEF TypeOK, StartedBy
  <2>2. IsFiniteSet(StartedBy(q)')
    BY <2>1, FS_Subset
  <2> QED
    BY <1>3, <2>2, FS_Subset, FS_CardinalityType
<1>5. n <= Cardinality(StartedBy(q)') + 1
  BY <1>1, <1>4
<1>6. runs'[q].seq <= t
  BY <1>1, <1>2 DEF RunsIn, TypeOK, RunType
<1> QED
  BY <1>1, <1>2, <1>5, <1>6 DEF DueAfter

\* The attempt a pass finds to be due when it has listed the BuildRuns is due: the
\* newest one in the cache has failed, and all the others were started before it.
LEMMA ScanFindsDue ==
    ASSUME TypeOK, ClockInv, SeqInv, LifeInv, FirstLife, Asked(obs.retry),
           NEW latest \in MostRecentBuildRun(cRuns) \cup
                            (IF RunsIn(cRuns) = {} THEN {NoRun} ELSE {})
    PROVE  Asked(RetryWanted(obs, latest))
<1> SUFFICES ASSUME RetryDue(obs, latest)
             PROVE  DueAfter(Attempts(cRuns) + 1, clock.seq)
  BY DEF RetryWanted, Asked
<1>1. latest \in RunName /\ latest # NoRun /\ cRuns[latest].state \in Terminal
      /\ cRuns[latest].state \notin Succeeded
  BY RunIsNotNoRun DEF RetryDue, LifeInv, Faithful, TypeOK, ObsType, ContractType
<1>2. latest \in RunsIn(cRuns)
  BY <1>1 DEF RunsIn, Terminal, Succeeded
<1>3. \A r \in RunsIn(cRuns) : /\ r \in RunsIn(runs) /\ runs[r].seq = cRuns[r].seq
                               /\ cRuns[r].state \in Terminal => runs[r].state = cRuns[r].state
  BY DEF LifeInv, Follows, RunsIn
<1>4. runs[latest].state = "failed" /\ latest \in RunsIn(runs)
  BY <1>1, <1>2, <1>3 DEF Terminal
<1>5. RunsIn(cRuns) \subseteq StartedBy(latest)
  <2>1. ASSUME NEW p \in RunsIn(cRuns) PROVE runs[p].seq <= runs[latest].seq
    <3>1. cRuns[p].created <= cRuns[latest].created
      BY <1>2 DEF MostRecentBuildRun
    <3>2. p \in RunName
      BY DEF RunsIn
    <3>3. cRuns[p].created = cRuns[p].seq /\ cRuns[latest].created = cRuns[latest].seq
      BY <1>1, <3>2 DEF ClockInv
    <3> QED
      BY <1>2, <1>3, <3>1, <3>3
  <2> QED
    BY <1>3, <2>1 DEF StartedBy
<1>6. Attempts(cRuns) <= Cardinality(StartedBy(latest))
      /\ Attempts(cRuns) \in Nat /\ Cardinality(StartedBy(latest)) \in Nat
  <2>1. IsFiniteSet(RunsIn(runs)) /\ StartedBy(latest) \subseteq RunsIn(runs)
    BY AttemptsAreCounted DEF TypeOK, StartedBy
  <2>2. IsFiniteSet(StartedBy(latest))
    BY <2>1, FS_Subset
  <2> QED
    BY <1>5, <2>2, FS_Subset, FS_CardinalityType DEF Attempts
<1>7. runs[latest].seq <= clock.seq
  BY <1>1 DEF ClockInv
<1> QED
  BY <1>4, <1>6, <1>7 DEF DueAfter

\* DueInv is inductive.
LEMMA DueStep ==
    ASSUME TypeOK, TypeOK', OutcomeInv, ClockInv, SeqInv, LifeInv, DueInv, [Next]_vars
    PROVE  DueInv'
<1> SUFFICES ASSUME FirstLife' PROVE DueInv'
  BY DEF DueInv
<1>1. CASE spent.lives = 0 /\ CreateBuild
  <2>1. /\ \A x \in RunName : runs'[x].state = "absent"
        /\ build'.retry = 0 /\ cBuild'.retry = 0 /\ obs'.retry = 0
        /\ rec'.exec = <<NoCommit, 0>>
    BY <1>1 DEF LifeInv, CreateBuild, NoBuild, IdleRec, IdleObs, caches, passes
  <2> QED
    BY <2>1 DEF DueInv, Asked, RetryOnlyAfterFailure, RunsIn
<1>2. CASE FirstLife
  <2>1. /\ Asked(build.retry) /\ Asked(cBuild.retry)
        /\ Asked(obs.retry) /\ Asked(rec.exec[2])
        /\ \A x \in RunsIn(runs) : x[2] # 0 => DueAfter(x[2], runs[x].seq - 1)
    BY <1>2 DEF DueInv, RetryOnlyAfterFailure
  <2>2. build \in BuildType /\ cBuild \in BuildType /\ rec \in RecType
        /\ obs \in ObsType
    BY DEF TypeOK
  <2>3. /\ build.retry \in Nat /\ cBuild.retry \in Nat /\ rec.exec[2] \in Nat
        /\ obs.retry \in Nat /\ \A x \in RunName : x[2] \in Nat
    BY <2>2, BoundsAssumption DEF BuildType, RecType, ObsType, RunName, Retries
  <2>4. /\ clock.seq \in Nat /\ clock'.seq \in Nat /\ clock.seq <= clock'.seq
        /\ RunsIn(runs) \subseteq RunName
        /\ \A x \in RunName : runs[x].seq \in Nat
    <3>1. clock.seq \in Nat /\ clock'.seq \in Nat /\ RunsIn(runs) \subseteq RunName
          /\ \A x \in RunName : runs[x].seq \in Nat
      BY DEF TypeOK, RunsIn, RunType
    <3>2. clock'.seq \in {clock.seq, clock.seq + 1}
      BY RunsStep
    <3> QED
      BY <3>1, <3>2
  <2>5. ASSUME NEW n \in Nat, Asked(n) PROVE Asked(n)'
    BY <1>2, <2>4, <2>5, DueStays DEF Asked
  <2>6. Asked(0)'
    BY DEF Asked
  <2>7. Asked(build.retry)'
    <3>1. CASE build'.retry = build.retry
      BY <2>1, <2>3, <2>5, <3>1
    <3>2. CASE build' = [build EXCEPT !.retry = obs.retry]
      <4>1. build'.retry = obs.retry
        BY <2>2, <3>2 DEF BuildType
      <4> QED
        BY <2>1, <2>3, <2>5, <4>1
    <3>3. ~CreateBuild /\ Exists(build)'
      BY <1>2 DEF CreateBuild, FirstLife, Exists
    <3>4. build'.retry = build.retry \/ ApplyRetry
      BY <3>3, BuildStep
    <3> QED
      BY <3>1, <3>2, <3>4 DEF ApplyRetry, ScanRuns, PatchRetry, cluster
  <2>8. Asked(cBuild.retry)'
    <3>1. cBuild' \in {cBuild, build}
      BY Untouched DEF WatchBuild, Restart
    <3> QED
      BY <2>1, <2>3, <2>5, <3>1
  <2>9. Asked(rec.exec[2])'
    <3>1. rec'.exec[2] \in {rec.exec[2], cBuild.retry, 0}
      BY Executes DEF ExecutionName
    <3> QED
      BY <2>1, <2>3, <2>5, <2>6, <3>1
  <2>10. Asked(obs.retry)'
    <3>1. CASE obs'.retry \in {obs.retry, 0, cBuild.retry, build'.retry}
      BY <2>1, <2>3, <2>5, <2>6, <2>7, <3>1
    <3>2. CASE ScanRuns
      <4>1. PICK latest \in MostRecentBuildRun(cRuns) \cup
                              (IF RunsIn(cRuns) = {} THEN {NoRun} ELSE {}) :
               \/ obs' = IdleObs
               \/ obs' = [obs EXCEPT !.pc = "patch",
                                     !.retry = RetryWanted(obs, latest)]
        BY <3>2 DEF ScanRuns
      <4>2. CASE obs' = IdleObs
        BY <3>1, <4>2 DEF IdleObs
      <4>3. CASE obs'.retry = RetryWanted(obs, latest)
        <5>1. Asked(RetryWanted(obs, latest))
          BY <1>2, <2>1, ScanFindsDue
        <5>2. RetryWanted(obs, latest) \in Nat
          BY RetryWantedType, BoundsAssumption, <2>2 DEF Retries
        <5> QED
          BY <2>5, <4>3, <5>1, <5>2
      <4> QED
        BY <2>2, <4>1, <4>2, <4>3 DEF ObsType
    <3>3. CASE ObserveBuild
      BY <2>2, <3>1, <3>3 DEF ObserveBuild, Holding
    <3>4. CASE ApplyTriggers
      <4>1. \/ obs' = [obs EXCEPT !.pc = "retry"]
            \/ obs' = Holding(build', "retry")
            \/ obs' = IdleObs
        BY <3>4 DEF ApplyTriggers, ObsError
      <4> QED
        BY <2>2, <3>1, <4>1 DEF Holding, ObsType, IdleObs
    <3>5. CASE PatchRetry \/ BuildObserverFault \/ Restart
      BY <3>1, <3>5 DEF PatchRetry, BuildObserverFault, Restart, ObsDone, ObsError,
         IdleObs
    <3>6. CASE obs' = obs
      BY <3>1, <3>6
    <3> QED
      BY <3>2, <3>3, <3>4, <3>5, <3>6, Untouched DEF BuildObserverStep, ApplyRetry
  <2>11. RetryOnlyAfterFailure'
    <3> SUFFICES ASSUME NEW x \in RunsIn(runs'), x[2] # 0
                 PROVE  DueAfter(x[2], runs[x].seq - 1)'
      BY DEF RetryOnlyAfterFailure
    <3>1. CASE x \in RunsIn(runs) /\ runs'[x].seq = runs[x].seq
      <4>1. DueAfter(x[2], runs[x].seq - 1) /\ x[2] \in Nat /\ runs[x].seq - 1 \in Int
        BY <2>1, <2>3, <2>4, <3>1
      <4>2. PICK t \in Int : t = runs'[x].seq - 1 /\ runs[x].seq - 1 <= t
        BY <3>1, <4>1
      <4>3. DueAfter(x[2], t)'
        BY <1>2, <4>1, <4>2, DueStays
      <4> QED
        BY <4>2, <4>3 DEF DueAfter
    <3>2. CASE x = rec.exec /\ runs'[x].seq = clock.seq + 1
      <4>1. DueAfter(x[2], clock.seq) /\ x[2] \in Nat /\ clock.seq \in Int
        BY <2>1, <2>3, <2>4, <3>2 DEF Asked
      <4>2. PICK t \in Int : t = runs'[x].seq - 1 /\ clock.seq <= t
        BY <2>4, <3>2
      <4>3. DueAfter(x[2], t)'
        BY <1>2, <4>1, <4>2, DueStays
      <4> QED
        BY <4>2, <4>3 DEF DueAfter
    <3> QED
      BY <3>1, <3>2, RunsStep
  <2> QED
    BY <2>7, <2>8, <2>9, <2>10, <2>11 DEF DueInv
<1> QED
  BY <1>1, <1>2, FirstLifeStep

\* Attempt n is only dispatched after the BuildRun that was started as number
\* n - 1, or a later one, has failed: in the first life of the Build's name, with
\* any cache lag, commits, restarts and failures, if creation times tell BuildRuns
\* apart.
THEOREM RetriesFollowFailures ==
    ASSUME ~SameSecond
    PROVE  Spec => []RetryOnlyAfterFailure
<1> DEFINE Base == TypeOK /\ OutcomeInv /\ ClockInv /\ LifeInv
<1>1. Base /\ TypeOK' /\ SeqInv /\ DueInv /\ [Next]_vars => SeqInv' /\ DueInv'
  BY SeqStep, DueStep
<1>2. DueInv => RetryOnlyAfterFailure
  BY DEF DueInv, RetryOnlyAfterFailure
<1>3. Spec => []Base
  BY LifeInvariant
<1>4. Base => TypeOK
  OBVIOUS
<1>5. Init => SeqInv /\ DueInv
  BY FinalInit DEF OrderInv, DueInv, FirstLife, Init, NoBuild, Exists
<1> HIDE DEF Base
<1> QED
  BY <1>1, <1>2, <1>3, <1>4, <1>5, PTL DEF Spec
=============================================================================
