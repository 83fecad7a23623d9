------------------------- MODULE BuildPipelineProofs -------------------------
(***************************************************************************)
(* What the Build pipeline promises about types and about what it          *)
(* provisions, for any commits, events and bounds, with and without cache  *)
(* lag; and that it implements the contract of the finalizer.              *)
(***************************************************************************)
EXTENDS BuildPipeline, FiniteSetTheorems, TLAPS

-----------------------------------------------------------------------------
(* Types *)

\* There are finitely many executions, so finitely many names of BuildRuns.
LEMMA RunNamesAreFinite == IsFiniteSet(RunName)
<1>1. IsFiniteSet(Shas)
  BY CommitsAssumption, FS_AddElement, FS_EmptySet, FS_Union, FS_Singleton DEF Shas
<1>2. IsFiniteSet(Retries)
  BY BoundsAssumption, FS_Interval DEF Retries
<1> QED
  BY <1>1, <1>2, FS_Product DEF RunName

\* The retry annotation fits the policy: BuildRuns are finitely many, so one
\* more than fewer than the maximum is at most the maximum.
LEMMA AttemptsAreCounted ==
    ASSUME NEW rs \in [RunName -> RunType]
    PROVE  Attempts(rs) \in Nat /\ IsFiniteSet(RunsIn(rs))
<1>1. RunsIn(rs) \subseteq RunName
  BY DEF RunsIn
<1> QED
  BY <1>1, RunNamesAreFinite, FS_Subset, FS_CardinalityType DEF Attempts

\* The annotation a pass of the build-observer leaves is one of the policy's.
LEMMA RetryWantedType ==
    ASSUME TypeOK, obs \in ObsType, NEW latest
    PROVE  RetryWanted(obs, latest) \in Retries
<1>1. Attempts(cRuns) \in Nat
  BY AttemptsAreCounted DEF TypeOK
<1>2. obs.retry \in Retries
  BY DEF ObsType
<1> QED
  BY <1>1, <1>2, BoundsAssumption DEF RetryWanted, RetryDue, Retries

\* The constants the records start from have their types.
LEMMA Constants ==
    /\ NoContract \in ContractType /\ NoBuild \in BuildType
    /\ IdleRec \in RecType /\ IdleObs \in ObsType /\ IdleBro \in BroType
    /\ AbsentRun \in RunType /\ NoCommit \in Shas /\ 0 \in Retries
<1>1. NoCommit \in Shas /\ 0 \in Retries
  BY BoundsAssumption DEF Shas, Retries
<1>2. NoContract \in ContractType
  BY DEF NoContract, ContractType
<1>3. NoBuild \in BuildType
  BY <1>1, <1>2 DEF NoBuild, BuildType
<1>4. IdleRec \in RecType
  BY <1>1, <1>2 DEF IdleRec, RecType, RunName
<1>5. IdleObs \in ObsType /\ IdleBro \in BroType
  BY <1>1, <1>2 DEF IdleObs, ObsType, IdleBro, BroType
<1>6. AbsentRun \in RunType
  BY DEF AbsentRun, RunType, RunState
<1> QED
  BY <1>1, <1>2, <1>3, <1>4, <1>5, <1>6

\* The cluster starts well-typed.
LEMMA TypeInit == Init => TypeOK
<1> SUFFICES ASSUME Init PROVE TypeOK
  OBVIOUS
<1> USE Constants DEF Init
<1>1. build \in BuildType /\ cBuild \in BuildType
  OBVIOUS
<1>2. runs \in [RunName -> RunType] /\ cRuns \in [RunName -> RunType]
  OBVIOUS
<1>3. payload \in [Events -> PayloadType]
  BY DEF PayloadType
<1> QED
  BY <1>1, <1>2, <1>3 DEF TypeOK, SpentType, IdleBro

\* The steps of everything outside the manager, of the informers, a restart.
LEMMA TypeOutside ==
    ASSUME TypeOK,
           \/ CreateBuild \/ DeleteBuild \/ EditSpec \/ ToggleEnvironment
           \/ \E e \in Events : Deliver(e)
           \/ WriteSecret \/ FinishRun \/ WatchBuild \/ WatchRun \/ Restart
    PROVE  TypeOK'
<1> USE Constants DEF TypeOK, cluster, caches, queues, passes
<1>1. CASE CreateBuild
  <2>1. build' \in BuildType
    BY <1>1 DEF CreateBuild, BuildType, SpentType
  <2>2. spent' \in SpentType
    BY <1>1 DEF CreateBuild, SpentType
  <2> QED
    BY <1>1, <2>1, <2>2 DEF CreateBuild
<1>2. CASE DeleteBuild
  <2>1. build' \in BuildType
    BY <1>2 DEF DeleteBuild, BuildType
  <2>2. spent' \in SpentType
    BY <1>2 DEF DeleteBuild, SpentType
  <2> QED
    BY <1>2, <2>1, <2>2 DEF DeleteBuild
<1>3. CASE EditSpec
  <2>1. build' \in BuildType
    BY <1>3 DEF EditSpec, BuildType
  <2>2. spent' \in SpentType
    BY <1>3 DEF EditSpec, SpentType
  <2> QED
    BY <1>3, <2>1, <2>2 DEF EditSpec
<1>4. CASE ToggleEnvironment
  BY <1>4 DEF ToggleEnvironment, SpentType
<1>5. CASE \E e \in Events : Deliver(e)
  <2>1. payload' \in [Events -> PayloadType]
    BY <1>5 DEF Deliver
  <2>2. obsQ' \in BOOLEAN
    BY <1>5 DEF Deliver, Exists
  <2>3. spent' \in SpentType
    BY <1>5 DEF Deliver, SpentType
  <2> QED
    BY <1>5, <2>1, <2>2, <2>3 DEF Deliver
<1>6. CASE WriteSecret
  BY <1>6 DEF WriteSecret
<1>7. CASE FinishRun
  <2>1. PICK r \in RunName, s \in RunResults : runs' = [runs EXCEPT ![r].state = s]
    BY <1>7 DEF FinishRun
  <2>2. s \in RunState
    BY ResultsAssumption DEF RunState
  <2>3. runs' \in [RunName -> RunType]
    BY <2>1, <2>2 DEF RunType
  <2> QED
    BY <1>7, <2>3 DEF FinishRun
<1>8. CASE WatchBuild
  BY <1>8 DEF WatchBuild
<1>9. CASE WatchRun
  BY <1>9 DEF WatchRun
<1>10. CASE Restart
  <2>1. RunsIn(runs) \subseteq RunName
    BY DEF RunsIn
  <2>2. spent' \in SpentType
    BY <1>10 DEF Restart, SpentType
  <2>3. recQ' \in BOOLEAN /\ obsQ' \in BOOLEAN
    BY <1>10 DEF Restart, Exists
  <2> QED
    BY <1>10, <2>1, <2>2, <2>3 DEF Restart, IdleBro
<1> QED
  BY <1>1, <1>2, <1>3, <1>4, <1>5, <1>6, <1>7, <1>8, <1>9, <1>10

\* A BuildRun that is started is a BuildRun, at a later time.
LEMMA StartRunType ==
    ASSUME TypeOK, NEW r \in RunName, StartRun(r)
    PROVE  runs' \in [RunName -> RunType] /\ clock' \in [second: Nat, seq: Nat]
<1>1. CASE runs[r].state # "absent"
  BY <1>1 DEF TypeOK, StartRun
<1>2. CASE runs[r].state = "absent"
  <2>1. PICK now \in {clock.second + 1} \cup
                     (IF SameSecond THEN {clock.second} ELSE {}) :
           /\ clock' = [second |-> now, seq |-> clock.seq + 1]
           /\ runs' = [runs EXCEPT ![r] = [state |-> "running", created |-> now,
                                          seq |-> clock.seq + 1]]
    BY <1>2 DEF StartRun
  <2>2. now \in Nat /\ clock.seq + 1 \in Nat
    BY <2>1 DEF TypeOK
  <2> QED
    BY <2>1, <2>2 DEF TypeOK, RunType, RunState
<1> QED
  BY <1>1, <1>2

\* The steps of the Build reconciler, one case per stage of its pass.
LEMMA TypeReconciler ==
    ASSUME TypeOK, BuildReconcilerStep
    PROVE  TypeOK'
<1> USE Constants DEF TypeOK, cluster, caches, queues, passes, RecDone, RecError
<1>1. ASSUME NEW pc \in {"dispatch", "cleanup", "release"}, RecNext(pc)
      PROVE  rec' \in RecType /\ recQ' = recQ
  BY <1>1 DEF RecNext, RecType
<1>2. CASE ReconcileBuild
  <2>1. Read(cBuild) \in RecType
    BY DEF Read, Handed, ExecutionName, RecType, BuildType, RunName
  <2>2. build' \in BuildType
    BY <1>2 DEF ReconcileBuild, AddFinalizer, BuildType
  <2>3. rec' \in RecType /\ recQ' \in BOOLEAN
    BY <1>2, <2>1 DEF ReconcileBuild, AddFinalizer
  <2> QED
    BY <1>2, <2>2, <2>3 DEF ReconcileBuild
<1>3. CASE HandleUpdate
  <2>1. \A n \in 1 .. 4 : EnsuredBefore(n) \subseteq Prerequisites
    <3>1. \A i \in 1 .. 3 : Stages[i] \in Prerequisites
      BY DEF Stages, Prerequisites
    <3> QED
      BY <3>1 DEF EnsuredBefore
  <2>2. ASSUME NEW ok \in BOOLEAN, EnsurePrerequisites(ok)
        PROVE  prereqs' \subseteq Prerequisites /\ spent' \in SpentType
    BY <2>1, <2>2 DEF EnsurePrerequisites, Fault, SpentType
  <2>3. prereqs' \subseteq Prerequisites /\ rec' \in RecType /\ recQ' \in BOOLEAN
        /\ spent' \in SpentType
    BY <1>1, <1>3, <2>2 DEF HandleUpdate
  <2> QED
    BY <1>3, <2>3 DEF HandleUpdate
<1>4. CASE Dispatch
  <2>1. rec.exec \in RunName /\ rec.contract \in ContractType
    BY DEF RecType
  <2>2. WriteDispatched(build, rec.contract) \in BuildType
    BY <2>1 DEF WriteDispatched, BuildType, CondTypes
  <2>3. runs' \in [RunName -> RunType] /\ clock' \in [second: Nat, seq: Nat]
    BY <1>4, <2>1, StartRunType DEF Dispatch
  <2>4. build' \in BuildType /\ recQ' \in BOOLEAN
    BY <1>4, <2>2 DEF Dispatch
  <2>5. rec' \in RecType
    <3>1. ChangedConditions(rec.conds, rec.conds \cup {"BuildStart"}) \subseteq
             CondTypes
      BY DEF ChangedConditions, CondTypes
    <3>2. [IdleRec EXCEPT !.pc = "persist",
              !.conds = ChangedConditions(rec.conds,
                                rec.conds \cup {"BuildStart"})] \in RecType
      BY <3>1 DEF RecType
    <3> QED
      BY <1>4, <3>2 DEF Dispatch
  <2>6. spent' \in SpentType
    BY <1>4 DEF Dispatch, Fault, SpentType
  <2> QED
    BY <1>4, <2>3, <2>4, <2>5, <2>6 DEF Dispatch
<1>5. CASE PersistStatus
  <2>1. rec.conds \subseteq CondTypes
    BY DEF RecType
  <2>2. build' \in BuildType
    BY <1>5, <2>1 DEF PersistStatus, BuildType
  <2> QED
    BY <1>5, <2>2 DEF PersistStatus
<1>6. CASE Teardown
  <2>1. runs' \in [RunName -> RunType]
    BY <1>6 DEF Teardown
  <2>2. rec' \in RecType /\ recQ' \in BOOLEAN
    BY <1>1, <1>6 DEF Teardown
  <2>3. spent' \in SpentType
    BY <1>6 DEF Teardown, Fault, SpentType
  <2> QED
    BY <1>6, <2>1, <2>2, <2>3 DEF Teardown
<1>7. CASE CleanupPrerequisites
  <2>1. prereqs' \subseteq Prerequisites /\ secrets' \subseteq SecretNames
    BY <1>7 DEF CleanupPrerequisites
  <2>2. rec' \in RecType /\ recQ' \in BOOLEAN
    BY <1>1, <1>7 DEF CleanupPrerequisites, CleanupFailed
  <2>3. spent' \in SpentType
    BY <1>7 DEF CleanupPrerequisites, Fault, SpentType
  <2> QED
    BY <1>7, <2>1, <2>2, <2>3 DEF CleanupPrerequisites
<1>8. CASE RemoveFinalizer
  <2>1. WithoutFinalizer(build) \in BuildType
    BY DEF WithoutFinalizer, BuildType
  <2> QED
    BY <1>8, <2>1 DEF RemoveFinalizer
<1> QED
  BY <1>2, <1>3, <1>4, <1>5, <1>6, <1>7, <1>8 DEF BuildReconcilerStep

\* The steps of the build-observer: its patches stay within the policy.
LEMMA TypeBuildObserver ==
    ASSUME TypeOK, BuildObserverStep \/ BuildObserverFault
    PROVE  TypeOK'
<1> USE Constants DEF TypeOK, cluster, caches, queues, passes, ObsDone, ObsError
<1>1. ASSUME NEW b \in BuildType, NEW pc \in {"triggers", "retry"}
      PROVE  Holding(b, pc) \in ObsType
  BY DEF Holding, BuildType, ObsType
<1>2. CASE ObserveBuild
  BY <1>1, <1>2 DEF ObserveBuild
<1>3. CASE ApplyTriggers
  <2>1. TriggerWanted(obs) \subseteq Shas
    BY DEF TriggerWanted, LatestEvents, Matching, PayloadType
  <2>2. build' \in BuildType
    BY <1>3, <2>1 DEF ApplyTriggers, BuildType
  <2>3. obs' \in ObsType /\ obsQ' \in BOOLEAN
    <3>1. [obs EXCEPT !.pc = "retry"] \in ObsType
      BY DEF ObsType
    <3> QED
      BY <1>1, <1>3, <2>2, <3>1 DEF ApplyTriggers
  <2> QED
    BY <1>3, <2>2, <2>3 DEF ApplyTriggers
<1>4. CASE ScanRuns
  <2>1. \A want \in Retries : [obs EXCEPT !.pc = "patch", !.retry = want] \in ObsType
    BY DEF ObsType
  <2>2. obs' \in ObsType
    BY <1>4, <2>1, RetryWantedType DEF ScanRuns
  <2> QED
    BY <1>4, <2>2 DEF ScanRuns
<1>6. CASE PatchRetry
  <2>1. [build EXCEPT !.retry = obs.retry] \in BuildType
    BY DEF BuildType, ObsType
  <2> QED
    BY <1>6, <2>1 DEF PatchRetry
<1>5. CASE BuildObserverFault
  BY <1>5 DEF BuildObserverFault, Fault, SpentType
<1> QED
  BY <1>2, <1>3, <1>4, <1>5, <1>6 DEF BuildObserverStep, ApplyRetry

\* The steps of the buildrun-observer: what it writes names a BuildRun.
LEMMA TypeBuildRunObserver ==
    ASSUME TypeOK, BuildRunObserverStep
    PROVE  TypeOK'
<1> USE Constants DEF TypeOK, cluster, caches, queues, passes
<1>1. CASE ObserveRun
  <2>1. ASSUME NEW r \in RunName
        PROVE  OutcomeContract(cBuild, r) \in ContractType
    BY DEF OutcomeContract, Image, ContractType, BuildType
  <2>2. bro' \in BroType /\ broQ' \subseteq RunName
    BY <1>1, <2>1 DEF ObserveRun, BroType
  <2>3. bro'.pc = "write" => bro'.contract.ref \in RunName
    BY <1>1 DEF ObserveRun, OutcomeContract
  <2> QED
    BY <1>1, <2>2, <2>3 DEF ObserveRun
<1>2. CASE WriteOutcome
  <2>1. bro.contract \in ContractType
    BY DEF BroType
  <2>2. OutcomeCondition(bro.contract) \in CondTypes
    BY DEF OutcomeCondition, CondTypes, Outcomes
  <2>3. build' \in BuildType
    <3>1. WriteReplacing(build, bro.contract, Replaced(bro.contract),
                         OutcomeCondition(bro.contract)) \in BuildType
      BY <2>1, <2>2 DEF WriteReplacing, BuildType
    <3> QED
      BY <1>2, <3>1 DEF WriteOutcome
  <2>4. broQ' \subseteq RunName
    <3>1. bro.contract.ref \in RunName
      BY <1>2 DEF WriteOutcome
    <3> QED
      BY <1>2, <3>1 DEF WriteOutcome
  <2> QED
    BY <1>2, <2>3, <2>4 DEF WriteOutcome, Fault, SpentType, IdleBro
<1> QED
  BY <1>1, <1>2 DEF BuildRunObserverStep

\* The type invariant is inductive.
LEMMA TypeStep == TypeOK /\ [Next]_vars => TypeOK'
<1>1. CASE UNCHANGED vars
  BY <1>1 DEF TypeOK, vars, cluster, caches, queues, passes
<1> QED
  BY <1>1, TypeOutside, TypeReconciler, TypeBuildObserver, TypeBuildRunObserver
  DEF Next, Step

\* Every state has the types; in particular the retry annotation never exceeds
\* the maximum of the policy.
THEOREM TypeCorrect == Spec => []TypeOK
BY TypeInit, TypeStep, PTL DEF Spec


-----------------------------------------------------------------------------
(* Provisioning *)

\* Nothing the finalizer's invariant is about changes.
LEMMA FinalizerFrame ==
    ASSUME FinalizerInv,
           build'.uid = build.uid, build'.finalizer = build.finalizer,
           build'.deleting = build.deleting,
           cBuild' = cBuild, rec' = rec, prereqs' = prereqs, secrets' = secrets,
           RunsIn(runs') = RunsIn(runs)
    PROVE  FinalizerInv'
BY DEF FinalizerInv, ProvisionedUnderFinalizer, Provisioned, Exists

\* The steps that leave the finalizer, the pass of the reconciler and what is
\* provisioned alone.
LEMMA FinalizerUntouched ==
    ASSUME TypeOK, FinalizerInv,
           \/ EditSpec \/ ToggleEnvironment \/ (\E e \in Events : Deliver(e))
           \/ FinishRun \/ WatchRun
           \/ BuildObserverStep \/ BuildObserverFault \/ BuildRunObserverStep
    PROVE  FinalizerInv'
<1> USE DEF cluster, caches, queues, passes
<1>1. build \in BuildType
  BY DEF TypeOK
<1>2. /\ build'.uid = build.uid /\ build'.finalizer = build.finalizer
      /\ build'.deleting = build.deleting
  <2>1. CASE EditSpec
    BY <1>1, <2>1 DEF EditSpec, BuildType
  <2>2. CASE ToggleEnvironment \/ (\E e \in Events : Deliver(e)) \/ FinishRun
             \/ WatchRun \/ ObserveBuild \/ BuildObserverFault \/ ObserveRun
    BY <2>2 DEF ToggleEnvironment, Deliver, FinishRun, WatchRun, ObserveBuild,
                BuildObserverFault, ObserveRun
  <2>3. CASE ApplyTriggers
    BY <1>1, <2>3 DEF ApplyTriggers, BuildType
  <2>4. CASE ApplyRetry
    BY <1>1, <2>4 DEF ApplyRetry, ScanRuns, PatchRetry, BuildType
  <2>5. CASE WriteOutcome
    BY <1>1, <2>5 DEF WriteOutcome, WriteReplacing, BuildType
  <2> QED
    BY <2>1, <2>2, <2>3, <2>4, <2>5 DEF BuildObserverStep, BuildRunObserverStep
<1>3. cBuild' = cBuild /\ rec' = rec /\ prereqs' = prereqs /\ secrets' = secrets
  BY DEF EditSpec, ToggleEnvironment, Deliver, FinishRun, WatchRun,
         BuildObserverStep, ObserveBuild, ApplyTriggers, ApplyRetry,
         ScanRuns, PatchRetry,
         BuildObserverFault, BuildRunObserverStep, ObserveRun, WriteOutcome
<1>4. RunsIn(runs') = RunsIn(runs)
  <2>1. CASE FinishRun
    <3>1. PICK r \in RunName, s \in RunResults :
             /\ runs[r].state = "running"
             /\ runs' = [runs EXCEPT ![r].state = s]
      BY <2>1 DEF FinishRun
    <3>2. s # "absent"
      BY ResultsAssumption
    <3>3. \A q \in RunName : runs'[q].state = "absent" <=> runs[q].state = "absent"
      BY <3>1, <3>2 DEF TypeOK, RunType
    <3> QED
      BY <3>3 DEF RunsIn
  <2>2. CASE ~FinishRun
    BY <2>2 DEF EditSpec, ToggleEnvironment, Deliver, WatchRun,
         BuildObserverStep, ObserveBuild, ApplyTriggers, ApplyRetry,
         ScanRuns, PatchRetry,
         BuildObserverFault, BuildRunObserverStep, ObserveRun, WriteOutcome
  <2> QED
    BY <2>1, <2>2
<1> QED
  BY <1>2, <1>3, <1>4, FinalizerFrame

\* Where a pass that handles an update goes.
LEMMA UpdateStages ==
    ASSUME TypeOK
    PROVE  /\ HandleUpdate => /\ rec.pc = "ensure"
                              /\ rec'.pc \in {"idle", "dispatch"}
                              /\ build' = build /\ cBuild' = cBuild
           /\ Dispatch => /\ rec.pc = "dispatch"
                          /\ rec'.pc \in {"idle", "persist"}
                          /\ cBuild' = cBuild
<1>1. rec \in RecType
  BY DEF TypeOK
<1>2. ASSUME HandleUpdate PROVE rec'.pc \in {"idle", "dispatch"}
  <2>1. RecError \/ RecNext("dispatch")
    BY <1>2 DEF HandleUpdate
  <2> QED
    BY <1>1, <2>1 DEF RecError, RecNext, IdleRec, RecType
<1>3. ASSUME Dispatch PROVE rec'.pc \in {"idle", "persist"}
  <2>1. RecError \/ rec' = [IdleRec EXCEPT !.pc = "persist",
                               !.conds = ChangedConditions(rec.conds,
                                            rec.conds \cup {"BuildStart"})]
    BY <1>3 DEF Dispatch
  <2>2. IdleRec \in RecType /\ IdleRec.pc = "idle"
    BY Constants DEF IdleRec
  <2> QED
    BY <2>1, <2>2 DEF RecError, RecType
<1> QED
  BY <1>2, <1>3 DEF HandleUpdate, Dispatch, caches

\* The reconciler is the only one that adds and removes finalizers and the only
\* one that provisions.
LEMMA FinalizerReconciler ==
    ASSUME TypeOK, FinalizerInv, BuildReconcilerStep
    PROVE  FinalizerInv'
<1> USE DEF FinalizerInv, ProvisionedUnderFinalizer, Provisioned, Exists,
            cluster, caches, queues, passes, RecDone, RecError, RecNext, IdleRec
<1>1. build \in BuildType /\ cBuild \in BuildType /\ rec \in RecType
  BY DEF TypeOK
<1>2. CASE ReconcileBuild
  <2>1. CASE rec' = rec /\ build' = build
    BY <1>2, <2>1 DEF ReconcileBuild
  <2>2. CASE ~cBuild.deleting /\ ~cBuild.finalizer /\ AddFinalizer
             /\ cBuild.uid # 0
    BY <1>1, <1>2, <2>2 DEF ReconcileBuild, AddFinalizer, BuildType
  <2>3. CASE cBuild.finalizer /\ rec' = Read(cBuild) /\ build' = build
    BY <1>1, <1>2, <2>3 DEF ReconcileBuild, Read
  <2> QED
    BY <1>2, <2>1, <2>2, <2>3 DEF ReconcileBuild
<1>3. CASE HandleUpdate
  BY <1>3, UpdateStages
<1>4. CASE Dispatch
  <2>1. build'.uid = build.uid /\ build'.finalizer = build.finalizer
        /\ build'.deleting = build.deleting
    BY <1>1, <1>4 DEF Dispatch, WriteDispatched, BuildType
  <2> QED
    BY <1>4, <2>1, UpdateStages
<1>5. CASE PersistStatus
  <2>1. build'.uid = build.uid /\ build'.finalizer = build.finalizer
        /\ build'.deleting = build.deleting
    BY <1>1, <1>5 DEF PersistStatus, BuildType
  <2> QED
    BY <1>5, <2>1 DEF PersistStatus
<1>6. CASE Teardown
  <2>1. RunsIn(runs') \subseteq RunsIn(runs)
    BY <1>6 DEF Teardown, RunsIn, AbsentRun
  <2>2. rec'.pc \in {"cleanup", "release"} => rec'.pc = "cleanup" /\ RunsIn(runs') = {}
    BY <1>1, <1>6 DEF Teardown, RunsIn, AbsentRun, RecType
  <2>3. rec'.pc \in {"idle", "cleanup"}
    BY <1>1, <1>6 DEF Teardown, RecType
  <2> QED
    BY <1>6, <2>1, <2>2, <2>3 DEF Teardown
<1>7. CASE CleanupPrerequisites
  BY <1>1, <1>7 DEF CleanupPrerequisites, CleanupFailed, RecType
<1>8. CASE RemoveFinalizer
  BY <1>1, <1>8 DEF RemoveFinalizer, WithoutFinalizer, NoBuild, BuildType
<1> QED
  BY <1>2, <1>3, <1>4, <1>5, <1>6, <1>7, <1>8 DEF BuildReconcilerStep

\* Nothing is provisioned, and there is no Build, at the start.
LEMMA FinalizerInit == Init => FinalizerInv
BY DEF Init, FinalizerInv, ProvisionedUnderFinalizer, Provisioned, RunsIn,
       AbsentRun, NoBuild, IdleRec, Exists

\* FinalizerInv is inductive, given the types.
LEMMA FinalizerStep == TypeOK /\ FinalizerInv /\ [Next]_vars => FinalizerInv'
<1> SUFFICES ASSUME TypeOK, FinalizerInv, [Next]_vars PROVE FinalizerInv'
  OBVIOUS
<1>1. build \in BuildType /\ cBuild \in BuildType
  BY DEF TypeOK
<1>2. CASE UNCHANGED vars
  BY <1>2, FinalizerFrame DEF vars, cluster, caches, passes
<1>3. CASE CreateBuild
  BY <1>1, <1>3 DEF CreateBuild, FinalizerInv, ProvisionedUnderFinalizer,
                    Provisioned, Exists, NoBuild, caches, passes
<1>4. CASE DeleteBuild
  BY <1>1, <1>4 DEF DeleteBuild, FinalizerInv, ProvisionedUnderFinalizer,
                    Provisioned, Exists, NoBuild, BuildType, caches, passes
<1>5. CASE WriteSecret
  BY <1>5 DEF WriteSecret, FinalizerInv, ProvisionedUnderFinalizer, Provisioned,
              caches, passes
<1>6. CASE WatchBuild
  BY <1>6 DEF WatchBuild, FinalizerInv, ProvisionedUnderFinalizer, Provisioned,
              cluster, passes
<1>7. CASE Restart
  BY <1>7 DEF Restart, FinalizerInv, ProvisionedUnderFinalizer, Provisioned,
              IdleRec, cluster
<1> QED
  BY <1>2, <1>3, <1>4, <1>5, <1>6, <1>7, FinalizerUntouched, FinalizerReconciler
  DEF Next, Step

\* The invariant behind the promises about the finalizer holds throughout: what
\* a pass read and the cache shows stay true as far as the later stages rely on it.
THEOREM FinalizerInvariant == Spec => []FinalizerInv
BY FinalizerInit, FinalizerStep, TypeCorrect, PTL DEF Spec

\* Nothing that was provisioned for a Build outlives it, whatever the caches
\* show, wherever the manager crashes, and however often the Build is re-created.
THEOREM NothingOutlivesTheBuild == Spec => []ProvisionedUnderFinalizer
<1>1. FinalizerInv => ProvisionedUnderFinalizer
  BY DEF FinalizerInv
<1> QED
  BY <1>1, FinalizerInvariant, PTL

-----------------------------------------------------------------------------
(* Secrets *)

\* A BuildRun starts, or goes, in no other step.
LEMMA RunsUntouched ==
    ASSUME TypeOK, [Next]_vars, ~Dispatch, ~Teardown
    PROVE  RunsIn(runs') = RunsIn(runs)
<1>1. CASE FinishRun
  <2>1. PICK r \in RunName, s \in RunResults :
           runs[r].state = "running" /\ runs' = [runs EXCEPT ![r].state = s]
    BY <1>1 DEF FinishRun
  <2>2. s # "absent"
    BY ResultsAssumption
  <2>3. \A q \in RunName : runs'[q].state = "absent" <=> runs[q].state = "absent"
    BY <2>1, <2>2 DEF TypeOK, RunType
  <2> QED
    BY <2>3 DEF RunsIn
<1>2. CASE ~FinishRun
  BY <1>2 DEF Next, Step, vars, cluster, CreateBuild, DeleteBuild, EditSpec,
       ToggleEnvironment, Deliver, WriteSecret, WatchBuild, WatchRun, Restart,
       BuildReconcilerStep, ReconcileBuild, HandleUpdate, PersistStatus,
       CleanupPrerequisites, RemoveFinalizer, BuildObserverStep, ObserveBuild,
       ApplyTriggers, ApplyRetry,
       ScanRuns, PatchRetry, BuildObserverFault, BuildRunObserverStep,
       ObserveRun, WriteOutcome
<1> QED
  BY <1>1, <1>2

\* The Secrets are there from the wait for them to the dispatch, and as long as
\* there are BuildRuns: only a cleanup removes them, after the teardown.
SecretsInv ==
    /\ RunsHaveTheirSecrets
    /\ rec.pc = "dispatch" => SecretNames \subseteq secrets

\* SecretsInv is inductive, given the invariant of the finalizer: a pass that
\* dispatches excludes a pass that cleans up.
LEMMA SecretsStep ==
    ASSUME TypeOK, FinalizerInv, SecretsInv, [Next]_vars
    PROVE  SecretsInv'
<1> USE DEF SecretsInv, RunsHaveTheirSecrets
<1>1. rec \in RecType
  BY DEF TypeOK
<1>2. CASE Dispatch
  BY <1>2, UpdateStages DEF Dispatch
<1>3. CASE Teardown
  <2>1. RunsIn(runs') \subseteq RunsIn(runs)
    BY <1>3 DEF Teardown, RunsIn, AbsentRun
  <2>2. rec'.pc \in {"idle", "cleanup"} /\ secrets' = secrets
    BY <1>1, <1>3 DEF Teardown, RecError, RecNext, IdleRec, RecType
  <2> QED
    BY <2>1, <2>2
<1>4. CASE CleanupPrerequisites
  <2>1. RunsIn(runs) = {} /\ runs' = runs
    BY <1>4 DEF CleanupPrerequisites, FinalizerInv
  <2>2. rec'.pc \in {"idle", "release"}
    BY <1>1, <1>4 DEF CleanupPrerequisites, CleanupFailed, RecError, RecNext,
                      IdleRec, RecType
  <2> QED
    BY <2>1, <2>2
<1>5. CASE HandleUpdate
  <2>1. secrets' = secrets /\ runs' = runs
    BY <1>5 DEF HandleUpdate
  <2>2. CASE RecError
    BY <2>1, <2>2 DEF RecError, IdleRec
  <2>3. CASE EnsurePrerequisites(TRUE)
    BY <2>1, <2>3 DEF EnsurePrerequisites, AwaitSecrets
  <2> QED
    BY <1>5, <2>2, <2>3 DEF HandleUpdate
<1>6. CASE ~Dispatch /\ ~Teardown /\ ~CleanupPrerequisites /\ ~HandleUpdate
  <2>1. RunsIn(runs') = RunsIn(runs)
    BY <1>6, RunsUntouched
  <2>2. secrets \subseteq secrets' /\ (rec' = rec \/ rec'.pc # "dispatch")
    <3>1. CASE BuildObserverStep
      BY <3>1 DEF BuildObserverStep, ObserveBuild, ApplyTriggers, ApplyRetry,
         ScanRuns, PatchRetry, cluster
    <3>2. CASE ~BuildObserverStep
      BY <1>6, <3>2 DEF Next, Step, vars, cluster, caches, passes, CreateBuild,
         DeleteBuild, EditSpec, ToggleEnvironment, Deliver, WriteSecret,
         FinishRun, WatchBuild, WatchRun, Restart, BuildReconcilerStep,
         ReconcileBuild, AddFinalizer, Read, PersistStatus, RemoveFinalizer,
         RecDone, RecError, IdleRec, BuildObserverFault, BuildRunObserverStep,
         ObserveRun, WriteOutcome
    <3> QED
      BY <3>1, <3>2
  <2> QED
    BY <2>1, <2>2
<1> QED
  BY <1>2, <1>3, <1>4, <1>5, <1>6

\* No BuildRun is ever there without the Secrets it needs.
THEOREM RunsAlwaysHaveTheirSecrets == Spec => []RunsHaveTheirSecrets
<1>1. Init => SecretsInv
  BY DEF Init, SecretsInv, RunsHaveTheirSecrets, RunsIn, AbsentRun, IdleRec
<1>2. SecretsInv => RunsHaveTheirSecrets
  BY DEF SecretsInv
<1> QED
  BY <1>1, <1>2, SecretsStep, TypeCorrect, FinalizerInvariant, PTL DEF Spec

-----------------------------------------------------------------------------
(* The contract of the finalizer *)

\* The resources of the abstract object.
Provides == ResourceSet(prereqs, secrets, RunsIn(runs))

\* Resources exist exactly if something is provisioned.
LEMMA ProvidesNothing == Provides = {} <=> ~Provisioned
<1>1. \A x, S : {x} \X S = {} <=> S = {}
  <2> TAKE x, S
  <2>1. \A s \in S : <<x, s>> \in {x} \X S
    OBVIOUS
  <2>2. \A p \in {x} \X S : p[2] \in S
    OBVIOUS
  <2>3. S # {} => {x} \X S # {}
    BY <2>1
  <2>4. {x} \X S # {} => S # {}
    BY <2>2
  <2> QED
    BY <2>3, <2>4
<1> DEFINE ps == {"prerequisite"} \X prereqs
           ss == {"secret"} \X secrets
<1>2. (ps = {} <=> prereqs = {}) /\ (ss = {} <=> secrets = {})
  BY <1>1
<1>3. Provides = ps \cup ss \cup RunsIn(runs)
  BY DEF Provides, ResourceSet
<1> HIDE DEF ps, ss
<1> QED
  BY <1>2, <1>3 DEF Provisioned

\* While the finalizer is there, resources come and go.
LEMMA ChangeStep ==
    ASSUME TypeOK', FinalizerInv, build.finalizer, LifecycleState' = LifecycleState
    PROVE  Lifecycle!Change
<1>1. LifecycleState \in {"held", "deleting"}
  BY DEF LifecycleState, FinalizerInv
<1>2. Provides' \subseteq ResourceSet(Prerequisites, SecretNames, RunName)
  BY DEF TypeOK, Provides, ResourceSet, RunsIn
<1> QED
  BY <1>1, <1>2 DEF Lifecycle!Change, Provides

\* The state of the object is its existence, its finalizer and its deletion.
LEMMA SameState ==
    ASSUME build'.uid = build.uid, build'.finalizer = build.finalizer,
           build'.deleting = build.deleting
    PROVE  LifecycleState' = LifecycleState
BY DEF LifecycleState, Exists

\* The lifecycle of the object in every step.
LEMMA ObjectStep ==
    ASSUME TypeOK, FinalizerInv, [Next]_vars
    PROVE  \/ LifecycleState' = LifecycleState
           \/ LifecycleState = "absent" /\ LifecycleState' = "plain" /\ CreateBuild
           \/ LifecycleState = "plain" /\ LifecycleState' = "held" /\ ReconcileBuild
           \/ LifecycleState = "plain" /\ LifecycleState' = "absent"
              /\ (DeleteBuild \/ RemoveFinalizer)
           \/ LifecycleState = "held" /\ LifecycleState' = "deleting" /\ DeleteBuild
           \/ LifecycleState = "deleting" /\ LifecycleState' = "absent"
              /\ RemoveFinalizer
<1>1. build \in BuildType
  BY DEF TypeOK
<1>2. CASE CreateBuild
  BY <1>1, <1>2 DEF CreateBuild, NoBuild, LifecycleState, Exists, TypeOK, SpentType
<1>3. CASE DeleteBuild
  BY <1>1, <1>3 DEF DeleteBuild, NoBuild, LifecycleState, Exists, BuildType
<1>4. CASE ReconcileBuild
  <2>1. CASE build' = build
    BY <2>1, SameState
  <2>2. CASE ~cBuild.deleting /\ ~cBuild.finalizer /\ Exists(cBuild)
             /\ cBuild = build /\ build' = [build EXCEPT !.finalizer = TRUE]
    BY <1>1, <1>4, <2>2 DEF LifecycleState, Exists, BuildType
  <2> QED
    BY <1>4, <2>1, <2>2 DEF ReconcileBuild, AddFinalizer
<1>5. CASE RemoveFinalizer
  BY <1>1, <1>5 DEF RemoveFinalizer, WithoutFinalizer, NoBuild, LifecycleState,
     Exists, BuildType, FinalizerInv
<1>6. CASE ~(CreateBuild \/ DeleteBuild \/ ReconcileBuild \/ RemoveFinalizer)
  <2>1. CASE EditSpec
    BY <1>1, <2>1, SameState DEF EditSpec, BuildType
  <2>2. CASE Dispatch
    BY <1>1, <2>2, SameState DEF Dispatch, WriteDispatched, BuildType
  <2>3. CASE PersistStatus
    BY <1>1, <2>3, SameState DEF PersistStatus, BuildType
  <2>4. CASE ApplyTriggers
    BY <1>1, <2>4, SameState DEF ApplyTriggers, BuildType
  <2>5. CASE ApplyRetry
    <3>1. build' = build \/ build' = [build EXCEPT !.retry = obs.retry]
      BY <2>5 DEF ApplyRetry, ScanRuns, PatchRetry, cluster
    <3> QED
      BY <1>1, <3>1, SameState DEF BuildType
  <2>6. CASE WriteOutcome
    BY <1>1, <2>6, SameState DEF WriteOutcome, WriteReplacing, BuildType
  <2>7. CASE ~(EditSpec \/ Dispatch \/ PersistStatus \/ ApplyTriggers
               \/ ApplyRetry \/ WriteOutcome)
    <3>1. build' = build
      BY <1>6, <2>7 DEF Next, Step, vars, cluster, ToggleEnvironment, Deliver,
         WriteSecret, FinishRun, WatchBuild, WatchRun, Restart,
         BuildReconcilerStep, HandleUpdate, Teardown, CleanupPrerequisites,
         BuildObserverStep, ObserveBuild, BuildObserverFault,
         BuildRunObserverStep, ObserveRun
    <3> QED
      BY <3>1, SameState
  <2> QED
    BY <2>1, <2>2, <2>3, <2>4, <2>5, <2>6, <2>7
<1> QED
  BY <1>2, <1>3, <1>4, <1>5, <1>6

\* What is provisioned changes only while the finalizer is there, and never in
\* a step that changes the object's state.
LEMMA ProvidesStep ==
    ASSUME TypeOK, FinalizerInv, [Next]_vars, Provides' # Provides
    PROVE  build.finalizer /\ LifecycleState' = LifecycleState
<1>1. CASE WriteSecret \/ Teardown \/ CleanupPrerequisites
  <2>1. build' = build
    BY <1>1 DEF WriteSecret, Teardown, CleanupPrerequisites
  <2>2. CASE build.finalizer
    BY <2>1, <2>2, SameState
  <2>3. CASE ~build.finalizer
    <3>1. prereqs = {} /\ secrets = {} /\ RunsIn(runs) = {}
      BY <2>3 DEF FinalizerInv, ProvisionedUnderFinalizer, Provisioned
    <3>2. prereqs' = {} /\ secrets' = {} /\ RunsIn(runs') = {}
      BY <1>1, <3>1 DEF WriteSecret, Teardown, CleanupPrerequisites, RunsIn, AbsentRun
    <3> QED
      BY <3>1, <3>2 DEF Provides
  <2> QED
    BY <2>2, <2>3
<1>2. CASE HandleUpdate
  BY <1>2, SameState, UpdateStages DEF FinalizerInv
<1>3. CASE Dispatch
  <2>1. build \in BuildType
    BY DEF TypeOK
  <2> QED
    BY <1>3, <2>1, SameState, UpdateStages
    DEF FinalizerInv, Dispatch, WriteDispatched, BuildType
<1>4. CASE ~(WriteSecret \/ Teardown \/ CleanupPrerequisites \/ HandleUpdate
             \/ Dispatch)
  <2>1. RunsIn(runs') = RunsIn(runs)
    BY <1>4, RunsUntouched
  <2>2. prereqs' = prereqs /\ secrets' = secrets
    BY <1>4 DEF Next, Step, vars, cluster, CreateBuild, DeleteBuild, EditSpec,
       ToggleEnvironment, Deliver, FinishRun, WatchBuild, WatchRun, Restart,
       BuildReconcilerStep, ReconcileBuild, PersistStatus, RemoveFinalizer,
       BuildObserverStep, ObserveBuild, ApplyTriggers, ApplyRetry,
       ScanRuns, PatchRetry,
       BuildObserverFault, BuildRunObserverStep, ObserveRun, WriteOutcome
  <2> QED
    BY <2>1, <2>2 DEF Provides
<1> QED
  BY <1>1, <1>2, <1>3, <1>4

\* Every step of the pipeline is a step of the lifecycle, or a stutter.
LEMMA LifecycleStep ==
    ASSUME TypeOK, TypeOK', FinalizerInv, [Next]_vars
    PROVE  [Lifecycle!Next]_(Lifecycle!vars)
<1> USE DEF Lifecycle!Next, Lifecycle!vars
<1>1. CASE Provides' # Provides
  BY <1>1, ProvidesStep, ChangeStep
<1>2. CASE Provides' = Provides
  <2> USE DEF Provides
  <2>1. CASE LifecycleState' = LifecycleState
    BY <1>2, <2>1
  <2>2. CASE LifecycleState = "deleting" /\ LifecycleState' = "absent"
             /\ RemoveFinalizer
    <3>1. Provides = {}
      BY <2>2, ProvidesNothing DEF RemoveFinalizer, FinalizerInv, Provisioned
    <3> QED
      BY <1>2, <2>2, <3>1 DEF Lifecycle!Release
  <2> QED
    BY <1>2, <2>1, <2>2, ObjectStep
    DEF Lifecycle!Create, Lifecycle!Hold, Lifecycle!Delete
<1> QED
  BY <1>1, <1>2

\* The pipeline keeps the contract of the finalizer for any constants.
THEOREM PipelineKeepsLifecycle == Spec => KeepsLifecycle
<1>1. Init => Lifecycle!Init
  <2> SUFFICES ASSUME Init PROVE Lifecycle!Init
    OBVIOUS
  <2>1. LifecycleState = "absent"
    BY DEF Init, LifecycleState, NoBuild, Exists
  <2>2. Provides = {}
    BY ProvidesNothing DEF Init, Provisioned, RunsIn, AbsentRun
  <2> QED
    BY <2>1, <2>2 DEF Lifecycle!Init, Provides
<1>2. TypeOK /\ TypeOK' /\ FinalizerInv /\ [Next]_vars =>
         [Lifecycle!Next]_(Lifecycle!vars)
  BY LifecycleStep
<1> QED
  BY <1>1, <1>2, TypeCorrect, FinalizerInvariant, PTL
  DEF Spec, KeepsLifecycle, Lifecycle!Spec
=============================================================================
