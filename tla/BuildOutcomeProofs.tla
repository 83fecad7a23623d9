-------------------------- MODULE BuildOutcomeProofs --------------------------
(***************************************************************************)
(* What the Build pipeline promises about outcomes, the trigger commit and *)
(* the retries, for any commits, events and bounds; each theorem says what *)
(* it assumes of cache lag, of creation times and of re-creation.          *)
(***************************************************************************)
EXTENDS BuildPipelineProofs

-----------------------------------------------------------------------------
(* Outcome conditions *)

\* The reconciler has no contract to write, and of the conditions it merges none
\* is an outcome.
OutcomeInv ==
    /\ OneOutcome
    /\ rec.contract = NoContract
    /\ rec.pc = "persist" => rec.conds \cap Outcomes = {}

\* A run is not the absence of one.
LEMMA RunIsNotNoRun == \A r \in RunName : r # NoRun
BY DEF RunName, NoRun

\* OutcomeInv is inductive: only the buildrun-observer writes a contract or an
\* outcome condition, and it writes both.
LEMMA OutcomeStep ==
    ASSUME TypeOK, OutcomeInv, [Next]_vars
    PROVE  OutcomeInv'
<1>1. build \in BuildType /\ rec \in RecType
  BY DEF TypeOK
<1>2. ASSUME build'.conds \cap Outcomes = build.conds \cap Outcomes,
             build'.contract = build.contract
      PROVE  OneOutcome'
  BY <1>2 DEF OutcomeInv, OneOutcome, OutcomeCondition
<1>3. OneOutcome'
  <2>1. CASE CreateBuild \/ DeleteBuild \/ RemoveFinalizer
    <3>1. CASE build'.conds = build.conds /\ build'.contract = build.contract
      BY <1>2, <3>1
    <3>2. CASE build'.conds = {} /\ build'.contract = NoContract
      BY <3>2 DEF OneOutcome, NoContract
    <3> QED
      BY <1>1, <2>1, <3>1, <3>2 DEF CreateBuild, DeleteBuild, RemoveFinalizer,
         WithoutFinalizer, NoBuild, BuildType
  <2>2. CASE ReconcileBuild \/ EditSpec \/ ApplyTriggers \/ ApplyRetry
    <3>1. build'.conds = build.conds /\ build'.contract = build.contract
      BY <1>1, <2>2 DEF ReconcileBuild, AddFinalizer, EditSpec, ApplyTriggers,
         ApplyRetry, ScanRuns, PatchRetry, cluster, BuildType
    <3> QED
      BY <1>2, <3>1
  <2>3. CASE Dispatch
    <3>1. build'.conds \cap Outcomes = build.conds \cap Outcomes
          /\ build'.contract = build.contract
      <4>1. CASE build' = build
        BY <4>1
      <4>2. CASE build' = WriteDispatched(build, NoContract)
        <5>1. build'.conds = build.conds \cup {"BuildReady"}
              /\ build'.contract = build.contract
          BY <1>1, <4>2 DEF WriteDispatched, BuildType
        <5> QED
          BY <5>1 DEF Outcomes
      <4> QED
        BY <2>3, <4>1, <4>2 DEF Dispatch, OutcomeInv
    <3> QED
      BY <1>2, <3>1
  <2>4. CASE PersistStatus
    <3>1. build'.conds \cap Outcomes = build.conds \cap Outcomes
          /\ build'.contract = build.contract
      BY <1>1, <2>4 DEF PersistStatus, OutcomeInv, BuildType
    <3> QED
      BY <1>2, <3>1
  <2>5. CASE WriteOutcome
    <3>1. CASE build' = build
      BY <1>2, <3>1
    <3>2. CASE build' = WriteReplacing(build, bro.contract, Replaced(bro.contract),
                                       OutcomeCondition(bro.contract))
      <4> DEFINE c == bro.contract
      <4>1. build'.contract = c
            /\ build'.conds = (build.conds \ Replaced(c)) \cup {OutcomeCondition(c)}
        BY <1>1, <3>2 DEF WriteReplacing, BuildType
      <4>2. OutcomeCondition(c) \in Outcomes
        BY DEF OutcomeCondition, Outcomes
      <4>3. c.ref # NoRun
        BY <2>5, RunIsNotNoRun DEF WriteOutcome, TypeOK
      <4> HIDE DEF c
      <4>4. build'.conds \cap Outcomes = {OutcomeCondition(c)}
        BY <4>1, <4>2 DEF Replaced
      <4> QED
        BY <4>1, <4>3, <4>4 DEF OneOutcome, OutcomeCondition
    <3> QED
      BY <2>5, <3>1, <3>2 DEF WriteOutcome
  <2>6. CASE ~(CreateBuild \/ DeleteBuild \/ RemoveFinalizer \/ ReconcileBuild
               \/ EditSpec \/ ApplyTriggers \/ ApplyRetry \/ Dispatch
               \/ PersistStatus \/ WriteOutcome)
    <3>1. build' = build
      BY <2>6 DEF Next, Step, vars, cluster, ToggleEnvironment, Deliver,
         WriteSecret, FinishRun, WatchBuild, WatchRun, Restart,
         BuildReconcilerStep, HandleUpdate, Teardown, CleanupPrerequisites,
         BuildObserverStep, ObserveBuild, BuildObserverFault,
         BuildRunObserverStep, ObserveRun
    <3> QED
      BY <1>2, <3>1
  <2> QED
    BY <2>1, <2>2, <2>3, <2>4, <2>5, <2>6
<1>4. rec'.contract = NoContract
      /\ (rec'.pc = "persist" => rec'.conds \cap Outcomes = {})
  <2>1. CASE rec' = rec
    BY <2>1 DEF OutcomeInv
  <2>2. CASE rec' = IdleRec
    BY <2>2 DEF IdleRec
  <2>3. CASE rec' = Read(cBuild)
    BY <2>3 DEF Read, Handed
  <2>4. ASSUME NEW pc \in {"dispatch", "cleanup", "release"}, RecNext(pc)
        PROVE  rec'.contract = NoContract /\ rec'.pc = pc
    BY <1>1, <2>4 DEF RecNext, RecType, OutcomeInv
  <2>5. CASE Dispatch
    <3>1. CASE RecError
      BY <2>2, <3>1 DEF RecError
    <3>2. CASE rec' = [IdleRec EXCEPT !.pc = "persist",
                          !.conds = ChangedConditions(rec.conds,
                                       rec.conds \cup {"BuildStart"})]
      <4>1. rec'.conds = ChangedConditions(rec.conds, rec.conds \cup {"BuildStart"})
            /\ rec'.contract = NoContract
        BY <3>2, Constants DEF IdleRec
      <4> QED
        BY <4>1 DEF ChangedConditions, Outcomes
    <3> QED
      BY <2>5, <3>1, <3>2 DEF Dispatch
  <2>6. CASE BuildReconcilerStep /\ ~Dispatch
    BY <2>1, <2>2, <2>3, <2>4, <2>6 DEF BuildReconcilerStep, ReconcileBuild,
       AddFinalizer, HandleUpdate, PersistStatus, Teardown, CleanupPrerequisites,
       CleanupFailed, RemoveFinalizer, RecDone, RecError
  <2>7. CASE ~BuildReconcilerStep
    BY <2>1, <2>2, <2>7 DEF Next, Step, vars, passes, CreateBuild,
       DeleteBuild, EditSpec, ToggleEnvironment, Deliver, WriteSecret,
       FinishRun, WatchBuild, WatchRun, Restart, BuildObserverStep, ObserveBuild,
       ApplyTriggers, ApplyRetry,
       ScanRuns, PatchRetry, BuildObserverFault, BuildRunObserverStep,
       ObserveRun, WriteOutcome
  <2> QED
    BY <2>5, <2>6, <2>7
<1> QED
  BY <1>3, <1>4 DEF OutcomeInv

\* The outcome conditions always agree with the contract.
THEOREM OutcomeAlwaysOne == Spec => []OneOutcome
<1>1. Init => OutcomeInv
  BY DEF Init, OutcomeInv, OneOutcome, NoBuild, NoContract, IdleRec
<1>2. OutcomeInv => OneOutcome
  BY DEF OutcomeInv
<1> QED
  BY <1>1, <1>2, OutcomeStep, TypeCorrect, PTL DEF Spec

-----------------------------------------------------------------------------
(* Creation times and lives *)

\* When no two BuildRuns share a second, creation times are as good as numbers.
ClockInv ==
    /\ clock.second = clock.seq
    /\ \A r \in RunName : /\ runs[r].created = runs[r].seq
                          /\ cRuns[r].created = cRuns[r].seq
                          /\ runs[r].seq <= clock.seq
    /\ \A q, r \in RunsIn(runs) : runs[q].seq = runs[r].seq => q = r

\* A contract tells the outcome of a BuildRun of rs.
Faithful(c, rs) ==
    c.ref # NoRun =>
        /\ rs[c.ref].state \in Terminal
        /\ c.success <=> rs[c.ref].state \in Succeeded

\* Of a copy of a BuildRun nothing has changed since, except that the BuildRun
\* may have finished.
Follows(copy, run) ==
    copy.state # "absent" =>
        /\ run.state # "absent" /\ run.seq = copy.seq
        /\ copy.state \in Terminal => run.state = copy.state

(* Why outcomes go forward.  Before the first Build there is nothing.  While it
   lives no pass tears BuildRuns down, so that the cache and every contract a
   pass holds stay true, and the contract that is about to be written is of a
   BuildRun no older than the one it replaces. *)
LifeInv ==
    /\ spent.lives = 0 =>
          /\ build = NoBuild /\ cBuild = NoBuild
          /\ rec = IdleRec /\ obs = IdleObs /\ bro = IdleBro
          /\ \A r \in RunName : runs[r].state = "absent" /\ cRuns[r].state = "absent"
    /\ FirstLife =>
          /\ ~cBuild.deleting
          /\ rec.pc \notin {"teardown", "cleanup", "release"}
          /\ \A r \in RunName : Follows(cRuns[r], runs[r])
          /\ \A c \in {build.contract, cBuild.contract, obs.contract, bro.contract} :
                Faithful(c, cRuns)
          /\ bro.pc = "write" /\ build.contract.ref # NoRun =>
                runs[build.contract.ref].seq <= runs[bro.contract.ref].seq

\* ClockInv is inductive when creation times tell BuildRuns apart.
LEMMA ClockStep ==
    ASSUME ~SameSecond, TypeOK, ClockInv, [Next]_vars
    PROVE  ClockInv'
<1> USE DEF ClockInv
<1>1. /\ runs \in [RunName -> RunType] /\ cRuns \in [RunName -> RunType]
      /\ clock \in [second: Nat, seq: Nat]
  BY DEF TypeOK
<1>2. ASSUME clock' = clock, cRuns' = cRuns,
             \A r \in RunName : \/ runs'[r] = runs[r] \/ runs'[r] = AbsentRun
      PROVE  ClockInv'
  <2>1. AbsentRun.state = "absent" /\ AbsentRun.created = 0 /\ AbsentRun.seq = 0
    BY DEF AbsentRun
  <2>2. \A r \in RunName : runs'[r].created = runs'[r].seq /\ runs'[r].seq <= clock.seq
    BY <1>1, <1>2, <2>1
  <2>3. \A r \in RunsIn(runs') : r \in RunsIn(runs) /\ runs'[r] = runs[r]
    BY <1>2, <2>1 DEF RunsIn
  <2> QED
    BY <1>2, <2>2, <2>3
<1>3. CASE FinishRun
  <2>1. PICK r \in RunName, s \in RunResults :
           runs[r].state = "running" /\ runs' = [runs EXCEPT ![r].state = s]
    BY <1>3 DEF FinishRun
  <2>2. \A q \in RunName : /\ runs'[q].created = runs[q].created
                           /\ runs'[q].seq = runs[q].seq
                           /\ q # r => runs'[q] = runs[q]
    BY <1>1, <2>1 DEF RunType
  <2>3. r \in RunsIn(runs)
    BY <2>1 DEF RunsIn
  <2>4. RunsIn(runs') \subseteq RunsIn(runs) /\ RunsIn(runs) \subseteq RunName
    BY <2>2, <2>3 DEF RunsIn
  <2>5. clock' = clock /\ cRuns' = cRuns
    BY <1>3 DEF FinishRun, caches
  <2>6. \A q \in RunName : runs'[q].created = runs'[q].seq /\ runs'[q].seq <= clock'.seq
    BY <2>2, <2>5
  <2>7. \A p, q \in RunsIn(runs') : runs'[p].seq = runs'[q].seq => p = q
    BY <2>2, <2>4
  <2> QED
    BY <2>5, <2>6, <2>7
<1>4. CASE Dispatch
  <2>1. CASE StartRun(rec.exec) /\ runs[rec.exec].state = "absent"
    <3> DEFINE x == rec.exec
    <3>1. x \in RunName
      BY DEF TypeOK, RecType
    <3>2. /\ clock' = [second |-> clock.second + 1, seq |-> clock.seq + 1]
          /\ runs' = [runs EXCEPT ![x] = [state |-> "running",
                                          created |-> clock.second + 1,
                                          seq |-> clock.seq + 1]]
      BY <2>1 DEF StartRun
    <3> HIDE DEF x
    <3>3. /\ runs'[x].created = clock.second + 1 /\ runs'[x].seq = clock.seq + 1
          /\ \A q \in RunName : q # x => runs'[q] = runs[q]
      BY <1>1, <3>1, <3>2
    <3>4. clock'.seq = clock.seq + 1 /\ clock'.second = clock.second + 1
      BY <3>2
    <3>5. clock.seq \in Nat /\ \A q \in RunName : runs[q].seq \in Nat
      BY <1>1 DEF RunType
    <3>6. \A q \in RunName : /\ runs'[q].created = runs'[q].seq
                             /\ runs'[q].seq <= clock'.seq
      BY <3>3, <3>4, <3>5
    <3>7. \A q \in RunName : q # x => runs'[q].seq # runs'[x].seq
      BY <3>3, <3>5
    <3>8. \A q \in RunsIn(runs') : q \in RunName /\ (q # x => q \in RunsIn(runs))
      BY <3>3 DEF RunsIn
    <3>9. \A p, q \in RunsIn(runs') : runs'[p].seq = runs'[q].seq => p = q
      BY <3>1, <3>3, <3>7, <3>8
    <3>10. cRuns' = cRuns
      BY <1>4 DEF Dispatch, caches
    <3> QED
      BY <3>4, <3>6, <3>9, <3>10
  <2>2. CASE runs' = runs /\ clock' = clock
    BY <1>2, <1>4, <2>2 DEF Dispatch, caches
  <2> QED
    BY <1>4, <2>1, <2>2 DEF Dispatch, StartRun
<1>5. CASE Teardown
  <2>1. clock' = clock /\ cRuns' = cRuns
    BY <1>5 DEF Teardown, caches
  <2>2. \A r \in RunName : runs'[r] = runs[r] \/ runs'[r] = AbsentRun
    BY <1>5 DEF Teardown
  <2> QED
    BY <1>2, <2>1, <2>2
<1>6. CASE ~(FinishRun \/ Dispatch \/ Teardown)
  <2>1. runs' = runs /\ clock' = clock
    BY <1>6 DEF Next, Step, vars, cluster, CreateBuild, DeleteBuild, EditSpec,
       ToggleEnvironment, Deliver, WriteSecret, WatchBuild, WatchRun, Restart,
       BuildReconcilerStep, ReconcileBuild, HandleUpdate, PersistStatus,
       CleanupPrerequisites, RemoveFinalizer, BuildObserverStep, ObserveBuild,
       ApplyTriggers, ApplyRetry,
       ScanRuns, PatchRetry, BuildObserverFault, BuildRunObserverStep,
       ObserveRun, WriteOutcome
  <2>2. \A r \in RunName : cRuns'[r] = cRuns[r] \/ cRuns'[r] = runs[r]
    BY <1>1, <1>6 DEF Next, Step, vars, caches, CreateBuild, DeleteBuild, EditSpec,
       ToggleEnvironment, Deliver, WriteSecret, WatchBuild, WatchRun, Restart,
       BuildReconcilerStep, ReconcileBuild, HandleUpdate, PersistStatus,
       CleanupPrerequisites, RemoveFinalizer, BuildObserverStep, ObserveBuild,
       ApplyTriggers, ApplyRetry,
       ScanRuns, PatchRetry, BuildObserverFault, BuildRunObserverStep,
       ObserveRun, WriteOutcome
  <2> QED
    BY <2>1, <2>2
<1> QED
  BY <1>3, <1>4, <1>5, <1>6

\* Only the user's creation of the Build begins a life.
LEMMA LivesCount ==
    ASSUME TypeOK, [Next]_vars, ~CreateBuild
    PROVE  spent'.lives = spent.lives
<1>1. spent \in SpentType
  BY DEF TypeOK
<1> QED
  BY <1>1 DEF Next, Step, vars, DeleteBuild, EditSpec,
     ToggleEnvironment, Deliver, WriteSecret, FinishRun, WatchBuild, WatchRun,
     Restart, BuildReconcilerStep, ReconcileBuild, HandleUpdate,
     EnsurePrerequisites, Dispatch, PersistStatus, Teardown,
     CleanupPrerequisites, RemoveFinalizer, BuildObserverStep, ObserveBuild,
     ApplyTriggers, ApplyRetry,
     ScanRuns, PatchRetry, BuildObserverFault, BuildRunObserverStep,
     ObserveRun, WriteOutcome, Fault, SpentType

\* Only the buildrun-observer writes a contract; it is empty in a new Build.
LEMMA ContractWritten ==
    ASSUME TypeOK, OutcomeInv, [Next]_vars
    PROVE  /\ \/ WriteOutcome
              \/ build'.contract = build.contract
              \/ build'.contract = NoContract /\ (CreateBuild \/ build' = NoBuild)
           /\ \/ CreateBuild
              \/ build' = NoBuild
              \/ build'.deleting
              \/ build'.uid = build.uid /\ build'.deleting = build.deleting
<1>1. build \in BuildType
  BY DEF TypeOK
<1>2. CASE CreateBuild
  BY <1>2 DEF CreateBuild, NoBuild
<1>3. CASE DeleteBuild \/ RemoveFinalizer
  BY <1>1, <1>3 DEF DeleteBuild, RemoveFinalizer, WithoutFinalizer, NoBuild, BuildType
<1>4. CASE ReconcileBuild \/ EditSpec \/ ApplyTriggers \/ ApplyRetry \/ PersistStatus
  BY <1>1, <1>4 DEF ReconcileBuild, AddFinalizer, EditSpec, ApplyTriggers,
     ApplyRetry, ScanRuns, PatchRetry, cluster, PersistStatus, BuildType
<1>5. CASE Dispatch
  <2>1. build' = build \/ build' = WriteDispatched(build, NoContract)
    BY <1>5 DEF Dispatch, OutcomeInv
  <2> QED
    BY <1>1, <2>1 DEF WriteDispatched, BuildType
<1>6. CASE WriteOutcome
  BY <1>1, <1>6 DEF WriteOutcome, WriteReplacing, BuildType
<1>7. CASE ~(CreateBuild \/ DeleteBuild \/ RemoveFinalizer \/ ReconcileBuild
             \/ EditSpec \/ ApplyTriggers \/ ApplyRetry \/ PersistStatus
             \/ Dispatch \/ WriteOutcome)
  <2>1. build' = build
    BY <1>7 DEF Next, Step, vars, cluster, ToggleEnvironment, Deliver,
       WriteSecret, FinishRun, WatchBuild, WatchRun, Restart,
       BuildReconcilerStep, HandleUpdate, Teardown, CleanupPrerequisites,
       BuildObserverStep, ObserveBuild, BuildObserverFault,
       BuildRunObserverStep, ObserveRun
  <2> QED
    BY <2>1
<1> QED
  BY <1>2, <1>3, <1>4, <1>5, <1>6, <1>7

\* Where a first life comes from, and what writes its contract.
LEMMA FirstLifeStep ==
    ASSUME TypeOK, OutcomeInv, [Next]_vars, FirstLife'
    PROVE  \/ spent.lives = 0 /\ CreateBuild
           \/ FirstLife /\ (WriteOutcome \/ build'.contract = build.contract)
<1>1. spent \in SpentType /\ spent'.lives = 1
  BY DEF TypeOK, FirstLife
<1>2. CASE CreateBuild
  BY <1>1, <1>2 DEF CreateBuild, SpentType
<1>3. CASE ~CreateBuild
  <2>1. spent'.lives = spent.lives
    BY <1>3, LivesCount
  <2>2. build' # NoBuild /\ ~build'.deleting
    BY DEF FirstLife, Exists, NoBuild
  <2>3. build'.uid = build.uid /\ build'.deleting = build.deleting
    BY <1>3, <2>2, ContractWritten
  <2>4. WriteOutcome \/ build'.contract = build.contract
    BY <1>3, <2>2, ContractWritten
  <2> QED
    BY <1>1, <2>1, <2>3, <2>4 DEF FirstLife, Exists
<1> QED
  BY <1>2, <1>3

\* BuildRuns finish and are started; only a teardown removes them.
LEMMA RunsFollow ==
    ASSUME TypeOK, [Next]_vars, ~Teardown, NEW r \in RunName
    PROVE  Follows(runs[r], runs'[r])
<1>1. runs \in [RunName -> RunType]
  BY DEF TypeOK
<1>2. CASE FinishRun
  <2>1. PICK q \in RunName, s \in RunResults :
           runs[q].state = "running" /\ runs' = [runs EXCEPT ![q].state = s]
    BY <1>2 DEF FinishRun
  <2>2. s # "absent"
    BY ResultsAssumption
  <2>3. r # q => runs'[r] = runs[r]
    BY <2>1
  <2>4. runs'[q].state # "absent" /\ runs'[q].seq = runs[q].seq
    BY <1>1, <2>1, <2>2 DEF RunType
  <2> QED
    BY <2>1, <2>3, <2>4 DEF Follows, Terminal, Succeeded
<1>3. CASE Dispatch
  <2>1. CASE runs[rec.exec].state = "absent" /\ StartRun(rec.exec)
    <3>1. r # rec.exec => runs'[r] = runs[r]
      BY <1>1, <2>1 DEF StartRun, TypeOK, RecType
    <3> QED
      BY <2>1, <3>1 DEF Follows
  <2>2. CASE runs' = runs
    BY <2>2 DEF Follows
  <2> QED
    BY <1>3, <2>1, <2>2 DEF Dispatch, StartRun
<1>4. CASE ~FinishRun /\ ~Dispatch
  <2>1. runs' = runs
    BY <1>4 DEF Next, Step, vars, cluster, CreateBuild, DeleteBuild, EditSpec,
       ToggleEnvironment, Deliver, WriteSecret, WatchBuild, WatchRun, Restart,
       BuildReconcilerStep, ReconcileBuild, HandleUpdate, PersistStatus,
       CleanupPrerequisites, RemoveFinalizer, BuildObserverStep, ObserveBuild,
       ApplyTriggers, ApplyRetry,
       ScanRuns, PatchRetry, BuildObserverFault, BuildRunObserverStep,
       ObserveRun, WriteOutcome
  <2> QED
    BY <2>1 DEF Follows
<1> QED
  BY <1>2, <1>3, <1>4

\* The cache of BuildRuns changes by what the informer sees.
LEMMA CacheSees ==
    ASSUME TypeOK, [Next]_vars
    PROVE  \/ cRuns' = cRuns
           \/ runs' = runs /\ \A r \in RunName : cRuns'[r] \in {cRuns[r], runs[r]}
<1>1. cRuns \in [RunName -> RunType]
  BY DEF TypeOK
<1>2. CASE WatchRun
  BY <1>1, <1>2 DEF WatchRun, cluster
<1>3. CASE Restart
  BY <1>3 DEF Restart, cluster
<1>4. CASE ~WatchRun /\ ~Restart
  BY <1>4 DEF Next, Step, vars, caches, CreateBuild, DeleteBuild, EditSpec,
     ToggleEnvironment, Deliver, WriteSecret, FinishRun, WatchBuild,
     BuildReconcilerStep, ReconcileBuild, HandleUpdate, Dispatch, PersistStatus,
     Teardown, CleanupPrerequisites, RemoveFinalizer, BuildObserverStep,
     ObserveBuild, ApplyTriggers, ApplyRetry,
     ScanRuns, PatchRetry, BuildObserverFault,
     BuildRunObserverStep, ObserveRun, WriteOutcome
<1> QED
  BY <1>2, <1>3, <1>4

\* Before the first Build nothing happens to a Build.
LEMMA NoLifeStep ==
    ASSUME TypeOK, LifeInv, [Next]_vars, spent'.lives = 0
    PROVE  /\ build' = NoBuild /\ cBuild' = NoBuild
           /\ rec' = IdleRec /\ obs' = IdleObs /\ bro' = IdleBro
           /\ \A r \in RunName : runs'[r].state = "absent" /\ cRuns'[r].state = "absent"
<1>1. /\ spent \in SpentType /\ broQ \subseteq RunName
      /\ runs \in [RunName -> RunType] /\ cRuns \in [RunName -> RunType]
  BY DEF TypeOK
<1>2. ~CreateBuild /\ spent.lives = 0
  <2>1. ~CreateBuild
    BY <1>1 DEF CreateBuild, SpentType
  <2> QED
    BY <2>1, LivesCount
<1>3. /\ build = NoBuild /\ cBuild = NoBuild
      /\ rec = IdleRec /\ obs = IdleObs /\ bro = IdleBro
      /\ \A r \in RunName : runs[r].state = "absent" /\ cRuns[r].state = "absent"
  BY <1>2 DEF LifeInv
<1>4. ~Exists(build) /\ ~Exists(cBuild)
      /\ rec.pc = "idle" /\ obs.pc = "idle" /\ bro.pc = "idle"
  BY <1>3 DEF NoBuild, Exists, IdleRec, IdleObs, IdleBro
<1>5. ~DeleteBuild /\ ~EditSpec /\ ~FinishRun /\ ~HandleUpdate /\ ~Dispatch
      /\ ~PersistStatus /\ ~Teardown /\ ~CleanupPrerequisites /\ ~RemoveFinalizer
      /\ ~ApplyTriggers /\ ~ApplyRetry /\ ~BuildObserverFault /\ ~WriteOutcome
  BY <1>3, <1>4 DEF DeleteBuild, EditSpec, FinishRun, HandleUpdate, Dispatch,
     PersistStatus, Teardown, CleanupPrerequisites, RemoveFinalizer,
     ApplyTriggers, ApplyRetry, ScanRuns, PatchRetry, BuildObserverFault, WriteOutcome
<1>6. /\ build' = build /\ runs' = runs /\ cBuild' \in {cBuild, build}
      /\ rec' \in {rec, IdleRec} /\ obs' \in {obs, IdleObs} /\ bro' \in {bro, IdleBro}
  <2>1. CASE ObserveRun
    <3>1. \A r \in broQ : cRuns[r].state \notin Terminal
      BY <1>1, <1>3 DEF Terminal, Succeeded
    <3> QED
      BY <2>1, <3>1 DEF ObserveRun, cluster, caches
  <2>2. CASE ~ObserveRun
    BY <1>2, <1>4, <1>5, <2>2 DEF Next, Step, vars, cluster, caches, passes,
       ToggleEnvironment, Deliver, WriteSecret, WatchBuild, WatchRun, Restart,
       BuildReconcilerStep, ReconcileBuild, AddFinalizer, BuildObserverStep,
       ObserveBuild, BuildRunObserverStep, queues
  <2> QED
    BY <2>1, <2>2
<1> QED
  BY <1>3, <1>6, CacheSees

\* In the first life a pass never tears down, since the cache never shows a
\* deletion.
LEMMA FirstLifePasses ==
    ASSUME TypeOK, LifeInv, [Next]_vars, FirstLife
    PROVE  /\ ~cBuild'.deleting
           /\ rec'.pc \notin {"teardown", "cleanup", "release"}
           /\ ~Teardown
<1>1. /\ ~cBuild.deleting /\ ~build.deleting /\ rec \in RecType
      /\ rec.pc \notin {"teardown", "cleanup", "release"}
  BY DEF LifeInv, FirstLife, TypeOK
<1>2. ~Teardown /\ ~CleanupPrerequisites /\ ~RemoveFinalizer
  BY <1>1 DEF Teardown, CleanupPrerequisites, RemoveFinalizer
<1>3. cBuild' \in {cBuild, build}
  BY DEF Next, Step, vars, caches, CreateBuild, DeleteBuild, EditSpec,
     ToggleEnvironment, Deliver, WriteSecret, FinishRun, WatchBuild, WatchRun,
     Restart, BuildReconcilerStep, ReconcileBuild, HandleUpdate, Dispatch,
     PersistStatus, Teardown, CleanupPrerequisites, RemoveFinalizer,
     BuildObserverStep, ObserveBuild, ApplyTriggers, ApplyRetry, ScanRuns, PatchRetry,
     BuildObserverFault, BuildRunObserverStep, ObserveRun, WriteOutcome
<1>4. rec'.pc \notin {"teardown", "cleanup", "release"}
  <2>1. CASE rec' = rec \/ rec' = IdleRec
    BY <1>1, <2>1 DEF IdleRec
  <2>2. CASE rec' = Read(cBuild)
    BY <1>1, <2>2 DEF Read
  <2>3. CASE RecNext("dispatch")
    BY <1>1, <2>3 DEF RecNext, RecType
  <2>4. CASE rec' = [IdleRec EXCEPT !.pc = "persist",
                        !.conds = ChangedConditions(rec.conds,
                                     rec.conds \cup {"BuildStart"})]
    BY <2>4 DEF IdleRec
  <2> QED
    BY <1>2, <2>1, <2>2, <2>3, <2>4 DEF Next, Step, vars, passes, CreateBuild,
       DeleteBuild, EditSpec, ToggleEnvironment, Deliver, WriteSecret, FinishRun,
       WatchBuild, WatchRun, Restart, BuildReconcilerStep, ReconcileBuild,
       AddFinalizer, HandleUpdate, Dispatch, PersistStatus, RecDone, RecError,
       BuildObserverStep, ObserveBuild, ApplyTriggers, ApplyRetry,
       ScanRuns, PatchRetry, ObsDone,
       ObsError, BuildObserverFault, BuildRunObserverStep, ObserveRun,
       WriteOutcome
<1> QED
  BY <1>1, <1>2, <1>3, <1>4

\* What a step of a first life makes of the contracts that are kept.
LEMMA ContractsKept ==
    ASSUME TypeOK, [Next]_vars, FirstLife,
           WriteOutcome \/ build'.contract = build.contract
    PROVE  LET old == {build.contract, cBuild.contract, obs.contract, bro.contract,
                       NoContract}
           IN  /\ {build'.contract, cBuild'.contract, obs'.contract} \subseteq old
               /\ \/ bro'.contract \in old
                  \/ cRuns' = cRuns /\ \E r \in RunName :
                        /\ cRuns[r].state \in Terminal
                        /\ bro'.contract = OutcomeContract(cBuild, r)
<1> DEFINE old == {build.contract, cBuild.contract, obs.contract, bro.contract,
                   NoContract}
<1>1. build \in BuildType /\ obs \in ObsType /\ broQ \subseteq RunName
  BY DEF TypeOK
<1>2. build'.contract \in old
  BY <1>1 DEF WriteOutcome, WriteReplacing, BuildType
<1>3. cBuild'.contract \in old
  <2>1. cBuild' \in {cBuild, build}
    BY DEF Next, Step, vars, caches, CreateBuild, DeleteBuild, EditSpec,
       ToggleEnvironment, Deliver, WriteSecret, FinishRun, WatchBuild, WatchRun,
       Restart, BuildReconcilerStep, ReconcileBuild, HandleUpdate, Dispatch,
       PersistStatus, Teardown, CleanupPrerequisites, RemoveFinalizer,
       BuildObserverStep, ObserveBuild, ApplyTriggers, ApplyRetry,
       ScanRuns, PatchRetry,
       BuildObserverFault, BuildRunObserverStep, ObserveRun, WriteOutcome
  <2> QED
    BY <2>1
<1>4. obs'.contract \in old
  <2>1. CASE obs' = obs
    BY <2>1
  <2>2. CASE obs' = IdleObs
    BY <2>2 DEF IdleObs
  <2>3. CASE ObserveBuild
    BY <2>3 DEF ObserveBuild, Holding
  <2>4. CASE ApplyTriggers
    <3>1. \/ obs' = [obs EXCEPT !.pc = "retry"]
          \/ obs' = Holding(build', "retry")
          \/ obs' = IdleObs
      BY <2>4 DEF ApplyTriggers, ObsError
    <3>2. obs'.contract \in {obs.contract, build'.contract, NoContract}
      BY <1>1, <3>1 DEF Holding, ObsType, IdleObs
    <3> QED
      BY <1>2, <3>2
  <2>6. CASE ScanRuns
    BY <1>1, <2>2, <2>6 DEF ScanRuns, ObsType
  <2>5. CASE ~ObserveBuild /\ ~ApplyTriggers /\ ~ScanRuns
    BY <2>1, <2>2, <2>5 DEF Next, Step, vars, passes, CreateBuild, DeleteBuild,
       EditSpec, ToggleEnvironment, Deliver, WriteSecret, FinishRun, WatchBuild,
       WatchRun, Restart, BuildReconcilerStep, ReconcileBuild, HandleUpdate,
       Dispatch, PersistStatus, Teardown, CleanupPrerequisites, RemoveFinalizer,
       BuildObserverStep, ApplyRetry, PatchRetry, ObsDone, ObsError,
       BuildObserverFault, BuildRunObserverStep, ObserveRun, WriteOutcome
  <2> QED
    BY <2>3, <2>4, <2>5, <2>6
<1>5. CASE ObserveRun
  BY <1>1, <1>2, <1>3, <1>4, <1>5 DEF ObserveRun, caches
<1>6. CASE ~ObserveRun
  <2>1. bro' = bro \/ bro' = IdleBro
    BY <1>6 DEF Next, Step, vars, passes, CreateBuild, DeleteBuild, EditSpec,
       ToggleEnvironment, Deliver, WriteSecret, FinishRun, WatchBuild, WatchRun,
       Restart, BuildReconcilerStep, ReconcileBuild, HandleUpdate, Dispatch,
       PersistStatus, Teardown, CleanupPrerequisites, RemoveFinalizer,
       BuildObserverStep, ObserveBuild, ApplyTriggers, ApplyRetry,
       ScanRuns, PatchRetry,
       BuildObserverFault, BuildRunObserverStep, WriteOutcome
  <2>2. bro'.contract \in old
    BY <2>1 DEF IdleBro
  <2> QED
    BY <1>2, <1>3, <1>4, <2>2
<1> QED
  BY <1>5, <1>6

\* LifeInv is inductive: a new first life starts with nothing, and in one that
\* goes on the cache follows the BuildRuns, so that what contracts tell stays true.
LEMMA LifeStep ==
    ASSUME TypeOK, OutcomeInv, ClockInv, LifeInv, [Next]_vars
    PROVE  LifeInv'
<1>1. CASE FirstLife' /\ spent.lives = 0 /\ CreateBuild
  <2>1. /\ build = NoBuild /\ cBuild = NoBuild
        /\ rec = IdleRec /\ obs = IdleObs /\ bro = IdleBro
        /\ \A r \in RunName : runs[r].state = "absent" /\ cRuns[r].state = "absent"
    BY <1>1 DEF LifeInv
  <2>2. build'.contract = NoContract
    BY <1>1 DEF CreateBuild, NoBuild
  <2>3. cBuild' = cBuild /\ rec' = rec /\ obs' = obs /\ bro' = bro
        /\ cRuns' = cRuns /\ runs' = runs /\ spent'.lives = 1
    BY <1>1 DEF CreateBuild, caches, passes, FirstLife
  <2>4. Faithful(NoContract, cRuns')
    BY DEF Faithful, NoContract
  <2>5. \A r \in RunName : Follows(cRuns'[r], runs'[r])
    BY <2>1, <2>3 DEF Follows
  <2> QED
    BY <2>1, <2>2, <2>3, <2>4, <2>5 DEF LifeInv, NoBuild, IdleRec, IdleObs, IdleBro
<1>2. CASE FirstLife' /\ FirstLife /\ (WriteOutcome \/ build'.contract = build.contract)
  <2> DEFINE old == {build.contract, cBuild.contract, obs.contract, bro.contract,
                     NoContract}
  <2>1. /\ \A r \in RunName : Follows(cRuns[r], runs[r])
        /\ \A c \in old : Faithful(c, cRuns)
        /\ bro.pc = "write" /\ build.contract.ref # NoRun =>
              runs[build.contract.ref].seq <= runs[bro.contract.ref].seq
    BY <1>2 DEF LifeInv, Faithful, NoContract
  <2>2. \A r \in RunName : Follows(runs[r], runs'[r])
    BY <1>2, RunsFollow, FirstLifePasses
  <2>3. \A r \in RunName : /\ Follows(cRuns'[r], runs'[r])
                           /\ Follows(cRuns[r], cRuns'[r])
    BY <2>1, <2>2, CacheSees DEF Follows
  <2>4. \A c : c.ref \in RunName \cup {NoRun} /\ Faithful(c, cRuns) => Faithful(c, cRuns')
    <3> TAKE c
    <3> SUFFICES ASSUME c.ref \in RunName, Faithful(c, cRuns) PROVE Faithful(c, cRuns')
      BY DEF Faithful
    <3>1. c.ref # NoRun
      BY RunIsNotNoRun
    <3>2. cRuns[c.ref].state \in Terminal /\ cRuns[c.ref].state # "absent"
      BY <3>1 DEF Faithful, Terminal, Succeeded
    <3>3. cRuns'[c.ref].state = cRuns[c.ref].state
      BY <2>3, <3>2 DEF Follows
    <3> QED
      BY <3>1, <3>3 DEF Faithful
  <2>5. \A c \in old : c.ref \in RunName \cup {NoRun}
    BY DEF TypeOK, BuildType, ObsType, BroType, ContractType, NoContract
  <2>6. /\ {build'.contract, cBuild'.contract, obs'.contract} \subseteq old
        /\ \/ bro'.contract \in old
           \/ cRuns' = cRuns /\ \E r \in RunName :
                 /\ cRuns[r].state \in Terminal
                 /\ bro'.contract = OutcomeContract(cBuild, r)
    BY <1>2, ContractsKept
  <2>7. \A c \in old : Faithful(c, cRuns')
    BY <2>1, <2>4, <2>5
  <2> HIDE DEF old
  <2>8. Faithful(bro'.contract, cRuns')
    <3>1. CASE bro'.contract \in old
      BY <2>7, <3>1 DEF Faithful
    <3>2. ASSUME NEW r \in RunName, cRuns' = cRuns, cRuns[r].state \in Terminal,
                 bro'.contract = OutcomeContract(cBuild, r)
          PROVE  Faithful(bro'.contract, cRuns')
      <4>1. bro'.contract.ref = r
            /\ bro'.contract.success = (cRuns[r].state \in Succeeded)
        BY <3>2 DEF OutcomeContract
      <4> QED
        BY <3>2, <4>1 DEF Faithful
    <3> QED
      BY <2>6, <3>1, <3>2
  <2>9. \A c \in {build'.contract, cBuild'.contract, obs'.contract, bro'.contract} :
           Faithful(c, cRuns')
    BY <2>6, <2>7, <2>8
  <2>10. bro'.pc = "write" /\ build'.contract.ref # NoRun =>
            runs'[build'.contract.ref].seq <= runs'[bro'.contract.ref].seq
    <3>1. SUFFICES ASSUME bro'.pc = "write", build'.contract.ref # NoRun
                   PROVE  runs'[build'.contract.ref].seq <= runs'[bro'.contract.ref].seq
      OBVIOUS
    <3>2. ~WriteOutcome /\ ~Restart
      BY <3>1 DEF WriteOutcome, Restart, IdleBro
    <3> DEFINE p == build.contract.ref
    <3>3. build'.contract.ref = p /\ p # NoRun /\ p \in RunName
      BY <1>2, <2>5, <3>1, <3>2 DEF old
    <3>4. cRuns[p].state \in Terminal /\ cRuns[p].state # "absent"
      BY <2>1, <3>3 DEF Faithful, old, Terminal, Succeeded
    <3> HIDE DEF p
    <3>5. /\ runs[p].state # "absent" /\ runs[p].seq = cRuns[p].seq
          /\ runs'[p].seq = runs[p].seq
      BY <2>1, <2>2, <3>3, <3>4 DEF Follows
    <3>6. CASE ObserveRun
      <4>1. PICK r \in broQ : /\ cRuns[r].state \in Terminal /\ ~Superseded(r)
                              /\ bro'.contract.ref = r
        <5>1. PICK r \in broQ :
                 \/ UNCHANGED bro
                 \/ /\ cRuns[r].state \in Terminal /\ ~Superseded(r)
                    /\ bro'.contract = OutcomeContract(cBuild, r)
          BY <3>6 DEF ObserveRun
        <5>2. bro.pc = "idle"
          BY <3>6 DEF ObserveRun
        <5> QED
          BY <3>1, <5>1, <5>2 DEF OutcomeContract
      <4>2. r \in RunName /\ cRuns[r].state # "absent"
        BY <4>1 DEF TypeOK, Terminal, Succeeded
      <4>3. runs[r].state # "absent" /\ runs[r].seq = cRuns[r].seq
            /\ runs'[r].seq = runs[r].seq
        BY <2>1, <2>2, <4>2 DEF Follows
      <4>4. ~(cRuns[p].created > cRuns[r].created)
        BY <3>3, <3>4, <4>1 DEF Superseded, RunsIn
      <4>5. cRuns[p].created = cRuns[p].seq /\ cRuns[r].created = cRuns[r].seq
            /\ cRuns[p].seq \in Nat /\ cRuns[r].seq \in Nat
        BY <3>3, <4>2 DEF ClockInv, TypeOK, RunType
      <4> QED
        BY <3>3, <3>5, <4>1, <4>3, <4>4, <4>5
    <3>7. CASE ~ObserveRun
      <4>1. bro' = bro
        BY <3>2, <3>7 DEF Next, Step, vars, passes, CreateBuild, DeleteBuild,
           EditSpec, ToggleEnvironment, Deliver, WriteSecret, FinishRun,
           WatchBuild, WatchRun, BuildReconcilerStep, ReconcileBuild,
           HandleUpdate, Dispatch, PersistStatus, Teardown, CleanupPrerequisites,
           RemoveFinalizer, BuildObserverStep, ObserveBuild, ApplyTriggers,
           ApplyRetry, ScanRuns, PatchRetry, BuildObserverFault, BuildRunObserverStep
      <4> DEFINE r == bro.contract.ref
      <4>2. r \in RunName /\ r # NoRun
        BY <3>1, <4>1, RunIsNotNoRun DEF TypeOK
      <4>3. cRuns[r].state \in Terminal /\ cRuns[r].state # "absent"
        BY <2>1, <4>2 DEF Faithful, old, Terminal, Succeeded
      <4>4. runs[r].state # "absent" /\ runs'[r].seq = runs[r].seq
        BY <2>1, <2>2, <4>2, <4>3 DEF Follows
      <4>5. runs[p].seq <= runs[r].seq
        BY <2>1, <3>1, <3>3, <4>1 DEF p
      <4> QED
        BY <3>3, <3>5, <4>1, <4>4, <4>5
    <3> QED
      BY <3>6, <3>7
  <2>11. spent'.lives # 0
    BY <1>2 DEF FirstLife
  <2> QED
    BY <1>2, <2>3, <2>9, <2>10, <2>11, FirstLifePasses DEF LifeInv
<1>3. CASE ~FirstLife'
  BY <1>3, NoLifeStep DEF LifeInv
<1> QED
  BY <1>1, <1>2, <1>3, FirstLifeStep

\* Both invariants hold from the start: there is no BuildRun and no Build.
LEMMA LifeInit == Init => ClockInv /\ LifeInv
BY DEF Init, ClockInv, LifeInv, FirstLife, RunsIn, AbsentRun

\* What a first life relies on holds throughout, with any cache lag.
LEMMA LifeInvariant ==
    ASSUME ~SameSecond
    PROVE  Spec => [](TypeOK /\ OutcomeInv /\ ClockInv /\ LifeInv)
<1>1. TypeOK /\ OutcomeInv /\ ClockInv /\ LifeInv /\ [Next]_vars => ClockInv' /\ LifeInv'
  BY ClockStep, LifeStep
<1>2. Init => OutcomeInv
  BY DEF Init, OutcomeInv, OneOutcome, NoBuild, NoContract, IdleRec
<1>3. TypeOK /\ OutcomeInv /\ [Next]_vars => OutcomeInv'
  BY OutcomeStep
<1> QED
  BY <1>1, <1>2, <1>3, LifeInit, TypeCorrect, PTL DEF Spec

-----------------------------------------------------------------------------
(* Outcomes, images and retries *)

\* A step that leaves a Build of the first life there is a step of a first life.
LEMMA SameFirstLife ==
    ASSUME TypeOK, OutcomeInv, [Next]_vars, SameBuild, spent.lives = 1
    PROVE  FirstLife
<1>1. ~CreateBuild
  BY DEF CreateBuild, SameBuild
<1>2. FirstLife'
  BY <1>1, LivesCount DEF FirstLife, SameBuild, Exists
<1> QED
  BY <1>1, <1>2, FirstLifeStep

\* The outcome a Build reports never goes back to an older BuildRun, in the first
\* life of its name and with any cache lag, if creation times tell BuildRuns
\* apart.
THEOREM OutcomesGoForward ==
    ASSUME ~SameSecond
    PROVE  Spec => OutcomeNeverRegresses
<1> DEFINE p == build.contract.ref
           q == build'.contract.ref
<1>1. ASSUME TypeOK, OutcomeInv, ClockInv, LifeInv, [Next]_vars,
             SameBuild, spent.lives = 1, p # q, Present(p)
      PROVE  Present(q) /\ runs[p].seq < runs[q].seq
  <2>1. FirstLife
    BY <1>1, SameFirstLife
  <2>2. WriteOutcome /\ build' # build
    <3>1. ~CreateBuild /\ build' # NoBuild
      BY <1>1 DEF CreateBuild, SameBuild, NoBuild, Exists
    <3>2. build'.contract # build.contract
      BY <1>1
    <3> QED
      BY <1>1, <3>1, <3>2, ContractWritten
  <2>3. bro.pc = "write" /\ q = bro.contract.ref
    BY <1>1, <2>2 DEF WriteOutcome, WriteReplacing, TypeOK, BuildType
  <2>4. p \in RunName /\ q \in RunName /\ p # NoRun /\ q # NoRun
    BY <1>1, <2>3, RunIsNotNoRun DEF Present, TypeOK, BuildType, ContractType
  <2>5. runs[p].seq <= runs[q].seq
    BY <1>1, <2>1, <2>3, <2>4 DEF LifeInv
  <2>6. cRuns[q].state # "absent"
    BY <1>1, <2>1, <2>3, <2>4 DEF LifeInv, Faithful, Terminal, Succeeded
  <2> HIDE DEF p, q
  <2>7. runs[q].state # "absent"
    BY <1>1, <2>1, <2>4, <2>6 DEF LifeInv, Follows
  <2>8. p \in RunsIn(runs) /\ q \in RunsIn(runs)
    BY <1>1, <2>4, <2>7 DEF RunsIn, Present
  <2>9. runs[p].seq # runs[q].seq /\ runs[p].seq \in Nat /\ runs[q].seq \in Nat
    BY <1>1, <2>4, <2>8 DEF ClockInv, TypeOK, RunType
  <2> QED
    BY <2>4, <2>5, <2>7, <2>9 DEF Present
<1>2. TypeOK /\ OutcomeInv /\ ClockInv /\ LifeInv /\ [Next]_vars =>
        [SameBuild /\ spent.lives = 1 /\ p # q /\ Present(p) =>
            Present(q) /\ runs[p].seq < runs[q].seq]_vars
  BY <1>1
<1> QED
  BY <1>2, LifeInvariant, PTL DEF Spec, OutcomeNeverRegresses

\* The image of a contract is that of the BuildRun it tells of, or of an earlier
\* one, and both have pushed it.
ImageOf(told, rs) ==
    /\ told.ref # NoRun /\ rs[told.ref].state = "pushed" => told.image = told.ref
    /\ told.image # NoRun =>
          /\ told.ref # NoRun
          /\ rs[told.image].state = "pushed"
          /\ rs[told.image].seq <= rs[told.ref].seq

\* Every contract in use tells of such an image, as far as the cache knows.
ImageInv ==
    FirstLife => \A told \in {build.contract, cBuild.contract, bro.contract} :
                    ImageOf(told, cRuns)

\* ImageInv is inductive: an outcome about to be written carries over the image of
\* a BuildRun that is no newer.
LEMMA ImageStep ==
    ASSUME TypeOK, TypeOK', OutcomeInv, ClockInv, LifeInv, ImageInv, [Next]_vars
    PROVE  ImageInv'
<1> SUFFICES ASSUME FirstLife' PROVE ImageInv'
  BY DEF ImageInv
<1>1. CASE spent.lives = 0 /\ CreateBuild
  <2>1. /\ build'.contract = NoContract /\ cBuild'.contract = NoContract
        /\ bro'.contract = NoContract
    BY <1>1 DEF LifeInv, CreateBuild, NoBuild, IdleBro, caches, passes
  <2> QED
    BY <2>1 DEF ImageInv, ImageOf, NoContract
<1>2. CASE FirstLife /\ (WriteOutcome \/ build'.contract = build.contract)
  <2> DEFINE kept == {build.contract, cBuild.contract, bro.contract, NoContract}
  <2>1. \A told \in kept : ImageOf(told, cRuns) /\ Faithful(told, cRuns)
    BY <1>2 DEF ImageInv, ImageOf, LifeInv, Faithful, NoContract
  <2>2. \A told \in kept : /\ told.ref \in RunName \cup {NoRun}
                           /\ told.image \in RunName \cup {NoRun}
    BY DEF TypeOK, BuildType, BroType, ContractType, NoContract
  <2>3. \A r \in RunName : Follows(cRuns[r], cRuns'[r])
    <3>1. \A r \in RunName : Follows(cRuns[r], runs[r])
      BY <1>2 DEF LifeInv
    <3> QED
      BY <3>1, CacheSees DEF Follows
  <2>4. ASSUME NEW told \in kept PROVE ImageOf(told, cRuns')
    <3>1. /\ ImageOf(told, cRuns) /\ Faithful(told, cRuns)
          /\ told.ref \in RunName \cup {NoRun} /\ told.image \in RunName \cup {NoRun}
      BY <2>1, <2>2
    <3> HIDE DEF kept
    <3>2. \A r \in RunName : cRuns[r].state \in Terminal =>
             cRuns'[r].state = cRuns[r].state /\ cRuns'[r].seq = cRuns[r].seq
      BY <2>3 DEF Follows, Terminal, Succeeded
    <3>3. told.ref # NoRun => cRuns[told.ref].state \in Terminal
      BY <3>1 DEF Faithful
    <3>4. told.image # NoRun => cRuns[told.image].state \in Terminal
      BY <3>1 DEF ImageOf, Terminal, Succeeded
    <3> QED
      BY <3>1, <3>2, <3>3, <3>4 DEF ImageOf
  <2>5. build'.contract \in kept /\ cBuild'.contract \in kept
    <3>1. build'.contract \in kept
      BY <1>2 DEF WriteOutcome, WriteReplacing, TypeOK, BuildType
    <3>2. cBuild' \in {cBuild, build}
      BY DEF Next, Step, vars, caches, CreateBuild, DeleteBuild, EditSpec,
         ToggleEnvironment, Deliver, WriteSecret, FinishRun, WatchBuild, WatchRun,
         Restart, BuildReconcilerStep, ReconcileBuild, HandleUpdate, Dispatch,
         PersistStatus, Teardown, CleanupPrerequisites, RemoveFinalizer,
         BuildObserverStep, ObserveBuild, ApplyTriggers, ApplyRetry, ScanRuns,
         PatchRetry, BuildObserverFault, BuildRunObserverStep, ObserveRun,
         WriteOutcome
    <3> QED
      BY <3>1, <3>2
  <2>6. ImageOf(bro'.contract, cRuns')
    <3>1. CASE bro' = bro \/ bro' = IdleBro
      BY <2>4, <3>1 DEF IdleBro
    <3>2. CASE ObserveRun
      <4>1. PICK r \in broQ :
               \/ bro' = bro
               \/ /\ cRuns[r].state \in Terminal /\ ~Superseded(r)
                  /\ bro'.contract = OutcomeContract(cBuild, r)
        BY <3>2 DEF ObserveRun
      <4>2. CASE bro' = bro
        BY <3>1, <4>2
      <4>3. CASE /\ cRuns[r].state \in Terminal /\ ~Superseded(r)
                 /\ bro'.contract = OutcomeContract(cBuild, r)
        <5> DEFINE told == cBuild.contract
        <5>1. /\ bro'.contract.ref = r
              /\ bro'.contract.image = IF cRuns[r].state = "pushed" THEN r ELSE told.image
          BY <4>3 DEF OutcomeContract, Image
        <5>2. r \in RunName /\ r # NoRun /\ cRuns' = cRuns
          BY <3>2, RunIsNotNoRun DEF TypeOK, ObserveRun, caches
        <5>3. told \in kept
          OBVIOUS
        <5>4. /\ ImageOf(told, cRuns)
              /\ told.ref \in RunName \cup {NoRun}
              /\ told.image \in RunName \cup {NoRun}
          BY <2>1, <2>2, <5>3
        <5> HIDE DEF told, kept
        <5>5. \A q \in RunName : /\ cRuns[q].created = cRuns[q].seq
                                 /\ cRuns[q].seq \in Nat
          BY DEF ClockInv, TypeOK, RunType
        <5>6. ASSUME told.image # NoRun
              PROVE  cRuns[told.image].state = "pushed"
                     /\ cRuns[told.image].seq <= cRuns[r].seq
          <6>1. told.image \in RunName /\ cRuns[told.image].state = "pushed"
            BY <5>4, <5>6 DEF ImageOf
          <6>2. ~(cRuns[told.image].created > cRuns[r].created)
            BY <4>3, <6>1 DEF Superseded, RunsIn
          <6> QED
            BY <5>2, <5>5, <6>1, <6>2
        <5>7. cRuns[r].seq <= cRuns[r].seq
          BY <5>2, <5>5
        <5> QED
          BY <5>1, <5>2, <5>6, <5>7 DEF ImageOf
      <4> QED
        BY <4>1, <4>2, <4>3
    <3>3. CASE ~ObserveRun
      <4>1. bro' = bro \/ bro' = IdleBro
        BY <3>3 DEF Next, Step, vars, passes, CreateBuild, DeleteBuild, EditSpec,
           ToggleEnvironment, Deliver, WriteSecret, FinishRun, WatchBuild,
           WatchRun, Restart, BuildReconcilerStep, ReconcileBuild, HandleUpdate,
           Dispatch, PersistStatus, Teardown, CleanupPrerequisites,
           RemoveFinalizer, BuildObserverStep, ObserveBuild, ApplyTriggers,
           ApplyRetry, ScanRuns, PatchRetry, BuildObserverFault,
           BuildRunObserverStep, WriteOutcome
      <4> QED
        BY <3>1, <4>1
    <3> QED
      BY <3>2, <3>3
  <2> QED
    BY <2>4, <2>5, <2>6 DEF ImageInv
<1> QED
  BY <1>1, <1>2, FirstLifeStep

\* In the first life of its name a Build's contract never names an image that its
\* BuildRun, or an earlier one, has not pushed, nor another one than its BuildRun
\* pushed; with any cache lag, if creation times tell BuildRuns apart.
THEOREM ImagesAreOfOutcomes ==
    ASSUME ~SameSecond
    PROVE  Spec => []ImageIsOfOutcome
<1>1. Init => ImageInv
  BY DEF Init, ImageInv, FirstLife
<1>2. TypeOK /\ TypeOK' /\ OutcomeInv /\ ClockInv /\ LifeInv /\ ImageInv /\ [Next]_vars
        => ImageInv'
  BY ImageStep
<1>3. ASSUME TypeOK, LifeInv, ImageInv
      PROVE  ImageIsOfOutcome
  <2> SUFFICES ASSUME FirstLife PROVE ImageIsOfOutcome
    BY DEF ImageIsOfOutcome
  <2> DEFINE told == build.contract
  <2>1. /\ ImageOf(told, cRuns) /\ Faithful(told, cRuns)
        /\ \A r \in RunName : Follows(cRuns[r], runs[r])
    BY <1>3 DEF ImageInv, LifeInv
  <2>2. told.ref \in RunName \cup {NoRun} /\ told.image \in RunName \cup {NoRun}
    BY <1>3 DEF TypeOK, BuildType, ContractType
  <2> HIDE DEF told
  <2>3. \A r \in RunName : cRuns[r].state \in Terminal =>
           runs[r].state = cRuns[r].state /\ runs[r].seq = cRuns[r].seq
    BY <2>1 DEF Follows, Terminal, Succeeded
  <2>4. told.ref # NoRun => cRuns[told.ref].state \in Terminal
    BY <2>1 DEF Faithful
  <2>5. told.image # NoRun => cRuns[told.image].state \in Terminal
    BY <2>1 DEF ImageOf, Terminal, Succeeded
  <2> QED
    BY <2>1, <2>2, <2>3, <2>4, <2>5 DEF ImageOf, ImageIsOfOutcome, told
<1> QED
  BY <1>1, <1>2, <1>3, LifeInvariant, TypeCorrect, PTL DEF Spec
=============================================================================
