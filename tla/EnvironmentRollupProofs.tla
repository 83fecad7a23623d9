------------------------ MODULE EnvironmentRollupProofs ------------------------
(***************************************************************************)
(* Theorems about the two controllers of an Environment, for any resources *)
(* and bounds, with and without cache lag.                                 *)
(***************************************************************************)
EXTENDS EnvironmentRollup, FiniteSetTheorems, TLAPS

\* A rolled-up status has a condition for what it found, and a phase.
LEMMA RollUpType ==
    ASSUME NEW s \in [Resources -> Existence]
    PROVE  RollUp(s) \in Conditions
<1> SUFFICES ASSUME NEW r \in Resources PROVE RollUp(s)[r] \in {"none", "False", "True"}
  BY DEF RollUp, Conditions
<1>1. s[r] \in {"absent", "pending", "ready"}
  BY DEF Existence
<1> QED
  BY <1>1 DEF RollUp

\* Every set of conditions gives a phase.
LEMMA PhaseType == \A conds : Phase(conds) \in Phases
BY DEF Phase, Phases

\* The constants the records start from have their types.
LEMMA Constants ==
    /\ NoStatus \in StatusType /\ NoEnv \in EnvType
    /\ IdleRec \in RecType /\ IdleObs \in ObsType
<1>1. NoStatus \in StatusType /\ NoStatus.conds \in Conditions
  BY DEF NoStatus, StatusType, Conditions, Phases
<1>2. NoEnv \in EnvType
  BY <1>1 DEF NoEnv, EnvType
<1> QED
  BY <1>1, <1>2 DEF IdleRec, RecType, IdleObs, ObsType

\* What a pass records has resources only, and its patch leaves a contract.
LEMMA References ==
    /\ \A refs \in SUBSET Resources : \A s :
          \A new \in Discovered(refs, s) : new \subseteq Resources
    /\ \A e \in EnvType, refs \in SUBSET Resources : \A base :
          Merged(e, base, refs) \subseteq Resources
<1>1. Units \subseteq Resources /\ Singular \subseteq Resources
  BY DEF Units, Singular
<1>2. \A refs \in SUBSET Resources : \A s :
         \A new \in Discovered(refs, s) : new \subseteq Resources
  BY <1>1 DEF Discovered, Additions
<1>3. ASSUME NEW e \in EnvType, NEW base, NEW refs \in SUBSET Resources
      PROVE  Merged(e, base, refs) \subseteq Resources
  <2>1. (refs \ base) \cap Singular \subseteq Resources
    BY <1>1
  <2>2. \A X : (e.refs \cap Singular) \ X \subseteq Resources
    BY <1>1
  <2>3. \A X : Units \cap X \subseteq Resources
    BY <1>1
  <2> QED
    BY <2>1, <2>2, <2>3 DEF Merged
<1> QED
  BY <1>2, <1>3

\* There is no Environment and no resource at the start.
LEMMA TypeInit == Init => TypeOK
<1> SUFFICES ASSUME Init PROVE TypeOK
  OBVIOUS
<1>1. state \in [Resources -> Existence] /\ cState \in [Resources -> Existence]
  BY DEF Init, Existence
<1>2. spent \in SpentType
  BY DEF Init, SpentType
<1> QED
  BY <1>1, <1>2, Constants DEF Init, TypeOK

\* A step that uses up a bound keeps the counters counters.
LEMMA SpentStep ==
    ASSUME spent \in SpentType,
           \/ UNCHANGED spent \/ Upset
           \/ spent' = [spent EXCEPT !.lives = @ + 1]
           \/ spent' = [spent EXCEPT !.changes = @ + 1]
           \/ spent' = [spent EXCEPT !.upsets = @ + 1, !.skips = @ + 1]
    PROVE  spent' \in SpentType
<1>1. CASE spent' = [spent EXCEPT !.upsets = @ + 1, !.skips = @ + 1]
  <2>1. /\ spent.upsets + 1 \in Nat /\ spent.skips + 1 \in Nat
        /\ spent.lives \in Nat /\ spent.changes \in Nat
    BY DEF SpentType
  <2>2. spent' = [lives |-> spent.lives, changes |-> spent.changes,
                  upsets |-> spent.upsets + 1, skips |-> spent.skips + 1]
    BY <1>1 DEF SpentType
  <2> QED
    BY <2>1, <2>2 DEF SpentType
<1>2. CASE ~(spent' = [spent EXCEPT !.upsets = @ + 1, !.skips = @ + 1])
  BY <1>2 DEF Upset, SpentType
<1> QED
  BY <1>1, <1>2

\* The user, the resources, the informers, a restart.
LEMMA TypeOutside ==
    ASSUME TypeOK,
           \/ CreateEnvironment \/ DeleteEnvironment \/ EditContract
           \/ ChangeResource \/ WatchEnvironment \/ WatchResource \/ Restart
    PROVE  TypeOK'
<1> USE Constants DEF TypeOK
<1>1. CASE CreateEnvironment
  <2>1. env' \in EnvType
    BY <1>1 DEF CreateEnvironment, EnvType, SpentType
  <2> QED
    BY <1>1, <2>1, SpentStep DEF CreateEnvironment
<1>2. CASE DeleteEnvironment
  BY <1>2, SpentStep DEF DeleteEnvironment
<1>3. CASE EditContract
  <2>1. env' \in EnvType
    <3>1. CASE env' = [env EXCEPT !.valid = ~@]
      BY <3>1 DEF EnvType
    <3>2. CASE \E r \in Resources \ env.refs : env' = [env EXCEPT !.refs = @ \cup {r}]
      BY <3>2 DEF EnvType
    <3> QED
      BY <1>3, <3>1, <3>2 DEF EditContract
  <2> QED
    BY <1>3, <2>1, SpentStep DEF EditContract
<1>4. CASE ChangeResource
  <2>1. state' \in [Resources -> Existence]
    BY <1>4 DEF ChangeResource
  <2> QED
    BY <1>4, <2>1, SpentStep DEF ChangeResource
<1>5. CASE WatchEnvironment
  <2>1. recQ' \in BOOLEAN /\ obsQ' \in BOOLEAN
    BY <1>5 DEF WatchEnvironment, WakesReconciler, WakesObserver, Exists
  <2> QED
    BY <1>5, <2>1 DEF WatchEnvironment
<1>6. CASE WatchResource
  <2>1. cState' \in [Resources -> Existence] /\ obsQ' \in BOOLEAN
    BY <1>6 DEF WatchResource, Exists
  <2> QED
    BY <1>6, <2>1 DEF WatchResource
<1>7. CASE Restart
  BY <1>7, SpentStep DEF Restart, Exists
<1> QED
  BY <1>1, <1>2, <1>3, <1>4, <1>5, <1>6, <1>7

\* A pass begins with what the cache shows, or some of it.
LEMMA RollupStarts ==
    ASSUME TypeOK, NEW s \in [Resources -> Existence], StartRollup(s)
    PROVE  obs' \in ObsType
<1>1. cEnv \in EnvType /\ cEnv.refs \in SUBSET Resources
  BY DEF TypeOK, EnvType
<1>2. PICK refs \in Discovered(cEnv.refs, s) :
         obs' = [pc |-> IF refs = cEnv.refs THEN "status" ELSE "spec",
                 base |-> cEnv, refs |-> refs, conds |-> RollUp(s)]
  BY DEF StartRollup
<1>3. refs \in SUBSET Resources /\ RollUp(s) \in Conditions
  BY <1>1, References, RollUpType
<1> QED
  BY <1>1, <1>2, <1>3 DEF ObsType

\* What a pass lists of resources are resources.
LEMMA ListedType ==
    ASSUME TypeOK, NEW k
    PROVE  Listed(k) \in [Resources -> Existence]
BY DEF Listed, TypeOK, Existence

\* The pass of the observer.
LEMMA TypeObserver ==
    ASSUME TypeOK, ObserverStep
    PROVE  TypeOK'
<1> USE Constants DEF TypeOK
<1>1. CASE ObserveEnvironment
  <2>1. obs' \in ObsType
    <3>1. CASE \E k \in Kinds : StartRollup(Listed(k))
      BY <3>1, RollupStarts, ListedType
    <3> QED
      BY <1>1, <3>1, RollupStarts DEF ObserveEnvironment
  <2>2. spent' \in SpentType
    BY <1>1, SpentStep DEF ObserveEnvironment
  <2> QED
    BY <1>1, <2>1, <2>2 DEF ObserveEnvironment
<1>2. CASE PatchContract
  <2>1. Merged(env, obs.base.refs, obs.refs) \subseteq Resources
    <3>1. obs.base.refs \in SUBSET Resources /\ obs.refs \in SUBSET Resources
      BY DEF ObsType, EnvType
    <3> QED
      BY <3>1, References
  <2>2. env' \in EnvType
    BY <1>2, <2>1 DEF PatchContract, EnvType
  <2>3. obs' \in ObsType /\ obsQ' \in BOOLEAN
    BY <1>2 DEF PatchContract, ObsError, ObsType
  <2> QED
    BY <1>2, <2>2, <2>3, SpentStep DEF PatchContract
<1>3. CASE Refetch
  <2>1. obs' \in ObsType /\ obsQ' \in BOOLEAN
    BY <1>3 DEF Refetch, ObsDone, ObsType
  <2> QED
    BY <1>3, <2>1 DEF Refetch
<1>4. CASE PatchStatus
  <2>1. ASSUME NEW s \in StatusPatch(env.status, obs.base.status, obs.conds)
        PROVE  s \in StatusType
    <3>1. env.status \in StatusType /\ obs.conds \in Conditions
      BY DEF EnvType, ObsType
    <3>2. Phase(obs.conds) \in Phases
      BY PhaseType
    <3> QED
      <4> DEFINE phase == IF obs.base.status.phase = Phase(obs.conds)
                          THEN env.status.phase ELSE Phase(obs.conds)
      <4>1. phase \in Phases
        BY <3>1, <3>2 DEF StatusType
      <4>2. s \in {[phase |-> phase, conds |-> obs.conds, own |-> FALSE],
                   [env.status EXCEPT !.phase = phase]}
        BY <2>1 DEF StatusPatch
      <4> HIDE DEF phase
      <4>3. [phase |-> phase, conds |-> obs.conds, own |-> FALSE] \in StatusType
        BY <3>1, <4>1 DEF StatusType
      <4>4. [env.status EXCEPT !.phase = phase] \in StatusType
        BY <3>1, <4>1 DEF StatusType
      <4> QED
        BY <4>2, <4>3, <4>4
  <2>2. env' \in EnvType
    BY <1>4, <2>1 DEF PatchStatus, EnvType
  <2>3. obs' \in ObsType /\ obsQ' \in BOOLEAN
    BY <1>4 DEF PatchStatus, ObsDone, ObsError
  <2> QED
    BY <1>4, <2>2, <2>3, SpentStep DEF PatchStatus
<1> QED
  BY <1>1, <1>2, <1>3, <1>4 DEF ObserverStep

\* The pass of the reconciler.
LEMMA TypeReconciler ==
    ASSUME TypeOK, ReconcilerStep
    PROVE  TypeOK'
<1> USE Constants DEF TypeOK
<1>1. CASE ReconcileEnvironment
  <2>1. [cEnv.status EXCEPT !.own = TRUE] \in StatusType
    BY DEF EnvType, StatusType
  <2>2. rec' \in RecType
    <3>1. CASE UNCHANGED rec
      BY <3>1
    <3>2. CASE rec' = [pc |-> "persist", status |-> [cEnv.status EXCEPT !.own = TRUE]]
      BY <2>1, <3>2 DEF RecType
    <3> QED
      BY <1>1, <3>1, <3>2 DEF ReconcileEnvironment
  <2> QED
    BY <1>1, <2>2 DEF ReconcileEnvironment
<1>2. CASE PersistStatus
  <2>1. env' \in EnvType
    BY <1>2 DEF PersistStatus, EnvType, RecType
  <2> QED
    BY <1>2, <2>1, SpentStep DEF PersistStatus
<1> QED
  BY <1>1, <1>2 DEF ReconcilerStep

\* Every variable keeps its type: what is rolled up, merged and patched from
\* different copies still is a status and a contract.
THEOREM EnvironmentTypeCorrect == Spec => []TypeOK
<1>1. TypeOK /\ [Next]_vars => TypeOK'
  <2> SUFFICES ASSUME TypeOK, [Next]_vars PROVE TypeOK'
    OBVIOUS
  <2>1. CASE UNCHANGED vars
    BY <2>1 DEF vars, TypeOK
  <2> QED
    BY <2>1, TypeOutside, TypeObserver, TypeReconciler DEF Next, Step
<1> QED
  BY <1>1, TypeInit, PTL DEF Spec

-----------------------------------------------------------------------------
(* What a pass discovers, and what its patches leave *)

\* What a pass records keeps what was there, and names what it found.
LEMMA DiscoveredFound ==
    ASSUME NEW refs, NEW s, NEW new \in Discovered(refs, s)
    PROVE  refs \subseteq new /\ Found(new, s)
<1>1. PICK a \in Additions(refs, s) : new = refs \cup a \cup (Units \cap Present(s))
  BY DEF Discovered
<1>2. ASSUME NEW r \in Watched \cap Present(s), r \notin Units
      PROVE  new \cap Of(KindOf[r]) # {}
  <2>1. r \in Resources /\ r \in Of(KindOf[r]) /\ KindOf[r] \in Kinds \ {"ServiceUnit"}
    BY <1>2, KindAssumption DEF Watched, Units, Of
  <2>2. CASE Of(KindOf[r]) \cap refs # {}
    BY <1>1, <2>2
  <2>3. CASE Of(KindOf[r]) \cap refs = {}
    <3>1. Cardinality(a \cap Of(KindOf[r])) = 1
      BY <1>2, <2>1, <2>3 DEF Additions
    <3>2. a \cap Of(KindOf[r]) # {}
      BY <3>1, FS_EmptySet
    <3> QED
      BY <1>1, <3>2
  <2> QED
    BY <2>2, <2>3
<1> QED
  BY <1>1, <1>2 DEF Found

\* The patch of a pass that found something new leaves something new.
LEMMA MergedGrows ==
    ASSUME NEW e, NEW base, NEW refs \in SUBSET Resources, base \subseteq refs, refs # base
    PROVE  ~(Merged(e, base, refs) \subseteq base)
<1>1. PICK r \in refs : r \notin base
  OBVIOUS
<1>2. CASE r \in Singular
  BY <1>1, <1>2 DEF Merged
<1>3. CASE r \in Units
  <2>1. Units \cap refs # Units \cap base
    BY <1>1, <1>3
  <2> QED
    BY <1>1, <1>3, <2>1 DEF Merged
<1> QED
  BY <1>2, <1>3 DEF Singular

\* A patch that leaves the status its pass started from had nothing to say.
LEMMA PatchedAlready ==
    ASSUME NEW status \in StatusType, NEW base \in StatusType, NEW conds,
           base \in StatusPatch(status, base, conds)
    PROVE  base.conds = conds /\ base.phase = Phase(conds)
<1> DEFINE phase    == IF base.phase = Phase(conds) THEN status.phase ELSE Phase(conds)
           listed   == [phase |-> phase, conds |-> conds, own |-> FALSE]
           unlisted == [status EXCEPT !.phase = phase]
<1>1. base = listed \/ (base = unlisted /\ base.conds = conds)
  BY DEF StatusPatch
<1>2. base.phase = phase /\ base.conds = conds
  <2>1. listed.phase = phase /\ listed.conds = conds /\ unlisted.phase = phase
    BY DEF StatusType
  <2> QED
    BY <1>1, <2>1
<1> QED
  BY <1>2

-----------------------------------------------------------------------------
(* The observer does not stop short *)

\* Is the cached Environment the one there is?
Same == env.uid = cEnv.uid

\* Environments are counted, and the cache shows none that is still to come; a
\* pass whose Environment is gone from the cache is followed by another.
CopyInv ==
    /\ cEnv.uid <= spent.lives /\ env.uid <= spent.lives
    /\ Exists(env) => env.uid >= cEnv.uid
    /\ obs.pc # "idle" /\ ~obsQ => Exists(cEnv)

\* A pass that no event overtook works on what the caches show.
PassInv ==
    ~obsQ /\ obs.pc # "idle" =>
        /\ obs.pc # "refetch" => obs.base = cEnv
        /\ obs.pc = "spec" => obs.refs # obs.base.refs /\ obs.base.refs \subseteq obs.refs
        /\ spent.skips = 0 => \A r \in Watched : obs.conds[r] = RollUp(cState)[r]

\* What the caches show is told, or an event that will show a newer status is on
\* its way: the status cannot become what the cache has again without a pass.
TellInv ==
    ~obsQ /\ obs.pc = "idle" /\ Exists(cEnv) =>
        Tells(cEnv.status, cState) \/ ~Same \/ env.status # cEnv.status

\* The same of the references, of which only a pass removes any.
FoundInv ==
    ~obsQ /\ obs.pc # "spec" /\ Exists(cEnv) /\ spent.skips = 0 =>
        Found(cEnv.refs, cState) \/ ~Same \/ ~(env.refs \subseteq cEnv.refs)

DoneInv == TypeOK /\ CopyInv /\ PassInv /\ TellInv /\ FoundInv

\* Nothing exists at the start.
LEMMA DoneInit == Init => DoneInv
BY TypeInit DEF Init, DoneInv, CopyInv, PassInv, TellInv, FoundInv, NoEnv, IdleObs, Exists

LEMMA DoneImplies == DoneInv => ObserverIsDone
BY DEF DoneInv, TellInv, FoundInv, ObserverIsDone, Same, Tells, IdleObs

\* A step that changes nothing that the observer knows, nor the status, and takes
\* no reference away.
LEMMA DoneFrame ==
    ASSUME DoneInv, TypeOK', CopyInv', cEnv' = cEnv, cState' = cState,
           obsQ' = obsQ, obs' = obs, spent'.skips = spent.skips,
           \/ env'.uid = env.uid /\ env'.status = env.status /\ env.refs \subseteq env'.refs
           \/ Exists(cEnv) => env'.uid # cEnv.uid
    PROVE  DoneInv'
<1>1. PassInv'
  BY DEF DoneInv, PassInv
<1>2. TellInv'
  BY DEF DoneInv, TellInv, Tells, Exists, Same
<1>3. FoundInv'
  BY DEF DoneInv, FoundInv, Found, Exists, Same
<1> QED
  BY <1>1, <1>2, <1>3 DEF DoneInv

\* A step after which the observer is queued.
LEMMA DoneQueued ==
    ASSUME TypeOK', CopyInv', obsQ' \/ (~Exists(cEnv') /\ obs'.pc = "idle")
    PROVE  DoneInv'
BY DEF DoneInv, PassInv, TellInv, FoundInv, Exists

\* The user and the resources.
LEMMA DoneUsers ==
    ASSUME DoneInv, TypeOK',
           CreateEnvironment \/ DeleteEnvironment \/ EditContract \/ ChangeResource
    PROVE  DoneInv'
<1>1. cEnv' = cEnv /\ cState' = cState /\ obsQ' = obsQ /\ obs' = obs
  BY DEF CreateEnvironment, DeleteEnvironment, EditContract, ChangeResource
<1>2. spent \in SpentType /\ env \in EnvType /\ cEnv \in EnvType
  BY DEF DoneInv, TypeOK
<1>3. CASE CreateEnvironment
  <2>1. env'.uid = spent.lives + 1 /\ spent'.lives = spent.lives + 1
        /\ spent'.skips = spent.skips
    BY <1>2, <1>3 DEF CreateEnvironment, NoEnv, SpentType
  <2>2. CopyInv' /\ env'.uid # cEnv.uid
    BY <1>1, <1>2, <2>1 DEF DoneInv, CopyInv, Exists, SpentType, EnvType
  <2> QED
    BY <1>1, <2>1, <2>2, DoneFrame
<1>4. CASE DeleteEnvironment
  <2>1. env'.uid = 0 /\ spent'.lives = spent.lives /\ spent'.skips = spent.skips
    BY <1>2, <1>4 DEF DeleteEnvironment, NoEnv, Upset, SpentType
  <2>2. CopyInv' /\ (Exists(cEnv) => env'.uid # cEnv.uid)
    BY <1>1, <1>2, <2>1 DEF DoneInv, CopyInv, Exists, SpentType, EnvType
  <2> QED
    BY <1>1, <2>1, <2>2, DoneFrame
<1>5. CASE EditContract \/ ChangeResource
  <2>1. /\ env'.uid = env.uid /\ env'.status = env.status /\ env.refs \subseteq env'.refs
        /\ spent'.lives = spent.lives /\ spent'.skips = spent.skips
    BY <1>2, <1>5 DEF EditContract, ChangeResource, Upset, SpentType, EnvType
  <2>2. CopyInv'
    BY <1>1, <2>1 DEF DoneInv, CopyInv, Exists
  <2> QED
    BY <1>1, <2>1, <2>2, DoneFrame
<1> QED
  BY <1>3, <1>4, <1>5

\* The informers and a restart: events of the Environment and of what is watched
\* queue the observer, and other events change nothing it tells of.
LEMMA DoneManager ==
    ASSUME DoneInv, TypeOK', WatchEnvironment \/ WatchResource \/ Restart
    PROVE  DoneInv'
<1>1. spent \in SpentType /\ env \in EnvType /\ cEnv \in EnvType
  BY DEF DoneInv, TypeOK
<1>2. CASE WatchEnvironment
  <2>1. obsQ' /\ cEnv' = env /\ env' = env /\ spent' = spent
    BY <1>2 DEF WatchEnvironment, WakesObserver
  <2>2. CopyInv'
    BY <1>1, <2>1 DEF DoneInv, CopyInv, Exists, SpentType, EnvType
  <2> QED
    BY <2>1, <2>2, DoneQueued
<1>3. CASE Restart
  <2>1. /\ obsQ' = Exists(env) /\ cEnv' = env /\ env' = env /\ spent'.lives = spent.lives
        /\ obs'.pc = "idle"
    BY <1>1, <1>3 DEF Restart, Upset, SpentType, IdleObs
  <2>2. CopyInv'
    BY <1>1, <2>1 DEF DoneInv, CopyInv, Exists, SpentType, EnvType
  <2> QED
    BY <2>1, <2>2, DoneQueued DEF Exists
<1>4. CASE WatchResource
  <2>1. PICK r \in Resources :
           /\ cState' = [cState EXCEPT ![r] = state[r]]
           /\ obsQ' = (obsQ \/ (KindOf[r] \in WatchedKinds /\ Exists(cEnv)))
    BY <1>4 DEF WatchResource
  <2>2. UNCHANGED <<env, cEnv, obs, spent>>
    BY <1>4 DEF WatchResource
  <2>3. CopyInv'
    BY <2>1, <2>2 DEF DoneInv, CopyInv, Exists
  <2>4. CASE KindOf[r] \in WatchedKinds
    <3>1. obsQ' \/ (~Exists(cEnv') /\ obs'.pc = "idle")
      BY <2>1, <2>2, <2>4 DEF DoneInv, CopyInv, Exists
    <3> QED
      BY <2>3, <3>1, DoneQueued
  <2>5. CASE KindOf[r] \notin WatchedKinds
    <3>1. \A x \in Watched : cState'[x] = cState[x]
      BY <2>1, <2>5 DEF Watched, DoneInv, TypeOK
    <3>2. \A x \in Watched : RollUp(cState')[x] = RollUp(cState)[x]
      <4> SUFFICES ASSUME NEW x \in Watched
                   PROVE  RollUp(cState')[x] = RollUp(cState)[x]
        OBVIOUS
      <4>1. x \in Resources /\ cState'[x] = cState[x]
        BY <3>1 DEF Watched
      <4>2. cState[x] \in {"absent", "pending", "ready"}
        BY <4>1 DEF DoneInv, TypeOK, Existence
      <4> QED
        BY <4>1, <4>2 DEF RollUp
    <3>3. Watched \cap Present(cState') = Watched \cap Present(cState)
      BY <3>1 DEF Present, Watched
    <3>4. obsQ' = obsQ
      BY <2>1, <2>5 DEF DoneInv, TypeOK
    <3>5. PassInv' /\ TellInv'
      BY <2>2, <3>2, <3>4 DEF DoneInv, PassInv, TellInv, Tells, Same, Exists
    <3>6. FoundInv'
      BY <2>2, <3>3, <3>4 DEF DoneInv, FoundInv, Found, Same, Exists
    <3> QED
      BY <2>3, <3>5, <3>6 DEF DoneInv
  <2> QED
    BY <2>4, <2>5
<1> QED
  BY <1>2, <1>3, <1>4

-----------------------------------------------------------------------------
(* A pass of the observer *)

\* A pass that lists every kind takes in what the caches show.
LEMMA DoneStarts ==
    ASSUME DoneInv, TypeOK', ObserveEnvironment
    PROVE  DoneInv'
<1>1. UNCHANGED <<env, cEnv, cState>> /\ obs.pc = "idle" /\ obsQ' = FALSE
  BY DEF ObserveEnvironment
<1>2. spent'.lives = spent.lives /\ spent.skips \in Nat
  BY DEF ObserveEnvironment, DoneInv, TypeOK, SpentType
<1>3. CASE ~Exists(cEnv)
  <2>1. obs' = obs
    BY <1>3 DEF ObserveEnvironment
  <2>2. CopyInv'
    BY <1>1, <1>2, <2>1 DEF DoneInv, CopyInv, Exists
  <2> QED
    BY <1>1, <1>3, <2>1, <2>2, DoneQueued DEF Exists
<1>4. ASSUME Exists(cEnv), NEW s, StartRollup(s), spent'.skips = 0 => s = cState
      PROVE  DoneInv'
  <2>1. PICK refs \in Discovered(cEnv.refs, s) :
           obs' = [pc |-> IF refs = cEnv.refs THEN "status" ELSE "spec",
                   base |-> cEnv, refs |-> refs, conds |-> RollUp(s)]
    BY <1>4 DEF StartRollup
  <2>2. obs'.pc \in {"spec", "status"} /\ (obs'.pc = "status" <=> refs = cEnv.refs)
        /\ obs'.base = cEnv /\ obs'.refs = refs /\ obs'.conds = RollUp(s)
    BY <2>1
  <2>3. CopyInv'
    BY <1>1, <1>2, <1>4 DEF DoneInv, CopyInv, Exists
  <2>4. PassInv'
    BY <1>1, <1>4, <2>2, DiscoveredFound DEF PassInv
  <2>5. TellInv'
    BY <2>2 DEF TellInv
  <2>6. FoundInv'
    BY <1>1, <1>4, <2>2, DiscoveredFound DEF FoundInv
  <2> QED
    BY <2>3, <2>4, <2>5, <2>6 DEF DoneInv
<1>5. CASE Exists(cEnv)
  <2>1. CASE StartRollup(cState)
    BY <1>4, <1>5, <2>1
  <2>2. ASSUME NEW k \in Kinds, StartRollup(Listed(k)),
               spent' = [spent EXCEPT !.upsets = @ + 1, !.skips = @ + 1]
        PROVE  DoneInv'
    <3>1. spent'.skips # 0
      BY <1>2, <2>2 DEF DoneInv, TypeOK, SpentType
    <3> QED
      BY <1>4, <1>5, <2>2, <3>1
  <2> QED
    BY <1>5, <2>1, <2>2 DEF ObserveEnvironment
<1> QED
  BY <1>3, <1>5

\* The contract: what the pass found is in it, and not in the cache yet.
LEMMA DonePatchContract ==
    ASSUME DoneInv, TypeOK', PatchContract
    PROVE  DoneInv'
<1>1. UNCHANGED <<cEnv, cState>> /\ obs.pc = "spec"
  BY DEF PatchContract
<1>2. env \in EnvType /\ spent \in SpentType /\ obs \in ObsType
  BY DEF DoneInv, TypeOK
<1>3. env'.uid = env.uid /\ env'.status = env.status
      /\ spent'.lives = spent.lives /\ spent'.skips = spent.skips
  BY <1>2 DEF PatchContract, EnvType, SpentType, Upset
<1>4. CASE obsQ'
  <2>1. CopyInv'
    BY <1>1, <1>3, <1>4 DEF DoneInv, CopyInv, Exists
  <2> QED
    BY <1>4, <2>1, DoneQueued
<1>5. CASE ~obsQ'
  <2>1. /\ env' = [env EXCEPT !.refs = Merged(env, obs.base.refs, obs.refs)]
        /\ obs' = [obs EXCEPT !.pc = "refetch"] /\ ~obsQ
    BY <1>5 DEF PatchContract, ObsError
  <2>2. obs'.pc = "refetch" /\ obs'.conds = obs.conds
    BY <1>2, <2>1 DEF ObsType
  <2>3. CopyInv'
    BY <1>1, <1>3, <2>1, <2>2 DEF DoneInv, CopyInv, Exists
  <2>4. PassInv' /\ TellInv'
    BY <1>1, <1>3, <2>1, <2>2 DEF DoneInv, PassInv, TellInv
  <2>5. ~(env'.refs \subseteq cEnv.refs)
    <3>1. obs.base = cEnv /\ obs.refs # cEnv.refs /\ cEnv.refs \subseteq obs.refs
      BY <1>1, <2>1 DEF DoneInv, PassInv
    <3>2. obs.refs \in SUBSET Resources
      BY <1>2 DEF ObsType
    <3> QED
      BY <1>2, <2>1, <3>1, <3>2, MergedGrows DEF EnvType
  <2>6. FoundInv'
    BY <1>1, <2>5 DEF FoundInv
  <2> QED
    BY <2>3, <2>4, <2>6 DEF DoneInv
<1> QED
  BY <1>4, <1>5

\* The copy that the status is compared with is the one in the cache.
LEMMA DoneRefetch ==
    ASSUME DoneInv, TypeOK', Refetch
    PROVE  DoneInv'
<1>1. UNCHANGED <<env, cEnv, cState, obsQ, spent>> /\ obs.pc = "refetch"
  BY DEF Refetch, ObsDone
<1>2. CASE ~Exists(cEnv)
  <2>1. obs'.pc = "idle"
    BY <1>2 DEF Refetch, ObsDone, IdleObs
  <2>2. CopyInv'
    BY <1>1, <2>1 DEF DoneInv, CopyInv, Exists
  <2> QED
    BY <1>1, <1>2, <2>1, <2>2, DoneQueued DEF Exists
<1>3. CASE Exists(cEnv)
  <2>1. obs'.pc = "status" /\ obs'.base = cEnv /\ obs'.conds = obs.conds
    BY <1>3 DEF Refetch, DoneInv, TypeOK, ObsType
  <2>2. CopyInv' /\ PassInv' /\ TellInv'
    BY <1>1, <1>3, <2>1 DEF DoneInv, CopyInv, PassInv, TellInv, Exists
  <2>3. FoundInv'
    BY <1>1, <2>1 DEF DoneInv, FoundInv, Same, Exists
  <2> QED
    BY <2>2, <2>3 DEF DoneInv
<1> QED
  BY <1>2, <1>3

\* The status: it differs from the one in the cache, or that one tells already.
LEMMA DonePatchStatus ==
    ASSUME DoneInv, TypeOK', PatchStatus
    PROVE  DoneInv'
<1>1. UNCHANGED <<cEnv, cState>> /\ obs.pc = "status" /\ obs'.pc = "idle"
  BY DEF PatchStatus, ObsDone, ObsError, IdleObs
<1>2. env \in EnvType /\ cEnv \in EnvType /\ spent \in SpentType
  BY DEF DoneInv, TypeOK
<1>3. env'.uid = env.uid /\ env'.refs = env.refs
      /\ spent'.lives = spent.lives /\ spent'.skips = spent.skips
  BY <1>2 DEF PatchStatus, EnvType, SpentType, Upset
<1>4. CopyInv'
  BY <1>1, <1>3 DEF DoneInv, CopyInv, Exists
<1>5. CASE obsQ'
  BY <1>4, <1>5, DoneQueued
<1>6. CASE ~obsQ'
  <2>1. ~obsQ /\ env'.status \in StatusPatch(env.status, obs.base.status, obs.conds)
    BY <1>2, <1>6 DEF PatchStatus, ObsError, ObsDone, EnvType
  <2>2. obs.base = cEnv
        /\ (spent.skips = 0 => \A r \in Watched : obs.conds[r] = RollUp(cState)[r])
    BY <1>1, <2>1 DEF DoneInv, PassInv
  <2>3. env'.status = cEnv.status => Tells(cEnv.status, cState)
    <3>1. env.status \in StatusType /\ cEnv.status \in StatusType
      BY <1>2 DEF EnvType
    <3> QED
      BY <2>1, <2>2, <3>1, PatchedAlready DEF Tells
  <2>4. TellInv'
    BY <1>1, <1>3, <2>3 DEF TellInv, Tells
  <2>5. FoundInv'
    BY <1>1, <1>3, <2>1 DEF DoneInv, FoundInv, Same, Exists
  <2> QED
    BY <1>1, <1>4, <2>4, <2>5 DEF DoneInv, PassInv
<1> QED
  BY <1>5, <1>6

-----------------------------------------------------------------------------
(* The reconciler, and the theorem *)

\* The status that the reconciler writes back is the one of its cached copy, or
\* comes as an event.
LEMMA DoneReconciler ==
    ASSUME DoneInv, TypeOK', ReconcilerStep
    PROVE  DoneInv'
<1>1. UNCHANGED <<cEnv, cState, obsQ, obs>>
  BY DEF ReconcilerStep, ReconcileEnvironment, PersistStatus
<1>2. env \in EnvType /\ spent \in SpentType
  BY DEF DoneInv, TypeOK
<1>3. env'.uid = env.uid /\ env'.refs = env.refs
      /\ spent'.lives = spent.lives /\ spent'.skips = spent.skips
  BY <1>2 DEF ReconcilerStep, ReconcileEnvironment, PersistStatus, EnvType, SpentType, Upset
<1>4. CopyInv'
  BY <1>1, <1>3 DEF DoneInv, CopyInv, Exists
<1>5. CASE env'.status = env.status
  BY <1>1, <1>3, <1>4, <1>5, DoneFrame
<1>6. CASE cEnv = env
  <2>1. PassInv'
    BY <1>1, <1>3 DEF DoneInv, PassInv
  <2>2. TellInv'
    BY <1>1, <1>3, <1>6 DEF DoneInv, TellInv, Tells, Same, Exists
  <2>3. FoundInv'
    BY <1>1, <1>3, <1>6 DEF DoneInv, FoundInv, Same, Exists
  <2> QED
    BY <1>4, <2>1, <2>2, <2>3 DEF DoneInv
<1> QED
  BY <1>5, <1>6 DEF ReconcilerStep, ReconcileEnvironment, PersistStatus

\* Whatever the two controllers write over each other, and however old the copies
\* are that their patches were made from: an observer that is done has told the
\* readiness of the resources and recorded them.
THEOREM ObserverAlwaysDone == Spec => []ObserverIsDone
<1>1. DoneInv /\ [Next]_vars => DoneInv'
  <2> SUFFICES ASSUME DoneInv, [Next]_vars PROVE DoneInv'
    OBVIOUS
  <2>1. TypeOK'
    <3>1. CASE UNCHANGED vars
      BY <3>1 DEF vars, TypeOK, DoneInv
    <3> QED
      BY <3>1, TypeOutside, TypeObserver, TypeReconciler DEF Next, Step, DoneInv
  <2>2. CASE UNCHANGED vars
    BY <2>1, <2>2 DEF vars, DoneInv, CopyInv, PassInv, TellInv, FoundInv, Same, Tells
  <2> QED
    BY <2>1, <2>2, DoneUsers, DoneManager, DoneStarts, DonePatchContract, DoneRefetch,
       DonePatchStatus, DoneReconciler DEF Next, Step, ObserverStep
<1> QED
  BY <1>1, DoneInit, DoneImplies, PTL DEF Spec
=============================================================================
