------------------------ MODULE ResourceLifecycleProofs ------------------------
(***************************************************************************)
(* Theorems about the lifecycle of every kind of object, for any bounds,   *)
(* with and without cache lag.                                             *)
(***************************************************************************)
EXTENDS ResourceLifecycle, TLAPS

-----------------------------------------------------------------------------
(* Types *)

\* The constants the records start from have their types.
LEMMA Constants == NoObj \in ObjType /\ IdleRec \in RecType /\ IdleObs \in ObsType
<1>1. NoObj \in ObjType
  BY DEF NoObj, ObjType, Results
<1> QED
  BY <1>1 DEF IdleRec, RecType, IdleObs, ObsType, Results

\* There is nothing to begin with.
LEMMA TypeInit == Init => TypeOK
<1> SUFFICES ASSUME Init PROVE TypeOK
  OBVIOUS
<1>1. obj \in ObjType /\ cObj \in ObjType /\ rec \in RecType /\ obs \in ObsType
  BY Constants DEF Init
<1>2. rec.pc = "idle" /\ spent \in SpentType
  BY DEF Init, IdleRec, SpentType
<1>3. prereqs \subseteq StageSet(kind)
  BY DEF Init
<1> QED
  BY <1>1, <1>2, <1>3 DEF Init, TypeOK

\* A step that uses up a bound keeps the counters counters.
LEMMA SpentStep ==
    ASSUME spent \in SpentType,
           \/ UNCHANGED spent \/ Upset
           \/ spent' = [spent EXCEPT !.lives = @ + 1]
           \/ spent' = [spent EXCEPT !.edits = @ + 1]
    PROVE  spent' \in SpentType
BY DEF Upset, SpentType

\* The user, the controllers of the service, the informer, a restart.
LEMMA TypeOutside ==
    ASSUME TypeOK,
           \/ CreateObject \/ DeleteObject \/ Edit \/ SettleService \/ DriftService
           \/ RemoveApp \/ WatchObject \/ Restart \/ NewImage
    PROVE  TypeOK'
<1> USE Constants DEF TypeOK
<1>1. CASE CreateObject
  <2>1. obj' \in ObjType
    BY <1>1 DEF CreateObject, ObjType, SpentType
  <2> QED
    BY <1>1, <2>1, SpentStep DEF CreateObject
<1>2. CASE DeleteObject
  <2>1. obj' \in ObjType
    BY <1>2 DEF DeleteObject, ObjType
  <2> QED
    BY <1>2, <2>1 DEF DeleteObject
<1>3. CASE Edit
  <2>1. obj' \in ObjType /\ env' \in BOOLEAN
    BY <1>3 DEF Edit, ObjType
  <2> QED
    BY <1>3, <2>1, SpentStep DEF Edit
<1>4. CASE SettleService \/ DriftService \/ RemoveApp
  BY <1>4, SpentStep DEF SettleService, DriftService, RemoveApp, SeenByObserver
<1>5. CASE WatchObject
  BY <1>5 DEF WatchObject, Wakes, Exists
<1>6. CASE Restart
  <2>1. recQ' \in BOOLEAN /\ obsQ' \in BOOLEAN
    BY <1>6 DEF Restart, Exists
  <2> QED
    BY <1>6, <2>1, SpentStep DEF Restart, IdleRec
<1>7. CASE NewImage
  BY <1>7, SpentStep DEF NewImage
<1> QED
  BY <1>1, <1>2, <1>3, <1>4, <1>5, <1>6, <1>7

\* The ends of a step of the reconciler.
LEMMA RecSteps ==
    ASSUME TypeOK,
           \/ RecDone \/ RecError
           \/ /\ rec.pc # "idle"
              /\ \E pc \in {"dispatch", "persist", "cleanup", "release"} : RecNext(pc)
    PROVE  /\ rec' \in RecType /\ recQ' \in BOOLEAN
           /\ rec'.pc # "idle" => rec'.copy.finalizer
BY Constants DEF TypeOK, RecDone, RecError, RecNext, RecType, IdleRec

\* The pass of the reconciler.
LEMMA TypeReconciler ==
    ASSUME TypeOK, ReconcilerStep
    PROVE  TypeOK'
<1> USE DEF TypeOK
<1>1. CASE ReconcileObject
  <2>1. obj' \in ObjType
    BY <1>1 DEF ReconcileObject, AddFinalizer, Read, ObjType
  <2>2. /\ rec' \in RecType /\ recQ' \in BOOLEAN
        /\ rec'.pc # "idle" => rec'.copy.finalizer
    <3>1. CASE rec' = rec
      BY <1>1, <3>1 DEF ReconcileObject, AddFinalizer, Read
    <3>2. CASE Read
      <4>1. /\ rec'.pc \in {"teardown", "update"} /\ rec'.copy = cObj
            /\ rec' = [pc |-> rec'.pc, copy |-> rec'.copy]
            /\ cObj.finalizer /\ recQ' = FALSE
        BY <3>2 DEF Read
      <4> QED
        BY <4>1 DEF RecType
    <3> QED
      BY <1>1, <3>1, <3>2 DEF ReconcileObject, AddFinalizer
  <2> QED
    BY <1>1, <2>1, <2>2 DEF ReconcileObject
<1>2. CASE HandleUpdate
  <2>1. prereqs' \subseteq StageSet(kind)
    BY <1>2 DEF HandleUpdate, Ensured, Declared
  <2> QED
    BY <1>2, <2>1, RecSteps, SpentStep DEF HandleUpdate
<1>3. CASE Dispatch
  <2>1. obj' \in ObjType
    BY <1>3 DEF Dispatch, ServiceSays, Requested, ObjType, Told, Results
  <2>2. service' \in {"none", "pending", "ready", "deleting"}
    BY <1>3 DEF Dispatch, Dispatched
  <2>3. RecError \/ \E pc \in {"dispatch", "persist", "cleanup", "release"} : RecNext(pc)
    BY <1>3 DEF Dispatch
  <2> QED
    BY <1>3, <2>1, <2>2, <2>3, RecSteps, SpentStep DEF Dispatch
<1>4. CASE PersistStatus
  <2>1. obj' \in ObjType
    BY <1>4 DEF PersistStatus, Persisted, ObjType, RecType
  <2> QED
    BY <1>4, <2>1, RecSteps DEF PersistStatus
<1>5. CASE Teardown
  <2>1. service' \in {"none", "pending", "ready", "deleting"}
    BY <1>5 DEF Teardown, AfterTeardown
  <2>2. RecError \/ \E pc \in {"dispatch", "persist", "cleanup", "release"} : RecNext(pc)
    BY <1>5 DEF Teardown
  <2> QED
    BY <1>5, <2>1, <2>2, RecSteps, SpentStep DEF Teardown
<1>6. CASE CleanupPrerequisites
  <2>1. prereqs' \subseteq StageSet(kind)
    BY <1>6 DEF CleanupPrerequisites
  <2> QED
    BY <1>6, <2>1, RecSteps, SpentStep DEF CleanupPrerequisites
<1>7. CASE RemoveFinalizer
  <2>1. obj' \in ObjType
    BY <1>7, Constants DEF RemoveFinalizer, Released, ObjType
  <2> QED
    BY <1>7, <2>1, RecSteps DEF RemoveFinalizer
<1> QED
  BY <1>1, <1>2, <1>3, <1>4, <1>5, <1>6, <1>7 DEF ReconcilerStep

\* The pass of the observer.
LEMMA TypeObserver ==
    ASSUME TypeOK, ObserverStep
    PROVE  TypeOK'
<1> USE Constants DEF TypeOK
<1>1. CASE ObserveService
  <2>1. Observed \in Results
    BY DEF Observed, Told, Results
  <2>2. obs' \in ObsType /\ obsQ' \in BOOLEAN
    <3>1. CASE UNCHANGED obs
      BY <1>1, <3>1 DEF ObserveService
    <3>2. CASE obs' = [pc |-> "write", copy |-> cObj, result |-> Observed]
      <4>1. obs' \in ObsType
        BY <2>1, <3>2 DEF ObsType
      <4> QED
        BY <1>1, <4>1 DEF ObserveService
    <3> QED
      BY <1>1, <3>1, <3>2 DEF ObserveService
  <2> QED
    BY <1>1, <2>2 DEF ObserveService
<1>2. CASE WriteResult
  <2>1. obj' \in ObjType
    BY <1>2 DEF WriteResult, ObjType, ObsType
  <2> QED
    BY <1>2, <2>1, SpentStep DEF WriteResult
<1> QED
  BY <1>1, <1>2 DEF ObserverStep

\* Every variable keeps its type, and a pass works on an object that carried
\* the finalizer when it was read.
THEOREM ResourceTypeCorrect == Spec => []TypeOK
<1>1. TypeOK /\ [Next]_vars => TypeOK'
  <2> SUFFICES ASSUME TypeOK, [Next]_vars PROVE TypeOK'
    OBVIOUS
  <2>1. CASE UNCHANGED vars
    BY <2>1 DEF vars, TypeOK
  <2> QED
    BY <2>1, TypeOutside, TypeReconciler, TypeObserver DEF Next, Step
<1> QED
  BY <1>1, TypeInit, PTL DEF Spec

-----------------------------------------------------------------------------
(* Services and their prerequisites *)

\* What every object of the kind is given, and no other relies on.
Core == StageSet(kind) \ (Optional \cup Shared)

\* A pass dispatches when the prerequisites are there, and takes them away when
\* the service is gone; that of a GitHubEvent never does.
PrerequisitesInv ==
    /\ ServiceHasPrerequisites
    /\ rec.pc = "dispatch" => Core \subseteq prereqs
    /\ rec.pc = "cleanup" /\ kind # "GitRepository" => service = "none"
    /\ rec.pc \in {"teardown", "cleanup"} => kind # "GitHubEvent"

\* PrerequisitesInv is inductive: services are created by passes that have
\* ensured every stage, and prerequisites go once the service has gone.
LEMMA PrerequisitesStep ==
    ASSUME TypeOK, PrerequisitesInv, [Next]_vars
    PROVE  PrerequisitesInv'
<1> USE DEF PrerequisitesInv, ServiceHasPrerequisites, Core
<1>1. kind' = kind
  BY DEF Next, Step, vars, CreateObject, DeleteObject, Edit, SettleService,
     DriftService, RemoveApp, WatchObject, Restart, NewImage, ReconcilerStep,
     ReconcileObject, HandleUpdate, Dispatch, PersistStatus, Teardown,
     CleanupPrerequisites, RemoveFinalizer, ObserverStep, ObserveService, WriteResult
<1> HIDE DEF PrerequisitesInv
<1>2. CASE rec' = rec /\ prereqs' = prereqs
           /\ (service' = service \/ service # "none")
           /\ (service' # service => rec.pc # "cleanup")
  BY <1>1, <1>2 DEF PrerequisitesInv
<1>3. CASE CreateObject \/ DeleteObject \/ Edit \/ WatchObject \/ NewImage
           \/ ObserverStep \/ UNCHANGED vars
  <2>1. rec' = rec /\ prereqs' = prereqs /\ service' = service
    BY <1>3 DEF CreateObject, DeleteObject, Edit, WatchObject, NewImage,
       ObserverStep, ObserveService, WriteResult, vars
  <2> QED
    BY <1>2, <2>1
<1>4. CASE SettleService \/ DriftService \/ RemoveApp
  <2>1. rec' = rec /\ prereqs' = prereqs /\ service # "none"
    BY <1>4 DEF SettleService, DriftService, RemoveApp
  <2> QED
    BY <1>1, <2>1, <1>4 DEF PrerequisitesInv, SettleService, DriftService, RemoveApp
<1>5. CASE Restart
  BY <1>1, <1>5 DEF PrerequisitesInv, Restart, IdleRec
<1>6. CASE ReconcileObject
  <2>1. prereqs' = prereqs /\ service' = service
    BY <1>6 DEF ReconcileObject
  <2>2. CASE rec' = rec
    BY <1>2, <2>1, <2>2
  <2>3. CASE Read
    BY <1>1, <2>1, <2>3 DEF PrerequisitesInv, Read, Deletes
  <2> QED
    BY <1>6, <2>2, <2>3 DEF ReconcileObject, AddFinalizer
<1>7. CASE HandleUpdate
  <2>1. prereqs \subseteq prereqs' /\ service' = service
    BY <1>7 DEF HandleUpdate
  <2>2. CASE rec' = IdleRec
    BY <1>1, <2>1, <2>2 DEF PrerequisitesInv, IdleRec
  <2>3. CASE RecNext("dispatch") /\ prereqs' = prereqs \cup Ensured(Len(Stages(kind)))
    <3>1. Ensured(Len(Stages(kind))) = Declared(rec.copy)
      BY DEF Ensured, Declared, StageSet
    <3>2. Core \subseteq prereqs'
      BY <2>3, <3>1 DEF Declared
    <3>3. rec'.pc = "dispatch"
      BY <2>3 DEF RecNext, TypeOK, RecType
    <3> QED
      BY <1>1, <2>1, <3>2, <3>3 DEF PrerequisitesInv
  <2> QED
    BY <1>7, <2>2, <2>3 DEF HandleUpdate, RecError
<1>8. CASE Dispatch
  <2>1. Core \subseteq prereqs' /\ prereqs' = prereqs
    BY <1>8 DEF PrerequisitesInv, Dispatch
  <2>2. rec'.pc \in {"idle", "persist", "release"}
    BY <1>8 DEF Dispatch, RecError, RecNext, IdleRec, TypeOK, RecType
  <2> QED
    BY <1>1, <2>1, <2>2 DEF PrerequisitesInv
<1>9. CASE PersistStatus \/ RemoveFinalizer
  <2>1. rec' = IdleRec /\ prereqs' = prereqs /\ service' = service
    BY <1>9 DEF PersistStatus, RemoveFinalizer, RecDone, RecError
  <2> QED
    BY <1>1, <2>1 DEF PrerequisitesInv, IdleRec
<1>10. CASE Teardown
  <2>1. prereqs' = prereqs /\ kind # "GitHubEvent"
    BY <1>10 DEF Teardown, PrerequisitesInv
  <2>2. service = "none" => service' = "none"
    BY <1>10 DEF Teardown, AfterTeardown
  <2>3. CASE rec' = IdleRec
    BY <1>1, <2>1, <2>2, <2>3 DEF PrerequisitesInv, IdleRec
  <2>4. CASE /\ ~InProgress /\ service' = AfterTeardown
             /\ RecNext(IF HasMediator(kind) THEN "cleanup" ELSE "release")
    <3>1. rec'.pc \in {"cleanup", "release"}
      BY <2>4 DEF RecNext, TypeOK, RecType
    <3>2. rec'.pc = "cleanup" /\ kind # "GitRepository" => service' = "none"
      <4>1. rec'.pc = "cleanup" => HasMediator(kind)
        BY <2>4 DEF RecNext, TypeOK, RecType
      <4>2. HasMediator(kind) /\ kind # "GitRepository" => kind \in TearsDown
        BY <2>1 DEF HasMediator, Stages, TearsDown
      <4> QED
        BY <2>4, <4>1, <4>2 DEF InProgress, AfterTeardown
    <3> QED
      BY <1>1, <2>1, <2>2, <3>1, <3>2 DEF PrerequisitesInv
  <2> QED
    BY <1>10, <2>3, <2>4 DEF Teardown, RecError
<1>11. CASE CleanupPrerequisites
  <2>1. service' = service /\ rec.pc = "cleanup"
    BY <1>11 DEF CleanupPrerequisites
  <2>2. rec'.pc \in {"idle", "release"}
    BY <1>11 DEF CleanupPrerequisites, RecError, RecNext, IdleRec, TypeOK, RecType
  <2> QED
    BY <1>1, <2>1, <2>2 DEF PrerequisitesInv
<1> QED
  BY <1>3, <1>4, <1>5, <1>6, <1>7, <1>8, <1>9, <1>10, <1>11
  DEF Next, Step, ReconcilerStep

\* What a service created stands on the prerequisites it was given, for every
\* kind but GitRepository, whatever fails, lags or is deleted.
THEOREM ServicesKeepPrerequisites == Spec => []ServiceHasPrerequisites
<1>1. Init => PrerequisitesInv
  BY DEF Init, PrerequisitesInv, ServiceHasPrerequisites, IdleRec
<1>2. TypeOK /\ PrerequisitesInv /\ [Next]_vars => PrerequisitesInv'
  BY PrerequisitesStep
<1>3. PrerequisitesInv => ServiceHasPrerequisites
  BY DEF PrerequisitesInv
<1> QED
  BY <1>1, <1>2, <1>3, ResourceTypeCorrect, PTL DEF Spec

-----------------------------------------------------------------------------
(* The finalizer *)

\* What the finalizer holds its object for, of what exists.
Owing == Owed \cap (prereqs \cup (IF service = "none" THEN {} ELSE {"service"}))

\* Nothing was edited: every copy of the contract says what was made.
Unedited ==
    spent.edits = 0 => \A o \in {obj, cObj, rec.copy} : o.valid /\ o.optional

(* Why the contract of the finalizer is kept.  What is owed exists under the
   finalizer only.  A copy with the finalizer that is not being deleted means
   that the object still has it; one being deleted means that no later object
   has got one.  The stages of a deletion leave nothing that is owed, as far as
   a contract that nobody edited says what was made. *)
FinalizerInv ==
    /\ obj.finalizer => Exists(obj)
    /\ ~obj.finalizer => Owing = {}
    /\ cObj.finalizer /\ ~cObj.deleting => obj.finalizer
    /\ cObj.deleting /\ obj.finalizer => obj.deleting
    /\ rec.pc # "idle" /\ ~rec.copy.deleting => obj.finalizer
    /\ rec.pc # "idle" /\ rec.copy.deleting /\ obj.finalizer => obj.deleting
    /\ rec.pc \in {"teardown", "cleanup", "release"} => rec.copy.deleting
    /\ rec.pc \in {"update", "dispatch"} /\ rec.copy.deleting => kind = "GitHubEvent"
    /\ rec.pc \in {"cleanup", "release"} =>
          service = "none" \/ kind \in {"GitRepository", "GitHubEvent"}
    /\ rec.pc = "cleanup" => rec.copy.valid \/ kind = "Package"
    /\ rec.pc = "release" => Owing = {}
    /\ Unedited

\* What no step changes, and that edits are counted.
LEMMA KindAndEdits ==
    ASSUME TypeOK, [Next]_vars
    PROVE  /\ kind' = kind
           /\ spent'.edits = spent.edits \/ (Edit /\ spent'.edits = spent.edits + 1)
<1> USE DEF TypeOK, SpentType
<1>1. CASE CreateObject \/ Edit
  BY <1>1 DEF CreateObject, Edit
<1>2. CASE UNCHANGED spent \/ Upset
  <2>1. spent'.edits = spent.edits
    BY <1>2 DEF Upset
  <2> QED
    BY <2>1 DEF Next, Step, vars, CreateObject, DeleteObject, Edit, SettleService,
       DriftService, RemoveApp, WatchObject, Restart, NewImage, ReconcilerStep,
       ReconcileObject, HandleUpdate, Dispatch, PersistStatus, Teardown,
       CleanupPrerequisites, RemoveFinalizer, ObserverStep, ObserveService, WriteResult
<1> QED
  BY <1>1, <1>2 DEF Next, Step, vars, DeleteObject, SettleService,
     DriftService, RemoveApp, WatchObject, Restart, NewImage, ReconcilerStep,
     ReconcileObject, HandleUpdate, Dispatch, PersistStatus, Teardown,
     CleanupPrerequisites, RemoveFinalizer, ObserverStep, ObserveService, WriteResult

\* An edit only makes the finalizer owe less.
LEMMA OwedShrinks ==
    ASSUME TypeOK, [Next]_vars
    PROVE  Owed' \subseteq Owed
<1>1. kind' = kind /\ spent.edits \in Nat
      /\ (spent'.edits = spent.edits \/ spent'.edits = spent.edits + 1)
  BY KindAndEdits DEF TypeOK, SpentType
<1>2. StageSet(kind)' = StageSet(kind)
  BY <1>1 DEF StageSet, Stages
<1>3. spent'.edits = 0 => spent.edits = 0
  BY <1>1
<1>4. CASE kind = "Package"
  BY <1>1, <1>2, <1>3, <1>4 DEF Owed
<1>5. CASE kind = "Deployment"
  BY <1>1, <1>2, <1>3, <1>5 DEF Owed
<1>6. CASE kind \notin {"Package", "Deployment"}
  BY <1>1, <1>6 DEF Owed
<1> QED
  BY <1>4, <1>5, <1>6

\* Nothing more is owed when neither prerequisites nor a service appear.
LEMMA OwingShrinks ==
    ASSUME TypeOK, [Next]_vars, prereqs' \subseteq prereqs,
           service = "none" => service' = "none"
    PROVE  Owing' \subseteq Owing
BY OwedShrinks DEF Owing

\* Contracts that nobody edited.
LEMMA UneditedStep ==
    ASSUME TypeOK, Unedited, [Next]_vars
    PROVE  Unedited'
<1> SUFFICES ASSUME spent'.edits = 0
             PROVE  \A o \in {obj', cObj', rec'.copy} : o.valid /\ o.optional
  BY DEF Unedited
<1>1. ~Edit /\ spent.edits = 0
  BY KindAndEdits DEF TypeOK, SpentType, Edit
<1>2. /\ obj.valid /\ obj.optional /\ cObj.valid /\ cObj.optional
      /\ rec.copy.valid /\ rec.copy.optional
  BY <1>1 DEF Unedited
<1>3. NoObj.valid /\ NoObj.optional /\ IdleRec.copy = NoObj
  BY DEF NoObj, IdleRec
<1>4. obj'.valid /\ obj'.optional
  <2>1. obj \in ObjType
    BY DEF TypeOK
  <2>2. CASE CreateObject \/ DeleteObject
    BY <1>2, <1>3, <2>1, <2>2 DEF CreateObject, DeleteObject, ObjType, NoObj
  <2>3. CASE ReconcileObject
    BY <1>2, <2>1, <2>3 DEF ReconcileObject, AddFinalizer, Read, ObjType
  <2>4. CASE Dispatch \/ WriteResult
    BY <1>2, <2>1, <2>4 DEF Dispatch, WriteResult, ObjType
  <2>5. CASE PersistStatus \/ RemoveFinalizer
    <3>1. Persisted.valid = obj.valid /\ Persisted.optional = obj.optional
      BY <2>1 DEF Persisted, ObjType
    <3>2. Released(obj) = NoObj \/ (Released(obj).valid = obj.valid
                                   /\ Released(obj).optional = obj.optional)
      BY <2>1 DEF Released, ObjType
    <3> QED
      BY <1>2, <1>3, <2>5, <3>1, <3>2 DEF PersistStatus, RemoveFinalizer
  <2>6. CASE obj' = obj
    BY <1>2, <2>6
  <2> QED
    BY <1>1, <2>2, <2>3, <2>4, <2>5, <2>6 DEF Next, Step, vars,
       SettleService, DriftService, RemoveApp, WatchObject, Restart, NewImage,
       ReconcilerStep, HandleUpdate, Teardown, CleanupPrerequisites,
       ObserverStep, ObserveService
<1>5. cObj'.valid /\ cObj'.optional
  BY <1>1, <1>2 DEF Next, Step, vars, CreateObject, DeleteObject,
       SettleService, DriftService, RemoveApp, WatchObject, Restart, NewImage,
       ReconcilerStep, ReconcileObject, HandleUpdate, Dispatch, PersistStatus,
       Teardown, CleanupPrerequisites, RemoveFinalizer, ObserverStep,
       ObserveService, WriteResult
<1>6. rec'.copy \in {rec.copy, cObj, NoObj}
  <2>1. rec \in RecType
    BY DEF TypeOK
  <2>2. CASE rec' \in {rec, IdleRec}
    BY <1>3, <2>2
  <2>3. CASE Read
    BY <2>3 DEF Read
  <2>4. CASE \E pc \in {"dispatch", "persist", "cleanup", "release"} : RecNext(pc)
    BY <2>1, <2>4 DEF RecNext, RecType
  <2>5. CASE HandleUpdate \/ Dispatch \/ Teardown \/ CleanupPrerequisites
    BY <2>2, <2>4, <2>5 DEF HandleUpdate, Dispatch, Teardown,
       CleanupPrerequisites, RecError
  <2>6. CASE ReconcileObject \/ PersistStatus \/ RemoveFinalizer
    BY <2>2, <2>3, <2>6 DEF ReconcileObject, AddFinalizer, PersistStatus,
       RemoveFinalizer, RecDone, RecError
  <2> QED
    BY <1>1, <2>2, <2>5, <2>6 DEF Next, Step, vars, CreateObject, DeleteObject,
       SettleService, DriftService, RemoveApp, WatchObject, Restart, NewImage,
       ReconcilerStep, ObserverStep, ObserveService, WriteResult
<1> QED
  BY <1>2, <1>3, <1>4, <1>5, <1>6

\* A step that leaves the object's lifecycle and the pass alone, or ends it,
\* and adds nothing that is owed.
LEMMA FinalizerFrame ==
    ASSUME TypeOK, FinalizerInv, [Next]_vars, cObj' = cObj,
           obj'.uid = obj.uid, obj'.finalizer = obj.finalizer,
           obj'.deleting = obj.deleting,
           rec' = rec \/ rec' = IdleRec,
           prereqs' \subseteq prereqs, service = "none" => service' = "none"
    PROVE  FinalizerInv'
<1>1. kind' = kind /\ Unedited' /\ Owing' \subseteq Owing
  BY KindAndEdits, UneditedStep, OwingShrinks DEF FinalizerInv
<1>2. IdleRec.pc = "idle"
  BY DEF IdleRec
<1> QED
  BY <1>1, <1>2 DEF FinalizerInv, Exists

\* The same while the object carries the finalizer, or none is owed anything.
LEMMA FinalizerProvision ==
    ASSUME TypeOK, FinalizerInv, [Next]_vars, cObj' = cObj,
           obj'.uid = obj.uid, obj'.finalizer = obj.finalizer,
           obj'.deleting = obj.deleting,
           rec.pc \in {"update", "dispatch"}, rec'.copy = rec.copy,
           rec'.pc \in {"dispatch", "persist"} \/ kind = "GitHubEvent",
           rec'.pc \in {"dispatch", "persist", "release"},
           rec'.pc = "dispatch" => rec.pc = "update",
           rec'.pc = "release" => rec.copy.deleting
    PROVE  FinalizerInv'
<1>1. kind' = kind /\ Unedited'
  BY KindAndEdits, UneditedStep DEF FinalizerInv
<1>2. kind = "GitHubEvent" => Owing' = {}
  BY <1>1 DEF Owing, Owed
<1>3. kind = "GitHubEvent" \/ obj.finalizer
  BY DEF FinalizerInv
<1> QED
  BY <1>1, <1>2, <1>3 DEF FinalizerInv, Exists

\* A pass through the stages of an update.
LEMMA FinalizerUpdate ==
    ASSUME TypeOK, FinalizerInv, [Next]_vars, HandleUpdate \/ Dispatch
    PROVE  FinalizerInv'
<1>1. /\ obj'.uid = obj.uid /\ obj'.finalizer = obj.finalizer
      /\ obj'.deleting = obj.deleting /\ cObj' = cObj
  <2>1. obj \in ObjType
    BY DEF TypeOK
  <2> QED
    BY <2>1 DEF HandleUpdate, Dispatch, ObjType
<1>2. rec.pc \in {"update", "dispatch"} /\ rec \in RecType
  BY DEF HandleUpdate, Dispatch, TypeOK
<1>3. CASE rec' = IdleRec
  <2>1. kind' = kind /\ Unedited'
    BY KindAndEdits, UneditedStep DEF FinalizerInv
  <2>2. kind = "GitHubEvent" => Owing' = {}
    BY <2>1 DEF Owing, Owed
  <2>3. kind = "GitHubEvent" \/ obj.finalizer
    BY <1>2 DEF FinalizerInv
  <2> QED
    BY <1>1, <1>3, <2>1, <2>2, <2>3 DEF FinalizerInv, Exists, IdleRec
<1>4. CASE rec' # IdleRec
  <2>1. CASE HandleUpdate
    <3>1. rec'.pc = "dispatch" /\ rec'.copy = rec.copy /\ rec.pc = "update"
      BY <1>2, <1>4, <2>1 DEF HandleUpdate, RecError, RecNext, RecType
    <3> QED
      BY <1>1, <3>1, FinalizerProvision
  <2>2. CASE Dispatch
    <3>1. /\ rec'.pc = (IF rec.copy.deleting THEN "release" ELSE "persist")
          /\ rec'.copy = rec.copy /\ rec.pc = "dispatch"
      BY <1>2, <1>4, <2>2 DEF Dispatch, RecError, RecNext, RecType
    <3>2. rec.copy.deleting => kind = "GitHubEvent"
      BY <3>1 DEF FinalizerInv
    <3> QED
      BY <1>1, <3>1, <3>2, FinalizerProvision
  <2> QED
    BY <2>1, <2>2
<1> QED
  BY <1>3, <1>4

\* What is provisioned for each kind.
LEMMA StageSets ==
    /\ StageSet("Package") = {"state credentials", "package credentials",
                              "service account", "deployer binding"}
    /\ StageSet("Deployment") = {"git ssh", "flux ssh", "manifests repository"}
    /\ StageSet("GitHubEvent") = {"webhook secret"}
    /\ StageSet("GitRepository") = {"provider credentials", "provider config", "hook url"}
    /\ StageSet("Route") = {} /\ StageSet("Domain") = {}
<1>1. /\ Stages("Package") = PackageStages /\ Stages("Deployment") = DeploymentStages
      /\ Stages("GitHubEvent") = GitHubEventStages
      /\ Stages("GitRepository") = GitRepositoryStages
      /\ Stages("Route") = << >> /\ Stages("Domain") = << >>
  BY DEF Stages
<1>2. 1 .. 4 = {1, 2, 3, 4} /\ 1 .. 3 = {1, 2, 3} /\ 1 .. 1 = {1} /\ 1 .. 0 = {}
  OBVIOUS
<1>3. /\ Len(PackageStages) = 4 /\ Len(DeploymentStages) = 3
      /\ Len(GitHubEventStages) = 1 /\ Len(GitRepositoryStages) = 3
  BY DEF PackageStages, DeploymentStages, GitHubEventStages, GitRepositoryStages
<1>4. StageSet("Package") = {PackageStages[i] : i \in {1, 2, 3, 4}}
  BY <1>1, <1>2, <1>3 DEF StageSet
<1>5. StageSet("Deployment") = {DeploymentStages[i] : i \in {1, 2, 3}}
  BY <1>1, <1>2, <1>3 DEF StageSet
<1>6. StageSet("GitHubEvent") = {GitHubEventStages[i] : i \in {1}}
  BY <1>1, <1>2, <1>3 DEF StageSet
<1>7. StageSet("GitRepository") = {GitRepositoryStages[i] : i \in {1, 2, 3}}
  BY <1>1, <1>2, <1>3 DEF StageSet
<1>8. StageSet("Route") = {} /\ StageSet("Domain") = {}
  BY <1>1, <1>2 DEF StageSet
<1>9. \A f : /\ {f[i] : i \in {1}} = {f[1]}
            /\ {f[i] : i \in {1, 2, 3}} = {f[1], f[2], f[3]}
            /\ {f[i] : i \in {1, 2, 3, 4}} = {f[1], f[2], f[3], f[4]}
  OBVIOUS
<1>10. /\ PackageStages[1] = "state credentials"
       /\ PackageStages[2] = "package credentials"
       /\ PackageStages[3] = "service account"
       /\ PackageStages[4] = "deployer binding"
  BY DEF PackageStages
<1>11. /\ DeploymentStages[1] = "git ssh" /\ DeploymentStages[2] = "flux ssh"
       /\ DeploymentStages[3] = "manifests repository"
       /\ GitHubEventStages[1] = "webhook secret"
  BY DEF DeploymentStages, GitHubEventStages
<1>12. /\ GitRepositoryStages[1] = "provider credentials"
       /\ GitRepositoryStages[2] = "provider config"
       /\ GitRepositoryStages[3] = "hook url"
  BY DEF GitRepositoryStages
<1>13. StageSet("Package") = {"state credentials", "package credentials",
                              "service account", "deployer binding"}
  BY <1>4, <1>9, <1>10
<1>14. /\ StageSet("Deployment") = {"git ssh", "flux ssh", "manifests repository"}
       /\ StageSet("GitHubEvent") = {"webhook secret"}
  BY <1>5, <1>6, <1>9, <1>11
<1>15. StageSet("GitRepository") = {"provider credentials", "provider config", "hook url"}
  BY <1>7, <1>9, <1>12
<1> QED
  BY <1>8, <1>13, <1>14, <1>15

\* A pass through the stages of a deletion: teardown, then cleanup.
LEMMA FinalizerTeardown ==
    ASSUME TypeOK, FinalizerInv, [Next]_vars, Teardown
    PROVE  FinalizerInv'
<1>1. /\ obj' = obj /\ cObj' = cObj /\ prereqs' = prereqs
      /\ kind' = kind /\ Unedited' /\ rec \in RecType /\ rec.pc = "teardown"
  BY KindAndEdits, UneditedStep DEF FinalizerInv, Teardown, TypeOK
<1>2. service = "none" => service' = "none"
  BY DEF Teardown, AfterTeardown
<1>3. Owing' \subseteq Owing
  BY <1>1, <1>2, OwingShrinks
<1>4. CASE rec' = IdleRec
  BY <1>1, <1>2, <1>4, FinalizerFrame
<1>5. CASE rec' # IdleRec
  <2>1. /\ MayTearDown /\ ~InProgress /\ service' = AfterTeardown
        /\ rec' = [rec EXCEPT !.pc = IF HasMediator(kind) THEN "cleanup" ELSE "release"]
    BY <1>5 DEF Teardown, RecError, RecNext
  <2>2. /\ rec'.copy = rec.copy
        /\ rec'.pc = (IF HasMediator(kind) THEN "cleanup" ELSE "release")
    BY <1>1, <2>1 DEF RecType
  <2>3. service' = "none" \/ kind \in {"GitRepository", "GitHubEvent"}
    BY <2>1, KindsAssumption DEF AfterTeardown, InProgress, TearsDown, AllKinds, TypeOK
  <2>4. rec.copy.valid \/ kind = "Package"
    BY <2>1 DEF MayTearDown, Resolves
  <2>5. rec'.pc = "release" => Owing' = {}
    <3>1. HasMediator(kind) \/ kind \in {"Route", "Domain"}
      BY KindsAssumption DEF AllKinds, TypeOK, HasMediator, Stages, PackageStages,
         DeploymentStages, GitHubEventStages, GitRepositoryStages
    <3>2. CASE kind \in {"Route", "Domain"}
      <4>1. Owed' = {"service"} /\ StageSet(kind) = {}
        BY <1>1, <3>2, StageSets DEF Owed
      <4> QED
        BY <1>1, <2>3, <3>2, <4>1 DEF Owing, TypeOK
    <3> QED
      BY <2>2, <3>1, <3>2
  <2>6. rec.copy.deleting
    BY <1>1 DEF FinalizerInv
  <2>7. rec'.pc \in {"cleanup", "release"}
    BY <2>2
  <2> HIDE DEF MayTearDown, InProgress, AfterTeardown
  <2> QED
    BY <1>1, <1>3, <2>2, <2>3, <2>4, <2>5, <2>6, <2>7 DEF FinalizerInv, Exists
<1> QED
  BY <1>4, <1>5

\* What is left after a cleanup is owed to nobody.
LEMMA CleanedUp ==
    ASSUME TypeOK, FinalizerInv, rec.pc = "cleanup",
           \/ ~Resolves /\ prereqs' = prereqs
           \/ Resolves /\ prereqs' = prereqs \ Owned
    PROVE  Owed \cap prereqs' = {}
<1>1. kind \in AllKinds /\ "service" \notin prereqs
  <2>1. kind \in AllKinds /\ prereqs \subseteq StageSet(kind)
    BY KindsAssumption DEF TypeOK
  <2>2. \A k \in AllKinds : "service" \notin StageSet(k)
    <3> SUFFICES ASSUME NEW k \in AllKinds PROVE "service" \notin StageSet(k)
      OBVIOUS
    <3>1. CASE k = "Package"
      BY <3>1, StageSets
    <3>2. CASE k = "Deployment"
      BY <3>2, StageSets
    <3>3. CASE k = "GitHubEvent"
      BY <3>3, StageSets
    <3>4. CASE k = "GitRepository"
      BY <3>4, StageSets
    <3>5. CASE k = "Route" \/ k = "Domain"
      BY <3>5, StageSets
    <3> QED
      BY <3>1, <3>2, <3>3, <3>4, <3>5 DEF AllKinds
  <2> QED
    BY <2>1, <2>2
<1>2. prereqs' \subseteq StageSet(kind)
  BY DEF TypeOK
<1>3. spent.edits = 0 => rec.copy.valid /\ rec.copy.optional
  BY DEF FinalizerInv, Unedited
<1>4. CASE kind = "Package"
  <2>1. "service" \notin prereqs'
    BY <1>1
  <2>2. CASE spent.edits = 0
    <3>1. Owned = StageSet(kind)
      BY <1>3, <1>4, <2>2, StageSets DEF Owned, Declared, Shared
    <3> QED
      BY <1>2, <1>3, <2>1, <2>2, <3>1 DEF Resolves
  <2>3. CASE spent.edits # 0
    BY <1>4, <2>1, <2>3 DEF Owed
  <2> QED
    BY <2>2, <2>3
<1>5. CASE kind = "Deployment"
  <2>1. "service" \notin prereqs' /\ Resolves
    BY <1>1, <1>5 DEF FinalizerInv, Resolves
  <2>2. "flux ssh" \in Owned
    BY <1>5, StageSets DEF Owned, Declared, Shared, Optional
  <2>3. CASE spent.edits = 0
    <3>1. Owned = StageSet(kind)
      BY <1>3, <1>5, <2>3, StageSets DEF Owned, Declared, Shared
    <3>2. prereqs' = {}
      BY <1>2, <2>1, <3>1
    <3> QED
      BY <3>2
  <2>4. CASE spent.edits # 0
    BY <1>5, <2>1, <2>2, <2>4 DEF Owed
  <2> QED
    BY <2>3, <2>4
<1>6. CASE kind = "GitRepository"
  <2>1. Resolves
    BY <1>6 DEF FinalizerInv, Resolves
  <2>2. "hook url" \in Owned
    BY <1>6, StageSets DEF Owned, Declared, Shared, Optional
  <2> QED
    BY <1>6, <2>1, <2>2 DEF Owed
<1>7. CASE kind \in {"GitHubEvent", "Route", "Domain"}
  BY <1>1, <1>7 DEF Owed
<1> QED
  BY <1>1, <1>4, <1>5, <1>6, <1>7 DEF AllKinds

\* The last stage of a deletion: what it leaves behind is not owed.
LEMMA FinalizerCleanup ==
    ASSUME TypeOK, FinalizerInv, [Next]_vars, CleanupPrerequisites
    PROVE  FinalizerInv'
<1>1. /\ obj' = obj /\ cObj' = cObj /\ service' = service /\ prereqs' \subseteq prereqs
      /\ kind' = kind /\ Unedited' /\ rec \in RecType /\ rec.pc = "cleanup"
  BY KindAndEdits, UneditedStep DEF FinalizerInv, CleanupPrerequisites, TypeOK
<1>2. CASE rec' = IdleRec
  BY <1>1, <1>2, FinalizerFrame
<1>3. CASE rec' # IdleRec
  <2>1. /\ rec' = [rec EXCEPT !.pc = "release"]
        /\ \/ ~Resolves /\ prereqs' = prereqs
           \/ Resolves /\ prereqs' = prereqs \ Owned
    BY <1>3 DEF CleanupPrerequisites, RecError, RecNext
  <2>2. rec'.pc = "release" /\ rec'.copy = rec.copy
    BY <1>1, <2>1 DEF RecType
  <2>3. Owed \cap prereqs' = {}
    BY <1>1, <2>1, CleanedUp
  <2>4. "service" \in Owed => service = "none"
    BY <1>1 DEF FinalizerInv, Owed
  <2>5. Owing' = {}
    BY <1>1, <2>3, <2>4, OwedShrinks DEF Owing
  <2> QED
    BY <1>1, <2>2, <2>5 DEF FinalizerInv, Exists
<1> QED
  BY <1>2, <1>3

\* A pass begins, and gives the object its finalizer.
LEMMA FinalizerRead ==
    ASSUME TypeOK, FinalizerInv, [Next]_vars, ReconcileObject
    PROVE  FinalizerInv'
<1>1. /\ cObj' = cObj /\ prereqs' = prereqs /\ service' = service
      /\ kind' = kind /\ Unedited' /\ obj \in ObjType /\ cObj \in ObjType
      /\ rec.pc = "idle" /\ Owing' \subseteq Owing
  BY KindAndEdits, UneditedStep, OwingShrinks DEF FinalizerInv, ReconcileObject, TypeOK
<1>2. CASE obj' = obj /\ rec' = rec
  BY <1>1, <1>2, FinalizerFrame
<1>3. CASE /\ ~Nothing(cObj) /\ ~cObj.finalizer /\ cObj = obj /\ rec' = rec
           /\ obj' = [obj EXCEPT !.finalizer = TRUE]
  <2>1. obj'.finalizer /\ obj'.uid = obj.uid /\ obj'.deleting = obj.deleting
    BY <1>1, <1>3 DEF ObjType
  <2>2. Exists(obj) /\ ~cObj.deleting
    BY <1>1, <1>3 DEF Nothing, ObjType
  <2> QED
    BY <1>1, <1>3, <2>1, <2>2 DEF FinalizerInv, Exists
<1>4. CASE Read
  <2>1. /\ rec'.copy = cObj /\ cObj.finalizer /\ obj' = obj
        /\ rec'.pc = (IF Deletes(kind, cObj) THEN "teardown" ELSE "update")
    BY <1>4 DEF Read
  <2>2. rec'.pc \in {"teardown", "update"}
    BY <2>1
  <2>3. rec'.pc = "teardown" => cObj.deleting
    BY <2>1 DEF Deletes
  <2>4. rec'.pc = "update" /\ cObj.deleting => kind = "GitHubEvent"
    BY <2>1 DEF Deletes
  <2> QED
    BY <1>1, <2>1, <2>2, <2>3, <2>4 DEF FinalizerInv, Exists
<1> QED
  BY <1>2, <1>3, <1>4 DEF ReconcileObject, AddFinalizer

\* The finalizer goes only with an object that is being deleted.
LEMMA FinalizerRelease ==
    ASSUME TypeOK, FinalizerInv, [Next]_vars, RemoveFinalizer
    PROVE  FinalizerInv'
<1>1. /\ cObj' = cObj /\ prereqs' = prereqs /\ service' = service
      /\ kind' = kind /\ Unedited' /\ obj \in ObjType /\ rec.pc = "release"
      /\ rec' = IdleRec /\ Owing' \subseteq Owing
  BY KindAndEdits, UneditedStep, OwingShrinks
  DEF FinalizerInv, RemoveFinalizer, RecDone, RecError, TypeOK
<1>2. CASE obj' = obj
  BY <1>1, <1>2, FinalizerFrame
<1>3. CASE cObj = obj /\ obj' = Released(obj)
  <2>1. Owing' = {} /\ (obj.finalizer => obj.deleting)
    BY <1>1 DEF FinalizerInv
  <2>2. CASE obj.deleting
    <3>1. obj' = NoObj
      BY <1>3, <2>2 DEF Released
    <3> QED
      BY <1>1, <1>3, <2>1, <2>2, <3>1 DEF FinalizerInv, NoObj, IdleRec
  <2>3. CASE ~obj.deleting
    <3>1. obj'.finalizer = obj.finalizer /\ obj'.uid = obj.uid
          /\ obj'.deleting = obj.deleting
      BY <1>1, <1>3, <2>1, <2>3 DEF Released, ObjType
    <3> QED
      BY <1>1, <3>1, FinalizerFrame
  <2> QED
    BY <2>2, <2>3
<1> QED
  BY <1>2, <1>3 DEF RemoveFinalizer

\* The user, the informer, a restart.
LEMMA FinalizerOutside ==
    ASSUME TypeOK, FinalizerInv, [Next]_vars,
           CreateObject \/ DeleteObject \/ WatchObject \/ Restart
    PROVE  FinalizerInv'
<1>1. /\ prereqs' = prereqs /\ service' = service /\ obj \in ObjType
      /\ kind' = kind /\ Unedited' /\ Owing' \subseteq Owing
  BY KindAndEdits, UneditedStep, OwingShrinks
  DEF FinalizerInv, CreateObject, DeleteObject, WatchObject, Restart, TypeOK
<1>2. CASE CreateObject
  <2>1. ~obj.finalizer /\ ~obj'.finalizer /\ cObj' = cObj /\ rec' = rec
    BY <1>2 DEF CreateObject, FinalizerInv, NoObj
  <2> QED
    BY <1>1, <2>1 DEF FinalizerInv
<1>3. CASE DeleteObject
  <2>1. CASE obj.finalizer
    <3>1. /\ obj'.finalizer /\ obj'.deleting /\ obj'.uid = obj.uid
          /\ cObj' = cObj /\ rec' = rec
      BY <1>1, <1>3, <2>1 DEF DeleteObject, ObjType
    <3> QED
      BY <1>1, <2>1, <3>1 DEF FinalizerInv, Exists
  <2>2. CASE ~obj.finalizer
    <3>1. ~obj'.finalizer /\ cObj' = cObj /\ rec' = rec
      BY <1>3, <2>2 DEF DeleteObject, NoObj
    <3> QED
      BY <1>1, <2>2, <3>1 DEF FinalizerInv
  <2> QED
    BY <2>1, <2>2
<1>4. CASE WatchObject
  <2>1. obj' = obj /\ cObj' = obj /\ rec' = rec
    BY <1>4 DEF WatchObject
  <2> QED
    BY <1>1, <2>1 DEF FinalizerInv, Exists
<1>5. CASE Restart
  <2>1. obj' = obj /\ cObj' = obj /\ rec' = IdleRec
    BY <1>5 DEF Restart
  <2> QED
    BY <1>1, <2>1 DEF FinalizerInv, Exists, IdleRec
<1> QED
  BY <1>2, <1>3, <1>4, <1>5

\* FinalizerInv is inductive, given the types.
LEMMA FinalizerStep ==
    ASSUME TypeOK, FinalizerInv, [Next]_vars
    PROVE  FinalizerInv'
<1>1. obj \in ObjType
  BY DEF TypeOK
<1>2. CASE UNCHANGED vars \/ SettleService \/ DriftService \/ RemoveApp \/ NewImage
           \/ ObserveService
  BY <1>2, FinalizerFrame DEF vars, SettleService, DriftService, RemoveApp,
     NewImage, ObserveService
<1>3. CASE Edit
  BY <1>1, <1>3, FinalizerFrame DEF Edit, ObjType
<1>4. CASE WriteResult
  BY <1>1, <1>4, FinalizerFrame DEF WriteResult, ObjType
<1>5. CASE PersistStatus
  <2>1. /\ Persisted.uid = obj.uid /\ Persisted.finalizer = obj.finalizer
        /\ Persisted.deleting = obj.deleting
    BY <1>1 DEF Persisted, ObjType
  <2> QED
    BY <1>5, <2>1, FinalizerFrame DEF PersistStatus, RecDone, RecError
<1> QED
  BY <1>2, <1>3, <1>4, <1>5, FinalizerOutside, FinalizerRead, FinalizerUpdate,
     FinalizerTeardown, FinalizerCleanup, FinalizerRelease
  DEF Next, Step, ReconcilerStep, ObserverStep

\* The invariant behind the finalizer's contract: what a pass read, and what
\* the cache shows, stays true as far as the later stages rely on it.
THEOREM ResourceFinalizerInvariant == Spec => []FinalizerInv
<1>1. Init => FinalizerInv
  <2> SUFFICES ASSUME Init PROVE FinalizerInv
    OBVIOUS
  <2>1. /\ ~NoObj.finalizer /\ ~NoObj.deleting /\ NoObj.valid /\ NoObj.optional
        /\ IdleRec.pc = "idle" /\ IdleRec.copy = NoObj
    BY DEF NoObj, IdleRec
  <2>2. Owing = {}
    BY DEF Init, Owing
  <2> QED
    BY <2>1, <2>2 DEF Init, FinalizerInv, Unedited
<1> QED
  BY <1>1, FinalizerStep, ResourceTypeCorrect, PTL DEF Spec

\* What the contract of the finalizer calls the state of the object.
LifecycleState ==
    IF ~Exists(obj) THEN "absent"
    ELSE IF ~obj.finalizer THEN "plain"
    ELSE IF ~obj.deleting THEN "held" ELSE "deleting"

\* Steps that leave the object's lifecycle alone: resources come and go while
\* the finalizer is there, and there are none while it is not.
LEMMA ChangeStep ==
    ASSUME TypeOK', FinalizerInv, FinalizerInv', kind' = kind,
           obj'.uid = obj.uid, obj'.finalizer = obj.finalizer,
           obj'.deleting = obj.deleting
    PROVE  [Lifecycle!Next]_(Lifecycle!vars)
<1>1. LifecycleState' = LifecycleState
  BY DEF LifecycleState, Exists
<1>2. CASE ~obj.finalizer
  <2>1. Owing' = Owing
    BY <1>2 DEF FinalizerInv
  <2> QED
    BY <1>1, <2>1 DEF Lifecycle!vars, LifecycleState, Owing
<1>3. CASE obj.finalizer
  <2>1. LifecycleState \in {"held", "deleting"}
    BY <1>3 DEF LifecycleState, FinalizerInv
  <2>2. Owing' \subseteq {"service"} \cup UNION {StageSet(k) : k \in Kinds}
    BY DEF Owing, TypeOK
  <2>3. Lifecycle!Change
    BY <1>1, <2>1, <2>2 DEF Lifecycle!Change, LifecycleState, Owing
  <2> QED
    BY <2>3 DEF Lifecycle!Next
<1> QED
  BY <1>2, <1>3

\* Every step is a step of the lifecycle, or a stutter.
LEMMA LifecycleStep ==
    ASSUME TypeOK, TypeOK', FinalizerInv, FinalizerInv', [Next]_vars
    PROVE  [Lifecycle!Next]_(Lifecycle!vars)
<1>1. kind' = kind /\ obj \in ObjType
  BY KindAndEdits DEF TypeOK
<1>2. CASE CreateObject \/ DeleteObject \/ ReconcileObject \/ RemoveFinalizer
  <2>1. Owing' = Owing
    <3>1. prereqs' = prereqs /\ service' = service /\ spent'.edits = spent.edits
      BY <1>2 DEF CreateObject, DeleteObject, ReconcileObject, RemoveFinalizer,
         TypeOK, SpentType
    <3>2. StageSet(kind)' = StageSet(kind)
      BY <1>1 DEF StageSet, Stages
    <3>3. Owed' = Owed
      BY <1>1, <3>1, <3>2 DEF Owed
    <3> QED
      BY <3>1, <3>3 DEF Owing
  <2>2. CASE obj' = obj
    BY <1>1, <2>2, ChangeStep
  <2>3. CASE CreateObject
    <3>1. LifecycleState = "absent" /\ LifecycleState' = "plain"
      BY <2>3 DEF CreateObject, LifecycleState, Exists, NoObj, TypeOK, SpentType
    <3> QED
      BY <2>1, <3>1 DEF Lifecycle!Next, Lifecycle!Create, LifecycleState, Owing
  <2>4. CASE DeleteObject
    <3>1. \/ LifecycleState = "plain" /\ LifecycleState' = "absent"
          \/ LifecycleState = "held" /\ LifecycleState' = "deleting"
      BY <1>1, <2>4 DEF DeleteObject, LifecycleState, Exists, NoObj, ObjType
    <3> QED
      BY <2>1, <3>1 DEF Lifecycle!Next, Lifecycle!Delete, LifecycleState, Owing
  <2>5. CASE /\ ~Nothing(cObj) /\ ~cObj.finalizer /\ cObj = obj
             /\ obj' = [obj EXCEPT !.finalizer = TRUE]
    <3>1. LifecycleState = "plain" /\ LifecycleState' = "held"
      BY <1>1, <2>5 DEF LifecycleState, Exists, Nothing, ObjType
    <3> QED
      BY <2>1, <3>1 DEF Lifecycle!Next, Lifecycle!Hold, LifecycleState, Owing
  <2>6. CASE RemoveFinalizer /\ cObj = obj /\ obj' = Released(obj) /\ Exists(obj)
    <3>1. Owing = {} /\ (obj.finalizer => obj.deleting)
      BY <2>6 DEF RemoveFinalizer, FinalizerInv
    <3>2. CASE obj.deleting
      <4>1. LifecycleState \in {"plain", "deleting"} /\ LifecycleState' = "absent"
        BY <2>6, <3>2 DEF Released, LifecycleState, Exists, NoObj
      <4> QED
        BY <2>1, <3>1, <4>1 DEF Lifecycle!Next, Lifecycle!Release, Lifecycle!Delete,
           LifecycleState, Owing
    <3>3. CASE ~obj.deleting
      <4>1. obj'.uid = obj.uid /\ obj'.finalizer = obj.finalizer
            /\ obj'.deleting = obj.deleting
        BY <1>1, <2>6, <3>1, <3>3 DEF Released, ObjType
      <4> QED
        BY <1>1, <4>1, ChangeStep
    <3> QED
      BY <3>2, <3>3
  <2> QED
    BY <1>2, <2>2, <2>3, <2>4, <2>5, <2>6
    DEF ReconcileObject, AddFinalizer, Read, RemoveFinalizer
<1>3. CASE ~(CreateObject \/ DeleteObject \/ ReconcileObject \/ RemoveFinalizer)
  <2>1. CASE obj' = obj
    BY <1>1, <2>1, ChangeStep
  <2>2. CASE Edit \/ Dispatch \/ WriteResult
    BY <1>1, <2>2, ChangeStep DEF Edit, Dispatch, WriteResult, ObjType
  <2>3. CASE PersistStatus
    <3>1. /\ Persisted.uid = obj.uid /\ Persisted.finalizer = obj.finalizer
          /\ Persisted.deleting = obj.deleting
      BY <1>1 DEF Persisted, ObjType
    <3> QED
      BY <1>1, <2>1, <2>3, <3>1, ChangeStep DEF PersistStatus
  <2> QED
    BY <1>3, <2>1, <2>2, <2>3 DEF Next, Step, vars, SettleService, DriftService,
       RemoveApp, WatchObject, Restart, NewImage, ReconcilerStep, HandleUpdate,
       Teardown, CleanupPrerequisites, ObserverStep, ObserveService
<1> QED
  BY <1>2, <1>3

\* Every kind keeps the contract of the finalizer for what its teardown covers,
\* with any number of lives, edits, failures and restarts.
THEOREM ResourcesKeepLifecycle == Spec => KeepsLifecycle
<1>1. Init => Lifecycle!Init
  BY DEF Init, Lifecycle!Init, NoObj, Exists
<1>2. TypeOK /\ TypeOK' /\ FinalizerInv /\ FinalizerInv' /\ [Next]_vars =>
         [Lifecycle!Next]_(Lifecycle!vars)
  BY LifecycleStep
<1> QED
  BY <1>1, <1>2, ResourceTypeCorrect, ResourceFinalizerInvariant, PTL
  DEF Spec, KeepsLifecycle, Lifecycle!Spec
-----------------------------------------------------------------------------
(* Nothing is forgotten *)

(* How the copies of the object stand to it: an object is created under a uid
   of its own and marked for deletion for good, the finalizer is given to the
   object the cache shows, and a pass works on that one for as long as the
   finalizer is there.  An App is removed only when the cache shows why. *)
CopiesInv ==
    /\ \A o \in {obj, cObj, rec.copy} :
          o.uid <= spent.lives /\ (o.deleting => Exists(o) /\ o.finalizer)
    /\ cObj.deleting /\ cObj.uid = obj.uid => obj.deleting
    /\ rec.copy.deleting /\ rec.copy.uid = obj.uid => obj.deleting
    /\ rec.copy.deleting /\ rec.copy.uid = cObj.uid => cObj.deleting
    /\ obj.finalizer => cObj.uid = obj.uid
    /\ obj.finalizer /\ rec.pc # "idle" => rec.copy.uid = obj.uid
    /\ service = "deleting" => kind = "Package" /\ obj.deleting /\ cObj.deleting

\* While the object is not queued, a pass works on what the cache shows.
SeenInv ==
    rec.pc # "idle" /\ ~recQ /\ Exists(cObj) =>
        rec.copy.uid = cObj.uid /\ Spec_(rec.copy) = Spec_(cObj)

\* A valid object that is not queued has been served, or is on its way to be.
ServedInv ==
    kind # "GitRepository" /\ ~recQ /\ Exists(cObj) /\ ~cObj.deleting /\ cObj.valid =>
        /\ rec.pc \in {"idle", "persist"} => Served(cObj)
        /\ rec.pc = "dispatch" => Declared(cObj) \subseteq prereqs
        /\ rec.pc \notin {"teardown", "cleanup", "release"}

\* So has the deletion of one, for the kinds it wakes.
DeletedInv ==
    kind \in DeletionWakes /\ ~recQ /\ cObj.deleting /\ cObj.uid = obj.uid =>
        rec.pc \in {"teardown", "cleanup", "release"}

\* A Package whose observer is not queued says what its App says, or is about to.
ResultInv ==
    kind = "Package" /\ ~obsQ =>
        /\ obs.pc = "write" => obs.result = Told(service)
        /\ obs.pc = "idle" /\ service # "none" /\ ~obj.deleting => Reported

WorkInv == SeenInv /\ ServedInv /\ DeletedInv

\* What a step leaves of CopiesInv that touches no uid, mark or finalizer.
LEMMA CopiesFrame ==
    ASSUME TypeOK, CopiesInv, kind' = kind, cObj' = cObj,
           spent'.lives = spent.lives, obj'.uid = obj.uid,
           obj'.deleting = obj.deleting, obj'.finalizer = obj.finalizer,
           \/ rec'.copy = rec.copy /\ (rec'.pc # "idle" => rec.pc # "idle")
           \/ rec'.copy = cObj
           \/ rec' = IdleRec,
           service' = "deleting" => service = "deleting"
    PROVE  CopiesInv'
<1>1. rec'.copy \in {rec.copy, cObj, NoObj}
  BY DEF IdleRec
<1>2. CASE rec'.copy = NoObj /\ rec'.pc = "idle"
  BY <1>2 DEF CopiesInv, NoObj, Exists, TypeOK, SpentType
<1>3. CASE rec'.copy = cObj
  BY <1>3 DEF CopiesInv, Exists
<1>4. CASE rec'.copy = rec.copy /\ (rec'.pc # "idle" => rec.pc # "idle")
  BY <1>4 DEF CopiesInv, Exists
<1> QED
  BY <1>2, <1>3, <1>4 DEF IdleRec

\* No step changes the kind, and objects are counted when they are created.
LEMMA Lives ==
    ASSUME TypeOK, [Next]_vars
    PROVE  CreateObject \/ spent'.lives = spent.lives
<1> USE DEF TypeOK, SpentType
<1>1. CASE Edit
  BY <1>1 DEF Edit
<1>2. CASE UNCHANGED spent \/ Upset
  BY <1>2 DEF Upset
<1> QED
  BY <1>1, <1>2 DEF Next, Step, vars, DeleteObject, SettleService,
     DriftService, RemoveApp, WatchObject, Restart, NewImage, ReconcilerStep,
     ReconcileObject, HandleUpdate, Dispatch, PersistStatus, Teardown,
     CleanupPrerequisites, RemoveFinalizer, ObserverStep, ObserveService, WriteResult

\* CopiesInv is inductive: a pass that reads a copy that was deleted meets the
\* finalizer of no later object.
LEMMA CopiesStep ==
    ASSUME TypeOK, FinalizerInv, CopiesInv, [Next]_vars
    PROVE  CopiesInv'
<1>1. /\ kind' = kind /\ obj \in ObjType /\ cObj \in ObjType /\ rec \in RecType
      /\ spent.lives \in Nat
  BY KindAndEdits DEF TypeOK, SpentType
<1>2. CASE CreateObject
  <2>1. /\ obj'.uid = spent.lives + 1 /\ ~obj'.deleting /\ ~obj'.finalizer
        /\ spent'.lives = spent.lives + 1 /\ cObj' = cObj /\ rec' = rec
        /\ service' = service /\ ~Exists(obj)
    BY <1>1, <1>2 DEF CreateObject, NoObj, TypeOK, SpentType
  <2>2. cObj.uid \in Nat /\ rec.copy.uid \in Nat
    BY <1>1 DEF ObjType, RecType
  <2>3. cObj.uid <= spent.lives /\ rec.copy.uid <= spent.lives
    BY DEF CopiesInv
  <2>4. obj'.uid # cObj.uid /\ obj'.uid # rec.copy.uid
    BY <1>1, <2>1, <2>2, <2>3
  <2>5. service # "deleting"
    BY <2>1 DEF CopiesInv
  <2> QED
    BY <1>1, <2>1, <2>2, <2>3, <2>4, <2>5 DEF CopiesInv, Exists
<1>3. CASE ~CreateObject
  <2>1. spent'.lives = spent.lives
    BY <1>3, Lives
  <2>2. CASE DeleteObject
    <3>1. /\ cObj' = cObj /\ rec' = rec /\ service' = service /\ Exists(obj)
          /\ ~obj.deleting
      BY <2>2 DEF DeleteObject
    <3>2. CASE obj.finalizer
      <4>1. obj'.uid = obj.uid /\ obj'.deleting /\ obj'.finalizer
        BY <1>1, <2>2, <3>2 DEF DeleteObject, ObjType
      <4> QED
        BY <1>1, <2>1, <3>1, <3>2, <4>1 DEF CopiesInv, Exists
    <3>3. CASE ~obj.finalizer
      <4>1. obj'.uid = 0 /\ ~obj'.deleting /\ ~obj'.finalizer
        BY <2>2, <3>3 DEF DeleteObject, NoObj
      <4> QED
        BY <1>1, <2>1, <3>1, <4>1 DEF CopiesInv, Exists
    <3> QED
      BY <3>2, <3>3
  <2>3. CASE WatchObject \/ Restart
    <3>1. /\ obj' = obj /\ cObj' = obj /\ service' = service
          /\ rec' = rec \/ rec' = IdleRec
      BY <2>3 DEF WatchObject, Restart
    <3>2. CASE rec' = rec
      BY <1>1, <2>1, <3>1, <3>2 DEF CopiesInv, Exists
    <3>3. CASE rec' = IdleRec
      <4>1. rec'.pc = "idle" /\ rec'.copy.uid = 0 /\ ~rec'.copy.deleting
        BY <3>3 DEF IdleRec, NoObj
      <4> QED
        BY <1>1, <2>1, <3>1, <4>1 DEF CopiesInv, Exists
    <3> QED
      BY <3>1, <3>2, <3>3
  <2>4. CASE AddFinalizer /\ ReconcileObject /\ obj' # obj
    <3>1. /\ cObj = obj /\ obj'.uid = obj.uid /\ obj'.deleting = obj.deleting
          /\ obj'.finalizer /\ cObj' = cObj /\ rec' = rec /\ rec.pc = "idle"
          /\ service' = service /\ Exists(obj)
      BY <1>1, <2>4 DEF AddFinalizer, ReconcileObject, ObjType, Nothing
    <3> QED
      BY <1>1, <2>1, <3>1 DEF CopiesInv, Exists
  <2>5. CASE Teardown
    <3>1. /\ obj' = obj /\ cObj' = cObj /\ rec.pc = "teardown"
          /\ service' \in {service, AfterTeardown}
          /\ rec'.copy = rec.copy \/ rec' = IdleRec
      BY <1>1, <2>5 DEF Teardown, RecError, RecNext, RecType
    <3>2. CASE service' = "deleting" => service = "deleting"
      BY <1>1, <2>1, <3>1, <3>2, CopiesFrame
    <3>3. CASE service' = "deleting" /\ service # "deleting"
      <4>1. kind = "Package" /\ service # "none" /\ rec.copy.deleting
        BY <3>1, <3>3 DEF AfterTeardown, FinalizerInv
      <4>2. obj.finalizer
        BY <4>1 DEF FinalizerInv, Owing, Owed
      <4>3. rec.copy.uid = obj.uid /\ cObj.uid = obj.uid
        BY <3>1, <4>2 DEF CopiesInv
      <4>4. obj.deleting /\ cObj.deleting
        BY <4>1, <4>3 DEF CopiesInv
      <4>5. CASE rec'.copy = rec.copy
        BY <1>1, <2>1, <3>1, <4>1, <4>3, <4>4, <4>5 DEF CopiesInv, Exists
      <4>6. CASE rec' = IdleRec
        <5>1. rec'.pc = "idle" /\ rec'.copy.uid = 0 /\ ~rec'.copy.deleting
          BY <4>6 DEF IdleRec, NoObj
        <5> QED
          BY <1>1, <2>1, <3>1, <4>1, <4>4, <5>1 DEF CopiesInv, Exists
      <4> QED
        BY <3>1, <4>5, <4>6
    <3> QED
      BY <3>2, <3>3
  <2>6. CASE RemoveFinalizer
    <3>1. /\ cObj' = cObj /\ rec' = IdleRec /\ service' = service
          /\ rec.pc = "release"
      BY <2>6 DEF RemoveFinalizer, RecDone, RecError
    <3>2. service # "deleting"
      BY <3>1 DEF FinalizerInv, CopiesInv
    <3>3. CASE obj' = obj
      BY <1>1, <2>1, <3>1, <3>3, CopiesFrame
    <3>4. CASE obj' = Released(obj) /\ ~obj.deleting
      <4>1. ~obj.finalizer
        BY <3>1, <3>4 DEF FinalizerInv
      <4>2. /\ obj'.uid = obj.uid /\ obj'.deleting = obj.deleting
            /\ obj'.finalizer = obj.finalizer
        BY <1>1, <3>4, <4>1 DEF Released, ObjType
      <4> QED
        BY <1>1, <2>1, <3>1, <4>2, CopiesFrame
    <3>5. CASE obj' = Released(obj) /\ obj.deleting
      <4>1. obj'.uid = 0 /\ ~obj'.deleting /\ ~obj'.finalizer
        BY <3>5 DEF Released, NoObj
      <4>2. rec'.pc = "idle" /\ rec'.copy.uid = 0 /\ ~rec'.copy.deleting
        BY <3>1 DEF IdleRec, NoObj
      <4> QED
        BY <1>1, <2>1, <3>1, <3>2, <4>1, <4>2 DEF CopiesInv, Exists
    <3> QED
      BY <2>6, <3>3, <3>4, <3>5 DEF RemoveFinalizer
  <2>7. CASE UNCHANGED vars \/ SettleService \/ DriftService \/ RemoveApp
             \/ NewImage \/ Edit \/ ObserverStep
    <3>1. /\ cObj' = cObj /\ rec' = rec /\ obj'.uid = obj.uid
          /\ obj'.deleting = obj.deleting /\ obj'.finalizer = obj.finalizer
      BY <1>1, <2>7 DEF vars, SettleService, DriftService, RemoveApp, NewImage,
         Edit, ObserverStep, ObserveService, WriteResult, ObjType
    <3>2. service' = "deleting" => service = "deleting"
      BY <2>7 DEF vars, SettleService, DriftService, RemoveApp, NewImage,
         Edit, ObserverStep, ObserveService, WriteResult
    <3> QED
      BY <1>1, <2>1, <3>1, <3>2, CopiesFrame
  <2>8. CASE HandleUpdate \/ Dispatch \/ PersistStatus \/ CleanupPrerequisites
    <3>1. /\ cObj' = cObj /\ rec.pc # "idle"
          /\ rec'.copy = rec.copy \/ rec' = IdleRec
      BY <1>1, <2>8 DEF HandleUpdate, Dispatch, PersistStatus,
         CleanupPrerequisites, RecError, RecNext, RecDone, RecType
    <3>2. /\ obj'.uid = obj.uid /\ obj'.deleting = obj.deleting
          /\ obj'.finalizer = obj.finalizer
      <4>1. /\ Persisted.uid = obj.uid /\ Persisted.finalizer = obj.finalizer
            /\ Persisted.deleting = obj.deleting
        BY <1>1 DEF Persisted, ObjType
      <4> QED
        BY <1>1, <2>8, <4>1 DEF HandleUpdate, Dispatch, PersistStatus,
           CleanupPrerequisites, ObjType
    <3>3. service' = "deleting" => service = "deleting"
      BY <2>8 DEF HandleUpdate, Dispatch, PersistStatus, CleanupPrerequisites,
         Dispatched
    <3> QED
      BY <1>1, <2>1, <3>1, <3>2, <3>3, CopiesFrame
  <2>9. CASE ReconcileObject /\ obj' = obj
    <3>1. /\ cObj' = cObj /\ service' = service
          /\ rec' = rec \/ rec'.copy = cObj
      BY <2>9 DEF ReconcileObject, AddFinalizer, Read
    <3> QED
      BY <1>1, <2>1, <2>9, <3>1, CopiesFrame
  <2> QED
    BY <1>3, <2>2, <2>3, <2>4, <2>5, <2>6, <2>7, <2>8, <2>9
    DEF Next, Step, ReconcilerStep, ReconcileObject, AddFinalizer, Read
<1> QED
  BY <1>2, <1>3

\* Once the object is queued there is nothing to show.
LEMMA WorkQueued == recQ' => WorkInv'
BY DEF WorkInv, SeenInv, ServedInv, DeletedInv

\* What a contract declares depends on the kind only.
LEMMA DeclaredSame ==
    ASSUME kind' = kind, cObj' = cObj
    PROVE  Declared(cObj)' = Declared(cObj)
<1>1. StageSet(kind)' = StageSet(kind)
  BY DEF StageSet, Stages
<1> QED
  BY <1>1 DEF Declared

\* What a step leaves of WorkInv that does not touch the pass.
LEMMA WorkFrame ==
    ASSUME WorkInv, kind' = kind, cObj' = cObj, rec' = rec, recQ' = recQ,
           prereqs' = prereqs,
           service \in {"pending", "ready"} => service' \in {"pending", "ready"},
           cObj.deleting /\ cObj.uid = obj'.uid => cObj.uid = obj.uid
    PROVE  WorkInv'
<1>1. SeenInv'
  BY DEF WorkInv, SeenInv, Exists, Spec_
<1>2. Served(cObj) => Served(cObj)'
  BY DeclaredSame DEF Served
<1>3. ServedInv'
  BY <1>2, DeclaredSame DEF WorkInv, ServedInv, Exists
<1>4. DeletedInv'
  BY DEF WorkInv, DeletedInv
<1> QED
  BY <1>1, <1>3, <1>4 DEF WorkInv

\* Two contracts that some pass cannot tell apart are the same.
LEMMA SameSpec ==
    ASSUME NEW o, NEW p, Spec_(o) = Spec_(p)
    PROVE  o.valid = p.valid /\ Declared(o) = Declared(p)
<1>1. Spec_(o)[1] = Spec_(p)[1] /\ Spec_(o)[2] = Spec_(p)[2]
  OBVIOUS
<1>2. o.valid = p.valid /\ o.optional = p.optional
  BY <1>1 DEF Spec_
<1> QED
  BY <1>2 DEF Declared

\* The user, the service, the observer, the informer and a restart.
LEMMA WorkOutside ==
    ASSUME TypeOK, FinalizerInv, CopiesInv, WorkInv, [Next]_vars,
           ~ReconcilerStep
    PROVE  WorkInv'
<1>1. /\ kind' = kind /\ obj \in ObjType /\ cObj \in ObjType /\ rec \in RecType
      /\ spent.lives \in Nat
  BY KindAndEdits DEF TypeOK, SpentType
<1>2. CASE CreateObject
  <2>1. /\ cObj' = cObj /\ rec' = rec /\ recQ' = recQ /\ prereqs' = prereqs
        /\ service' = service /\ obj'.uid = spent.lives + 1
    BY <1>1, <1>2 DEF CreateObject, NoObj
  <2>2. cObj.uid \in Nat /\ cObj.uid <= spent.lives
    BY <1>1 DEF CopiesInv, ObjType
  <2>3. cObj.uid # obj'.uid
    BY <1>1, <2>1, <2>2
  <2> QED
    BY <1>1, <2>1, <2>3, WorkFrame
<1>3. CASE DeleteObject
  <2>1. /\ cObj' = cObj /\ rec' = rec /\ recQ' = recQ /\ prereqs' = prereqs
        /\ service' = service
    BY <1>3 DEF DeleteObject
  <2>2. obj'.uid = obj.uid \/ obj'.uid = 0
    BY <1>1, <1>3 DEF DeleteObject, NoObj, ObjType
  <2>3. cObj.deleting => cObj.uid # 0
    BY DEF CopiesInv, Exists
  <2> QED
    BY <1>1, <2>1, <2>2, <2>3, WorkFrame
<1>4. CASE Edit \/ ObserverStep \/ UNCHANGED vars
  <2>1. /\ cObj' = cObj /\ rec' = rec /\ recQ' = recQ /\ prereqs' = prereqs
        /\ service' = service /\ obj'.uid = obj.uid
    BY <1>1, <1>4 DEF Edit, ObserverStep, ObserveService, WriteResult, vars, ObjType
  <2> QED
    BY <1>1, <2>1, WorkFrame
<1>5. CASE SettleService \/ DriftService \/ RemoveApp
  <2>1. /\ cObj' = cObj /\ rec' = rec /\ recQ' = recQ /\ prereqs' = prereqs
        /\ obj' = obj
        /\ service \in {"pending", "ready"} => service' \in {"pending", "ready"}
    BY <1>5 DEF SettleService, DriftService, RemoveApp
  <2> QED
    BY <1>1, <2>1, WorkFrame
<1>6. CASE NewImage
  BY <1>6, WorkQueued DEF NewImage
<1>7. CASE Restart
  <2>1. /\ rec'.pc = "idle" /\ cObj' = obj /\ obj' = obj
        /\ (~recQ' => ~Exists(obj))
    BY <1>7 DEF Restart, IdleRec
  <2>2. ~recQ' => ~Exists(cObj)' /\ ~cObj'.deleting
    BY <2>1 DEF CopiesInv, Exists
  <2> QED
    BY <2>1, <2>2 DEF WorkInv, SeenInv, ServedInv, DeletedInv
<1>8. CASE WatchObject
  <2>1. /\ cObj' = obj /\ obj' = obj /\ rec' = rec /\ prereqs' = prereqs
        /\ service' = service /\ recQ' = (recQ \/ Wakes(cObj, obj))
    BY <1>8 DEF WatchObject
  <2>2. CASE recQ'
    BY <2>2, WorkQueued
  <2>3. CASE ~recQ' /\ ~Exists(obj)
    <3>1. ~Exists(cObj)' /\ ~cObj'.deleting
      BY <2>1, <2>3 DEF CopiesInv, Exists
    <3> QED
      BY <3>1 DEF WorkInv, SeenInv, ServedInv, DeletedInv
  <2>4. CASE ~recQ' /\ Exists(obj)
    <3>1. /\ ~recQ /\ cObj.uid = obj.uid /\ Exists(cObj) /\ Spec_(cObj) = Spec_(obj)
          /\ kind \in DeletionWakes /\ obj.deleting => cObj.deleting
          /\ cObj.deleting => obj.deleting
      BY <2>1, <2>4 DEF Wakes, Exists, CopiesInv
    <3>2. SeenInv'
      <4>1. Spec_(cObj)' = Spec_(obj) /\ Spec_(rec.copy)' = Spec_(rec.copy)
        BY <2>1 DEF Spec_
      <4> QED
        BY <2>1, <3>1, <4>1 DEF WorkInv, SeenInv
    <3>3. cObj.valid = obj.valid /\ Declared(cObj) = Declared(obj)
      BY <3>1, SameSpec
    <3>4. Declared(cObj)' = Declared(obj)
      <4>1. StageSet(kind)' = StageSet(kind)
        BY <1>1 DEF StageSet, Stages
      <4> QED
        BY <2>1, <4>1 DEF Declared
    <3>5. ServedInv'
      BY <1>1, <2>1, <3>1, <3>3, <3>4 DEF WorkInv, ServedInv, Served
    <3>6. DeletedInv'
      BY <1>1, <2>1, <3>1 DEF WorkInv, DeletedInv
    <3> QED
      BY <3>2, <3>5, <3>6 DEF WorkInv
  <2> QED
    BY <2>2, <2>3, <2>4
<1> QED
  BY <1>2, <1>3, <1>4, <1>5, <1>6, <1>7, <1>8 DEF Next, Step

\* A pass that is done with the object, or goes on with it.
LEMMA WorkReconciler ==
    ASSUME TypeOK, FinalizerInv, CopiesInv, WorkInv, [Next]_vars,
           ReconcilerStep, ~recQ'
    PROVE  WorkInv'
<1>1. /\ kind' = kind /\ cObj' = cObj /\ obj \in ObjType /\ cObj \in ObjType
      /\ rec \in RecType
  BY KindAndEdits DEF TypeOK, ReconcilerStep, ReconcileObject, HandleUpdate,
     Dispatch, PersistStatus, Teardown, CleanupPrerequisites, RemoveFinalizer
<1>2. Declared(cObj)' = Declared(cObj) /\ Exists(cObj)' = Exists(cObj)
      /\ Spec_(cObj)' = Spec_(cObj)
  BY <1>1, DeclaredSame DEF Exists, Spec_
<1>3. cObj.deleting => Exists(cObj) /\ cObj.finalizer
  BY DEF CopiesInv
<1>4. ASSUME rec.pc # "idle", ~recQ, Exists(cObj), ~cObj.deleting
      PROVE  ~rec.copy.deleting /\ Declared(rec.copy) = Declared(cObj)
             /\ rec.pc \notin {"teardown", "cleanup", "release"}
  <2>1. rec.copy.uid = cObj.uid /\ Spec_(rec.copy) = Spec_(cObj)
    BY <1>4 DEF WorkInv, SeenInv
  <2>2. ~rec.copy.deleting
    BY <1>4, <2>1 DEF CopiesInv
  <2> QED
    BY <2>1, <2>2, SameSpec DEF FinalizerInv
<1>5. CASE ReconcileObject
  <2>1. rec.pc = "idle" /\ prereqs' = prereqs /\ service' = service
    BY <1>5 DEF ReconcileObject
  <2>2. CASE Nothing(cObj) /\ rec' = rec
    <3>1. ~Exists(cObj) /\ ~cObj.deleting
      BY <1>3, <2>2 DEF Nothing
    <3> QED
      BY <1>1, <1>2, <3>1 DEF WorkInv, SeenInv, ServedInv, DeletedInv
  <2>3. CASE AddFinalizer
    <3>1. kind = "GitRepository" /\ rec' = rec
      BY <2>3 DEF AddFinalizer
    <3> QED
      BY <1>1, <2>1, <3>1 DEF WorkInv, SeenInv, ServedInv, DeletedInv, DeletionWakes
  <2>4. CASE Read
    <3>1. /\ rec'.copy = cObj
          /\ rec'.pc = (IF Deletes(kind, cObj) THEN "teardown" ELSE "update")
      BY <2>4 DEF Read
    <3>2. SeenInv'
      <4>1. Spec_(rec.copy)' = Spec_(cObj)
        BY <3>1 DEF Spec_
      <4> QED
        BY <1>1, <1>2, <3>1, <4>1 DEF SeenInv
    <3>3. ServedInv'
      BY <1>1, <3>1 DEF ServedInv, Deletes
    <3>4. DeletedInv'
      BY <1>1, <3>1 DEF DeletedInv, Deletes, DeletionWakes
    <3> QED
      BY <3>2, <3>3, <3>4 DEF WorkInv
  <2> QED
    BY <1>5, <2>2, <2>3, <2>4 DEF ReconcileObject
<1>6. ASSUME rec.pc # "idle", recQ' = recQ, rec'.copy = rec.copy, obj'.uid = obj.uid
      PROVE  SeenInv'
  <2>1. Spec_(rec.copy)' = Spec_(rec.copy)
    BY <1>6 DEF Spec_
  <2> QED
    BY <1>1, <1>2, <1>6, <2>1 DEF WorkInv, SeenInv
<1>7. CASE HandleUpdate
  <2>1. /\ rec.pc = "update" /\ RecNext("dispatch") /\ service' = service
        /\ obj' = obj /\ prereqs' = prereqs \cup Ensured(Len(Stages(kind)))
    BY <1>7 DEF HandleUpdate, RecError
  <2>2. rec'.pc = "dispatch" /\ rec'.copy = rec.copy /\ recQ' = recQ
    BY <1>1, <2>1 DEF RecNext, RecType
  <2>3. Ensured(Len(Stages(kind))) = Declared(rec.copy)
    BY DEF Ensured, Declared, StageSet
  <2>4. ServedInv'
    BY <1>1, <1>2, <1>4, <2>1, <2>2, <2>3 DEF ServedInv
  <2>5. DeletedInv'
    BY <1>1, <2>1, <2>2 DEF WorkInv, DeletedInv
  <2> QED
    BY <1>6, <2>1, <2>2, <2>4, <2>5 DEF WorkInv
<1>8. CASE Dispatch
  <2>1. /\ rec.pc = "dispatch" /\ service' = Dispatched /\ prereqs' = prereqs
        /\ RecNext(IF rec.copy.deleting THEN "release" ELSE "persist")
    BY <1>8 DEF Dispatch, RecError
  <2>2. obj'.uid = obj.uid
    BY <1>1, <1>8 DEF Dispatch, ObjType
  <2>3. /\ rec'.pc = (IF rec.copy.deleting THEN "release" ELSE "persist")
        /\ rec'.copy = rec.copy /\ recQ' = recQ
    BY <1>1, <2>1 DEF RecNext, RecType
  <2>4. service = "deleting" => cObj.deleting
    BY DEF CopiesInv
  <2>5. ~cObj.deleting => service' \in {"pending", "ready"}
    BY <2>1, <2>4 DEF Dispatched, TypeOK
  <2>6. ServedInv'
    BY <1>1, <1>2, <1>4, <2>1, <2>3, <2>5 DEF WorkInv, ServedInv, Served
  <2>7. DeletedInv'
    BY <1>1, <2>1, <2>2, <2>3 DEF WorkInv, DeletedInv
  <2> QED
    BY <1>6, <2>1, <2>2, <2>3, <2>6, <2>7 DEF WorkInv
<1>9. CASE PersistStatus
  <2>1. /\ rec.pc = "persist" /\ obj' = Persisted /\ rec' = IdleRec
        /\ recQ' = recQ /\ prereqs' = prereqs /\ service' = service
    BY <1>9 DEF PersistStatus, RecDone, RecError
  <2>2. obj'.uid = obj.uid
    BY <1>1, <2>1 DEF Persisted, ObjType
  <2>3. rec'.pc = "idle"
    BY <2>1 DEF IdleRec
  <2>4. Served(cObj)' = Served(cObj)
    BY <1>2, <2>1 DEF Served
  <2> QED
    BY <1>1, <1>2, <2>1, <2>2, <2>3, <2>4 DEF WorkInv, SeenInv, ServedInv, DeletedInv
<1>10. CASE Teardown \/ CleanupPrerequisites
  <2>1. /\ rec.pc \in {"teardown", "cleanup"} /\ obj' = obj /\ recQ' = recQ
        /\ rec'.copy = rec.copy /\ rec'.pc \in {"cleanup", "release"}
    BY <1>1, <1>10 DEF Teardown, CleanupPrerequisites, RecError, RecNext, RecType
  <2>2. ~Exists(cObj) \/ cObj.deleting
    BY <1>4, <2>1
  <2>3. ServedInv'
    BY <1>1, <1>2, <2>2 DEF ServedInv
  <2>4. DeletedInv'
    BY <2>1 DEF DeletedInv
  <2> QED
    BY <1>6, <2>1, <2>3, <2>4 DEF WorkInv
<1>11. CASE RemoveFinalizer
  <2>1. /\ rec.pc = "release" /\ rec' = IdleRec /\ recQ' = recQ
        /\ ~Exists(cObj) \/ (cObj = obj /\ obj' = Released(obj))
    BY <1>11 DEF RemoveFinalizer, RecDone, RecError
  <2>2. ~Exists(cObj) \/ cObj.deleting
    BY <1>4, <2>1
  <2>3. cObj.deleting => obj'.uid = 0 /\ cObj.uid # 0
    BY <1>3, <2>1 DEF Released, NoObj, Exists
  <2>4. rec'.pc = "idle"
    BY <2>1 DEF IdleRec
  <2> QED
    BY <1>1, <1>2, <2>2, <2>3, <2>4 DEF WorkInv, SeenInv, ServedInv, DeletedInv
<1> QED
  BY <1>5, <1>7, <1>8, <1>9, <1>10, <1>11 DEF ReconcilerStep

\* WorkInv is inductive: what makes a step end without its work done queues it.
LEMMA WorkStep ==
    ASSUME TypeOK, FinalizerInv, CopiesInv, WorkInv, [Next]_vars
    PROVE  WorkInv'
BY WorkOutside, WorkReconciler, WorkQueued

\* What a service created for a Package stands under its finalizer.
LEMMA PackageHeld ==
    ASSUME FinalizerInv, CopiesInv, kind = "Package", service # "none"
    PROVE  obj.finalizer /\ Exists(obj) /\ cObj.uid = obj.uid
<1>1. "service" \in Owing \/ obj.finalizer
  BY DEF Owing, Owed
<1>2. obj.finalizer
  BY <1>1 DEF FinalizerInv
<1> QED
  BY <1>2 DEF FinalizerInv, CopiesInv

\* ResultInv is inductive: every event of an App queues its Package for the
\* observer, and a dispatch that changes nothing puts back at most the outcome.
LEMMA ResultStep ==
    ASSUME TypeOK, FinalizerInv, CopiesInv, ResultInv, [Next]_vars
    PROVE  ResultInv'
<1> SUFFICES ASSUME kind = "Package", ~obsQ' PROVE ResultInv'
  BY KindAndEdits DEF ResultInv
<1>1. /\ kind' = kind /\ obj \in ObjType /\ cObj \in ObjType /\ rec \in RecType
      /\ obs \in ObsType
  BY KindAndEdits DEF TypeOK
<1>2. ASSUME ~obsQ, service' = service, obs' = obs,
             obj'.deleting \/ service = "none" \/
                (obj'.result = obj.result /\ obj'.deleting = obj.deleting)
      PROVE  ResultInv'
  BY <1>1, <1>2 DEF ResultInv, Reported
<1>3. CASE CreateObject \/ DeleteObject
  <2>1. service' = service /\ ~obsQ /\ obs' = obs
    BY <1>3 DEF CreateObject, DeleteObject
  <2>2. obj'.deleting \/ service = "none"
    BY <1>1, <1>3, PackageHeld DEF CreateObject, DeleteObject, ObjType
  <2> QED
    BY <1>2, <2>1, <2>2
<1>4. CASE SettleService \/ DriftService \/ RemoveApp
  BY <1>4 DEF SettleService, DriftService, RemoveApp, SeenByObserver, WatchesService
<1>5. CASE Restart
  <2>1. service' = "none" /\ obs'.pc = "idle"
    BY <1>5 DEF Restart, WatchesService, IdleObs
  <2> QED
    BY <2>1 DEF ResultInv
<1>6. CASE WatchObject \/ NewImage \/ UNCHANGED vars \/ Edit \/ HandleUpdate
           \/ CleanupPrerequisites \/ ReconcileObject
  <2>1. CASE WatchObject
    <3>1. ~obsQ /\ service' = service /\ obs' = obs /\ obj' = obj
      BY <2>1 DEF WatchObject
    <3> QED
      BY <1>2, <3>1
  <2>2. CASE ~WatchObject
    <3>1. ~obsQ /\ service' = service /\ obs' = obs
      BY <1>6, <2>2 DEF NewImage, vars, Edit, HandleUpdate, CleanupPrerequisites,
         ReconcileObject
    <3>2. obj'.result = obj.result /\ obj'.deleting = obj.deleting
      BY <1>1, <1>6, <2>2 DEF NewImage, vars, Edit, HandleUpdate,
         CleanupPrerequisites, ReconcileObject, AddFinalizer, Read, ObjType
    <3> QED
      BY <1>2, <3>1, <3>2
  <2> QED
    BY <2>1, <2>2
<1>7. CASE Dispatch
  <2>1. service' = service /\ ~obsQ /\ obs' = obs
    BY <1>7 DEF Dispatch, WatchesService
  <2>2. CASE obj' = obj
    BY <1>2, <2>1, <2>2
  <2>3. CASE service' = Dispatched /\ obj' = [obj EXCEPT !.result = ServiceSays]
    <3>1. obj'.result = Requested(obj.result) /\ obj'.deleting = obj.deleting
      BY <1>1, <2>3 DEF ServiceSays, ObjType
    <3>2. Reported => Reported'
      BY <2>1, <2>3, <3>1 DEF Reported, Requested, Told
    <3> QED
      BY <1>1, <2>1, <3>1, <3>2 DEF ResultInv
  <2> QED
    BY <1>7, <2>2, <2>3 DEF Dispatch
<1>8. CASE PersistStatus
  <2>1. /\ ~obsQ /\ service' = service /\ obs' = obs
        /\ obj'.result = obj.result /\ obj'.deleting = obj.deleting
    BY <1>1, <1>8 DEF PersistStatus, Persisted, MergesConditions, ObjType
  <2> QED
    BY <1>2, <2>1
<1>9. CASE Teardown
  <2>1. service' = service /\ ~obsQ /\ obs' = obs /\ obj' = obj
    BY <1>9 DEF Teardown, WatchesService
  <2> QED
    BY <1>2, <2>1
<1>10. CASE RemoveFinalizer
  <2>1. /\ service' = service /\ ~obsQ /\ obs' = obs /\ service = "none"
    BY <1>10 DEF RemoveFinalizer, FinalizerInv
  <2> QED
    BY <1>2, <2>1
<1>11. CASE ObserveService
  <2>1. service' = service /\ obj' = obj /\ kind \in WatchesService
        /\ kind \notin WatchesObject
    BY <1>11 DEF ObserveService, WatchesService, WatchesObject
  <2>2. CASE Skipped /\ obs' = obs
    <3>1. service = "none" \/ obj.deleting
      BY <2>1, <2>2, PackageHeld DEF Skipped, CopiesInv, Exists
    <3>2. obs.pc = "idle"
      BY <1>11 DEF ObserveService
    <3> QED
      BY <2>1, <2>2, <3>1, <3>2 DEF ResultInv
  <2>3. CASE obs' = [pc |-> "write", copy |-> cObj, result |-> Observed]
    <3>1. obs'.pc = "write" /\ obs'.result = Told(service)
      BY <2>1, <2>3 DEF Observed
    <3> QED
      BY <1>1, <2>1, <3>1 DEF ResultInv
  <2> QED
    BY <1>11, <2>2, <2>3 DEF ObserveService
<1>12. CASE WriteResult
  <2>1. /\ obs.pc = "write" /\ obs' = IdleObs /\ ~obsQ /\ service' = service
        /\ obj' = [obj EXCEPT !.result = obs.result]
    BY <1>12 DEF WriteResult
  <2>2. obs'.pc = "idle" /\ obj'.result = obs.result
    BY <1>1, <2>1 DEF IdleObs, ObjType
  <2> QED
    BY <1>1, <2>1, <2>2 DEF ResultInv, Reported
<1> QED
  BY <1>3, <1>4, <1>5, <1>6, <1>7, <1>8, <1>9, <1>10, <1>11, <1>12
  DEF Next, Step, ReconcilerStep, ObserverStep

\* A reconciler at rest that has seen everything has nothing left to do: no
\* event that its filter drops and no error it swallows leaves a valid object
\* unserved, a deletion half done, or a Package out of step with its App.
THEOREM NothingIsForgotten == Spec => []NothingForgotten
<1>1. Init => CopiesInv /\ WorkInv /\ ResultInv
  <2> SUFFICES ASSUME Init PROVE CopiesInv /\ WorkInv /\ ResultInv
    OBVIOUS
  <2>1. /\ NoObj.uid = 0 /\ ~NoObj.deleting /\ ~NoObj.finalizer
        /\ IdleRec.pc = "idle" /\ IdleRec.copy = NoObj /\ IdleObs.pc = "idle"
    BY DEF NoObj, IdleRec, IdleObs
  <2> QED
    BY <2>1 DEF Init, CopiesInv, WorkInv, SeenInv, ServedInv, DeletedInv, ResultInv,
       Exists
<1>2. TypeOK /\ FinalizerInv /\ CopiesInv /\ WorkInv /\ ResultInv /\ [Next]_vars =>
         CopiesInv' /\ WorkInv' /\ ResultInv'
  BY CopiesStep, WorkStep, ResultStep
<1>3. CopiesInv /\ WorkInv /\ ResultInv => NothingForgotten
  <2> SUFFICES ASSUME CopiesInv, WorkInv, ResultInv,
                      ~recQ, rec.pc = "idle", cObj = obj
               PROVE  /\ Exists(obj) /\ ~obj.deleting /\ obj.valid
                            /\ kind # "GitRepository" => Served(obj)
                      /\ kind \in DeletionWakes => ~obj.deleting
                      /\ kind = "Package" /\ Wanted /\ ~obsQ /\ obs.pc = "idle" =>
                            Reported
    BY DEF NothingForgotten
  <2>1. Exists(obj) /\ ~obj.deleting /\ obj.valid /\ kind # "GitRepository" =>
           Served(obj)
    BY DEF WorkInv, ServedInv
  <2>2. kind \in DeletionWakes => ~obj.deleting
    BY DEF WorkInv, DeletedInv
  <2>3. kind = "Package" /\ Wanted /\ ~obsQ /\ obs.pc = "idle" => Reported
    BY <2>1 DEF Wanted, Served, ResultInv
  <2> QED
    BY <2>1, <2>2, <2>3
<1> QED
  BY <1>1, <1>2, <1>3, ResourceTypeCorrect, ResourceFinalizerInvariant, PTL DEF Spec
=============================================================================
