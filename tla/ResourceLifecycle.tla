-------------------------- MODULE ResourceLifecycle --------------------------
(***************************************************************************)
(* The reconcilers of Package, Deployment, GitHubEvent, GitRepository,     *)
(* Route and Domain, each with its domain, mediator and observer.  They    *)
(* follow one plan and differ in what they provision, in the events that   *)
(* wake them, and in what a deletion takes down: kind says which one the   *)
(* behaviour is about, the tables below how the kinds differ.              *)
(*                                                                         *)
(* The module is about one object, by name.  service is what the kind's    *)
(* service creates for it (a kapp App, a workload, an event source, a      *)
(* repository, a mapping, a certificate), prereqs what its mediator does.  *)
(***************************************************************************)
EXTENDS Naturals, FiniteSets, Sequences

CONSTANTS
    Kinds,          \* the kinds of object looked at
    CacheLag,       \* may the informer cache lag behind the API server?
    MaxLives,       \* bound: how often the user creates the object
    MaxEdits,       \* bound: edits of the contract, and of the Environment
    MaxUpsets       \* bound: failed calls, restarts, and drifts of the service

AllKinds == {"Package", "Deployment", "GitHubEvent", "GitRepository", "Route",
             "Domain"}

ASSUME KindsAssumption == Kinds \subseteq AllKinds
ASSUME LagAssumption == CacheLag \in BOOLEAN
ASSUME BoundsAssumption == MaxLives \in Nat /\ MaxEdits \in Nat /\ MaxUpsets \in Nat

VARIABLES
    kind,       \* the kind of the object
    obj,        \* the object on the API server
    cObj,       \* the object in the manager's informer cache
    env,        \* does its Environment exist?
    prereqs,    \* the prerequisites that exist
    service,    \* what the service created for the object
    recQ,       \* is the object queued for its reconciler?
    obsQ,       \* is it queued for its observer?
    rec,        \* the pass of the reconciler
    obs,        \* the pass of the observer
    spent       \* how much of each bound is used up

vars == <<kind, obj, cObj, env, prereqs, service, recQ, obsQ, rec, obs, spent>>

-----------------------------------------------------------------------------
(* How the kinds differ *)

\* What the mediator of a kind ensures, in order; the kinds that have stages
\* look their Environment up first.
PackageStages       == <<"state credentials", "package credentials",
                         "service account", "deployer binding">>
DeploymentStages    == <<"git ssh", "flux ssh", "manifests repository">>
GitHubEventStages   == <<"webhook secret">>
GitRepositoryStages == <<"provider credentials", "provider config", "hook url">>

Stages(k) ==
    CASE k = "Package"       -> PackageStages
      [] k = "Deployment"    -> DeploymentStages
      [] k = "GitHubEvent"   -> GitHubEventStages
      [] k = "GitRepository" -> GitRepositoryStages
      [] OTHER               -> <<>>

StageSet(k) == {Stages(k)[i] : i \in 1 .. Len(Stages(k))}

\* Stages a contract may leave out, and those that serve every object.
Optional == {"state credentials", "package credentials", "git ssh",
             "manifests repository"}
Shared   == {"provider credentials", "provider config"}

HasMediator(k) == Stages(k) # <<>>

\* The event filters: all pass a change of the spec, these a deletion as well.
DeletionWakes_None == {}
DeletionWakes == {"Package", "Deployment"}

\* A pass that ends well merges its conditions into the status, or replaces the
\* whole status by the one it read.
MergesConditions_None == {}
MergesConditions == {"Package", "Deployment"}

\* The service writes its result to the status as well; for the other kinds the
\* pass replaces that status at once.
ServiceWritesStatus == {"Package", "Deployment"}

\* What an observer watches: the service's object, or the kind itself.  The
\* observers of Deployment and GitRepository have no status writer that can
\* reach the API server, so that their passes leave nothing behind.
WatchesService == {"Package"}
WatchesObject  == {"GitHubEvent"}

\* The command of a pass.  That of a GitHubEvent is always an update.
Deletes(k, o) == o.deleting /\ k # "GitHubEvent"

\* Kinds whose delete command takes down what the service created.
TearsDown == {"Package", "Deployment", "Route", "Domain"}

-----------------------------------------------------------------------------
(* Objects *)

\* optional: does the contract declare the optional prerequisites?
\* result: what its status says of the service; "requested" is a pending that a
\* dispatch has written over the word that an App is ready, which it still is.
Results == {"none", "pending", "ready", "requested"}
ObjType == [uid: Nat, valid: BOOLEAN, optional: BOOLEAN, deleting: BOOLEAN,
            finalizer: BOOLEAN, result: Results]
NoObj   == [uid |-> 0, valid |-> TRUE, optional |-> TRUE, deleting |-> FALSE,
            finalizer |-> FALSE, result |-> "none"]

Exists(o)   == o.uid # 0
Spec_(o)    == <<o.valid, o.optional>>
Declared(o) == {s \in StageSet(kind) : s \in Optional => o.optional}

\* copy is the object as the pass read it.
RecType == [pc: {"idle", "update", "dispatch", "persist", "teardown", "cleanup",
                 "release"},
            copy: ObjType]
ObsType == [pc: {"idle", "write"}, copy: ObjType, result: Results]
IdleRec == [pc |-> "idle", copy |-> NoObj]
IdleObs == [pc |-> "idle", copy |-> NoObj, result |-> "none"]

SpentType == [lives: Nat, edits: Nat, upsets: Nat]

\* The types; and a pass that does anything read an object with the finalizer.
TypeOK ==
    /\ kind \in Kinds
    /\ obj \in ObjType /\ cObj \in ObjType
    /\ env \in BOOLEAN
    /\ prereqs \subseteq StageSet(kind)
    /\ service \in {"none", "pending", "ready", "deleting"}
    /\ recQ \in BOOLEAN /\ obsQ \in BOOLEAN
    /\ rec \in RecType /\ obs \in ObsType
    /\ rec.pc # "idle" => rec.copy.finalizer
    /\ spent \in SpentType

Init ==
    /\ kind \in Kinds
    /\ obj = NoObj /\ cObj = NoObj
    /\ env = TRUE
    /\ prereqs = {} /\ service = "none"
    /\ recQ = FALSE /\ obsQ = FALSE
    /\ rec = IdleRec /\ obs = IdleObs
    /\ spent = [lives |-> 0, edits |-> 0, upsets |-> 0]

Upset ==
    /\ spent.upsets < MaxUpsets
    /\ spent' = [spent EXCEPT !.upsets = @ + 1]

-----------------------------------------------------------------------------
(* The user, and the controllers that bring the service up and down *)

CreateObject ==
    /\ ~Exists(obj)
    /\ spent.lives < MaxLives
    /\ spent' = [spent EXCEPT !.lives = @ + 1]
    /\ obj' = [NoObj EXCEPT !.uid = spent.lives + 1]
    /\ UNCHANGED <<kind, cObj, env, prereqs, service, recQ, obsQ, rec, obs>>

DeleteObject ==
    /\ Exists(obj) /\ ~obj.deleting
    /\ obj' = IF obj.finalizer THEN [obj EXCEPT !.deleting = TRUE] ELSE NoObj
    /\ UNCHANGED <<kind, cObj, env, prereqs, service, recQ, obsQ, rec, obs, spent>>

\* An edit that some pass can tell.
Edit ==
    /\ spent.edits < MaxEdits
    /\ spent' = [spent EXCEPT !.edits = @ + 1]
    /\ \/ Exists(obj) /\ obj' = [obj EXCEPT !.valid = ~@] /\ UNCHANGED env
       \/ /\ Exists(obj) /\ StageSet(kind) \cap Optional # {}
          /\ obj' = [obj EXCEPT !.optional = ~@]
          /\ UNCHANGED env
       \/ HasMediator(kind) /\ env' = ~env /\ UNCHANGED obj
    /\ UNCHANGED <<kind, cObj, prereqs, service, recQ, obsQ, rec, obs>>

\* Events of the service's object reach the observers that watch it.
SeenByObserver == obsQ' = (obsQ \/ kind \in WatchesService)

SettleService ==
    /\ service = "pending"
    /\ service' = "ready"
    /\ SeenByObserver
    /\ UNCHANGED <<kind, obj, cObj, env, prereqs, recQ, rec, obs, spent>>

DriftService ==
    /\ service = "ready"
    /\ Upset
    /\ service' = "pending"
    /\ SeenByObserver
    /\ UNCHANGED <<kind, obj, cObj, env, prereqs, recQ, rec, obs>>

\* kapp-controller removes what an App deployed, and the App, as the service
\* account of its Package.
Identity == {"service account", "deployer binding"}

RemoveApp ==
    /\ service = "deleting"
    /\ Identity \subseteq prereqs
    /\ service' = "none"
    /\ SeenByObserver
    /\ UNCHANGED <<kind, obj, cObj, env, prereqs, recQ, rec, obs, spent>>

-----------------------------------------------------------------------------
(* The manager: informers and restarts *)

Wakes_NewOnly(old, new) == Exists(new) /\ old.uid # new.uid

Wakes(old, new) ==
    /\ Exists(new)
    /\ \/ old.uid # new.uid
       \/ Spec_(old) # Spec_(new)
       \/ kind \in DeletionWakes /\ ~old.deleting /\ new.deleting

WatchObject ==
    /\ cObj # obj
    /\ cObj' = obj
    /\ recQ' = (recQ \/ Wakes(cObj, obj))
    /\ obsQ' = (obsQ \/ kind \in WatchesObject)
    /\ UNCHANGED <<kind, obj, env, prereqs, service, rec, obs, spent>>

Restart ==
    /\ Upset
    /\ cObj' = obj
    /\ recQ' = Exists(obj)
    /\ obsQ' = \/ kind \in WatchesObject /\ Exists(obj)
               \/ kind \in WatchesService /\ service # "none"
    /\ rec' = IdleRec /\ obs' = IdleObs
    /\ UNCHANGED <<kind, obj, env, prereqs, service>>

\* A Build has a new image and a ServiceUnit that runs it is listed by the
\* Deployment.
NewImage ==
    /\ kind = "Deployment" /\ Exists(cObj) /\ ~recQ
    /\ Upset
    /\ recQ' = TRUE
    /\ UNCHANGED <<kind, obj, cObj, env, prereqs, service, obsQ, rec, obs>>

-----------------------------------------------------------------------------
(* The reconciler: a pass reads the object and gates its finalizer *)

RecDone     == rec' = IdleRec /\ UNCHANGED recQ
RecError    == rec' = IdleRec /\ recQ' = TRUE
RecNext(pc) == rec' = [rec EXCEPT !.pc = pc] /\ UNCHANGED recQ

\* A pass that is done with an object it has nothing to do for.
Nothing(o) == ~Exists(o) \/ (o.deleting /\ ~o.finalizer)

\* The finalizer is added to the copy read, which the API server refuses when
\* it is not current.  Most kinds ask to be run again, GitRepository does not.
AddFinalizer ==
    /\ ~Nothing(cObj) /\ ~cObj.finalizer
    /\ \/ /\ cObj = obj
          /\ obj' = [obj EXCEPT !.finalizer = TRUE]
          /\ recQ' = (kind # "GitRepository")
       \/ cObj # obj /\ recQ' = TRUE /\ UNCHANGED obj
    /\ UNCHANGED rec

Read_Plain ==
    /\ ~Nothing(cObj)
    /\ rec' = [pc |-> IF Deletes(kind, cObj) THEN "teardown" ELSE "update",
               copy |-> cObj]
    /\ recQ' = FALSE
    /\ UNCHANGED obj

Read ==
    /\ ~Nothing(cObj) /\ cObj.finalizer
    /\ rec' = [pc |-> IF Deletes(kind, cObj) THEN "teardown" ELSE "update",
               copy |-> cObj]
    /\ recQ' = FALSE
    /\ UNCHANGED obj

ReconcileObject ==
    /\ recQ /\ rec.pc = "idle"
    /\ \/ Nothing(cObj) /\ recQ' = FALSE /\ UNCHANGED <<obj, rec>>
       \/ AddFinalizer
       \/ Read
    /\ UNCHANGED <<kind, cObj, env, prereqs, service, obsQ, obs, spent>>

-----------------------------------------------------------------------------
(* Update: resolve, prerequisites, dispatch, persist *)

Resolves == rec.copy.valid
Located  == HasMediator(kind) => env

\* The declared prerequisites among the first n stages.
Ensured(n) == Declared(rec.copy) \cap {Stages(kind)[i] : i \in 1 .. n}

HandleUpdate ==
    /\ rec.pc = "update"
    /\ \/ ~(Resolves /\ Located) /\ RecError /\ UNCHANGED <<prereqs, spent>>
       \/ /\ Resolves /\ Located
          /\ prereqs' = prereqs \cup Ensured(Len(Stages(kind)))
          /\ RecNext("dispatch")
          /\ UNCHANGED spent
       \/ /\ Resolves /\ Located /\ HasMediator(kind)
          /\ Upset
          /\ \E n \in 0 .. Len(Stages(kind)) - 1 :
                prereqs' = prereqs \cup Ensured(n)
          /\ RecError
    /\ UNCHANGED <<kind, obj, cObj, env, service, obsQ, obs>>

\* What the service has created once it was dispatched, and the word on it.
Dispatched == IF service = "none" THEN "pending" ELSE service
Told(s)    == IF s = "ready" THEN "ready" ELSE "pending"

\* What the service itself says: for an App, only that it was applied, since "the
\* provider deliberately never reports a final outcome" (observers/packages, 21-24).
Requested(was) == IF Dispatched = "ready" /\ was \in {"ready", "requested"}
                  THEN "requested" ELSE "pending"
ServiceSays == IF kind = "Package" THEN Requested(obj.result) ELSE Told(Dispatched)

\* A Domain whose certificate is not issued yet is an error, to be run again.
Provisioning == kind = "Domain" /\ Dispatched # "ready"

\* After a failed dispatch the service may or may not have been created.
Dispatch ==
    /\ rec.pc = "dispatch"
    /\ \/ /\ service' = Dispatched
          /\ obj' = IF Exists(obj) /\ kind \in ServiceWritesStatus
                    THEN [obj EXCEPT !.result = ServiceSays] ELSE obj
          /\ \/ Provisioning /\ RecError
             \/ ~Provisioning /\ RecNext(IF rec.copy.deleting THEN "release"
                                                              ELSE "persist")
          /\ UNCHANGED spent
       \/ /\ Upset
          /\ service' \in {service, Dispatched}
          /\ RecError
          /\ UNCHANGED obj
    /\ obsQ' = (obsQ \/ (kind \in WatchesService /\ service' # service))
    /\ UNCHANGED <<kind, cObj, env, prereqs, obs>>

\* The status as the pass leaves it.
Persisted == [obj EXCEPT !.result = IF kind \in MergesConditions
                                    THEN @ ELSE rec.copy.result]

\* RetryOnConflict around: read the latest copy from the cache, update.  A copy
\* that is not current is refused; the pass waits for the cache or gives up.
PersistStatus ==
    /\ rec.pc = "persist"
    /\ \/ Exists(cObj) /\ cObj = obj /\ obj' = Persisted /\ RecDone
       \/ (~Exists(cObj) \/ cObj # obj) /\ RecError /\ UNCHANGED obj
    /\ UNCHANGED <<kind, cObj, env, prereqs, service, obsQ, obs, spent>>

-----------------------------------------------------------------------------
(* Delete: teardown, cleanup, release *)

\* A Package is torn down whether its contract resolves or not.
MayTearDown == kind = "Package" \/ Resolves

\* kapp-controller removes an App in its own time, as the service account the
\* cleanup takes away: the pass ends here until the App is gone.
AfterTeardown_AppsOnly ==
    IF kind = "Package" /\ service # "none" THEN "deleting" ELSE service
AfterTeardown ==
    IF kind = "Package" /\ service # "none" THEN "deleting"
    ELSE IF kind \in TearsDown THEN "none" ELSE service

\* The teardown of an App that is still there is in progress.
InProgress_Never == FALSE
InProgress == kind = "Package" /\ service # "none"

Teardown ==
    /\ rec.pc = "teardown"
    /\ \/ ~MayTearDown /\ RecError /\ UNCHANGED <<service, spent>>
       \/ /\ MayTearDown
          /\ service' = AfterTeardown
          /\ \/ InProgress /\ RecError
             \/ ~InProgress /\ RecNext(IF HasMediator(kind) THEN "cleanup"
                                                            ELSE "release")
          /\ UNCHANGED spent
       \/ /\ MayTearDown
          /\ Upset
          /\ service' \in {service, AfterTeardown}
          /\ RecError
    /\ obsQ' = (obsQ \/ (kind \in WatchesService /\ service' # service))
    /\ UNCHANGED <<kind, obj, cObj, env, prereqs, obs>>

\* What the contract read declares, and no other object relies on.
Owned == Declared(rec.copy) \ Shared

\* Every deletion is attempted; one that failed keeps the finalizer.  The
\* prerequisites of a contract that does not resolve are not known.
CleanupPrerequisites ==
    /\ rec.pc = "cleanup"
    /\ \/ ~Resolves /\ RecNext("release") /\ UNCHANGED <<prereqs, spent>>
       \/ Resolves /\ ~env /\ RecError /\ UNCHANGED <<prereqs, spent>>
       \/ /\ Resolves /\ env
          /\ prereqs' = prereqs \ Owned
          /\ RecNext("release")
          /\ UNCHANGED spent
       \/ /\ Resolves /\ env
          /\ Upset
          /\ \E gone \in SUBSET Owned : prereqs' = prereqs \ gone
          /\ RecError
    /\ UNCHANGED <<kind, obj, cObj, env, service, obsQ, obs>>

\* RetryOnConflict around: read the latest copy, drop the finalizer, update.
Released(o) == IF o.deleting THEN NoObj ELSE [o EXCEPT !.finalizer = FALSE]

RemoveFinalizer ==
    /\ rec.pc = "release"
    /\ \/ ~Exists(cObj) /\ RecDone /\ UNCHANGED obj
       \/ Exists(cObj) /\ cObj = obj /\ obj' = Released(obj) /\ RecDone
       \/ Exists(cObj) /\ cObj # obj /\ RecError /\ UNCHANGED obj
    /\ UNCHANGED <<kind, cObj, env, prereqs, service, obsQ, obs, spent>>

ReconcilerStep ==
    \/ ReconcileObject \/ HandleUpdate \/ Dispatch \/ PersistStatus
    \/ Teardown \/ CleanupPrerequisites \/ RemoveFinalizer

-----------------------------------------------------------------------------
(* The observers: read the object and the service's, write the result *)

\* A Package that is gone or being deleted is left alone, and one whose App is
\* gone; a GitHubEvent keeps a result that says ready.
Skipped ==
    \/ ~Exists(cObj)
    \/ kind \in WatchesService /\ (cObj.deleting \/ service = "none")

Observed == IF kind \in WatchesObject /\ cObj.result = "ready" THEN "ready"
                                                               ELSE Told(service)

\* A GitHubEvent that does not resolve stays queued, which is no step.
ObserveService ==
    /\ obsQ /\ obs.pc = "idle"
    /\ \/ Skipped /\ obsQ' = FALSE /\ UNCHANGED obs
       \/ /\ ~Skipped /\ (kind \in WatchesObject => cObj.valid)
          /\ obsQ' = FALSE
          /\ obs' = [pc |-> "write", copy |-> cObj, result |-> Observed]
    /\ UNCHANGED <<kind, obj, cObj, env, prereqs, service, recQ, rec, spent>>

\* The copy read is written back with the result, if it is still current.
WriteResult ==
    /\ obs.pc = "write"
    /\ obs' = IdleObs
    /\ \/ /\ obs.copy = obj
          /\ obj' = [obj EXCEPT !.result = obs.result]
          /\ UNCHANGED <<obsQ, spent>>
       \/ obs.copy # obj /\ obsQ' = TRUE /\ UNCHANGED <<obj, spent>>
       \/ Upset /\ obsQ' = TRUE /\ UNCHANGED obj
    /\ UNCHANGED <<kind, cObj, env, prereqs, service, recQ, rec>>

ObserverStep == ObserveService \/ WriteResult

-----------------------------------------------------------------------------
(* Composition *)

Step ==
    \/ CreateObject \/ DeleteObject \/ Edit
    \/ SettleService \/ DriftService \/ RemoveApp
    \/ Restart \/ NewImage \/ ReconcilerStep \/ ObserverStep

\* Without CacheLag the informers come first.
Synced == CacheLag \/ cObj = obj
Next   == WatchObject \/ (Synced /\ Step)

\* Informers deliver, the service's controllers finish, and every controller
\* has a worker.
Fairness ==
    /\ WF_vars(WatchObject)
    /\ WF_vars(Synced /\ SettleService) /\ WF_vars(Synced /\ RemoveApp)
    /\ WF_vars(Synced /\ ReconcilerStep) /\ WF_vars(Synced /\ ObserverStep)

Spec     == Init /\ [][Next]_vars
FairSpec == Spec /\ Fairness

-----------------------------------------------------------------------------
(* Properties *)

\* What a service created never stands without the prerequisites it was given:
\* the App "deploys as" its Package's service account and is removed as that
\* account (mediators/packages, 127; domains/packages, 180-183), so the account
\* must outlive it, through failed teardowns, restarts and a deletion at any
\* time.  A GitRepository's webhook secret goes while its repository stays.
ServiceHasPrerequisites ==
    service # "none" /\ kind # "GitRepository" =>
        StageSet(kind) \ (Optional \cup Shared) \subseteq prereqs

\* What the finalizer of each kind holds its object for.  A contract that was
\* edited may name other prerequisites than were made, or none: then only
\* those that do not depend on it are sure to go.
Owed ==
    CASE kind = "Package" ->
            {"service"} \cup (IF spent.edits = 0 THEN StageSet(kind) ELSE {})
      [] kind = "Deployment" ->
            {"service", "flux ssh"} \cup
                (IF spent.edits = 0 THEN StageSet(kind) ELSE {})
      [] kind = "GitRepository" -> {"hook url"}
      [] kind = "GitHubEvent"   -> {}
      [] OTHER                  -> {"service"}

Lifecycle == INSTANCE FinalizerLifecycle WITH
    Resources <- {"service"} \cup UNION {StageSet(k) : k \in Kinds},
    object    <- IF ~Exists(obj) THEN "absent"
                 ELSE IF ~obj.finalizer THEN "plain"
                 ELSE IF ~obj.deleting THEN "held" ELSE "deleting",
    resources <- Owed \cap (prereqs \cup (IF service = "none" THEN {}
                                                              ELSE {"service"}))

\* "Handle() must return nil ONLY if it is safe for the controller to remove the
\* finalizer": every kind keeps the contract of the finalizer for what its
\* teardown covers.
KeepsLifecycle == Lifecycle!Spec

\* Whatever failed or was edited before, a valid object whose Environment exists
\* ends up with its prerequisites and its service.
Wanted == Exists(obj) /\ ~obj.deleting /\ obj.valid /\ (HasMediator(kind) => env)

Served(o) == service \in {"pending", "ready"} /\ Declared(o) \subseteq prereqs

Provisioned == <>[](Wanted /\ kind # "GitRepository" => Served(obj))

\* The deletion of a kind that is woken by it completes once the contract
\* resolves and the Environment exists: a Package waits for an App that goes as
\* its service account, and everything that fails is tried again.
DeletionCompletes ==
    kind \in {"Package", "Deployment"} /\ <>[](env /\ obj.valid) =>
        (obj.deleting ~> ~obj.deleting)

\* The status says of the App what the App says, unless a dispatch has put it back
\* to pending since the App was last heard of and the App is as it was: nothing
\* happens to such an App that would wake the observer.
Reported == \/ obj.result = Told(service)
            \/ service = "ready" /\ obj.result = "requested"

\* A Package ends up saying of its App what the App says, but for the outcomes that
\* are put back: the observer and the package service write the result while the
\* reconciler merges conditions into the same status
\* (controller/environments/package.go 173-176).
ResultConverges ==
    kind = "Package" => <>[](Wanted => Reported)

\* A reconciler that has seen everything and is not queued leaves nothing
\* undone, although its filter drops most events and no pass is scheduled: a
\* valid object is served as its contract says now, whether or not its
\* Environment came and went, a deletion that wakes the reconciler is through,
\* and once the observer of a Package is not queued either the status reports
\* what the App says.  The pass that adds the finalizer of a
\* GitRepository is the exception: it is done, and nothing wakes the next.
NothingForgotten ==
    ~recQ /\ rec.pc = "idle" /\ cObj = obj =>
        /\ Exists(obj) /\ ~obj.deleting /\ obj.valid /\ kind # "GitRepository" =>
              Served(obj)
        /\ kind \in DeletionWakes => ~obj.deleting
        /\ kind = "Package" /\ Wanted /\ ~obsQ /\ obs.pc = "idle" => Reported

-----------------------------------------------------------------------------
(* What a comment says and the code does not do *)

\* Without an event for the deletion "the reconciler would never run its delete
\* path and the finalizer would keep the object forever"
\* (controller/environments/package.go 246-250): nothing edited, nothing failed,
\* and still the deletion of some kinds does not complete.
EveryDeletionCompletes ==
    <>[](env /\ obj.valid) => (obj.deleting ~> ~obj.deleting)
==============================================================================
