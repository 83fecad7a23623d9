---------------------------- MODULE ImageRollout ----------------------------
(***************************************************************************)
(* How the image a Build pushed reaches what runs it.  A Deployment rolls  *)
(* out the ServiceUnits it lists; a ServiceUnit of type BUILD runs the     *)
(* image its Build last pushed.  Nothing in either object changes when the *)
(* Build pushes, so both controllers watch Builds and look up, in their    *)
(* caches, whom the new image concerns.                                    *)
(*                                                                         *)
(* The ServiceUnit reconciler reads unit and Build from the informer cache *)
(* and reports the image; the Deployment reconciler reads both from the    *)
(* API server, unit by unit, and rolls them out.  The module is about one  *)
(* Build, the ServiceUnits, and one Deployment that lists them all, holds  *)
(* its finalizer and is not deleted: its deletion is ResourceLifecycle's.  *)
(* Images are numbered in the order they are pushed, 0 is none yet.        *)
(*                                                                         *)
(* The two controllers share what they watch and nothing else: a report    *)
(* does not concern the Deployment, nor its rollout a ServiceUnit.  A      *)
(* behaviour is about one of them, controller says which.                  *)
(***************************************************************************)
EXTENDS Naturals

CONSTANTS
    NumUnits,       \* how many ServiceUnits the Deployment lists
    MaxImages,      \* bound: images the Build pushes
    MaxEdits,       \* bound: what users do to ServiceUnits and Environment
    MaxUpsets       \* bound: failed calls and restarts

ASSUME UnitsAssumption  == NumUnits \in Nat \ {0}
ASSUME BoundsAssumption == MaxImages \in Nat /\ MaxEdits \in Nat /\ MaxUpsets \in Nat

VARIABLES
    controller, \* the controller the behaviour is about
    image,      \* the image the Build's status names
    units,      \* the ServiceUnits on the API server
    env,        \* does the Environment exist?
    dep,        \* the Deployment: what it runs, and what its status says
    cImage,     \* the informer cache: the Build's image,
    cUnits,     \*     the ServiceUnits, each with whether its copy is current,
    cDep,       \*     and the Deployment likewise
    toMap,      \* does it have an image event still to be mapped?
    unitQ,      \* the ServiceUnits queued for their reconciler
    depQ,       \* is the Deployment queued for its reconciler?
    unitPass,   \* the pass of the ServiceUnit reconciler
    depPass,    \* the pass of the Deployment reconciler
    untold,     \* was there a change the Deployment was not queued for?
    spent       \* how much of each bound is used up

cluster == <<controller, image, units, env, dep>>
caches  == <<cImage, cUnits, cDep>>
queues  == <<toMap, unitQ, depQ>>
vars    == <<cluster, caches, queues, unitPass, depPass, untold, spent>>

-----------------------------------------------------------------------------
(* Data *)

Units  == 1 .. NumUnits
Pinned == MaxImages + 1         \* the image of a unit that names one itself
Images == 0 .. Pinned

\* A unit of type BUILD, one that names an image, one that does not resolve.
Contracts  == {"absent", "build", "pinned", "broken"}
Resolvable == {"build", "pinned"}

\* report: the image the status says the unit is ready with, 0 when not ready.
UnitType == [contract: Contracts, report: Images]

\* The condition DeploymentSucceeded: True, or False with one of two reasons.
Verdicts == {"none", "succeeded", "unresolved", "failed"}
DepType  == [running: [Units -> Images], verdict: Verdicts]

\* Of the cached copies, what is read, and whether the API server would accept
\* them back.
UnitCopy == [contract: Contracts, current: BOOLEAN]
DepCopy  == [verdict: Verdicts, current: BOOLEAN]

\* next: the unit to read; images: those read; floor: what the Build had
\* pushed when the pass began; verdict: the condition as the pass read it, then
\* what it writes, if anything; failed: does the pass end in an error?
DepPassType == [pc: {"idle", "resolve", "deploy", "persist"},
                next: 1 .. NumUnits + 1, images: [Units -> Images],
                floor: Images, verdict: Verdicts \cup {"unchanged"},
                failed: BOOLEAN]
UnitPassType == [pc: {"idle", "persist"}, unit: Units, report: Images]

Nothing      == [u \in Units |-> 0]
IdleUnitPass == [pc |-> "idle", unit |-> 1, report |-> 0]
IdleDepPass  == [pc |-> "idle", next |-> 1, images |-> Nothing, floor |-> 0,
                 verdict |-> "none", failed |-> FALSE]

TypeOK ==
    /\ controller \in {"serviceunits", "deployments"}
    /\ image \in 0 .. MaxImages /\ cImage \in 0 .. image
    /\ units \in [Units -> UnitType] /\ cUnits \in [Units -> UnitCopy]
    /\ env \in BOOLEAN
    /\ dep \in DepType /\ cDep \in DepCopy
    /\ toMap \in BOOLEAN
    /\ unitQ \subseteq Units /\ depQ \in BOOLEAN
    /\ unitPass \in UnitPassType /\ depPass \in DepPassType
    /\ depPass.pc = "resolve" => depPass.next \in Units
    /\ untold \in BOOLEAN
    /\ spent \in [edits: Nat, upsets: Nat]

\* InjectBuildImage: the image of a contract, the Build read being at pushed.
ImageOf(contract, pushed) ==
    IF contract = "build" THEN pushed ELSE IF contract = "pinned" THEN Pinned ELSE 0

ForUnits  == controller = "serviceunits"
Existing  == {u \in Units : ForUnits /\ units[u].contract # "absent"}
Wanted(u) == ImageOf(units[u].contract, image)

CopyOfUnits == [u \in Units |-> [contract |-> units[u].contract, current |-> TRUE]]
CopyOfDep   == [verdict |-> dep.verdict, current |-> TRUE]

\* The manager starts on what users have declared by then.
Init ==
    /\ controller \in {"serviceunits", "deployments"}
    /\ image = 0 /\ cImage = 0
    /\ \E contract \in [Units -> Contracts] :
          units = [u \in Units |-> [contract |-> contract[u], report |-> 0]]
    /\ cUnits = CopyOfUnits
    /\ env = TRUE
    /\ dep = [running |-> Nothing, verdict |-> "none"] /\ cDep = CopyOfDep
    /\ toMap = FALSE /\ unitQ = Existing /\ depQ = ~ForUnits
    /\ unitPass = IdleUnitPass /\ depPass = IdleDepPass
    /\ untold = FALSE
    /\ spent = [edits |-> 0, upsets |-> 0]

Effort ==
    /\ spent.edits < MaxEdits
    /\ spent' = [spent EXCEPT !.edits = @ + 1]

Upset ==
    /\ spent.upsets < MaxUpsets
    /\ spent' = [spent EXCEPT !.upsets = @ + 1]

-----------------------------------------------------------------------------
(* The Build, the users *)

PushImage ==
    /\ image < MaxImages
    /\ image' = image + 1
    /\ UNCHANGED <<controller, units, env, dep, caches, queues, unitPass, depPass, untold, spent>>

\* Creates, edits or deletes a unit; one that was deleted is created again
\* when the informer has seen it go.  No Deployment is queued for it.
EditUnit(u) ==
    /\ Effort
    /\ \E contract \in Contracts \ {units[u].contract} :
          /\ units[u].contract = "absent" => cUnits[u].current
          /\ units' = [units EXCEPT ![u] =
                          [contract |-> contract,
                           report   |-> IF contract = "absent" THEN 0 ELSE @.report]]
    /\ cUnits' = [cUnits EXCEPT ![u].current = FALSE]
    /\ untold' = (~ForUnits /\ ~depQ)
    /\ UNCHANGED <<controller, image, env, dep, cImage, cDep, queues, unitPass, depPass>>

ToggleEnvironment ==
    /\ ~ForUnits
    /\ Effort
    /\ env' = ~env
    /\ UNCHANGED <<controller, image, units, dep, caches, queues, unitPass, depPass, untold>>

-----------------------------------------------------------------------------
(* The manager: informers, the mapping of image events, restarts *)

\* The watch delivers every update, and buildImageChanged lets it through.
WatchBuild ==
    /\ cImage < image
    /\ cImage' = cImage + 1
    /\ toMap' = TRUE
    /\ UNCHANGED <<cluster, cUnits, cDep, unitQ, depQ, unitPass, depPass, untold, spent>>

\* The filter passes new units and changes of the spec.
WakesUnit_New(u) == units[u].contract # "absent" /\ cUnits[u].contract = "absent"
WakesUnit(u)     == units[u].contract \notin {"absent", cUnits[u].contract}

WatchUnit(u) ==
    /\ ~cUnits[u].current
    /\ cUnits' = [cUnits EXCEPT ![u] = CopyOfUnits[u]]
    /\ unitQ' = IF WakesUnit(u) THEN unitQ \cup (Existing \cap {u}) ELSE unitQ
    /\ UNCHANGED <<cluster, cImage, cDep, toMap, depQ, unitPass, depPass, untold, spent>>

\* Its status is all that changes, which the filter drops.
WatchDeployment ==
    /\ ~cDep.current
    /\ cDep' = CopyOfDep
    /\ UNCHANGED <<cluster, cImage, cUnits, queues, unitPass, depPass, untold, spent>>

\* Whom an image concerns is looked up in the cache.  (A lookup that fails loses
\* the event, build_image.go 94-97, 111-114 and 125-128: a List of a kind the
\* manager watches is answered from its informer's store, which waits until that
\* is filled, so that this is left out.)
UnitsOfBuild_First ==
    {u \in Units : /\ cUnits[u].contract = "build"
                   /\ \A v \in Units : cUnits[v].contract = "build" => u <= v}
UnitsOfBuild == {u \in Units : cUnits[u].contract = "build"}
Concerned_IfIdle == UnitsOfBuild # {} /\ depPass.pc = "idle"
Concerned        == UnitsOfBuild # {}

MapBuildToServiceUnits ==
    /\ toMap /\ ForUnits
    /\ toMap' = FALSE
    /\ unitQ' = unitQ \cup UnitsOfBuild
    /\ UNCHANGED <<cluster, caches, depQ, unitPass, depPass, untold, spent>>

MapBuildToDeployments ==
    /\ toMap /\ ~ForUnits
    /\ toMap' = FALSE
    /\ depQ' = (depQ \/ Concerned)
    /\ untold' = /\ ~depQ /\ UnitsOfBuild = {}
                 /\ untold \/ \E u \in Units : units[u].contract = "build"
    /\ UNCHANGED <<cluster, caches, unitQ, unitPass, depPass, spent>>

\* The informers list everything again: every object is queued, except that an
\* image event is for updates only.
Restart ==
    /\ Upset
    /\ cImage' = image /\ cUnits' = CopyOfUnits /\ cDep' = CopyOfDep
    /\ toMap' = FALSE /\ unitQ' = Existing /\ depQ' = ~ForUnits
    /\ unitPass' = IdleUnitPass /\ depPass' = IdleDepPass
    /\ untold' = FALSE
    /\ UNCHANGED cluster

-----------------------------------------------------------------------------
(* The ServiceUnit reconciler *)

\* Unit and Build are read from the cache.  A unit that does not resolve stays
\* queued and its status as it is, which is no step.
ReconcileUnit(u) ==
    /\ u \in unitQ /\ unitPass.pc = "idle"
    /\ cUnits[u].contract # "broken"
    /\ unitQ' = unitQ \ {u}
    /\ unitPass' = IF cUnits[u].contract = "absent" THEN IdleUnitPass
                   ELSE [pc |-> "persist", unit |-> u,
                         report |-> ImageOf(cUnits[u].contract, cImage)]
    /\ UNCHANGED <<cluster, caches, toMap, depQ, depPass, untold, spent>>

\* RetryOnConflict around: read the latest copy from the cache, replace its
\* status.  A copy that is not current is refused; the pass gives up in the end.
PersistReport ==
    /\ unitPass.pc = "persist"
    /\ unitPass' = IdleUnitPass
    /\ LET u == unitPass.unit IN
       \/ /\ cUnits[u].current /\ units[u].contract # "absent"
          /\ units' = [units EXCEPT ![u].report = unitPass.report]
          /\ cUnits' = [cUnits EXCEPT ![u].current = (units' = units)]
          /\ UNCHANGED <<unitQ, spent>>
       \/ /\ ~cUnits[u].current \/ units[u].contract = "absent"
          /\ unitQ' = unitQ \cup {u}
          /\ UNCHANGED <<units, cUnits, spent>>
       \/ /\ Upset
          /\ unitQ' = unitQ \cup {u}
          /\ UNCHANGED <<units, cUnits>>
    /\ UNCHANGED <<controller, image, env, dep, cImage, cDep, toMap, depQ, depPass, untold>>

ServiceUnitStep == (\E u \in Units : ReconcileUnit(u)) \/ PersistReport

-----------------------------------------------------------------------------
(* The Deployment reconciler *)

\* The contract resolves.  The prerequisites need the Environment, and may fail.
\* A pass without them goes on to write its conditions, of which the verdict is
\* none.
ReconcileDeployment ==
    /\ depQ /\ depPass.pc = "idle"
    /\ depQ' = FALSE
    /\ \/ /\ env
          /\ depPass' = [IdleDepPass EXCEPT !.pc = "resolve", !.floor = image,
                                            !.verdict = cDep.verdict]
          /\ UNCHANGED spent
       \/ /\ depPass' = [IdleDepPass EXCEPT !.pc = "persist", !.failed = TRUE,
                                            !.verdict = "unchanged"]
          /\ IF env THEN Upset ELSE UNCHANGED spent
    /\ UNCHANGED <<cluster, caches, toMap, unitQ, unitPass, untold>>

\* changedConditions: a condition the pass sets as it read it is not written.
Gives(verdict) ==
    depPass' = [IdleDepPass EXCEPT
                   !.pc      = "persist",
                   !.verdict = IF verdict = depPass.verdict THEN "unchanged"
                                                            ELSE verdict,
                   !.failed  = (verdict # "succeeded")]

\* The next unit, and its Build, as the API server has them now; the service
\* follows on the last.
LiveImage_Cached == cImage
LiveImage        == image
AfterUnit_OneMore(u) == IF u > NumUnits THEN "deploy" ELSE "resolve"
AfterUnit(u)         == IF u = NumUnits THEN "deploy" ELSE "resolve"

ResolveServiceUnit ==
    /\ depPass.pc = "resolve"
    /\ LET u        == depPass.next
           contract == units[u].contract
       IN  \/ /\ contract \in Resolvable
              /\ depPass' = [depPass EXCEPT
                                !.pc        = AfterUnit(u),
                                !.next      = u + 1,
                                !.images[u] = ImageOf(contract, LiveImage)]
              /\ UNCHANGED spent
           \/ contract \notin Resolvable /\ Gives("unresolved") /\ UNCHANGED spent
           \/ Upset /\ Gives("unresolved")
    /\ UNCHANGED <<cluster, caches, queues, unitPass, untold>>

\* The deployment service rolls out all units, or fails having rolled out some:
\* a call of its fails, or a Build has pushed nothing yet.  Its result goes to
\* the status.
Deploy ==
    /\ depPass.pc = "deploy"
    /\ \/ /\ \A u \in Units : depPass.images[u] # 0
          /\ dep' = [dep EXCEPT !.running = depPass.images]
          /\ Gives("succeeded")
          /\ UNCHANGED spent
       \/ /\ \E out \in SUBSET {u \in Units : depPass.images[u] # 0} :
                dep' = [dep EXCEPT !.running =
                           [u \in Units |-> IF u \in out THEN depPass.images[u]
                                                         ELSE @[u]]]
          /\ Gives("failed")
          /\ \/ (\E u \in Units : depPass.images[u] = 0) /\ UNCHANGED spent
             \/ Upset
    /\ cDep' = [cDep EXCEPT !.current = FALSE]
    /\ UNCHANGED <<controller, image, units, env, cImage, cUnits, queues, unitPass, untold>>

\* What the pass leaves of the verdict the status has, and whether it is to be
\* run again.
Merged_OnSuccess(verdict) ==
    IF depPass.verdict = "unchanged" \/ depPass.failed THEN verdict
                                                      ELSE depPass.verdict
Merged(verdict)  == IF depPass.verdict = "unchanged" THEN verdict ELSE depPass.verdict
Requeued_Dropped == depQ
Requeued         == depQ \/ depPass.failed

\* RetryOnConflict around: read the latest copy from the cache, merge what the
\* pass changed, update.  A pass whose conditions could not be written is run
\* again.
PersistConditions ==
    /\ depPass.pc = "persist"
    /\ depPass' = IdleDepPass
    /\ \/ /\ cDep.current
          /\ dep' = [dep EXCEPT !.verdict = Merged(@)]
          /\ cDep' = [cDep EXCEPT !.current = (dep' = dep)]
          /\ depQ' = Requeued
          /\ UNCHANGED spent
       \/ ~cDep.current /\ depQ' = TRUE /\ UNCHANGED <<dep, cDep, spent>>
       \/ Upset /\ depQ' = TRUE /\ UNCHANGED <<dep, cDep>>
    /\ untold' = (untold /\ ~depQ')
    /\ UNCHANGED <<controller, image, units, env, cImage, cUnits, toMap, unitQ, unitPass>>

DeploymentStep ==
    ReconcileDeployment \/ ResolveServiceUnit \/ Deploy \/ PersistConditions

-----------------------------------------------------------------------------
(* Composition *)

Inform == WatchBuild \/ (\E u \in Units : WatchUnit(u)) \/ WatchDeployment
Map    == MapBuildToServiceUnits \/ MapBuildToDeployments

Next ==
    \/ PushImage \/ (\E u \in Units : EditUnit(u)) \/ ToggleEnvironment
    \/ Inform \/ Map \/ Restart
    \/ ServiceUnitStep \/ DeploymentStep

\* Informers deliver, event handlers run, every controller has a worker.
Fairness ==
    /\ WF_vars(WatchBuild) /\ WF_vars(WatchDeployment)
    /\ \A u \in Units : WF_vars(WatchUnit(u))
    /\ WF_vars(MapBuildToServiceUnits) /\ WF_vars(MapBuildToDeployments)
    /\ WF_vars(ServiceUnitStep) /\ WF_vars(DeploymentStep)

Spec     == Init /\ [][Next]_vars
FairSpec == Spec /\ Fairness

-----------------------------------------------------------------------------
(* Properties *)

Deployable == env /\ \A u \in Units : Wanted(u) # 0

\* What is on its way to the Deployment, and what has passed it by.
Told == depQ \/ toMap \/ cImage # image

\* No image is lost on its way: a Deployment whose reconciler is idle, with no
\* event on its way, runs what its ServiceUnits ask for, however pushes, the
\* mapping of their events, failed passes and restarts overlapped
\* (controller/environments/build_image.go 98-143, domains/deployment 265-296).
\* The exception is what no event tells it of, see untold.
RolloutCurrent ==
    ~ForUnits /\ depPass.pc = "idle" /\ ~Told /\ ~untold =>
        \A u \in Units : dep.running[u] = Wanted(u)

\* Nor on its way to a ServiceUnit: one that is neither queued nor being
\* reconciled reports the image its contract asks for, once the reconciler has
\* seen that contract and every image, although its passes read both from a
\* cache that lags and have their writes refused
\* (controller/environments/build_image.go 42-96, serviceunit.go 84-119).
OnUnit(u) == unitPass.pc = "persist" /\ unitPass.unit = u

ReportsCurrent ==
    ForUnits /\ ~toMap /\ cImage = image =>
        \A u \in Units \ unitQ :
            /\ ~OnUnit(u)
            /\ units[u].contract = cUnits[u].contract /\ units[u].contract \in Resolvable
            => units[u].report = Wanted(u)

\* "Cross-CR reads go straight to the API server, not the informer cache"
\* (controller/environments/deployment.go 222-223): a pass rolls out no image
\* older than the Build had when the pass began, and finds every ServiceUnit
\* there is.  That is what the code does: the reader is mgr.GetAPIReader() (224),
\* and the domain gets no other (254).  The comment on the domain's field says
\* "cached (informer-backed) reads" (domains/deployment 61-64); with those the
\* property would not hold.
ReadsAreFresh ==
    [][depPass.pc \in {"resolve", "deploy"} =>
          /\ \A u \in Units : dep'.running[u] # dep.running[u] =>
                dep'.running[u] >= depPass.floor
          /\ depPass.pc = "resolve" /\ depPass'.pc = "persist" /\ spent' = spent =>
                \E u \in Units : units[u].contract \notin Resolvable]_vars

\* Every change the Deployment is told of is rolled out, once the Environment
\* exists and every unit has an image.
RolloutConverges ==
    <>[](~ForUnits /\ Deployable /\ ~untold => \A u \in Units : dep.running[u] = Wanted(u))

\* Every ServiceUnit whose contract resolves ends up reporting the image it
\* runs, or that its Build has pushed none.
ReportsConverge ==
    <>[](ForUnits => \A u \in Units : units[u].contract \in Resolvable =>
            units[u].report = Wanted(u))

\* "A success left by an earlier pass no longer describes the Deployment"
\* (domains/deployment 151-152): with a unit that cannot be resolved the status
\* ends up saying so, although a pass writes only what differs from the copy it
\* read.
FailureIsReported ==
    <>[](~ForUnits /\ env /\ ~untold /\ (\E u \in Units : units[u].contract \notin Resolvable) =>
            dep.verdict = "unresolved")
=============================================================================
