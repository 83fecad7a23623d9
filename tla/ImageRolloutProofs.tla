------------------------- MODULE ImageRolloutProofs -------------------------
(***************************************************************************)
(* Proofs about the rollout of images, for any number of ServiceUnits and  *)
(* any bounds: type correctness, that no image is lost on its way to a     *)
(* Deployment, and that a pass never rolls out an image older than the     *)
(* Build had when it began.                                                *)
(***************************************************************************)
EXTENDS ImageRollout, TLAPS

Users   == PushImage \/ (\E u \in Units : EditUnit(u)) \/ ToggleEnvironment
Manager == Inform \/ Map \/ Restart

\* There is a unit, and the number of images is a number.
LEMMA Consts == NumUnits \in Nat \ {0} /\ MaxImages \in Nat
BY UnitsAssumption, BoundsAssumption

\* What a unit can run is an image.
LEMMA ImageOfTyped ==
    ASSUME NEW contract, NEW pushed \in 0 .. MaxImages
    PROVE  ImageOf(contract, pushed) \in Images
BY Consts DEF ImageOf, Images, Pinned

\* Running nothing is running an image, number 0, for every unit.
LEMMA NothingTyped == Nothing \in [Units -> Images]
BY Consts DEF Nothing, Images, Pinned

\* The passes that are not under way have their types.
LEMMA IdleTyped ==
    /\ IdleUnitPass \in UnitPassType
    /\ IdleDepPass \in DepPassType
BY Consts, NothingTyped
   DEF IdleUnitPass, UnitPassType, IdleDepPass, DepPassType, Images, Pinned,
       Units, Verdicts

\* The cluster starts well-typed.
LEMMA InitTyped == Init => TypeOK
<1> SUFFICES ASSUME Init PROVE TypeOK
    OBVIOUS
<1>1. PICK contract \in [Units -> Contracts] :
         units = [u \in Units |-> [contract |-> contract[u], report |-> 0]]
    BY DEF Init
<1>2. units \in [Units -> UnitType]
    BY <1>1, Consts DEF UnitType, Images, Pinned
<1>3. cUnits \in [Units -> UnitCopy]
    BY <1>2 DEF Init, CopyOfUnits, UnitCopy, UnitType
<1>4. dep \in DepType /\ cDep \in DepCopy
    BY NothingTyped DEF Init, DepType, DepCopy, CopyOfDep, Verdicts
<1>5. unitQ \subseteq Units /\ depQ \in BOOLEAN
    BY DEF Init, Existing, ForUnits
<1>6. image \in 0 .. MaxImages /\ cImage \in 0 .. image
    BY Consts DEF Init
<1>7. unitPass \in UnitPassType /\ depPass \in DepPassType /\ depPass.pc # "resolve"
    BY IdleTyped DEF Init, IdleDepPass
<1>8. spent \in [edits: Nat, upsets: Nat]
    BY DEF Init
<1> QED
    BY <1>2, <1>3, <1>4, <1>5, <1>6, <1>7, <1>8 DEF TypeOK, Init

-----------------------------------------------------------------------------
(* One lemma for each group of variables *)

\* The Build, what the cache has of it, and the Environment.
LEMMA ClusterTyped ==
    TypeOK /\ Next =>
        /\ controller' = controller
        /\ image' \in 0 .. MaxImages /\ cImage' \in 0 .. image'
        /\ env' \in BOOLEAN
<1> SUFFICES ASSUME TypeOK, Next
             PROVE  /\ controller' = controller
                    /\ image' \in 0 .. MaxImages /\ cImage' \in 0 .. image'
                    /\ env' \in BOOLEAN
    OBVIOUS
<1>1. image \in 0 .. MaxImages /\ cImage \in 0 .. image /\ env \in BOOLEAN
    BY DEF TypeOK
<1>2. controller' = controller
    BY DEF Next, Inform, Map, ServiceUnitStep, DeploymentStep, cluster,
       PushImage, EditUnit, ToggleEnvironment, WatchBuild, WatchUnit,
       WatchDeployment, MapBuildToServiceUnits, MapBuildToDeployments, Restart,
       ReconcileUnit, PersistReport, ReconcileDeployment, ResolveServiceUnit,
       Deploy, PersistConditions
<1>3. \/ image' = image /\ cImage' = cImage
      \/ image < MaxImages /\ image' = image + 1 /\ cImage' = cImage
      \/ cImage < image /\ image' = image /\ cImage' = cImage + 1
      \/ image' = image /\ cImage' = image
    BY DEF Next, Inform, Map, ServiceUnitStep, DeploymentStep, cluster, caches,
       PushImage, EditUnit, ToggleEnvironment, WatchBuild, WatchUnit,
       WatchDeployment, MapBuildToServiceUnits, MapBuildToDeployments, Restart,
       ReconcileUnit, PersistReport, ReconcileDeployment, ResolveServiceUnit,
       Deploy, PersistConditions
<1>4. image' \in 0 .. MaxImages /\ cImage' \in 0 .. image'
    BY <1>1, <1>3, Consts
<1>5. env' = env \/ env' = ~env
    BY DEF Next, Inform, Map, ServiceUnitStep, DeploymentStep, cluster,
       PushImage, EditUnit, ToggleEnvironment, WatchBuild, WatchUnit,
       WatchDeployment, MapBuildToServiceUnits, MapBuildToDeployments, Restart,
       ReconcileUnit, PersistReport, ReconcileDeployment, ResolveServiceUnit,
       Deploy, PersistConditions
<1> QED BY <1>1, <1>2, <1>4, <1>5

\* The counters stay natural numbers.
LEMMA SpentTyped == TypeOK /\ Next => spent' \in [edits: Nat, upsets: Nat]
<1> SUFFICES ASSUME TypeOK, Next PROVE spent' \in [edits: Nat, upsets: Nat]
    OBVIOUS
<1>1. spent \in [edits: Nat, upsets: Nat]
    BY DEF TypeOK
<1>2. spent' = spent \/ Effort \/ Upset
    BY DEF Next, Inform, Map, ServiceUnitStep, DeploymentStep,
       PushImage, EditUnit, ToggleEnvironment, WatchBuild, WatchUnit,
       WatchDeployment, MapBuildToServiceUnits, MapBuildToDeployments, Restart,
       ReconcileUnit, PersistReport, ReconcileDeployment, ResolveServiceUnit,
       Deploy, PersistConditions
<1> QED BY <1>1, <1>2 DEF Effort, Upset

\* What is queued, and what was not told, keep their types.
LEMMA QueuesTyped ==
    TypeOK /\ Next =>
        /\ unitQ' \subseteq Units /\ depQ' \in BOOLEAN
        /\ toMap' \in BOOLEAN /\ untold' \in BOOLEAN
<1> SUFFICES ASSUME TypeOK, Next
             PROVE  /\ unitQ' \subseteq Units /\ depQ' \in BOOLEAN
                    /\ toMap' \in BOOLEAN /\ untold' \in BOOLEAN
    OBVIOUS
<1> USE DEF TypeOK, queues
<1>1. CASE Users
    BY <1>1 DEF Users, PushImage, EditUnit, ToggleEnvironment, ForUnits
<1>2. CASE Manager
    BY <1>2 DEF Manager, Inform, Map, WatchBuild, WatchUnit, WatchDeployment,
       MapBuildToServiceUnits, MapBuildToDeployments, Restart, Existing,
       ForUnits, UnitsOfBuild, Concerned
<1>3. CASE ServiceUnitStep
    <2>1. unitPass.unit \in Units
        BY DEF UnitPassType
    <2> QED
        BY <1>3, <2>1 DEF ServiceUnitStep, ReconcileUnit, PersistReport
<1>4. CASE DeploymentStep
    <2>1. depPass.failed \in BOOLEAN
        BY DEF DepPassType
    <2> QED
        BY <1>4, <2>1 DEF DeploymentStep, ReconcileDeployment,
           ResolveServiceUnit, Deploy, PersistConditions, Requeued
<1> QED BY <1>1, <1>2, <1>3, <1>4 DEF Next, Users, Manager

\* The ServiceUnits and their cached copies keep their types.
LEMMA UnitsTyped ==
    TypeOK /\ Next => units' \in [Units -> UnitType] /\ cUnits' \in [Units -> UnitCopy]
<1> SUFFICES ASSUME TypeOK, Next
             PROVE  units' \in [Units -> UnitType] /\ cUnits' \in [Units -> UnitCopy]
    OBVIOUS
<1>1. units \in [Units -> UnitType] /\ cUnits \in [Units -> UnitCopy]
    BY DEF TypeOK
<1>2. CopyOfUnits \in [Units -> UnitCopy]
    BY <1>1 DEF CopyOfUnits, UnitCopy, UnitType
<1>3. ASSUME NEW u \in Units, EditUnit(u)
      PROVE  units' \in [Units -> UnitType] /\ cUnits' \in [Units -> UnitCopy]
    <2>1. PICK contract \in Contracts :
             units' = [units EXCEPT ![u] =
                         [contract |-> contract,
                          report |-> IF contract = "absent" THEN 0 ELSE @.report]]
        BY <1>3 DEF EditUnit
    <2>2. units' \in [Units -> UnitType]
        BY <1>1, <2>1, Consts DEF UnitType, Images, Pinned
    <2>3. cUnits' \in [Units -> UnitCopy]
        BY <1>1, <1>3 DEF EditUnit, UnitCopy
    <2> QED BY <2>2, <2>3
<1>4. ASSUME NEW u \in Units, WatchUnit(u)
      PROVE  units' \in [Units -> UnitType] /\ cUnits' \in [Units -> UnitCopy]
    BY <1>1, <1>2, <1>4 DEF WatchUnit, cluster, UnitCopy
<1>5. CASE Restart
    BY <1>1, <1>2, <1>5 DEF Restart, cluster
<1>6. CASE PersistReport
    <2>1. unitPass.unit \in Units /\ unitPass.report \in Images
        BY DEF TypeOK, UnitPassType
    <2>2. CASE units' = units /\ cUnits' = cUnits
        BY <1>1, <2>2
    <2>3. CASE /\ units' = [units EXCEPT ![unitPass.unit].report = unitPass.report]
               /\ cUnits' = [cUnits EXCEPT ![unitPass.unit].current = (units' = units)]
        <3>1. units' \in [Units -> UnitType]
            BY <1>1, <2>1, <2>3 DEF UnitType
        <3>2. (units' = units) \in BOOLEAN
            OBVIOUS
        <3>3. cUnits' \in [Units -> UnitCopy]
            BY <1>1, <2>1, <2>3, <3>2 DEF UnitCopy
        <3> QED BY <3>1, <3>3
    <2> QED BY <1>6, <2>2, <2>3 DEF PersistReport
<1>7. CASE UNCHANGED <<units, cUnits>>
    BY <1>1, <1>7
<1> QED
    BY <1>3, <1>4, <1>5, <1>6, <1>7
    DEF Next, Inform, Map, ServiceUnitStep, DeploymentStep, cluster, caches,
        PushImage, ToggleEnvironment, WatchBuild, WatchDeployment,
        MapBuildToServiceUnits, MapBuildToDeployments, ReconcileUnit,
        ReconcileDeployment, ResolveServiceUnit, Deploy, PersistConditions

\* What the Deployment runs and says, and the cached copy of the latter.
LEMMA DeploymentTyped ==
    TypeOK /\ Next => dep' \in DepType /\ cDep' \in DepCopy
<1> SUFFICES ASSUME TypeOK, Next PROVE dep' \in DepType /\ cDep' \in DepCopy
    OBVIOUS
<1>1. dep \in DepType /\ cDep \in DepCopy /\ depPass \in DepPassType
    BY DEF TypeOK
<1>2. CASE Deploy
    <2>1. depPass.images \in [Units -> Images]
        BY <1>1 DEF DepPassType
    <2>2. PICK running \in [Units -> Images] : dep' = [dep EXCEPT !.running = running]
        <3>1. CASE dep' = [dep EXCEPT !.running = depPass.images]
            BY <2>1, <3>1
        <3>2. CASE \E out \in SUBSET {u \in Units : depPass.images[u] # 0} :
                      dep' = [dep EXCEPT !.running =
                                 [u \in Units |-> IF u \in out THEN depPass.images[u]
                                                               ELSE @[u]]]
            <4>1. PICK out \in SUBSET {u \in Units : depPass.images[u] # 0} :
                      dep' = [dep EXCEPT !.running =
                                 [u \in Units |-> IF u \in out THEN depPass.images[u]
                                                               ELSE dep.running[u]]]
                BY <1>1, <3>2 DEF DepType
            <4>2. [u \in Units |-> IF u \in out THEN depPass.images[u]
                                                ELSE dep.running[u]] \in [Units -> Images]
                BY <1>1, <2>1 DEF DepType
            <4> QED BY <4>1, <4>2
        <3> QED BY <1>2, <3>1, <3>2 DEF Deploy
    <2>3. dep' \in DepType
        BY <1>1, <2>2 DEF DepType
    <2>4. cDep' \in DepCopy
        BY <1>1, <1>2 DEF Deploy, DepCopy
    <2> QED BY <2>3, <2>4
<1>3. CASE PersistConditions
    <2>1. depPass.verdict \in Verdicts \cup {"unchanged"}
        BY <1>1 DEF DepPassType
    <2>2. CASE dep' = dep /\ cDep' = cDep
        BY <1>1, <2>2
    <2>3. CASE /\ dep' = [dep EXCEPT !.verdict = Merged(@)]
               /\ cDep' = [cDep EXCEPT !.current = (dep' = dep)]
        <3>1. dep' \in DepType
            BY <1>1, <2>1, <2>3 DEF DepType, Merged
        <3>2. (dep' = dep) \in BOOLEAN
            OBVIOUS
        <3>3. cDep' \in DepCopy
            BY <1>1, <2>3, <3>2 DEF DepCopy
        <3> QED BY <3>1, <3>3
    <2> QED BY <1>3, <2>2, <2>3 DEF PersistConditions
<1>4. CopyOfDep \in DepCopy
    BY <1>1 DEF CopyOfDep, DepCopy, DepType
<1>5. CASE dep' = dep /\ cDep' \in {cDep, CopyOfDep}
    BY <1>1, <1>4, <1>5
<1> QED
    BY <1>2, <1>3, <1>5
    DEF Next, Inform, Map, ServiceUnitStep, DeploymentStep, cluster, caches,
        PushImage, EditUnit, ToggleEnvironment, WatchBuild, WatchUnit,
        WatchDeployment, MapBuildToServiceUnits, MapBuildToDeployments, Restart,
        ReconcileUnit, PersistReport, ReconcileDeployment, ResolveServiceUnit

\* A pass of the ServiceUnit reconciler reports an image.
LEMMA UnitPassTyped == TypeOK /\ Next => unitPass' \in UnitPassType
<1> SUFFICES ASSUME TypeOK, Next PROVE unitPass' \in UnitPassType
    OBVIOUS
<1>1. unitPass \in UnitPassType /\ IdleUnitPass \in UnitPassType
    BY IdleTyped DEF TypeOK
<1>2. ASSUME NEW u \in Units, ReconcileUnit(u) PROVE unitPass' \in UnitPassType
    <2>1. ImageOf(cUnits[u].contract, cImage) \in Images
        BY ImageOfTyped, Consts DEF TypeOK
    <2> QED BY <1>1, <1>2, <2>1 DEF ReconcileUnit, UnitPassType
<1>3. CASE unitPass' \in {unitPass, IdleUnitPass}
    BY <1>1, <1>3
<1> QED
    BY <1>2, <1>3
    DEF Next, Inform, Map, ServiceUnitStep, DeploymentStep,
        PushImage, EditUnit, ToggleEnvironment, WatchBuild, WatchUnit,
        WatchDeployment, MapBuildToServiceUnits, MapBuildToDeployments, Restart,
        PersistReport, ReconcileDeployment, ResolveServiceUnit, Deploy,
        PersistConditions

\* What a pass that ends with a verdict goes on as.
LEMMA GivesTyped ==
    ASSUME TypeOK, NEW verdict \in Verdicts, Gives(verdict)
    PROVE  /\ depPass' \in DepPassType /\ depPass'.pc = "persist"
           /\ depPass'.failed = (verdict # "succeeded")
<1>1. IdleDepPass \in DepPassType
    BY IdleTyped
<1>2. (verdict # "succeeded") \in BOOLEAN
    OBVIOUS
<1>3. (IF verdict = depPass.verdict THEN "unchanged" ELSE verdict)
         \in Verdicts \cup {"unchanged"}
    OBVIOUS
<1> QED BY <1>1, <1>2, <1>3 DEF Gives, DepPassType

\* A pass of the Deployment reconciler reads the units one after the other.
LEMMA DepPassTyped ==
    TypeOK /\ Next =>
        depPass' \in DepPassType /\ (depPass'.pc = "resolve" => depPass'.next \in Units)
<1> SUFFICES ASSUME TypeOK, Next
             PROVE  depPass' \in DepPassType
                    /\ (depPass'.pc = "resolve" => depPass'.next \in Units)
    OBVIOUS
<1>1. /\ depPass \in DepPassType /\ IdleDepPass \in DepPassType
      /\ depPass.pc = "resolve" => depPass.next \in Units
    BY IdleTyped DEF TypeOK
<1>2. CASE ReconcileDeployment
    <2>1. image \in Images /\ cDep.verdict \in Verdicts /\ 1 \in Units
        BY Consts DEF TypeOK, Images, Pinned, DepCopy, Units
    <2> QED
        BY <1>1, <1>2, <2>1
        DEF ReconcileDeployment, IdleDepPass, DepPassType, Verdicts
<1>3. CASE ResolveServiceUnit
    <2>1. CASE Gives("unresolved")
        BY <2>1, GivesTyped DEF Verdicts
    <2>2. CASE depPass' = [depPass EXCEPT
                             !.pc     = AfterUnit(depPass.next),
                             !.next   = depPass.next + 1,
                             !.images[depPass.next] =
                                 ImageOf(units[depPass.next].contract, LiveImage)]
        <3>1. depPass.next \in Units
            BY <1>1, <1>3 DEF ResolveServiceUnit
        <3>2. ImageOf(units[depPass.next].contract, LiveImage) \in Images
            BY ImageOfTyped DEF TypeOK, LiveImage
        <3> DEFINE images == [depPass.images EXCEPT ![depPass.next] =
                                 ImageOf(units[depPass.next].contract, LiveImage)]
        <3>a. images \in [Units -> Images]
            BY <1>1, <3>2 DEF DepPassType
        <3>b. depPass.next + 1 \in 1 .. NumUnits + 1
            BY <3>1, Consts DEF Units
        <3>c. AfterUnit(depPass.next) \in {"idle", "resolve", "deploy", "persist"}
            BY DEF AfterUnit
        <3>d. depPass' = [depPass EXCEPT !.pc = AfterUnit(depPass.next),
                                         !.next = depPass.next + 1,
                                         !.images = images]
            BY <1>1, <2>2 DEF DepPassType
        <3>3. depPass' \in DepPassType
            BY <1>1, <3>a, <3>b, <3>c, <3>d DEF DepPassType
        <3>4. depPass'.pc = "resolve" => depPass'.next \in Units
            BY <1>1, <2>2, <3>1, Consts DEF DepPassType, AfterUnit, Units
        <3> QED BY <3>3, <3>4
    <2> QED BY <1>3, <2>1, <2>2 DEF ResolveServiceUnit
<1>4. CASE Deploy
    <2>1. Gives("succeeded") \/ Gives("failed")
        BY <1>4 DEF Deploy
    <2> QED BY <2>1, GivesTyped DEF Verdicts
<1>5. CASE depPass' \in {depPass, IdleDepPass}
    <2>1. IdleDepPass.pc # "resolve"
        BY DEF IdleDepPass
    <2>2. CASE depPass' = depPass
        BY <1>1, <2>2
    <2>3. CASE depPass' = IdleDepPass
        BY <1>1, <2>1, <2>3
    <2> QED BY <1>5, <2>2, <2>3
<1> QED
    BY <1>2, <1>3, <1>4, <1>5
    DEF Next, Inform, Map, ServiceUnitStep, DeploymentStep,
        PushImage, EditUnit, ToggleEnvironment, WatchBuild, WatchUnit,
        WatchDeployment, MapBuildToServiceUnits, MapBuildToDeployments, Restart,
        ReconcileUnit, PersistReport, PersistConditions

-----------------------------------------------------------------------------
(* Type correctness *)

\* The type invariant is inductive.
LEMMA StepTyped == TypeOK /\ [Next]_vars => TypeOK'
<1> SUFFICES ASSUME TypeOK, [Next]_vars PROVE TypeOK'
    OBVIOUS
<1>1. CASE Next
    BY <1>1, ClusterTyped, SpentTyped, QueuesTyped, UnitsTyped,
       DeploymentTyped, UnitPassTyped, DepPassTyped
    DEF TypeOK
<1>2. CASE UNCHANGED vars
    BY <1>2
    DEF TypeOK, vars, cluster, caches, queues
<1> QED BY <1>1, <1>2

\* Every variable keeps its type, and a pass that resolves ServiceUnits is at
\* one of those that the Deployment lists (domains/deployment 265-296).
THEOREM RolloutTypeCorrect == Spec => []TypeOK
BY InitTyped, StepTyped, PTL DEF Spec

-----------------------------------------------------------------------------
(* No image is lost on its way *)

\* What makes up for a unit that the Deployment does not run, or a pass has not
\* read, as it is wanted now: the Deployment is queued, an event that will queue
\* it is on its way, or there was none.
Owed(u) ==
    \/ depQ \/ untold
    \/ units[u].contract = "build" /\ (toMap \/ cImage # image)

Settled == depPass.pc = "idle" \/ (depPass.pc = "persist" /\ ~depPass.failed)

\* The units a pass has read.
Resolved(u) ==
    \/ depPass.pc = "resolve" /\ u < depPass.next
    \/ depPass.pc = "deploy"

\* RolloutCurrent is not inductive: it says nothing of the pass that is to make
\* it true.  What holds at every step is that whatever is read or runs out of
\* date is owed.
RolloutInv ==
    ~ForUnits => \A u \in Units :
        /\ Settled     => dep.running[u] = Wanted(u) \/ Owed(u)
        /\ Resolved(u) => depPass.images[u] = Wanted(u) \/ Owed(u)

\* At the start the Deployment is queued, if the behaviour is about it.
LEMMA RolloutInit == Init => RolloutInv
BY DEF Init, RolloutInv, Owed, Resolved, IdleDepPass, Settled, ForUnits

\* Users: a push is owed to the units of the Build, an edit is untold unless the
\* Deployment is queued.
LEMMA RolloutUsers == TypeOK /\ RolloutInv /\ Users => RolloutInv'
<1> SUFFICES ASSUME TypeOK, RolloutInv, Users, ~ForUnits', NEW u \in Units
             PROVE  /\ Settled' => dep'.running[u] = Wanted(u)' \/ Owed(u)'
                    /\ Resolved(u)' => depPass'.images[u] = Wanted(u)' \/ Owed(u)'
    BY DEF RolloutInv
<1> USE DEF RolloutInv, Settled, Resolved, Owed, ForUnits
<1>1. CASE PushImage
    <2>1. image \in Nat /\ cImage \in 0 .. image
        BY Consts DEF TypeOK
    <2>2. cImage # image + 1
        BY <2>1
    <2>3. units[u].contract # "build" => Wanted(u)' = Wanted(u)
        BY <1>1 DEF PushImage, Wanted, ImageOf
    <2>4. image' = image + 1 /\ cImage' = cImage /\ UNCHANGED <<controller, units, dep, depPass, depQ, toMap, untold>>
        BY <1>1 DEF PushImage, caches, queues
    <2> QED BY <2>2, <2>3, <2>4
<1>2. ASSUME NEW v \in Units, EditUnit(v) PROVE (depQ \/ untold)'
    BY <1>2 DEF EditUnit, queues
<1>3. CASE ToggleEnvironment
    BY <1>3 DEF ToggleEnvironment, caches, queues, Wanted
<1> QED BY <1>1, <1>2, <1>3 DEF Users

\* The manager: an event is mapped for the units that the cache shows; if it
\* shows none while there is one, its creation or edit went untold.
LEMMA RolloutManager == TypeOK /\ RolloutInv /\ Manager => RolloutInv'
<1> SUFFICES ASSUME TypeOK, RolloutInv, Manager, ~ForUnits', NEW u \in Units
             PROVE  /\ Settled' => dep'.running[u] = Wanted(u)' \/ Owed(u)'
                    /\ Resolved(u)' => depPass'.images[u] = Wanted(u)' \/ Owed(u)'
    BY DEF RolloutInv
<1> USE DEF RolloutInv, Settled, Resolved, Owed, ForUnits
<1>1. CASE Inform
    <2>1. UNCHANGED <<controller, image, units, dep, depQ, depPass, untold>>
          /\ \/ toMap'
             \/ toMap' = toMap /\ cImage' = cImage
        BY <1>1 DEF Inform, WatchBuild, WatchUnit, WatchDeployment, cluster, queues
    <2> QED BY <2>1 DEF Wanted
<1>2. CASE MapBuildToServiceUnits
    BY <1>2 DEF MapBuildToServiceUnits, cluster
<1>3. CASE MapBuildToDeployments
    <2>1. UNCHANGED <<controller, image, units, dep, cImage, depPass>>
          /\ (depQ' \/ /\ ~depQ /\ UnitsOfBuild = {}
                       /\ untold' = (untold \/ \E v \in Units : units[v].contract = "build"))
        BY <1>3 DEF MapBuildToDeployments, Concerned, cluster, caches
    <2> QED BY <2>1 DEF Wanted
<1>4. CASE Restart
    BY <1>4 DEF Restart, cluster
<1> QED BY <1>1, <1>2, <1>3, <1>4 DEF Manager, Map

\* The ServiceUnit reconciler has no part in it.
LEMMA RolloutServiceUnits == TypeOK /\ RolloutInv /\ ServiceUnitStep => RolloutInv'
<1> SUFFICES ASSUME TypeOK, RolloutInv, ServiceUnitStep
             PROVE  RolloutInv'
    OBVIOUS
<1>1. \A u \in Units : units'[u].contract = units[u].contract
    <2>1. units \in [Units -> UnitType]
        BY DEF TypeOK
    <2>2. units' = units \/ units' = [units EXCEPT ![unitPass.unit].report = unitPass.report]
        BY DEF ServiceUnitStep, ReconcileUnit, PersistReport, cluster
    <2> QED BY <2>1, <2>2 DEF UnitType
<1>2. UNCHANGED <<controller, image, dep, cImage, toMap, depQ, depPass, untold>>
    BY DEF ServiceUnitStep, ReconcileUnit, PersistReport, cluster, caches
<1> QED
    BY <1>1, <1>2 DEF RolloutInv, Settled, Resolved, Owed, ForUnits, Wanted

\* The Deployment reconciler: what a pass reads is what is wanted, what it rolls
\* out is what it read, and a pass that fails queues the Deployment again.
LEMMA RolloutDeployments == TypeOK /\ RolloutInv /\ DeploymentStep => RolloutInv'
<1> SUFFICES ASSUME TypeOK, RolloutInv, DeploymentStep, ~ForUnits', NEW u \in Units
             PROVE  /\ Settled' => dep'.running[u] = Wanted(u)' \/ Owed(u)'
                    /\ Resolved(u)' => depPass'.images[u] = Wanted(u)' \/ Owed(u)'
    BY DEF RolloutInv
<1> USE DEF RolloutInv, Settled, Resolved, Owed, ForUnits
<1>1. depPass \in DepPassType /\ dep \in DepType
    BY DEF TypeOK
<1>2. u \in Nat
    BY Consts DEF Units
<1>3. CASE ReconcileDeployment
    <2>1. \/ depPass'.pc = "resolve" /\ depPass'.next = 1
          \/ depPass'.pc = "persist" /\ depPass'.failed
        BY <1>3 DEF ReconcileDeployment, IdleDepPass
    <2>2. ~(u < 1)
        BY Consts DEF Units
    <2> QED BY <2>1, <2>2
<1>4. ASSUME NEW verdict \in Verdicts \ {"succeeded"}, Gives(verdict)
      PROVE  depPass'.pc = "persist" /\ depPass'.failed
    BY <1>4, GivesTyped
<1>5. CASE ResolveServiceUnit
    <2>1. UNCHANGED <<controller, image, units, dep, depQ, toMap, cImage, untold>>
        BY <1>5 DEF ResolveServiceUnit, cluster, caches, queues
    <2>2. CASE Gives("unresolved")
        BY <1>4, <2>2 DEF Verdicts
    <2>3. CASE depPass' = [depPass EXCEPT
                             !.pc     = AfterUnit(depPass.next),
                             !.next   = depPass.next + 1,
                             !.images[depPass.next] =
                                 ImageOf(units[depPass.next].contract, LiveImage)]
        <3>1. depPass.next \in Units /\ depPass.pc = "resolve"
            BY <1>5 DEF ResolveServiceUnit, TypeOK
        <3>2. /\ depPass'.pc \in {"resolve", "deploy"}
              /\ depPass'.pc = "deploy" => depPass.next = NumUnits
              /\ depPass'.next = depPass.next + 1
              /\ depPass'.images[u] = IF u = depPass.next THEN Wanted(u)
                                                          ELSE depPass.images[u]
            BY <1>1, <2>3 DEF DepPassType, AfterUnit, Wanted, LiveImage
        <3>3. Resolved(u)' => u = depPass.next \/ u < depPass.next
            BY <3>1, <3>2, <1>2, Consts DEF Units
        <3>4. Wanted(u)' = Wanted(u)
            BY <2>1 DEF Wanted
        <3> QED BY <2>1, <3>1, <3>2, <3>3, <3>4
    <2> QED BY <1>5, <2>2, <2>3 DEF ResolveServiceUnit
<1>6. CASE Deploy
    <2>1. UNCHANGED <<controller, image, units, depQ, toMap, cImage, untold>>
        BY <1>6 DEF Deploy, queues
    <2>2. CASE Gives("failed")
        BY <1>4, <2>2 DEF Verdicts
    <2>3. CASE Gives("succeeded") /\ dep' = [dep EXCEPT !.running = depPass.images]
        <3>1. dep'.running[u] = depPass.images[u]
            BY <1>1, <2>3 DEF DepType
        <3>2. depPass'.pc = "persist" /\ depPass.pc = "deploy"
            BY <1>6, <2>3 DEF Deploy, Gives, IdleDepPass
        <3>3. Wanted(u)' = Wanted(u)
            BY <2>1 DEF Wanted
        <3> QED BY <2>1, <3>1, <3>2, <3>3
    <2> QED BY <1>6, <2>2, <2>3 DEF Deploy
<1>7. CASE PersistConditions
    <2>1. /\ UNCHANGED <<controller, image, units, toMap, cImage>>
          /\ untold' = (untold /\ ~depQ') /\ depPass'.pc = "idle"
          /\ depPass.pc = "persist"
        BY <1>7 DEF PersistConditions, IdleDepPass
    <2>2. dep'.running = dep.running
        BY <1>1, <1>7 DEF PersistConditions, DepType
    <2>3. depQ' \/ (~depPass.failed /\ ~depQ)
        <3>1. depQ' = TRUE \/ depQ' = (depQ \/ depPass.failed)
            BY <1>7 DEF PersistConditions, Requeued
        <3> QED BY <3>1
    <2>4. Wanted(u)' = Wanted(u)
        BY <2>1 DEF Wanted
    <2>5. CASE depQ'
        BY <2>1, <2>5
    <2>6. CASE ~depPass.failed /\ ~depQ
        <3>1. dep.running[u] = Wanted(u) \/ Owed(u)
            BY <2>1, <2>6
        <3>2. Owed(u) => Owed(u)' \/ depQ'
            BY <2>1, <2>6
        <3> QED BY <2>1, <2>2, <2>4, <3>1, <3>2
    <2> QED BY <2>3, <2>5, <2>6
<1> QED BY <1>3, <1>5, <1>6, <1>7 DEF DeploymentStep

\* RolloutInv is inductive, given the types.
LEMMA RolloutStep == TypeOK /\ RolloutInv /\ [Next]_vars => RolloutInv'
<1>1. TypeOK /\ RolloutInv /\ Next => RolloutInv'
    BY RolloutUsers, RolloutManager, RolloutServiceUnits, RolloutDeployments
    DEF Next, Users, Manager
<1>2. RolloutInv /\ UNCHANGED vars => RolloutInv'
    BY DEF RolloutInv, Settled, Resolved, Owed, ForUnits, Wanted, vars, cluster,
       caches, queues
<1> QED BY <1>1, <1>2

\* However pushes, the mapping of their events, failed passes and restarts
\* overlap, an idle Deployment with no event on its way runs what its units ask
\* for (controller/environments/build_image.go 98-143).
THEOREM RolloutAlwaysCurrent == Spec => []RolloutCurrent
<1>1. RolloutInv => RolloutCurrent
    BY DEF RolloutInv, RolloutCurrent, Settled, Owed, Told
<1> QED
    BY <1>1, RolloutInit, RolloutStep, RolloutTypeCorrect, PTL DEF Spec

-----------------------------------------------------------------------------
(* No pass rolls out an older image *)

\* The images that a pass has read are no older than its floor.
FreshInv ==
    depPass.pc \in {"resolve", "deploy"} =>
        /\ depPass.floor <= image
        /\ \A u \in Units : Resolved(u) => depPass.images[u] >= depPass.floor

\* No pass is under way at the start.
LEMMA FreshInit == Init => FreshInv
BY DEF Init, FreshInv, IdleDepPass

\* What the manager does to a pass.
LEMMA ManagerPasses ==
    Manager => /\ UNCHANGED <<image, dep>>
               /\ depPass' = depPass \/ depPass'.pc = "idle"
<1>1. CASE Inform
    BY <1>1 DEF Inform, WatchBuild, WatchUnit, WatchDeployment, cluster
<1>2. CASE Map
    BY <1>2 DEF Map, MapBuildToServiceUnits, MapBuildToDeployments, cluster
<1>3. CASE Restart
    BY <1>3 DEF Restart, IdleDepPass, cluster
<1> QED BY <1>1, <1>2, <1>3 DEF Manager

\* FreshInv is inductive: what a pass has read is as new as the Build was when
\* the pass began, since the Build's image never goes back.
LEMMA FreshStep == TypeOK /\ FreshInv /\ [Next]_vars => FreshInv'
<1> SUFFICES ASSUME TypeOK, FreshInv, [Next]_vars PROVE FreshInv'
    OBVIOUS
<1>1. depPass \in DepPassType /\ image \in 0 .. MaxImages
    BY DEF TypeOK
<1>2. CASE depPass' = depPass /\ image' \in {image, image + 1}
    BY <1>1, <1>2, Consts DEF FreshInv, Resolved, DepPassType, Images, Pinned
<1>3. CASE depPass'.pc \in {"idle", "persist"}
    BY <1>3 DEF FreshInv
<1>4. CASE ReconcileDeployment
    <2>1. CASE depPass'.pc = "resolve"
        <3>1. depPass'.next = 1 /\ depPass'.floor = image /\ image' = image
            BY <1>4, <2>1 DEF ReconcileDeployment, IdleDepPass, cluster
        <3>2. \A u \in Units : ~(u < 1)
            BY Consts DEF Units
        <3> QED BY <1>1, <2>1, <3>1, <3>2, Consts DEF FreshInv, Resolved
    <2>2. CASE depPass'.pc = "persist"
        BY <1>3, <2>2
    <2> QED BY <1>4, <2>1, <2>2 DEF ReconcileDeployment, IdleDepPass
<1>5. CASE ResolveServiceUnit
    <2>1. CASE Gives("unresolved")
        BY <1>3, <2>1 DEF Gives, IdleDepPass
    <2>2. CASE /\ units[depPass.next].contract \in Resolvable
               /\ depPass' = [depPass EXCEPT
                                !.pc     = AfterUnit(depPass.next),
                                !.next   = depPass.next + 1,
                                !.images[depPass.next] =
                                    ImageOf(units[depPass.next].contract, LiveImage)]
        <3>1. depPass.next \in Units /\ depPass.pc = "resolve" /\ image' = image
            BY <1>5 DEF ResolveServiceUnit, TypeOK, cluster
        <3>2. ImageOf(units[depPass.next].contract, LiveImage) >= depPass.floor
            BY <1>1, <2>2, <3>1, Consts
            DEF FreshInv, ImageOf, LiveImage, Resolvable, Pinned, DepPassType, Images
        <3>3. /\ depPass'.floor = depPass.floor
              /\ depPass'.next = depPass.next + 1
              /\ depPass'.pc = "deploy" => depPass.next = NumUnits
              /\ \A u \in Units : u # depPass.next => depPass'.images[u] = depPass.images[u]
              /\ depPass'.images[depPass.next] >= depPass'.floor
            BY <1>1, <2>2, <3>1, <3>2 DEF DepPassType, AfterUnit
        <3>4. ASSUME NEW u \in Units, Resolved(u)', u # depPass.next
              PROVE  u < depPass.next
            BY <3>1, <3>3, <3>4, Consts DEF Resolved, Units
        <3> QED BY <3>1, <3>3, <3>4 DEF FreshInv, Resolved
    <2> QED BY <1>5, <2>1, <2>2 DEF ResolveServiceUnit
<1>6. CASE Deploy
    BY <1>3, <1>6 DEF Deploy, Gives, IdleDepPass
<1>7. CASE PersistConditions
    BY <1>3, <1>7 DEF PersistConditions, IdleDepPass
<1>8. CASE Users
    BY <1>2, <1>8 DEF Users, PushImage, EditUnit, ToggleEnvironment
<1>9. CASE Manager
    BY <1>2, <1>3, <1>9, ManagerPasses
<1>10. CASE ServiceUnitStep
    BY <1>2, <1>10 DEF ServiceUnitStep, ReconcileUnit, PersistReport, cluster
<1>11. CASE UNCHANGED vars
    BY <1>2, <1>11 DEF vars, cluster
<1> QED
    BY <1>4, <1>5, <1>6, <1>7, <1>8, <1>9, <1>10, <1>11
    DEF Next, DeploymentStep, Users, Manager

\* What ReadsAreFresh says of one step.
FreshRollout ==
    depPass.pc \in {"resolve", "deploy"} =>
        /\ \A u \in Units : dep'.running[u] # dep.running[u] =>
              dep'.running[u] >= depPass.floor
        /\ depPass.pc = "resolve" /\ depPass'.pc = "persist" /\ spent' = spent =>
              \E u \in Units : units[u].contract \notin Resolvable

\* What FreshInv says of a pass makes its rollout fresh.
LEMMA FreshAction == TypeOK /\ FreshInv /\ [Next]_vars => FreshRollout
<1> SUFFICES ASSUME TypeOK, FreshInv, [Next]_vars, depPass.pc \in {"resolve", "deploy"}
             PROVE  FreshRollout
    BY DEF FreshRollout
<1>1. depPass \in DepPassType /\ dep \in DepType
    BY DEF TypeOK
<1>2. CASE ResolveServiceUnit
    <2>1. dep' = dep
        BY <1>2 DEF ResolveServiceUnit, cluster
    <2>2. ASSUME depPass'.pc = "persist", spent' = spent
          PROVE  \E u \in Units : units[u].contract \notin Resolvable
        <3>1. depPass.next \in Units
            BY <1>2 DEF ResolveServiceUnit, TypeOK
        <3>2. ~Upset
            BY <2>2 DEF Upset, TypeOK
        <3>3. depPass' # [depPass EXCEPT
                             !.pc     = AfterUnit(depPass.next),
                             !.next   = depPass.next + 1,
                             !.images[depPass.next] =
                                 ImageOf(units[depPass.next].contract, LiveImage)]
            BY <1>1, <2>2 DEF DepPassType, AfterUnit
        <3> QED BY <1>2, <3>1, <3>2, <3>3 DEF ResolveServiceUnit
    <2> QED BY <2>1, <2>2 DEF FreshRollout
<1>3. CASE Deploy
    <2>1. depPass.pc = "deploy" /\ \A u \in Units : depPass.images[u] >= depPass.floor
        BY <1>3 DEF Deploy, FreshInv, Resolved
    <2>2. \A u \in Units : dep'.running[u] \in {depPass.images[u], dep.running[u]}
        BY <1>1, <1>3 DEF Deploy, DepType
    <2> QED BY <2>1, <2>2 DEF FreshRollout
<1>4. CASE dep' = dep /\ depPass'.pc \in {depPass.pc, "idle"}
    BY <1>4 DEF FreshRollout
<1>5. ~ReconcileDeployment /\ ~PersistConditions
    BY DEF ReconcileDeployment, PersistConditions
<1>6. CASE Users \/ ServiceUnitStep \/ UNCHANGED vars
    BY <1>4, <1>6
    DEF Users, PushImage, EditUnit, ToggleEnvironment, ServiceUnitStep,
        ReconcileUnit, PersistReport, vars, cluster
<1>7. CASE Manager
    BY <1>4, <1>7, ManagerPasses
<1> QED
    BY <1>2, <1>3, <1>5, <1>6, <1>7 DEF Next, DeploymentStep, Users, Manager

\* A pass rolls out no image older than the Build had when the pass began, and
\* finds every ServiceUnit there is (controller/environments/deployment 211-213).
THEOREM ReadsAlwaysFresh == Spec => ReadsAreFresh
<1>1. TypeOK /\ FreshInv /\ [Next]_vars => [FreshRollout]_vars
    BY FreshAction
<1>2. [][FreshRollout]_vars => ReadsAreFresh
    BY PTL DEF FreshRollout, ReadsAreFresh
<1> QED
    BY <1>1, <1>2, FreshInit, FreshStep, RolloutTypeCorrect, PTL DEF Spec

-----------------------------------------------------------------------------
(* No image is lost on its way to a ServiceUnit *)

\* Nothing that the cache shows is on its way to the unit: it is not queued, and
\* no image event is to be mapped to it.
AtRest(u) ==
    /\ u \notin unitQ
    /\ cUnits[u].contract \in Resolvable
    /\ cUnits[u].contract = "build" => ~toMap

\* What the reconciler reports, or has reported, is what the cache says.
Reports(u) ==
    LET report == ImageOf(cUnits[u].contract, cImage) IN
    /\ OnUnit(u) => unitPass.report = report
    /\ ~OnUnit(u) /\ units[u].contract # "absent" => units[u].report = report

\* ReportsCurrent speaks of what the API server has; the reconciler knows the
\* cache, and a unit created anew starts from nothing.
ReportInv ==
    /\ \A u \in Units : cUnits[u].current => cUnits[u].contract = units[u].contract
    /\ ForUnits => \A u \in Units : AtRest(u) => Reports(u)

LEMMA ReportInit == Init => ReportInv
<1> SUFFICES ASSUME Init PROVE ReportInv
    OBVIOUS
<1>1. \A u \in Units : cUnits[u].contract = units[u].contract
    BY DEF Init, CopyOfUnits
<1>2. ASSUME ForUnits, NEW u \in Units PROVE ~AtRest(u)
    BY <1>1, <1>2 DEF Init, AtRest, Existing, Resolvable
<1> QED BY <1>1, <1>2 DEF ReportInv

LEMMA ReportUsers == TypeOK /\ ReportInv /\ Users => ReportInv'
<1> SUFFICES ASSUME TypeOK, ReportInv, Users PROVE ReportInv'
    OBVIOUS
<1>1. UNCHANGED <<controller, cImage, toMap, unitQ, unitPass>>
    BY DEF Users, PushImage, EditUnit, ToggleEnvironment, caches, queues
<1>2. CASE UNCHANGED <<units, cUnits>>
    BY <1>1, <1>2 DEF ReportInv, AtRest, Reports, OnUnit, ForUnits
<1>3. ASSUME NEW v \in Units, EditUnit(v) PROVE ReportInv'
    <2>1. PICK contract \in Contracts :
             /\ units[v].contract = "absent" => cUnits[v].current
             /\ units' = [units EXCEPT ![v] =
                             [contract |-> contract,
                              report |-> IF contract = "absent" THEN 0 ELSE @.report]]
        BY <1>3 DEF EditUnit
    <2>2. units \in [Units -> UnitType] /\ cUnits \in [Units -> UnitCopy]
        BY DEF TypeOK
    <2>3. /\ \A u \in Units : /\ cUnits'[u].contract = cUnits[u].contract
                              /\ u # v => cUnits'[u] = cUnits[u] /\ units'[u] = units[u]
          /\ ~cUnits'[v].current
        BY <1>3, <2>2 DEF EditUnit, UnitCopy
    <2>4. /\ units'[v].contract = contract
          /\ contract # "absent" => units'[v].report = units[v].report
        BY <2>1, <2>2
    <2>5. AtRest(v) => units[v].contract # "absent"
        BY <2>1 DEF ReportInv, AtRest, Resolvable
    <2>6. ASSUME ForUnits, NEW u \in Units, AtRest(u)' PROVE Reports(u)'
        <3>1. AtRest(u) /\ Reports(u)
            BY <1>1, <2>3, <2>6 DEF ReportInv, AtRest
        <3> QED BY <1>1, <2>3, <2>4, <2>5, <3>1 DEF Reports, OnUnit
    <2> QED BY <1>1, <2>3, <2>6 DEF ReportInv, ForUnits
<1> QED
    BY <1>2, <1>3 DEF Users, PushImage, ToggleEnvironment, caches

LEMMA ReportManager == TypeOK /\ ReportInv /\ Manager => ReportInv'
<1> SUFFICES ASSUME TypeOK, ReportInv, Manager PROVE ReportInv'
    OBVIOUS
<1>1. UNCHANGED <<controller, units>>
    BY DEF Manager, Inform, Map, WatchBuild, WatchUnit, WatchDeployment,
       MapBuildToServiceUnits, MapBuildToDeployments, Restart, cluster
<1>2. CASE WatchBuild
    <2>1. toMap' /\ UNCHANGED <<cUnits, unitQ, unitPass>>
        BY <1>2 DEF WatchBuild
    <2>2. ASSUME NEW u \in Units, AtRest(u)' PROVE AtRest(u) /\ cUnits[u].contract = "pinned"
        BY <2>1, <2>2 DEF AtRest, Resolvable
    <2>3. ASSUME NEW u \in Units, Reports(u), cUnits[u].contract = "pinned" PROVE Reports(u)'
        BY <1>1, <2>1, <2>3 DEF Reports, OnUnit, ImageOf
    <2> QED BY <1>1, <2>1, <2>2, <2>3 DEF ReportInv, ForUnits
<1>3. ASSUME NEW v \in Units, WatchUnit(v) PROVE ReportInv'
    <2>1. UNCHANGED <<cImage, toMap, unitPass>> /\ unitQ \subseteq unitQ'
          /\ cUnits' = [cUnits EXCEPT ![v] = CopyOfUnits[v]]
        BY <1>3 DEF WatchUnit
    <2>2. /\ \A u \in Units \ {v} : cUnits'[u] = cUnits[u]
          /\ cUnits'[v].contract = units[v].contract
        BY <2>1 DEF CopyOfUnits, TypeOK
    <2>3. ASSUME ForUnits, v \notin unitQ'
          PROVE  units[v].contract \in {"absent", cUnits[v].contract}
        BY <1>3, <2>3 DEF WatchUnit, WakesUnit, Existing
    <2>4. ASSUME ForUnits, NEW u \in Units, AtRest(u)' PROVE Reports(u)'
        <3>1. cUnits'[u].contract = cUnits[u].contract
            BY <2>2, <2>3, <2>4 DEF AtRest, Resolvable
        <3>2. AtRest(u)
            BY <2>1, <2>4, <3>1 DEF AtRest
        <3> QED BY <1>1, <2>1, <2>4, <3>1, <3>2 DEF ReportInv, Reports, OnUnit
    <2> QED BY <1>1, <2>2, <2>4 DEF ReportInv, ForUnits
<1>4. CASE MapBuildToServiceUnits
    <2>1. UNCHANGED <<cImage, cUnits, unitPass>> /\ unitQ' = unitQ \cup UnitsOfBuild
        BY <1>4 DEF MapBuildToServiceUnits, caches
    <2>2. ASSUME NEW u \in Units, AtRest(u)' PROVE AtRest(u)
        BY <2>1, <2>2 DEF AtRest, UnitsOfBuild
    <2> QED BY <1>1, <2>1, <2>2 DEF ReportInv, Reports, OnUnit, ForUnits
<1>5. CASE MapBuildToDeployments
    BY <1>1, <1>5 DEF MapBuildToDeployments, ReportInv, ForUnits, caches
<1>6. CASE WatchDeployment
    BY <1>1, <1>6 DEF WatchDeployment, ReportInv, AtRest, Reports, OnUnit, ForUnits, queues
<1>7. CASE Restart
    <2>1. \A u \in Units : cUnits'[u].contract = units[u].contract
        BY <1>7 DEF Restart, CopyOfUnits
    <2>2. ASSUME ForUnits, NEW u \in Units PROVE ~AtRest(u)'
        BY <1>7, <2>1, <2>2 DEF Restart, AtRest, Existing, Resolvable
    <2> QED BY <1>1, <2>1, <2>2 DEF ReportInv, ForUnits
<1> QED
    BY <1>2, <1>3, <1>4, <1>5, <1>6, <1>7 DEF Manager, Inform, Map

LEMMA ReportServiceUnits == TypeOK /\ ReportInv /\ ServiceUnitStep => ReportInv'
<1> SUFFICES ASSUME TypeOK, ReportInv, ServiceUnitStep PROVE ReportInv'
    OBVIOUS
<1>1. UNCHANGED <<controller, cImage, toMap>>
    BY DEF ServiceUnitStep, ReconcileUnit, PersistReport, cluster, caches
<1>2. ASSUME NEW v \in Units, ReconcileUnit(v) PROVE ReportInv'
    <2>1. UNCHANGED <<units, cUnits>> /\ unitQ' = unitQ \ {v} /\ unitPass.pc = "idle"
          /\ unitPass' = IF cUnits[v].contract = "absent" THEN IdleUnitPass
                         ELSE [pc |-> "persist", unit |-> v,
                               report |-> ImageOf(cUnits[v].contract, cImage)]
        BY <1>2 DEF ReconcileUnit, cluster, caches
    <2>2. ASSUME ForUnits, NEW u \in Units, AtRest(u)' PROVE Reports(u)'
        <3>1. CASE u = v
            BY <1>1, <2>1, <2>2, <3>1 DEF AtRest, Reports, OnUnit, Resolvable
        <3>2. CASE u # v
            <4>1. AtRest(u) /\ ~OnUnit(u)
                BY <1>1, <2>1, <2>2, <3>2 DEF AtRest, OnUnit
            <4>2. ~OnUnit(u)'
                BY <2>1, <3>2 DEF OnUnit, IdleUnitPass
            <4> QED BY <1>1, <2>1, <2>2, <4>1, <4>2 DEF ReportInv, Reports
        <3> QED BY <3>1, <3>2
    <2> QED BY <1>1, <2>1, <2>2 DEF ReportInv, ForUnits
<1>3. CASE PersistReport
    <2> DEFINE v == unitPass.unit
    <2>1. v \in Units /\ unitPass.pc = "persist" /\ unitPass'.pc = "idle"
        BY <1>3 DEF PersistReport, TypeOK, UnitPassType, IdleUnitPass
    <2>2. units \in [Units -> UnitType] /\ cUnits \in [Units -> UnitCopy]
        BY DEF TypeOK
    <2>3. CASE UNCHANGED <<units, cUnits>> /\ unitQ' = unitQ \cup {v}
        <3>1. ASSUME ForUnits, NEW u \in Units, AtRest(u)' PROVE Reports(u)'
            BY <1>1, <2>1, <2>3, <3>1 DEF ReportInv, AtRest, Reports, OnUnit
        <3> QED BY <1>1, <2>3, <3>1 DEF ReportInv, ForUnits
    <2>4. CASE /\ cUnits[v].current /\ units[v].contract # "absent"
               /\ units' = [units EXCEPT ![v].report = unitPass.report]
               /\ cUnits' = [cUnits EXCEPT ![v].current = (units' = units)]
               /\ unitQ' = unitQ
        <3>1. \A u \in Units :
                 /\ cUnits'[u].contract = cUnits[u].contract
                 /\ units'[u].contract = units[u].contract
                 /\ units'[u].report = IF u = v THEN unitPass.report ELSE units[u].report
                 /\ cUnits'[u].current => cUnits[u].current
            BY <2>2, <2>4 DEF UnitType, UnitCopy
        <3>2. ASSUME ForUnits, NEW u \in Units, AtRest(u)' PROVE Reports(u)'
            <4>1. AtRest(u) /\ Reports(u)
                BY <1>1, <2>4, <3>1, <3>2 DEF ReportInv, AtRest
            <4> QED BY <1>1, <2>1, <3>1, <4>1 DEF Reports, OnUnit
        <3> QED BY <1>1, <3>1, <3>2 DEF ReportInv, ForUnits
    <2> QED BY <1>3, <2>3, <2>4 DEF PersistReport
<1> QED BY <1>2, <1>3 DEF ServiceUnitStep

LEMMA ReportStep == TypeOK /\ ReportInv /\ [Next]_vars => ReportInv'
<1>1. TypeOK /\ ReportInv /\ DeploymentStep => ReportInv'
    BY DEF DeploymentStep, ReconcileDeployment, ResolveServiceUnit, Deploy,
       PersistConditions, cluster, caches, queues, ReportInv, AtRest, Reports,
       OnUnit, ForUnits
<1>2. ReportInv /\ UNCHANGED vars => ReportInv'
    BY DEF ReportInv, AtRest, Reports, OnUnit, ForUnits, vars, cluster, caches, queues
<1> QED
    BY <1>1, <1>2, ReportUsers, ReportManager, ReportServiceUnits
    DEF Next, Users, Manager

\* However pushes, edits, refused writes and restarts overlap with the passes, a
\* ServiceUnit at rest reports the image that its contract asks for, as far as the
\* reconciler has seen (controller/environments/build_image.go 42-96).
THEOREM ReportsAlwaysCurrent == Spec => []ReportsCurrent
<1>1. ReportInv => ReportsCurrent
    BY DEF ReportInv, ReportsCurrent, AtRest, Reports, Wanted, Resolvable
<1> QED
    BY <1>1, ReportInit, ReportStep, RolloutTypeCorrect, PTL DEF Spec
=============================================================================
