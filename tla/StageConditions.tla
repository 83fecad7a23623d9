--------------------------- MODULE StageConditions ---------------------------
(***************************************************************************)
(* What an object's status says of a pass.  The domains take an update, or *)
(* a deletion, through stages and set conditions on the pass's own copy as *)
(* they go: a stage that fails sets some to False and ends the pass, one   *)
(* that succeeds sets some to True.  What of that reaches the API server   *)
(* is up to the reconcilers, which differ: two persist what every pass     *)
(* changed, one what a successful pass changed, six replace the status     *)
(* after a success.                                                        *)
(*                                                                         *)
(* The module is about one object of one kind, and the conditions its      *)
(* domain sets; what services and observers write to the same status, and  *)
(* what the stages do to the cluster, is the subject of BuildPipeline,     *)
(* EnvironmentRollup and ResourceLifecycle.                                *)
(***************************************************************************)
EXTENDS Naturals, Sequences

CONSTANTS
    Kinds,          \* the kinds of object looked at
    MaxTroubles,    \* bound: how often a stage starts, or stops, to fail
    MaxUpsets       \* bound: stages and writes that fail once, and restarts

-----------------------------------------------------------------------------
(* The stages of each kind's update *)

Stage(fails, holds) == [fails |-> fails, holds |-> holds]

PackageStages ==
    << Stage({"PackageResolved"}, {"PackageResolved", "PackageCached"}),
       Stage({"PackagePrerequisitesCreateFailed"}, {"PackagePrerequisitesCreated"}),
       Stage({"PackageIntentBuilt"}, {"PackageIntentBuilt"}),
       Stage({"PackageTriggered"}, {"PackageTriggered"}) >>

DeploymentStages ==
    << Stage({"DeploymentResolveFailed"}, {"DeploymentResolved", "DeploymentCached"}),
       Stage({"DeploymentPrerequisitesCreateFailed"}, {"DeploymentPrerequisitesCreated"}),
       Stage({"ServiceUnitResolved", "DeploymentSucceeded"}, {"ServiceUnitResolved"}),
       Stage({"DeploymentSucceeded"}, {"DeploymentSucceeded"}) >>

\* The mediator provisions, then awaits the Secrets.
BuildStages ==
    << Stage({"BuildResolveFailed"}, {"BuildResolved", "BuildCached"}),
       Stage({"BuildPrerequisitesCreateFailed"}, {}),
       Stage({"BuildPrerequisitesCreated"}, {"BuildPrerequisitesCreated"}),
       Stage({"BuildStart"}, {"BuildStart"}) >>

GitHubEventStages ==
    << Stage({"GitHubEventResolveFailed"}, {"GitHubEventResolved", "GitHubEventCached"}),
       Stage({"GitHubEventPrerequisitesCreateFailed"}, {"GitHubEventPrerequisitesCreated"}),
       Stage({"GitHubEventOrganized"}, {"GitHubEventOrganized"}) >>

GitRepositoryStages ==
    << Stage({"GitRepositoryResolveFailed"}, {"GitRepositoryResolved", "GitRepositoryCached"}),
       Stage({"GitRepositoryPrerequisitesCreateFailed"}, {"GitRepositoryPrerequisitesReady"}),
       Stage({"GitRepositoryTriggered"}, {"GitRepositoryStart"}) >>

\* The services of Route and Domain report for themselves.
RouteStages ==
    << Stage({"RouteResolveFailed"}, {"RouteResolved", "RouteCached"}),
       Stage({}, {}) >>

DomainStages ==
    << Stage({"DomainResolveFailed"}, {"DomainResolved", "DomainCached"}),
       Stage({}, {}) >>

EnvironmentStages ==
    << Stage({"EnvironmentResolveFailed"},
             {"EnvironmentResolved", "EnvironmentCached", "EnvironmentReady"}) >>

\* The last: a ServiceUnit whose Build has pushed nothing yet waits, which is
\* not an error.
ServiceUnitStages ==
    << Stage({"ServiceUnitResolved"}, {"ServiceUnitResolved"}),
       Stage({"ServiceUnitPrerequisitesReady"}, {"ServiceUnitPrerequisitesReady"}),
       Stage({"ServiceUnitReady"}, {"ServiceUnitReady"}) >>

StagesOf ==
    [Package |-> PackageStages, Deployment |-> DeploymentStages,
     Build |-> BuildStages, GitHubEvent |-> GitHubEventStages,
     GitRepository |-> GitRepositoryStages, Route |-> RouteStages,
     Domain |-> DomainStages, Environment |-> EnvironmentStages,
     ServiceUnit |-> ServiceUnitStages]

\* Deletions.  A Package is torn down first: an App that is still there counts
\* as failed, its contract does not.
PackageTeardown ==
    << Stage({"PackageDeleted"}, {}),       \* the App
       Stage({"PackageDeleted"}, {}) >>     \* the prerequisites

DeploymentTeardown ==
    << Stage({"DeploymentDeleted"}, {}),    \* the contract
       Stage({"DeploymentDeleted"}, {}),    \* the workload
       Stage({"DeploymentDeleted"}, {}) >>  \* the prerequisites

BuildTeardown == << Stage({"BuildDeleted"}, {}), Stage({"BuildDeleted"}, {}),
                    Stage({"BuildDeleted"}, {}) >>

GitRepositoryTeardown == << Stage({"GitRepositoryDeleted"}, {}),
                            Stage({"GitRepositoryDeleted"}, {}) >>

RouteTeardown  == << Stage({"RouteDeleted"}, {}), Stage({"RouteDeleted"}, {}) >>
DomainTeardown == << Stage({"DomainDeleted"}, {}), Stage({"DomainDeleted"}, {}) >>

\* The command of a GitHubEvent always is an update.
TeardownOf ==
    [Package |-> PackageTeardown, Deployment |-> DeploymentTeardown,
     Build |-> BuildTeardown, GitHubEvent |-> GitHubEventStages,
     GitRepository |-> GitRepositoryTeardown, Route |-> RouteTeardown,
     Domain |-> DomainTeardown]

\* Once the contract is resolved its projection is published to a cache; that this
\* fails is a condition as well, and no reason to stop.
CacheFailed ==
    [Package |-> "PackageCacheFailed", Deployment |-> "DeploymentCacheFailed",
     Build |-> "BuildCacheFailed", GitHubEvent |-> "GitHubEventCacheFailed",
     GitRepository |-> "GitRepositoryCacheFailed", Route |-> "RouteCacheFailed",
     Domain |-> "DomainCacheFailed", Environment |-> "EnvironmentCacheFailed"]

\* Conditions that are set to False for a reason with blanks in it, as "resolved
\* projection publish incomplete" or "package prerequisites failed, internal error":
\* "The API server rejects a status whose condition reason is not CamelCase: one bad
\* reason fails the whole write" (observers/environment/environment_test.go 79-80).
BlankReasons ==
    {CacheFailed[k] : k \in DOMAIN CacheFailed \ {"GitRepository"}}
        \cup {"PackagePrerequisitesCreateFailed", "BuildPrerequisitesCreateFailed",
              "BuildStart"}

ASSUME KindsAssumption  == Kinds \subseteq DOMAIN StagesOf
ASSUME BoundsAssumption == MaxTroubles \in Nat /\ MaxUpsets \in Nat

VARIABLES
    kind,       \* the kind of the object
    life,       \* is the object live, being deleted, or gone?
    trouble,    \* the stage it fails at for now, 0 for none
    publishes,  \* does the publication of the projection succeed for now?
    conds,      \* the conditions on the API server
    cLife,      \* life and conditions of the copy in the informer cache
    cConds,
    current,    \* is that copy current?
    queued,     \* is the object queued for its reconciler?
    pass,       \* a pass that is to persist: what it read, what it made of it
    misread,    \* did the last success persist changes to an old copy?
    spent       \* how much of each bound is used up

cluster == <<kind, life, trouble, publishes, conds>>
cache   == <<cLife, cConds, current>>
vars    == <<cluster, cache, queued, pass, misread, spent>>

\* The kinds with a finalizer; an object of another kind is gone at once.
Finalized == DOMAIN TeardownOf

\* The stages of an object of the kind: of an update, or of a deletion.
Table(l)   == IF l = "live" THEN StagesOf[kind] ELSE TeardownOf[kind]
Stages(l)  == IF l = "gone" THEN {} ELSE DOMAIN Table(l)
Lives      == {"live"} \cup (IF kind \in Finalized THEN {"deleting"} ELSE {})
Of(l)      == UNION {Table(l)[n].fails \cup Table(l)[n].holds : n \in Stages(l)}
Conditions == (UNION {Of(l) : l \in Lives})
                \cup {CacheFailed[k] : k \in DOMAIN CacheFailed \cap {kind}}

-----------------------------------------------------------------------------
(* The policies *)

MergesChanges    == {"Package", "Deployment", "Build"}
PersistsFailures == {"Package", "Deployment"}

\* The event filters pass a deletion for these kinds, and for Build all else.
DeletionWakes == {"Package", "Deployment", "Build"}
StatusWakes   == {"Build"}

\* Is it an error that stage n fails?
IsError(n) == ~(kind = "ServiceUnit" /\ n = 3)

\* Who is told of stage n: an edit of the contract, and an image of its Build,
\* queue the object, a prerequisite or a service does not.
Announced(n) == \/ n = 1 /\ ~(kind = "Package" /\ life = "deleting")
                \/ ~IsError(n)

-----------------------------------------------------------------------------

CondsType == [Conditions -> {"none", "True", "False"}]
Unset     == [c \in Conditions |-> "none"]
IdlePass  == [pc |-> "idle", read |-> Unset, made |-> Unset, failed |-> FALSE]
Releasing == [IdlePass EXCEPT !.pc = "release"]

\* The types; and a pass that failed comes to persist for those kinds only.
TypeOK ==
    /\ kind \in Kinds
    /\ life \in Lives \cup {"gone"} /\ cLife \in Lives \cup {"gone"}
    /\ trouble \in Stages(life) \cup {0}
    /\ publishes \in BOOLEAN
    /\ conds \in CondsType /\ cConds \in CondsType
    /\ current \in BOOLEAN /\ queued \in BOOLEAN /\ misread \in BOOLEAN
    /\ pass \in [pc: {"idle", "persist", "release"}, read: CondsType, made: CondsType,
                 failed: BOOLEAN]
    /\ pass.failed => kind \in PersistsFailures
    /\ current => cConds = conds /\ cLife = life
    /\ spent \in [troubles: Nat, upsets: Nat]

\* The object has its finalizer, if the kind has one.
Init ==
    /\ kind \in Kinds
    /\ life = "live" /\ cLife = "live"
    /\ trouble \in Stages(life) \cup {0}
    /\ publishes = TRUE
    /\ conds = Unset /\ cConds = Unset /\ current = TRUE
    /\ queued = TRUE
    /\ pass = IdlePass
    /\ misread = FALSE
    /\ spent = [troubles |-> 0, upsets |-> 0]

Upset ==
    /\ spent.upsets < MaxUpsets
    /\ spent' = [spent EXCEPT !.upsets = @ + 1]

\* Another stage fails from now on, or none does; or the cache's store fails, or
\* is back.
Turn ==
    /\ spent.troubles < MaxTroubles
    /\ spent' = [spent EXCEPT !.troubles = @ + 1]
    /\ \/ /\ \E n \in (Stages(life) \cup {0}) \ {trouble} :
                /\ trouble' = n
                /\ queued' = (queued \/ \E m \in {n, trouble} \ {0} : Announced(m))
          /\ UNCHANGED publishes
       \/ /\ kind \in DOMAIN CacheFailed
          /\ publishes' = ~publishes
          /\ UNCHANGED <<trouble, queued>>
    /\ UNCHANGED <<kind, life, conds, cache, pass, misread>>

\* What stands in the way of a deletion is not what did of an update.
Delete ==
    /\ life = "live"
    /\ life' = IF kind \in Finalized THEN "deleting" ELSE "gone"
    /\ trouble' \in Stages(life') \cup {0}
    /\ current' = FALSE
    /\ UNCHANGED <<kind, publishes, conds, cLife, cConds, queued, pass, misread, spent>>

Watch ==
    /\ ~current
    /\ cLife' = life /\ cConds' = conds /\ current' = TRUE
    /\ queued' = \/ queued
                 \/ life # "gone" /\ kind \in StatusWakes
                 \/ life = "deleting" /\ cLife = "live" /\ kind \in DeletionWakes
    /\ UNCHANGED <<cluster, pass, misread, spent>>

Restart ==
    /\ Upset
    /\ cLife' = life /\ cConds' = conds /\ current' = TRUE
    /\ queued' = (life # "gone")
    /\ pass' = IdlePass
    /\ misread' = FALSE
    /\ UNCHANGED cluster

-----------------------------------------------------------------------------
(* The reconciler *)

\* Does a pass publish, and fail to?  Not in a deletion, nor without a contract.
Unpublished(l, failing) ==
    /\ kind \in DOMAIN CacheFailed /\ ~publishes
    /\ l = "live" \/ kind = "GitHubEvent"
    /\ failing # 1

\* SetCondition replaces a condition of the type, or appends one.
Set_Once(was, status) == IF was = "none" THEN status ELSE was
Set(was, status) == status

\* The copy read, after the stages up to the one that fails.
After(read, l, failing) ==
    LET failed == IF failing = 0 THEN {} ELSE Table(l)[failing].fails
        passed == {n \in Stages(l) : failing = 0 \/ n < failing}
    IN  [c \in Conditions |->
            IF c \in failed THEN Set(read[c], "False")
            ELSE IF \E n \in passed : c \in Table(l)[n].holds
            THEN Set(read[c], "True")
            ELSE IF Unpublished(l, failing) /\ c = CacheFailed[kind]
            THEN Set(read[c], "False")
            ELSE read[c]]

\* An error ends the pass without a word, except for the kinds that persist it.
Persists_Always(error)    == TRUE
Persists_OnSuccess(error) == ~error
Persists(error)           == error => kind \in PersistsFailures

\* The stage a pass fails at, 0 for none: the one in trouble, or another once.
\* A copy that is live still is taken through the stages of an update.
Outcome(failing) ==
    \/ (failing = trouble \/ cLife # life) /\ UNCHANGED spent
    \/ /\ failing # 0 /\ IsError(failing)
       /\ trouble = 0 \/ failing < trouble
       /\ Upset

\* One pass through the stages of the copy in the cache.  After those of a
\* deletion the finalizer is removed and no status written.
Handle ==
    /\ queued /\ pass.pc = "idle" /\ cLife # "gone"
    /\ \E failing \in Stages(cLife) \cup {0} :
          LET error == failing # 0 /\ IsError(failing) IN
          /\ Outcome(failing)
          /\ pass' = IF ~error /\ cLife = "deleting" THEN Releasing
                     ELSE IF Persists(error)
                     THEN [pc |-> "persist", read |-> cConds,
                           made |-> After(cConds, cLife, failing), failed |-> error]
                     ELSE IdlePass
          /\ queued' = (error /\ ~Persists(error))
          /\ misread' = IF error THEN misread
                        ELSE ~current /\ kind \in PersistsFailures
    /\ UNCHANGED <<cluster, cache>>

HandleGone ==
    /\ queued /\ pass.pc = "idle" /\ cLife = "gone"
    /\ queued' = FALSE
    /\ UNCHANGED <<cluster, cache, pass, misread, spent>>

\* changedConditions, set on the latest copy; or its whole status replaced.
Written ==
    IF kind \in MergesChanges
    THEN [c \in Conditions |-> IF pass.made[c] # pass.read[c] THEN pass.made[c]
                                                             ELSE conds[c]]
    ELSE pass.made

Again_OnConflict == queued
Again            == queued \/ pass.failed

\* The API server takes a status, or refuses it for one of its reasons.
Acceptable(status) == \A c \in Conditions \cap BlankReasons : status[c] # "False"

\* RetryOnConflict around: the latest copy is the cache's, and refused when it
\* is not current.  A refusal is an error, and nothing of the status is written.
PersistConditions ==
    /\ pass.pc = "persist"
    /\ pass' = IdlePass
    /\ \/ /\ current /\ life # "gone" /\ Acceptable(Written)
          /\ conds' = Written
          /\ current' = (conds' = conds)
          /\ queued' = Again
          /\ UNCHANGED spent
       \/ /\ ~(current /\ life # "gone" /\ Acceptable(Written))
          /\ queued' = TRUE
          /\ UNCHANGED <<conds, current, spent>>
       \/ Upset /\ queued' = TRUE /\ UNCHANGED <<conds, current>>
    /\ UNCHANGED <<kind, life, trouble, publishes, cLife, cConds, misread>>

\* The same for the finalizer, with which the object goes.
RemoveFinalizer ==
    /\ pass.pc = "release"
    /\ pass' = IdlePass
    /\ \/ /\ current /\ life = "deleting"
          /\ life' = "gone" /\ trouble' = 0
          /\ current' = FALSE
          /\ UNCHANGED <<queued, spent>>
       \/ ~current /\ queued' = TRUE /\ UNCHANGED <<life, trouble, current, spent>>
       \/ Upset /\ queued' = TRUE /\ UNCHANGED <<life, trouble, current>>
    /\ UNCHANGED <<kind, publishes, conds, cLife, cConds, misread>>

ReconcilerStep == Handle \/ HandleGone \/ PersistConditions \/ RemoveFinalizer

Next == Turn \/ Delete \/ Watch \/ Restart \/ ReconcilerStep

\* The informer delivers, and the controller has a worker.
Fairness == WF_vars(Watch) /\ WF_vars(ReconcilerStep)

Spec     == Init /\ [][Next]_vars
FairSpec == Spec /\ Fairness

-----------------------------------------------------------------------------
(* Properties *)

Retrying == queued \/ pass.pc # "idle"

\* "Persist the conditions this pass set, on success and on failure: a Package
\* that could not be reconciled must say why" (controller/environments/package.go
\* 173-174), and of a deletion that waits: "the condition saying so is persisted
\* below" (141-143).  While a stage keeps failing the pass is retried, and in the
\* end the status says that the stages before succeeded and that this one did
\* not, whichever copies the passes read and whichever writes were refused.  It
\* never says so of what it has no acceptable words for: of the prerequisites of a
\* Package, and of anything while the projection of the contract is not published.
FailureIsReported ==
    <>[](/\ kind \in PersistsFailures /\ trouble # 0 /\ Retrying
         /\ Acceptable(After(Unset, life, trouble))
         => \A c \in Conditions :
                After(Unset, life, trouble)[c] \in {"none", conds[c]})

\* When nothing fails any more the status ends up saying so for every stage,
\* whatever failed on the way and however old the copies that the passes read.
\* The exception, misread, is a Package or Deployment whose last pass set what
\* its old copy said already: it does not write that, although the status has
\* come to say otherwise.  A projection that is not published is in the way for all
\* kinds whose words for it are not acceptable.
Holds == UNION {Table("live")[n].holds : n \in Stages("live")}
Told  == \A c \in Holds : conds[c] = "True"

SuccessIsReported ==
    <>[](/\ life = "live" /\ trouble = 0 /\ ~misread
         /\ Acceptable(After(Unset, life, trouble))
         => Told)

\* The reconciler does not stop short: whenever nothing is queued or under way,
\* and so nothing makes it look again, an object of which no stage fails says so
\* for every stage, and the deletion of a Package, a Deployment or a Build is one
\* it has still to be told of.  A pass that fails, is overtaken by an edit or has
\* its write refused must leave something behind that brings the next (the errors
\* and requeues returned in controller/environments/package.go 157-200, build.go
\* 149-189 and deployment.go 160-199, and the deletion filter, package.go 252-262).
QuietMeansDone ==
    ~Retrying =>
        /\ life = "live" /\ trouble = 0 /\ ~misread => Told
        /\ life = "deleting" /\ kind \in DeletionWakes => ~current
=============================================================================
