# A formal model of the environments controller

This directory holds TLA+ modules that model the controllers of this repository, configurations
that model-check them with TLC, and proofs that TLAPS checks. It is meant to be read beside the
code: every definition that models code is a translation of lines of `src/`, listed under `map` in
`PROJECT.json`.

## The system

One process, a controller-runtime manager, runs sixteen controllers. Every controller has one
worker and a workqueue that holds a key at most once; a pass that returns an error is run again
later. Reads go to informer caches that follow the API server with a delay; writes go to the API
server, which refuses an update of a copy that is not current. Controllers share no memory that
matters: they interact through the objects they read and write, and through the watches that wake
them.

There are two kinds of controllers.

* A *reconciler* owns the spec of one kind of object. It gates deletion with a finalizer, turns the
  object into a command (update or delete), runs it through the engine and the *domain* of the kind
  (resolve the contract, ensure the prerequisites through a *mediator*, call a service), and then
  persists the conditions, or removes the finalizer.
* An *observer* watches what the outside world made of it, and writes the result into the status (or
  annotations) of the object.

| Component | State it keeps | Operations | What is hard | What makes it correct |
|---|---|---|---|---|
| Build reconciler, domain, mediator (`environments/build.go`, `domains/build`, `mediators/build`) | finalizer, conditions, prerequisites, BuildRuns | update: resolve, ensure prerequisites, dispatch, persist; delete: teardown, cleanup, release | passes on stale copies; a crash between stages; partial cleanup; waits for Secrets nobody watches | nothing outlives the Build; no BuildRun without its Secrets; a deletion completes |
| build-observer (`observers/build`) | the trigger commit and the retry attempt (annotations) | mirror the latest event's commit; ask for another attempt after a failure | stale contract; attempts at their limit; payloads without a commit | an attempt is dispatched only after the one before has failed; failures are retried up to the maximum |
| buildrun-observer (`observers/buildrun`) | the contract (outcome, image) and the outcome condition | write the outcome of the most recent BuildRun | outcomes in any order, again after a restart; two writers of one status | outcomes never regress; no image is told that was not pushed; exactly one outcome condition |
| Package reconciler, domain, mediator, observer (`environments/package.go`, `domains/packages`, `mediators/packages`, `observers/packages`) | finalizer, conditions, App result; credentials, service account, deployer binding | update: resolve, ensure, deploy, merge conditions; delete: tear down by identity, wait for the App to go, cleanup, release | a teardown takes several passes; the identity must outlive the App; a contract that no longer resolves; two writers of one status | the App never stands without the account it deploys as; the finalizer stays until the App is gone; the status ends up saying what the App says, unless a dispatch puts it back |
| Deployment reconciler, domain, mediator (`environments/deployment.go`, `domains/deployment`, `mediators/deployment`) | finalizer, conditions; git and flux SSH secrets, manifests repository | prerequisites, workload; new images wake it | the order of secrets and repository; a failure in the middle; the repository's local clone | nothing the contract declares at deletion is left behind; a deletion completes |
| GitHubEvent, GitRepository, Route, Domain reconcilers with their domains, mediators and observers (`events`, `sources`, `networks`, `domains/*`, `mediators/*`, `observers/*`) | finalizer, whole status | ensure and delete event sources, repositories, mappings, certificates | event filters that do not see a deletion; a status replaced by the one read; cleanup without teardown | provisioned in the end; a deletion completes |
| Environment reconciler, observer (`environments/environment.go`, `observers/environment`) | phase, one condition per composed resource, the references of the contract | resolve and persist; roll readiness up; discover references | two writers of one status; merge patches computed from old copies; lists that fail | the status ends up with what the resources report; references are added, never removed |
| ServiceUnit reconciler, domain, mediator (`environments/serviceunit.go`, `build_image.go`, `domains/serviceunit`, `mediators/serviceunit`) | conditions | resolve, inject the image of its Build, say whether it is ready or waits; no finalizer, no delete path | the image is read live, and the event that announces it may be lost | the image reported follows the Build's |
| bootstrap, runtime, caches, logging, `pkg/` aliases, `cmd/main.go` | none that decides anything | wiring | - | - |

`PROJECT.json` lists every component with what is modelled of it, and every hazard with its line.

## Modules

There are six parts. The core of the system is the Build pipeline: three controllers that write
the same object, driven by pushes, BuildRuns and Secrets that appear on their own. The second is the
plan that six other reconcilers follow, over one object each. The third is the Environment, whose
reconciler and observer write one status. The fourth opens one stage of the second: the manifests
repository of a Deployment, call by call. The fifth composes Build, ServiceUnit and Deployment: how
an image reaches what runs it. The sixth cuts across all nine kinds: what the conditions of a status
say of the pass that set them.

    FinalizerLifecycle      the contract of a finalizer: the abstract specification
    BuildCluster            objects, caches, queues; the outside world; restarts and faults
      BuildReconciler       EXTENDS BuildCluster: the passes of the Build reconciler
      BuildObserver         EXTENDS BuildCluster: the passes of the build-observer
      BuildRunObserver      EXTENDS BuildCluster: the passes of the buildrun-observer
        BuildPipeline       composes the three; properties; INSTANCE FinalizerLifecycle
          MCBuildPipeline   values for TLC
          BuildPipelineProofs           types, finalizer, Secrets, the refinement
            BuildOutcomeProofs          outcomes, images
              BuildRestProofs           what is done when the controllers come to rest; retries
      ResourceLifecycle     Package, Deployment, GitHubEvent, GitRepository, Route, Domain;
                            INSTANCE FinalizerLifecycle
        ResourceLifecycleProofs
    EnvironmentRollup       the Environment, the resources with its label, its two controllers
      MCEnvironmentRollup   values for TLC
      EnvironmentRollupProofs
    ManifestsRepo           a repository on GitHub, its working clone, the passes that use them
      ManifestsRepoProofs
    ImageRollout            a Build's image, the ServiceUnits, the Deployment that lists them
      ImageRolloutProofs
    StageConditions         the conditions of all nine kinds, pass by pass
      StageConditionsProofs

### How state and steps correspond to the code: the Build pipeline

The model is about one Build, by name. `build` is the object on the API server: existence (`uid`),
whether its contract resolves (`valid`), the deletion timestamp, the finalizer, the two annotations
(`sha`, `retry`), the contract status and the conditions that more than one controller touches.
`runs` has the BuildRuns by name; the name of a BuildRun is the hash of an execution, which the model
takes to be the pair of annotations it is computed from. `cBuild` and `cRuns` are the informer caches,
`recQ`, `obsQ` and `broQ` the workqueues.

A pass of a controller is several steps, because other controllers, the outside world and a restart
can come between any two of its calls. `rec`, `obs` and `bro` hold what a pass keeps from what it
read: in the Build reconciler the execution and the conditions it started with, in the build-observer
the annotations and the contract, in the buildrun-observer the contract it is about to write.

| Code | Model |
|---|---|
| `Reconcile` of the Build, up to the command | `ReconcileBuild`, `AddFinalizer`, `Read`, `Handed` |
| `BuildDomain.Handle`, update | `HandleUpdate` (resolve and `EnsurePrerequisites`), `Dispatch` |
| `BuildDomain.Handle`, delete | `Teardown`, `CleanupPrerequisites` |
| after the engine | `PersistStatus`, `RemoveFinalizer` |
| `applyTriggers`, `applyRetry` | `ApplyTriggers`; `ScanRuns` (the list and the decision) and `PatchRetry` |
| buildrun-observer | `ObserveRun` (read, superseded), `WriteOutcome` |

`RetryOnConflict` around a read from a cache is a step that succeeds when the cached copy is the
current one; when it is not, the pass may wait for the cache or give up with an error. Patches of the
build-observer carry no resourceVersion and are applied to whatever is there: between the list of the
BuildRuns and the patch of the retry annotation anything may happen, a BuildRun be dispatched or finish,
a commit arrive, the Build go.

Outside `src/` and modelled from their use: the build service (a BuildRun per execution, found again
when dispatched again; `BuildReady`), its status writer (the contract of the object it is handed, if
it has one), External Secrets, Shipwright, the API server's finalizer semantics. The environments
library's conditions that only one controller writes are left out, as are messages, events and logs.
Environments and Secrets are read as they are; only Builds and BuildRuns are read from a lagging
cache.

### ResourceLifecycle

Six reconcilers are written to one plan and differ in details that decide whether it works. `kind`
says which one a behaviour is about, and each difference is a table at the head of the module, so that
a reader can compare a line of the table with a line of the code: `Stages` (what the mediator
ensures, in order), `DeletionWakes` (whose event filter passes a deletion), `MergesConditions` (who
merges conditions and who replaces the status by the one read), `ServiceWritesStatus`, `TearsDown`
(whose delete command takes the service down), `Deletes` (the command of a pass), `WatchesService` and
`WatchesObject` (what the observer watches).

A Package service reports of an App only that it was applied, never how that ended; a dispatch of an App
that is there already therefore writes pending over the outcome the observer has found, and if the App
does not change, nothing wakes the observer to put it right. `result` is `"requested"` then (`Requested`,
`ServiceSays`), and the properties about results allow for that value and no other (`Reported`).

`obj` is the object with its finalizer, deletion timestamp, result, and two things about its contract:
does it resolve (`valid`), and does it declare the optional prerequisites (`optional`). `prereqs` and
`service` are what was made for it. An edit while a pass is under way makes the pass's copy stale.

| Code | Model |
|---|---|
| `SetupWithManager`: predicates and watches | `Wakes`, `WatchObject`, `NewImage`, `Restart` |
| `Reconcile`, up to the command | `ReconcileObject`, `AddFinalizer`, `Read` |
| domain `Handle`, update | `HandleUpdate` (any prefix of the stages when a call fails), `Dispatch` |
| domain `Handle`, delete | `Teardown`, `CleanupPrerequisites` |
| after the engine | `PersistStatus`, `RemoveFinalizer` |
| observers of Package and GitHubEvent | `ObserveService`, `WriteResult` |
| kapp-controller, Flux, Argo Events, Crossplane, cert-manager (external) | `SettleService`, `DriftService`, `RemoveApp` |

The observers of Deployment and GitRepository have no status writer that reaches the API server
(see the findings): a pass of theirs changes nothing and is left out.

### EnvironmentRollup

`env` is the Environment: its references, whether the contract resolves, and its status (phase, one
condition per resource, and whether the reconciler's own conditions are there). `state` says of each
resource with the Environment's label whether it exists and is ready; `cEnv` and `cState` are the
caches. The observer's pass is four steps, because its two patches are computed from copies that may be
old by the time they are applied: `ObserveEnvironment` lists and rolls up, `PatchContract` applies the
references (a merge patch replaces the list of ServiceUnits as a whole), `Refetch` reads again, from
the cache, `PatchStatus` applies the phase and the conditions. The reconciler's are two:
`ReconcileEnvironment` and `PersistStatus`, which puts the status it started with back. A list that
fails leaves its kind out of the pass (`Listed`), and `spent.skips` remembers it.

Left out: the times of transition, with which every pass of the observer that finds resources patches
the status and is woken by its own patch (see the hazards); and that `mapToEnvironment` drops an event
when it cannot list Environments, a list that is answered from the store of an informer the observer has
waited for.

### ManifestsRepo

`remote` is a repository per owner (does it exist, has it the deploy key, the commits of main), `clone`
the one working clone in the temporary directory (is there a `.git`, which origin has it, the commits
of main), `goal` what the user asks for, `contract` the owner of the repository the contract declares,
or that it declares none (`NoOwner`), and `owner` what the last pass has read of that. A history is a set
of commits: that is enough to tell a fast-forward from a divergence and a born main from an unborn one.
Each step of `ensureManifestsRepo` and `teardownManifestsRepo` is an action: `EnsureRemote`,
`EnsureDeployKey`, `CloneRemote` or `SyncClone`, `AddOrigin`, `CommitLayout`, `PushMain`, and
`DeleteRemote`, `RemoveClone`; with a contract that declares no repository they do nothing, and
`EditContract` may take it out, put it in or name another owner at any time. `Fails` is a call that
failed, or whose answer was lost after it had its effect; `Restart` may keep the temporary directory or
lose it.

GitHub creates a repository for the account of the token (`Account`), whatever owner the contract names
(`Made`), and takes a deploy key for one repository only (`Taken`). GitHub and git are external; that an
empty repository is cloned with main as its unborn branch, and that other people leave the files of the
layout alone, are assumptions of the module.

### ImageRollout

A push changes the status of a Build and nothing in the ServiceUnits of type BUILD or in the
Deployments that list them. So both controllers watch Builds, let only a changed image through
(`buildImageChanged`), and look up in the cache of ServiceUnits whom it concerns. `image` is the last
image of one Build, numbered in the order of pushes; `units` are the ServiceUnits with the contract
and the image they report; `dep` is a Deployment that lists all of them, with what it runs and its
`DeploymentSucceeded` condition. `toMap` is an image event whose mapping is still to run: it runs
later than the cache was updated, and both may be later than an edit. The two controllers share what
they watch and write nothing the other reads, so `controller` says which one a behaviour is about:
each meets everything it can meet, and the state space is a sum instead of a product.

| Code | Model |
|---|---|
| `buildImageChanged`; `SetupWithManager` of both | `WatchBuild`; `WakesUnit`, `WatchUnit`, `WatchDeployment` |
| `mapBuildToServiceUnits`, `mapBuildToDeployments` | `UnitsOfBuild`, `Concerned`, `MapBuildToServiceUnits`, `MapBuildToDeployments` |
| ServiceUnit `Reconcile`, domain `Handle`, `InjectBuildImage` | `ReconcileUnit` (reads of the cache), `PersistReport` |
| Deployment `Reconcile`, up to the ServiceUnits | `ReconcileDeployment` |
| `resolveServiceUnits`, one unit after the other, live | `ResolveServiceUnit` |
| the deployment service | `Deploy`, which may stop in the middle |
| merge of changed conditions, requeue | `Gives`, `Merged`, `Requeued`, `PersistConditions` |

`untold` is true while the Deployment has missed a change: an edit of a ServiceUnit, of which no event
tells a Deployment, or an image whose mapping found no ServiceUnit of the Build in its cache while
there was one. The code does lose those (see the findings); the properties about the Deployment say
what holds otherwise.

The Deployment reads ServiceUnits and Builds from the API server: `deployment.go` hands its domain
`mgr.GetAPIReader()`, and the model follows that, not the comment on the domain's field, which speaks of
cached reads (see the findings). Left out is that the two mappings drop an event when they cannot list
ServiceUnits or Deployments: those lists are answered from the stores of informers.

### StageConditions

The domains of all nine kinds take an object through stages; a stage sets conditions on the pass's own
copy. The module has the stages of each kind's update and deletion as tables (which conditions a
failure sets to False, which a success to True) and the policies of the reconcilers as sets:
`PersistsFailures` (who writes after an error), `MergesChanges` (who merges what changed and who
replaces the status), `DeletionWakes`, `StatusWakes`. `trouble` is the stage that fails for now; a pass
may also fail once at an earlier one. `pass` has the conditions as read (`read`) and as made (`made`),
because what is written is their difference. `publishes` says whether the projection of the contract
reaches its cache: if not, that is a condition too, and the pass goes on.

The API server refuses a status with a reason that is not CamelCase, the whole of it. Several reasons
have blanks in them (`BlankReasons`): those of a failed publication, of all kinds but GitRepository, of
the failed prerequisites of a Package or a Build, and of a BuildRun that could not be started. A pass
that sets one of them to False has its write refused (`Acceptable`).

| Code | Model |
|---|---|
| domain `Handle`, update and delete | `StagesOf`, `TeardownOf`, `After` |
| `Reconcile`, up to the write | `Handle`, `HandleGone` |
| `changedConditions` and the merge, or `Status` replaced | `Written`, `PersistConditions` |
| after a deletion's stages | `RemoveFinalizer` |

`misread` is true when the last success was computed from a cached copy that was not current: what the
old copy says already is not written, although the status has come to say otherwise (see the findings).
`FailureIsReported` and `SuccessIsReported` are about what the API server takes.

## Runs

The `Build...` runs are of `MCBuildPipeline`. Deadlock is not checked in any run: the user, GitHub and
the bounds may leave the system with nothing to do.

| Run | Asks | Bounds beyond one commit, one event, no lag |
|---|---|---|
| `BuildInterleavings` | is the outcome told at rest final, is every image told one that was pushed, does every retry follow a failure, and does a stable Build converge, its failures retried? | 3 attempts, 2 deliveries, BuildRuns that push, succeed without an image, or fail; fairness |
| `BuildFailures` | can an API fault, a restart, an edit or a deletion make the controllers stop with something left to do, does the deletion complete, does the rest converge? | 2 attempts, BuildRuns that fail; a deletion, a fault and a restart, two edits; fairness |
| `BuildRecreation` | does nothing outlive a Build, is there one outcome, and does it not go back, when a Build is deleted and re-created under its name while the caches lag? | lag, 2 lives, 1 deletion, 2 attempts |
| `BuildSameSecond` | finds `OutcomeNeverRegresses` violated | BuildRuns may be created in the same second |
| `BuildLastImage` | finds `ImageIsLastPushed` violated | 2 attempts, 1 delivery |
| `ResourceLifecycle` | do the six kinds keep the finalizer's contract; do they ever stop short; are they provisioned and deleted, and do results end up told? | all kinds, lag, 1 life, 2 edits, 1 fault or restart or drift, fairness |
| `ResourceDeletion` | finds `EveryDeletionCompletes` violated | all kinds, nothing edited, nothing failed |
| `EnvironmentRollup` | does the observer stop short; does the status converge to what the resources report; is what exists discovered? | a Build and a ServiceUnit, lag, 2 changes, 1 edit, deletion, fault or restart, fairness |
| `EnvironmentOverwrite` | finds `RefsAreAdditive` violated | two ServiceUnits, 1 change, 1 edit |
| `ManifestsRepo` | what does a pass make of what an earlier one left behind? | 2 owners, 2 lives, 1 edit, 2 commits of other people, 3 upsets, fairness |
| `ImageRollout` | is an image ever lost on its way; does a pass mix old and new; do reports and verdict end up true? | 2 ServiceUnits, 2 images, 1 edit, 1 upset, lag, fairness |
| `StageConditions` | which failures and which successes end up in the status; does a reconciler stop short? | all nine kinds, 2 troubles, 2 upsets, lag, fairness |

Why the bounds are enough: the interesting cases need two BuildRuns in flight (one before the push and
one after, or a first attempt and a retry), an attempt below the maximum and one at it, one pass that
started before and ends after another controller's write, and one crash in the middle of it. With one
commit there are already up to four executions (no commit or the commit, with and without a retry).
Names of the bounds: `MaxLives`, `MaxDeletes`, `MaxDeliveries`, `MaxFaults`, `MaxRestarts`,
`MaxToggles` count what the outside world does and have no counterpart in the code; `MaxAttempts` is
`policy.retry.maxAttempts`.

In `ResourceLifecycle` one upset is enough for each place where a call can fail or the manager restart,
and two edits take a contract away and back, with passes before, between and after; every kind has its
own behaviours from `Init`, since `kind` never changes. In `EnvironmentRollup` two resources are the
fewest with a singular reference and a list, and two changes let a resource become ready during a pass
that saw it pending. `MaxLives`, `MaxEdits`, `MaxChanges` and `MaxUpsets` again count what the outside
world does. With `MaxEdits` and `MaxUpsets` the fairness assumption of the liveness properties is that
faults and edits stop.

*Fairness* (`FairSpec`): each controller has a worker that takes what is queued, so its passes are
weakly fair; watches deliver; External Secrets and Shipwright finish what they are given. Nothing is
assumed of the user, of GitHub, of faults and of restarts. `DeletionCompletes` has as its premise that
the Environment is there and the contract resolves in the end, because the code needs both and nothing
in it makes them true.

In `BuildFailures` every BuildRun fails, which is what keeps the build-observer busy next to the faults;
the other results meet every interleaving in `BuildInterleavings`.

In `ManifestsRepo` three upsets allow two failures in a row and a loss of the clone between them; two
owners and one edit are the fewest with a repository, or a clone, of a contract that is no longer so.

In `ImageRollout` two images are the fewest with one pushed while the other is on its way or rolled
out, two units the fewest with one resolved before and one after a push, and one edit or upset may
fall at any point of that; `Init` already has every combination of contracts. `MaxImages`, `MaxEdits`
and `MaxUpsets` count what the outside world does. In `StageConditions` two troubles let a stage fail,
work, and another fail; two upsets let two writes in a row be refused or a stage fail once around a
restart. The kinds do not meet: `kind` never changes.

In the other modules: informers deliver, the handlers of watches run, the controllers of the service finish, and the one worker
of a controller takes its next step. A pass that waits for something nobody announces is in the queue
with backoff, and that is what its fairness says.

### Rest

A controller of this code does nothing on a schedule: a pass runs because an event, an error or a
requeue brought it. What the filters, the merges, the stale copies and the restarts can do is lose the
last of these, and then the system is quiet and wrong, for good. A test cannot see that; it shows only
in the absence of a step. So every module has an invariant that says of a controller at rest, with
nothing queued, nothing under way and its caches up to date, that nothing is left to do: `NoWakeUpLost`
and `OutcomeIsFinal` for the Build pipeline, `NothingForgotten` for the six kinds of
`ResourceLifecycle`, `ObserverIsDone` for the Environment, `RolloutCurrent` and `ReportsCurrent` for
images, `QuietMeansDone` for the conditions. They are the safety half of the liveness properties: a
controller that comes to rest has converged. That it does come to rest is the other half, which needs
fairness. As invariants they hold in behaviours that are not fair, and they can be proved. Where the
code does lose a wake-up, the invariant names the case (`untold`, `misread`, a GitRepository after its
finalizer was added, the kinds outside `DeletionWakes`).

### What the failing runs show

* `BuildSameSecond`: `superseded` compares creation times, which have whole seconds. Of two BuildRuns of
  one second neither supersedes the other, and the older one's outcome can be the last one written.
* `BuildLastImage`: a superseded BuildRun is dropped also when it pushed. If the newer one fails, the
  contract names no image, or an older one, although the comment says it names the last one pushed.
* `ResourceDeletion`: the controllers of GitHubEvent, GitRepository, Route and Domain filter events with
  the predicate that drops the one that sets the deletion timestamp. Their objects stay under deletion
  until the next restart or edit. `environments/package.go` explains the trap and avoids it.
* `EnvironmentOverwrite`: the observer's merge patch carries the whole list of ServiceUnits as it was
  when the pass read it, without a version. A reference added in between is dropped.

Of lagging caches in the Build pipeline: `BuildInterleavings` runs without lag, because with it, two
deliveries and three attempts there are too many states. What it checks as invariants holds with any lag,
by the theorems below. What does not hold with lag is not claimed: a failed BuildRun leaves in place the
image of the Build *as the pass read it*, and a copy that does not show the last success yet takes its
image out of the contract (see the findings, buildrun.go 157). `ImageIsOfOutcome` says what is left of
"the image is the last one this Build pushed": a BuildRun that pushed an image speaks with that image,
and no other image is ever told than one an earlier BuildRun pushed.

Findings that no run shows by itself are in `PROJECT.json` as well; each names the definition that
models the line: a GitRepository that is not run again after its finalizer was added, a GitHubEvent
whose deletion provisions it once more, a GitRepository that is never torn down, deletions after the
contract was edited, observers without a status writer, the Route watch that is commented out; an
image that is mapped before its ServiceUnit reached the cache (`untold`), a success that a stale copy
keeps from being written (`misread`), conditions of a failed stage that seven kinds never persist
(`PersistsFailures`), reasons that the API server refuses, so that the failed prerequisites of a Package
are never told and a failed publication keeps every success from being told (`BlankReasons`), a final
outcome that a dispatch puts back to pending (`Requested`), a retry that is patched after a newer
BuildRun was dispatched (`PatchRetry`), a `DeploymentSucceeded` that survives a failed prerequisite, statuses replaced as
a whole by Route and Domain (`MergesConditions`); and, in
`ManifestsRepo`, the repository that an edit has taken out of the contract and nobody deletes, the one
that is created for the wrong account, the clone that keeps the origin of an earlier owner, and the clone
that no later pass can sync. A pass that fails before its first push, or a
push of someone else at the wrong moment, leaves such a clone, and every later pass fails on it until
the temporary directory is lost. `PassesGetThrough` names it (`Wedged`; a repository that somebody
deleted, and that is made again empty, is one more way there), as it names an owner that is not the
token's account and a deploy key in use elsewhere (`Stuck`), and shows that nothing else is in the way.

## Proofs

`tlapm` checks the following for all values of the constants: any commits, events and bounds, with and
without lag, same-second BuildRuns, faults, restarts and re-creation, unless a theorem says otherwise.

*Build pipeline.*

* `TypeCorrect`: `Spec => []TypeOK`. One lemma per controller and one for the outside; the only
  conjunct that is not routine is that the retry annotation stays within the policy
  (`RetryWantedType`), which needs BuildRuns to be finitely many.
* `FinalizerInvariant`: `ProvisionedUnderFinalizer` is not inductive, since a pass that provisions or
  releases relies on what it read. `FinalizerInv` adds what it relies on: a cached copy with the
  finalizer and without deletion means that the Build has the finalizer still; a cached copy under
  deletion means that no later Build has got one; a pass in a provisioning stage has a Build with the
  finalizer; teardown leaves no BuildRun and cleanup no prerequisite. `NothingOutlivesTheBuild` is its
  first conjunct.
* `RunsAlwaysHaveTheirSecrets`: with `SecretsInv`, that a pass about to dispatch has the Secrets, and
  `FinalizerInv`, which keeps a cleanup from being under way while BuildRuns exist.
* `PipelineKeepsLifecycle`: the pipeline implements `FinalizerLifecycle`, the object's state and the
  set of resources being functions of the pipeline's state. A step that changes the resources
  (`ProvidesStep`) happens under the finalizer and leaves the object's state alone; a step that changes
  the object's state (`ObjectStep`) is one of the abstract ones; the release needs `FinalizerInv`.
* `OutcomeAlwaysOne`: with `OutcomeInv`, that the reconciler never hands a contract on and never
  carries an outcome condition to the merge.
* `OutcomesGoForward`, assuming distinct creation times (`~SameSecond`): `OutcomeNeverRegresses`, which
  is about the first life of a Build's name, with any cache lag. `ClockInv` makes creation times the
  order of creation. `LifeInv` says, for as long as the first Build lives: no pass tears it down, the
  cache follows the BuildRuns (what it shows of a BuildRun was true and, once terminal, stays true),
  every contract that is held anywhere tells the outcome of a BuildRun the cache shows, and the one
  about to be written is no older than the one that is there. The last is what the property needs at
  the write; the others keep it, since a pass judges "superseded" by the cache. With same-second
  creation times the theorem is false (`BuildSameSecond`), and across two lives with lagging caches too:
  a pass of the first life may write to the second Build.
* `ImagesAreOfOutcomes`, assuming `~SameSecond`: `ImageIsOfOutcome`, with any cache lag. Every contract
  that is held anywhere, on the API server, in the cache or by a pass, has the property; a BuildRun that
  is not superseded is newer than the one the copy tells of (`LifeInv`), so that the image carried over
  was pushed by an earlier one. That the image is the *last* one pushed is false with lagging copies, and
  `BuildLastImage` shows it false without.
* `NoWakeUpIsLost`: `NoWakeUpLost`, without assumptions. Being at rest says nothing of what a pass did
  before, so the invariant is about controllers that are not queued yet. `WorkInv`: while the Build is
  not queued for the reconciler, the pass under way holds the copy that is in the cache, and if no pass
  is under way the last one has left nothing undone *for that copy*: its finalizer, the BuildRun of its
  execution, its start condition. It is kept because whatever shows the cache another copy queues the
  Build. `SeenInv` says the same of the build-observer: the trigger commit of the cached copy is that of
  the latest event, or the Build has another commit, which the cache is yet to show and whose
  event is therefore still to come. `CopiesInv` ties the copies to Builds that existed. At rest the cache
  is the Build, and the three give the property.
* `OutcomesAreFinal`, assuming `~SameSecond`: `OutcomeIsFinal`. `OrderInv` is about names and ages:
  the cached copies are numbered like the BuildRuns (`SeqInv`), a copy of a BuildRun that is gone is
  older than those that are there (`GoneInv`), and there is a newest one (`NewestInv`, shown step by step,
  since "a finite set of numbers has a maximum" is an induction).
  `ToldInv`: a finished BuildRun the cache shows and that is not queued is superseded, or the contract
  tells its outcome, or the pass under way is about to write it; so dropping a BuildRun is safe because
  a newer one is there for good. `AttemptsInv`: no execution is more than one attempt ahead of the
  BuildRuns the cache shows, and one that is ahead is newer than all of them; that is what makes
  `attempts + 1` and `MaxAttempts` meet. `RetryInv`: the last pass of the build-observer left no attempt
  to ask for, or the one it asked for has yet to start. The last two hold in a first life of the name:
  BuildRuns of an earlier Build that linger in the cache count as attempts of the new one.
* `RetriesFollowFailures`, assuming `~SameSecond`: `RetryOnlyAfterFailure`, with any cache lag and
  anything between the list and the patch. `DueInv` follows an attempt from the decision to the
  annotation, into the caches and into the execution of a pass: wherever the number n is held, the
  BuildRun started as number n - 1 or a later one has failed. The pass that decides has a
  faithful contract (`LifeInv`) of the newest BuildRun its cache shows, and the BuildRuns its cache shows
  are numbered without gaps (`SeqInv`), so that their count is the newest one's number.

*ResourceLifecycle*, for any subset of the kinds, with and without lag.

* `ResourceTypeCorrect`: types, and that a pass works on an object that had the finalizer when read.
* `ServicesKeepPrerequisites`: `ServiceHasPrerequisites`, with `PrerequisitesInv`: a pass about to
  dispatch has ensured every stage the contract always has, and a pass about to clean up has no service
  left to stand on them, for every kind that tears down.
* `ResourceFinalizerInvariant` and `ResourcesKeepLifecycle`: the six kinds implement
  `FinalizerLifecycle` for what their teardown covers (`Owed`). `FinalizerInv` relates the finalizer
  and the deletion mark of the object to the cached copy and to the copy of the pass, says what
  teardown and cleanup have achieved by the time the next stage runs, and that, as long as nobody
  edited it, every copy of the contract says what was made (`Unedited`).

* `NothingIsForgotten`: `NothingForgotten`. Its invariant says, per kind, what an unqueued reconciler
  has already done for the cached copy, that a change the filter drops does not change what is to be
  done, and that the observer of a Package, while not queued, has written or is about to write what the
  App says now, or that the App is ready and a dispatch has said "requested" of it.

*ManifestsRepo.* `ManifestsTypeCorrect`, `TeardownAlwaysTotal`, `PassesLeaveLayout`: with `TeardownInv`,
that no pass is under way for a Deployment that is gone, that the clone is removed only once the
repository of the contract the pass has read is gone, and that a pass about to push has the layout in its
clone; for any owners, whichever of them has the token, and any edits.

*ImageRollout*, for any number of ServiceUnits.

* `RolloutTypeCorrect`: types, and that a pass that resolves has a unit left to read.
* `RolloutAlwaysCurrent`: `RolloutCurrent` speaks of an idle reconciler. `RolloutInv` follows each unit
  through the pass: what the Deployment runs once the pass is over, and what the pass has resolved
  until then, is what the unit asks for, or the difference is owed: queued, on its way, or `untold`.
* `ReadsAlwaysFresh`: `ReadsAreFresh`, with `FreshInv`, that what a pass has resolved is no older than
  the Build was when it began.
* `ReportsAlwaysCurrent`: `ReportsCurrent`, by what an unqueued ServiceUnit's pass is about to report
  and the last one has reported, for the copy and the image its cache shows.

*EnvironmentRollup.* `EnvironmentTypeCorrect`, and `ObserverAlwaysDone`: `ObserverIsDone`. While the
observer is not queued, its pass holds the cached Environment and what the cached states roll up to
(`PassInv`), and between passes the cached status tells them, or the Environment's is another one, whose
event is still to come (`TellInv`; `FoundInv` for the references). The second case is the delicate one:
the status must not become what the cache shows again without a pass.

*StageConditions.* `StagesTypeCorrect`, which also says that a failed pass comes to persist for
`PersistsFailures` only and that a copy called current is; `NothingLeftUndone`: `QuietMeansDone`, whatever
is not published and whatever the API server refuses.

Assumed are only the assumptions the modules state on their constants (commits are finitely many and
differ from the markers, creation times and bounds are natural numbers, kinds are known ones, there is
a ServiceUnit) and, in the four theorems that say so, those above.

Only model-checked: liveness, which is beyond the prover (`Converges`, `DeletionCompletes`,
`Provisioned`, `ResultConverges`, `RollupConverges`, `RefsDiscovered`, `PassesGetThrough`,
`RolloutConverges`, `ReportsConverge`, and `FailureIsReported` and `SuccessIsReported`, which say what
the status says in the end). Every safety property of a passing run is stated by a theorem, in four
cases under assumptions that the run makes as well. For that reason the runs do not repeat one another:
`OneOutcome`, `ProvisionedUnderFinalizer` and `OutcomeNeverRegresses` are checked by the one
run with lagging caches, `RunsHaveTheirSecrets` by the one with faults, although they hold in all.

## Plan

In the order of writing, all done: the Build pipeline with its proofs; `ResourceLifecycle`;
`EnvironmentRollup`; `ManifestsRepo` with its proofs; `ImageRollout` with its proofs;
`StageConditions`; the theorems about `ResourceLifecycle`; types of the rest; the conditional theorems
on outcomes, image and retries; the invariants of rest with their proofs. What would come next is a second Deployment of the same name in another
namespace, which shares a clone with the first (a hazard without a property), and the conditions of the
Build's three writers in one module.

## Not modelled

`internal/bootstrap`, `internal/runtime`, `internal/cache`, `internal/logging`, `pkg/`, `cmd/` and the
build tooling wire the above together and decide nothing that the properties are about. The resolved
contracts the domains publish to the cache are written and never read by a controller.

Of the modelled components: what a contract contains beyond its validity and the optional
prerequisites, and how a manifest or a script is rendered; Deployments of one name in two namespaces,
which share a clone; the passes of the deployment- and gitrepository-observer, which change nothing on
the API server; the delete branches of the Environment and the GitHubEvent domain, which no command
reaches; `mediators/environment.go`, which has no caller.
