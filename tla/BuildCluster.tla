----------------------------- MODULE BuildCluster -----------------------------
(***************************************************************************)
(* What the three controllers of the Build pipeline share: the Build       *)
(* object, its BuildRuns and its prerequisites on the API server, the      *)
(* informer caches the controllers read, and their workqueues.  The module *)
(* also has the steps of everything outside the manager: the user, GitHub, *)
(* External Secrets, Shipwright and the watch streams.                     *)
(*                                                                         *)
(* The module is about one Build (one namespace and name).  Its spec is    *)
(* fixed except for whether it resolves, so the hash of an execution, and  *)
(* with it the name of a BuildRun, is the pair of annotations it is        *)
(* computed from: the trigger commit and the retry attempt.                *)
(***************************************************************************)
EXTENDS Naturals, FiniteSets

CONSTANTS
    Commits,        \* commit SHAs a push can carry
    NoCommit,       \* no trigger-sha annotation, or a payload without commit
    OtherEvent,     \* a payload no trigger of the policy matches
    Events,         \* the GitHubEvent CRs of the Build's application
    EventCreated,   \* their CreationTimestamp, in seconds
    MaxAttempts,    \* policy.retry.maxAttempts; 0: no retry on failure
    SameSecond,     \* may two BuildRuns get the same CreationTimestamp?
    CacheLag,       \* may the informer caches lag behind the API server?
    RunResults,     \* how BuildRuns may end
    MaxLives,       \* bound: how often the user creates the Build
    MaxDeletes,     \* bound: how often the user deletes it
    MaxDeliveries,  \* bound: GitHub deliveries
    MaxFaults,      \* bound: failed API calls
    MaxRestarts,    \* bound: restarts of the manager
    MaxToggles      \* bound: user edits of the Build spec or the Environment

ASSUME CommitsAssumption ==
    /\ IsFiniteSet(Commits)
    /\ NoCommit \notin Commits /\ OtherEvent \notin Commits
    /\ NoCommit # OtherEvent
ASSUME EventsAssumption == EventCreated \in [Events -> Nat]
ASSUME BoundsAssumption ==
    /\ MaxAttempts \in Nat /\ MaxLives \in Nat /\ MaxDeletes \in Nat
    /\ MaxDeliveries \in Nat /\ MaxFaults \in Nat /\ MaxRestarts \in Nat
    /\ MaxToggles \in Nat
    /\ SameSecond \in BOOLEAN /\ CacheLag \in BOOLEAN
ASSUME ResultsAssumption == RunResults \subseteq {"pushed", "silent", "failed"}

VARIABLES
    build,      \* the Build on the API server
    runs,       \* its BuildRuns, by name
    prereqs,    \* the prerequisites that exist
    secrets,    \* the Secrets External Secrets has written
    env,        \* does the owning Environment exist?
    payload,    \* what each GitHubEvent carries now
    clock,      \* the second the last BuildRun was created in, and its number
    cBuild,     \* the Build in the manager's informer cache
    cRuns,      \* the BuildRuns in the manager's informer cache
    recQ,       \* is the Build queued for the Build reconciler?
    obsQ,       \* is the Build queued for the build-observer?
    broQ,       \* BuildRuns queued for the buildrun-observer
    rec,        \* the pass of the Build reconciler
    obs,        \* the pass of the build-observer
    bro,        \* the pass of the buildrun-observer
    spent       \* how much of each bound is used up

cluster == <<build, runs, prereqs, secrets, env, payload, clock>>
caches  == <<cBuild, cRuns>>
queues  == <<recQ, obsQ, broQ>>
passes  == <<rec, obs, bro>>
vars    == <<cluster, caches, queues, passes, spent>>

-----------------------------------------------------------------------------
(* Objects *)

Shas    == Commits \cup {NoCommit}
Retries == 0 .. MaxAttempts          \* 0: no retry-attempt annotation
RunName == Shas \X Retries
NoRun   == <<>>

Prerequisites == {"gitSSH", "registry", "serviceAccount"}
SecretNames   == {"gitSSH", "registry"}

RunState   == {"absent", "running", "failed", "pushed", "silent"}
RunType    == [state: RunState, created: Nat, seq: Nat]
AbsentRun  == [state |-> "absent", created |-> 0, seq |-> 0]
Succeeded  == {"pushed", "silent"}   \* "silent": reported no output image
Terminal   == Succeeded \cup {"failed"}

ContractType == [ref: RunName \cup {NoRun}, success: BOOLEAN,
                 image: RunName \cup {NoRun}]
NoContract   == [ref |-> NoRun, success |-> FALSE, image |-> NoRun]

Outcomes  == {"BuildSuccess", "BuildFailed"}
CondTypes == Outcomes \cup {"BuildStart", "BuildReady"}

\* uid 0 is an object that does not exist.
BuildType == [uid: Nat, valid: BOOLEAN, deleting: BOOLEAN, finalizer: BOOLEAN,
              sha: Shas, retry: Retries, contract: ContractType,
              conds: SUBSET CondTypes]
NoBuild   == [uid |-> 0, valid |-> TRUE, deleting |-> FALSE,
              finalizer |-> FALSE, sha |-> NoCommit, retry |-> 0,
              contract |-> NoContract, conds |-> {}]

\* A payload whose type the policy names is its commit.
PayloadType == Shas \cup {OtherEvent}

Exists(b)  == b.uid # 0
RunsIn(rs) == {r \in RunName : rs[r].state # "absent"}

\* The name of the BuildRun an execution of b gets.  Dispatching the same
\* execution again finds that BuildRun.
ExecutionName(b) == <<b.sha, b.retry>>

\* A pass keeps what its later steps use of the Build it read; in "patch" the
\* build-observer keeps the retry annotation it is about to write.
RecType == [pc: {"idle", "ensure", "dispatch", "persist", "teardown",
                 "cleanup", "release"},
            valid: BOOLEAN, exec: RunName, contract: ContractType,
            conds: SUBSET CondTypes]
ObsType == [pc: {"idle", "triggers", "retry", "patch"},
            sha: Shas, retry: Retries, contract: ContractType]
BroType == [pc: {"idle", "write"}, contract: ContractType]

SpentType == [lives: Nat, deletes: Nat, deliveries: Nat, faults: Nat,
              restarts: Nat, toggles: Nat]

IdleRec == [pc |-> "idle", valid |-> TRUE, exec |-> <<NoCommit, 0>>,
            contract |-> NoContract, conds |-> {}]
IdleObs == [pc |-> "idle", sha |-> NoCommit, retry |-> 0,
            contract |-> NoContract]
IdleBro == [pc |-> "idle", contract |-> NoContract]

Stages == <<"gitSSH", "registry", "serviceAccount">>

Init ==
    /\ build = NoBuild
    /\ runs = [r \in RunName |-> AbsentRun]
    /\ prereqs = {}
    /\ secrets = {}
    /\ env = TRUE
    /\ payload = [e \in Events |-> OtherEvent]
    /\ clock = [second |-> 0, seq |-> 0]
    /\ cBuild = NoBuild
    /\ cRuns = runs
    /\ recQ = FALSE /\ obsQ = FALSE /\ broQ = {}
    /\ rec = IdleRec /\ obs = IdleObs /\ bro = IdleBro
    /\ spent = [lives |-> 0, deletes |-> 0, deliveries |-> 0, faults |-> 0,
                restarts |-> 0, toggles |-> 0]

-----------------------------------------------------------------------------
(* The user *)

CreateBuild ==
    /\ ~Exists(build)
    /\ spent.lives < MaxLives
    /\ spent' = [spent EXCEPT !.lives = @ + 1]
    /\ build' = [NoBuild EXCEPT !.uid = spent.lives + 1]
    /\ UNCHANGED <<runs, prereqs, secrets, env, payload, clock, caches, queues,
                   passes>>

\* Without a finalizer the API server removes the object at once.
DeleteBuild ==
    /\ Exists(build) /\ ~build.deleting
    /\ spent.deletes < MaxDeletes
    /\ spent' = [spent EXCEPT !.deletes = @ + 1]
    /\ build' = IF build.finalizer THEN [build EXCEPT !.deleting = TRUE]
                                   ELSE NoBuild
    /\ UNCHANGED <<runs, prereqs, secrets, env, payload, clock, caches, queues,
                   passes>>

\* An edit that makes the contract unresolvable, or repairs it.
EditSpec ==
    /\ Exists(build)
    /\ spent.toggles < MaxToggles
    /\ spent' = [spent EXCEPT !.toggles = @ + 1]
    /\ build' = [build EXCEPT !.valid = ~@]
    /\ UNCHANGED <<runs, prereqs, secrets, env, payload, clock, caches, queues,
                   passes>>

\* The Environment is created or removed.
ToggleEnvironment ==
    /\ spent.toggles < MaxToggles
    /\ spent' = [spent EXCEPT !.toggles = @ + 1]
    /\ env' = ~env
    /\ UNCHANGED <<build, runs, prereqs, secrets, payload, clock, caches, queues,
                   passes>>

(* GitHub: a delivery replaces the payload of a GitHubEvent, which wakes the
   build-observer for every Build of the application it has in its cache.  A
   payload may lack a commit, may be of a type the policy does not name, may
   have no event id or not resolve; the observer treats the last three alike. *)
Deliver(e) ==
    /\ spent.deliveries < MaxDeliveries
    /\ spent' = [spent EXCEPT !.deliveries = @ + 1]
    /\ \E p \in PayloadType : payload' = [payload EXCEPT ![e] = p]
    /\ obsQ' = (obsQ \/ Exists(cBuild))
    /\ UNCHANGED <<build, runs, prereqs, secrets, env, clock, caches, recQ, broQ,
                   passes>>

\* External Secrets writes the Secret an ExternalSecret declares.
WriteSecret ==
    /\ \E s \in (prereqs \cap SecretNames) \ secrets :
          secrets' = secrets \cup {s}
    /\ UNCHANGED <<build, runs, prereqs, env, payload, clock, caches, queues, passes,
                   spent>>

\* Shipwright finishes a BuildRun.
FinishRun ==
    /\ \E r \in RunName, s \in RunResults :
          /\ runs[r].state = "running"
          /\ runs' = [runs EXCEPT ![r].state = s]
    /\ UNCHANGED <<build, prereqs, secrets, env, payload, clock, caches, queues,
                   passes, spent>>

-----------------------------------------------------------------------------
(* The manager: informers and restarts *)

\* The informer sees the Build's current version.  Neither controller of
\* Builds filters events, so both are woken.
WatchBuild ==
    /\ cBuild # build
    /\ cBuild' = build
    /\ recQ' = TRUE
    /\ obsQ' = TRUE
    /\ UNCHANGED <<cluster, cRuns, broQ, passes, spent>>

\* The informer sees a BuildRun's current version.
WatchRun ==
    /\ \E r \in RunName :
          /\ cRuns[r] # runs[r]
          /\ cRuns' = [cRuns EXCEPT ![r] = runs[r]]
          /\ broQ' = broQ \cup {r}
    /\ UNCHANGED <<cluster, cBuild, recQ, obsQ, passes, spent>>

\* Passes in flight are lost; the caches are listed afresh and everything
\* that exists is queued.
Restart ==
    /\ spent.restarts < MaxRestarts
    /\ spent' = [spent EXCEPT !.restarts = @ + 1]
    /\ cBuild' = build
    /\ cRuns' = runs
    /\ recQ' = Exists(build)
    /\ obsQ' = Exists(build)
    /\ broQ' = RunsIn(runs)
    /\ rec' = IdleRec /\ obs' = IdleObs /\ bro' = IdleBro
    /\ UNCHANGED cluster

\* One more API call fails.
Fault ==
    /\ spent.faults < MaxFaults
    /\ spent' = [spent EXCEPT !.faults = @ + 1]

=============================================================================
