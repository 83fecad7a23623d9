--------------------------- MODULE BuildReconciler ---------------------------
(***************************************************************************)
(* The Build reconciler, with the Build domain and the Build mediator it   *)
(* runs through the engine.  A pass reads the Build from the informer      *)
(* cache, handles the command in stages, and then writes what it found     *)
(* out.  Every stage is a step: other controllers, and a restart, come in  *)
(* between.                                                                *)
(*                                                                         *)
(* rec.pc is "idle" or the stage that comes next: "ensure", "dispatch" and *)
(* "persist" for an update, "teardown", "cleanup" and "release" for a      *)
(* delete.                                                                 *)
(***************************************************************************)
EXTENDS BuildCluster

\* A pass ends.  An error puts the Build back on the queue; nothing is
\* persisted then, whatever conditions the domain set on its copy.
RecDone  == rec' = IdleRec /\ UNCHANGED recQ
RecError_Forgotten == rec' = IdleRec /\ UNCHANGED recQ
RecError == rec' = IdleRec /\ recQ' = TRUE
RecNext(pc) == rec' = [rec EXCEPT !.pc = pc] /\ UNCHANGED recQ

-----------------------------------------------------------------------------
(* The reconciler: read, finalizer gate *)

\* The status handed to the domain: its contract is dropped, so that the build
\* service's status writer has none to write back.
Handed_AsRead(b) == b.contract
Handed(b) == NoContract

\* A pass over a Build that has the finalizer.
Read_NoTeardown(b) == [pc |-> IF b.deleting THEN "release" ELSE "ensure",
            valid |-> b.valid, exec |-> ExecutionName(b),
            contract |-> Handed(b), conds |-> b.conds]
Read(b) == [pc |-> IF b.deleting THEN "teardown" ELSE "ensure",
            valid |-> b.valid, exec |-> ExecutionName(b),
            contract |-> Handed(b), conds |-> b.conds]

\* With the finalizer's addition the pass ends and the Build is looked at
\* again; the update is refused when the cached copy is not current.
AddFinalizer ==
    /\ build' = IF cBuild = build THEN [build EXCEPT !.finalizer = TRUE]
                                  ELSE build
    /\ RecError

ReconcileBuild ==
    /\ recQ /\ rec.pc = "idle"
    /\ \/ /\ ~Exists(cBuild) \/ (cBuild.deleting /\ ~cBuild.finalizer)
          /\ recQ' = FALSE
          /\ UNCHANGED <<rec, build>>
       \/ /\ Exists(cBuild) /\ ~cBuild.deleting /\ ~cBuild.finalizer
          /\ AddFinalizer
       \/ /\ Exists(cBuild) /\ cBuild.finalizer
          /\ rec' = Read(cBuild)
          /\ recQ' = FALSE
          /\ UNCHANGED build
    /\ UNCHANGED <<runs, prereqs, secrets, env, payload, clock, caches, obsQ, broQ,
                   obs, bro, spent>>

-----------------------------------------------------------------------------
(* Update: resolve, prerequisites, dispatch, persist *)

\* What exists once the stages before stage n have run.
EnsuredBefore(n) == prereqs \cup {Stages[i] : i \in 1 .. (n - 1)}

AwaitSecrets_AnyOne == secrets # {}
AwaitSecrets == SecretNames \subseteq secrets

(* EnsurePrerequisites.  The Environment is looked up first.  The stages run
   in order and the first to fail ends the call; the fourth is the wait for
   the Secrets, which reports them pending. *)
EnsurePrerequisites(ok) ==
    \/ ~env /\ ~ok /\ UNCHANGED <<prereqs, spent>>
    \/ env /\ ~ok /\ Fault /\ \E n \in 1 .. 4 : prereqs' = EnsuredBefore(n)
    \/ env /\ ok = AwaitSecrets /\ prereqs' = EnsuredBefore(4) /\ UNCHANGED spent

HandleUpdate ==
    /\ rec.pc = "ensure"
    /\ \/ ~rec.valid /\ RecError /\ UNCHANGED <<prereqs, spent>>
       \/ rec.valid /\ EnsurePrerequisites(FALSE) /\ RecError
       \/ rec.valid /\ EnsurePrerequisites(TRUE) /\ RecNext("dispatch")
    /\ UNCHANGED <<build, runs, secrets, env, payload, clock, caches, obsQ, broQ,
                   obs, bro>>

\* The conditions of a pass that are new with respect to those it read.
ChangedConditions(before, after) == after \ before

\* The status writer of the build service: the contract of the object it is
\* handed, if there is one, and BuildReady.
WriteDispatched(b, contract) ==
    [b EXCEPT !.contract = IF contract = NoContract THEN @ ELSE contract,
              !.conds = @ \cup {"BuildReady"}]

\* The build service starts the BuildRun of an execution unless there is one.
\* Creation times are in whole seconds.
StartRun(r) ==
    IF runs[r].state # "absent" THEN UNCHANGED <<runs, clock>>
    ELSE \E now \in {clock.second + 1} \cup
                     (IF SameSecond THEN {clock.second} ELSE {}) :
            /\ clock' = [second |-> now, seq |-> clock.seq + 1]
            /\ runs' = [runs EXCEPT ![r] = [state |-> "running", created |-> now,
                                           seq |-> clock.seq + 1]]

\* After an error the BuildRun may or may not have been started.
Dispatch ==
    /\ rec.pc = "dispatch"
    /\ \/ /\ StartRun(rec.exec)
          /\ build' = WriteDispatched(build, rec.contract)
          /\ rec' = [IdleRec EXCEPT !.pc = "persist",
                        !.conds = ChangedConditions(rec.conds,
                                          rec.conds \cup {"BuildStart"})]
          /\ UNCHANGED <<recQ, spent>>
       \/ /\ StartRun(rec.exec) \/ UNCHANGED <<runs, clock>>
          /\ Fault
          /\ RecError
          /\ UNCHANGED build
    /\ UNCHANGED <<prereqs, secrets, env, payload, caches, obsQ, broQ, obs, bro>>

\* RetryOnConflict around: read the latest copy from the cache, merge the
\* conditions this pass changed, update.  A copy that is not current is
\* refused; the pass waits for the cache or gives up.
PersistStatus ==
    /\ rec.pc = "persist"
    /\ \/ /\ Exists(cBuild) /\ cBuild = build
          /\ build' = [build EXCEPT !.conds = @ \cup rec.conds]
          /\ RecDone
       \/ /\ ~Exists(cBuild) \/ cBuild # build
          /\ RecError
          /\ UNCHANGED build
    /\ UNCHANGED <<runs, prereqs, secrets, env, payload, clock, caches, obsQ, broQ,
                   obs, bro, spent>>

-----------------------------------------------------------------------------
(* Delete: resolve, teardown, cleanup, release *)

\* The build service removes every BuildRun of the Build.
Teardown ==
    /\ rec.pc = "teardown"
    /\ \/ /\ ~rec.valid
          /\ RecError
          /\ UNCHANGED <<runs, spent>>
       \/ /\ rec.valid
          /\ runs' = [r \in RunName |-> AbsentRun]
          /\ RecNext("cleanup")
          /\ UNCHANGED spent
       \/ /\ rec.valid
          /\ Fault
          /\ \E left \in SUBSET RunsIn(runs) :
                runs' = [r \in RunName |-> IF r \in left THEN runs[r]
                                                         ELSE AbsentRun]
          /\ RecError
    /\ UNCHANGED <<build, prereqs, secrets, env, payload, clock, caches, obsQ, broQ,
                   obs, bro>>

\* A deletion failed: the errors are aggregated and keep the finalizer.
CleanupFailed_Swallowed == RecNext("release")
CleanupFailed == RecError

(* CleanupPrerequisites looks the Environment up and then attempts every
   deletion; a Secret goes with the ExternalSecret that declared it. *)
CleanupPrerequisites ==
    /\ rec.pc = "cleanup"
    /\ \/ ~env /\ RecError /\ UNCHANGED <<prereqs, secrets, spent>>
       \/ /\ env
          /\ prereqs' = {}
          /\ secrets' = {}
          /\ RecNext("release")
          /\ UNCHANGED spent
       \/ /\ env
          /\ Fault
          /\ \E stuck \in SUBSET Prerequisites :
                prereqs' = prereqs \cap stuck /\ secrets' = secrets \cap stuck
          /\ CleanupFailed
    /\ UNCHANGED <<build, runs, env, payload, clock, caches, obsQ, broQ, obs, bro>>

\* RetryOnConflict around: read the latest copy, drop the finalizer, update.
\* The API server then removes the object; one that was re-created meanwhile
\* is not being deleted and stays.
WithoutFinalizer(b) ==
    IF b.deleting THEN NoBuild ELSE [b EXCEPT !.finalizer = FALSE]

RemoveFinalizer ==
    /\ rec.pc = "release"
    /\ \/ ~Exists(cBuild) /\ RecDone /\ UNCHANGED build
       \/ /\ Exists(cBuild) /\ cBuild = build
          /\ build' = WithoutFinalizer(build)
          /\ RecDone
       \/ Exists(cBuild) /\ cBuild # build /\ RecError /\ UNCHANGED build
    /\ UNCHANGED <<runs, prereqs, secrets, env, payload, clock, caches, obsQ, broQ,
                   obs, bro, spent>>

BuildReconcilerStep ==
    \/ ReconcileBuild \/ HandleUpdate \/ Dispatch \/ PersistStatus
    \/ Teardown \/ CleanupPrerequisites \/ RemoveFinalizer
=============================================================================
