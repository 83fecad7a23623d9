-------------------------- MODULE EnvironmentRollup --------------------------
(***************************************************************************)
(* The two controllers of an Environment.  The environment-observer rolls  *)
(* the readiness of the composed resources up into the status, and records *)
(* the resources it discovers in the spec's contract; the Environment      *)
(* reconciler resolves the contract and writes the status it read at the   *)
(* start of its pass, with its own conditions, over what is there.         *)
(*                                                                         *)
(* The module is about one Environment and the resources that carry its    *)
(* label.  The contract is its references to them, with whether it         *)
(* resolves; messages and transition times are left out.                   *)
(***************************************************************************)
EXTENDS Naturals, FiniteSets

CONSTANTS
    Resources,      \* resources with the Environment's label, by name
    KindOf,         \* the kind of each
    CacheLag,       \* may the informer caches lag behind the API server?
    MaxLives,       \* bound: how often the user creates the Environment
    MaxChanges,     \* bound: changes of the resources
    MaxUpsets       \* bound: deletions and edits by the user, failed writes
                    \* and lists, and restarts of the manager, together

\* The contract has one reference per kind, and a list of ServiceUnits.
Kinds == {"Build", "GitRepository", "Deployment", "Route", "Package",
          "ServiceUnit"}

ASSUME KindAssumption == KindOf \in [Resources -> Kinds]
ASSUME LagAssumption == CacheLag \in BOOLEAN
ASSUME BoundsAssumption ==
    /\ MaxLives \in Nat /\ MaxChanges \in Nat /\ MaxUpsets \in Nat

VARIABLES
    env,        \* the Environment on the API server
    state,      \* the resources on the API server
    cEnv,       \* the Environment in the manager's informer cache
    cState,     \* the resources in the informer caches
    recQ,       \* is the Environment queued for its reconciler?
    obsQ,       \* is it queued for the environment-observer?
    rec,        \* the pass of the reconciler
    obs,        \* the pass of the observer
    spent       \* how much of each bound is used up, and the failed lists

vars == <<env, state, cEnv, cState, recQ, obsQ, rec, obs, spent>>

-----------------------------------------------------------------------------
(* Objects *)

Units    == {r \in Resources : KindOf[r] = "ServiceUnit"}
Singular == Resources \ Units
Of(k)    == {r \in Resources : KindOf[r] = k}

Existence   == {"absent", "pending", "ready"}
Conditions  == [Resources -> {"none", "False", "True"}]
Phases      == {"none", "PENDING", "READY"}
\* own: are the reconciler's conditions there?
StatusType  == [phase: Phases, conds: Conditions, own: BOOLEAN]
NoStatus    == [phase |-> "none", conds |-> [r \in Resources |-> "none"],
                own |-> FALSE]
EnvType     == [uid: Nat, valid: BOOLEAN, refs: SUBSET Resources,
                status: StatusType]
NoEnv       == [uid |-> 0, valid |-> TRUE, refs |-> {}, status |-> NoStatus]

Exists(e) == e.uid # 0

\* base is the copy the patches of an observer pass are computed from.
RecType == [pc: {"idle", "persist"}, status: StatusType]
ObsType == [pc: {"idle", "spec", "refetch", "status"}, base: EnvType,
            refs: SUBSET Resources, conds: Conditions]
IdleRec == [pc |-> "idle", status |-> NoStatus]
IdleObs == [pc |-> "idle", base |-> NoEnv, refs |-> {},
            conds |-> NoStatus.conds]

SpentType == [lives: Nat, changes: Nat, upsets: Nat, skips: Nat]

TypeOK ==
    /\ env \in EnvType /\ cEnv \in EnvType
    /\ state \in [Resources -> Existence] /\ cState \in [Resources -> Existence]
    /\ recQ \in BOOLEAN /\ obsQ \in BOOLEAN
    /\ rec \in RecType /\ obs \in ObsType
    /\ spent \in SpentType

Init ==
    /\ env = NoEnv /\ cEnv = NoEnv
    /\ state = [r \in Resources |-> "absent"] /\ cState = state
    /\ recQ = FALSE /\ obsQ = FALSE
    /\ rec = IdleRec /\ obs = IdleObs
    /\ spent = [lives |-> 0, changes |-> 0, upsets |-> 0, skips |-> 0]

Upset ==
    /\ spent.upsets < MaxUpsets
    /\ spent' = [spent EXCEPT !.upsets = @ + 1]

-----------------------------------------------------------------------------
(* The user, and the controllers of the resources *)

CreateEnvironment ==
    /\ ~Exists(env)
    /\ spent.lives < MaxLives
    /\ spent' = [spent EXCEPT !.lives = @ + 1]
    /\ env' = [NoEnv EXCEPT !.uid = spent.lives + 1]
    /\ UNCHANGED <<state, cEnv, cState, recQ, obsQ, rec, obs>>

\* An Environment has no finalizer.
DeleteEnvironment ==
    /\ Exists(env)
    /\ Upset
    /\ env' = NoEnv
    /\ UNCHANGED <<state, cEnv, cState, recQ, obsQ, rec, obs>>

\* The user declares a resource up front, or makes the contract unresolvable
\* or resolvable.
EditContract ==
    /\ Exists(env)
    /\ Upset
    /\ \/ env' = [env EXCEPT !.valid = ~@]
       \/ \E r \in Resources \ env.refs :
             /\ r \in Units \/ env.refs \cap Of(KindOf[r]) = {}
             /\ env' = [env EXCEPT !.refs = @ \cup {r}]
    /\ UNCHANGED <<state, cEnv, cState, recQ, obsQ, rec, obs>>

\* A resource appears, goes, or reports that it is or is not ready.
ChangeResource ==
    /\ spent.changes < MaxChanges
    /\ spent' = [spent EXCEPT !.changes = @ + 1]
    /\ \E r \in Resources, s \in Existence :
          /\ s # state[r]
          /\ state' = [state EXCEPT ![r] = s]
    /\ UNCHANGED <<env, cEnv, cState, recQ, obsQ, rec, obs>>

-----------------------------------------------------------------------------
(* The manager: informers and restarts *)

\* The reconciler is woken by the creation of an Environment and by changes of
\* its spec, the observer by every event of it.
WakesReconciler(old, new) ==
    Exists(new) /\ (~Exists(old) \/ <<old.valid, old.refs>> # <<new.valid, new.refs>>)
WakesObserver_Filtered(old, new) == WakesReconciler(old, new)
WakesObserver(old, new) == old # new

WatchEnvironment ==
    /\ cEnv # env
    /\ cEnv' = env
    /\ obsQ' = (obsQ \/ WakesObserver(cEnv, env))
    /\ recQ' = (recQ \/ WakesReconciler(cEnv, env))
    /\ UNCHANGED <<env, state, cState, rec, obs, spent>>

\* The kinds whose events are mapped to their Environment.  (mapToEnvironment looks
\* it up in the store of the informer that the observer itself waits for; that
\* this fails, and loses the event, is left out.)
WatchedKinds == Kinds \ {"Route"}

WatchResource ==
    /\ \E r \in Resources :
          /\ cState[r] # state[r]
          /\ cState' = [cState EXCEPT ![r] = state[r]]
          /\ obsQ' = (obsQ \/ (KindOf[r] \in WatchedKinds /\ Exists(cEnv)))
    /\ UNCHANGED <<env, state, cEnv, recQ, rec, obs, spent>>

Restart ==
    /\ Upset
    /\ cEnv' = env /\ cState' = state
    /\ recQ' = Exists(env) /\ obsQ' = Exists(env)
    /\ rec' = IdleRec /\ obs' = IdleObs
    /\ UNCHANGED <<env, state>>

-----------------------------------------------------------------------------
(* The environment-observer *)

Present(s)   == {r \in Resources : s[r] # "absent"}
RollUp_Raw(s) == s
RollUp(s)    == [r \in Resources |-> CASE s[r] = "absent"  -> "none"
                                       [] s[r] = "pending" -> "False"
                                       [] s[r] = "ready"   -> "True"]

\* Ready if there are resources and all of them are.
Phase(conds) ==
    LET found == {conds[r] : r \in Resources} \ {"none"}
    IN  IF found = {"True"} THEN "READY" ELSE "PENDING"

\* One resource for each kind that has some and no reference yet.
Additions(refs, s) ==
    LET missing(k) == Of(k) \cap refs = {} /\ Of(k) \cap Present(s) # {}
    IN  {a \in SUBSET (Singular \cap Present(s)) :
            \A k \in Kinds \ {"ServiceUnit"} :
                Cardinality(a \cap Of(k)) = IF missing(k) THEN 1 ELSE 0}

\* The references with those discovered; of ServiceUnits, all are.
Discovered_NotStored(refs, s) == {refs \cup a : a \in Additions(refs, s)}
Discovered(refs, s) ==
    {refs \cup a \cup (Units \cap Present(s)) : a \in Additions(refs, s)}

\* A kind whose list fails is left out of the pass, which is not repeated.
Listed(failed) == [r \in Resources |-> IF KindOf[r] = failed THEN "absent"
                                                            ELSE cState[r]]

ObsDone  == obs' = IdleObs /\ UNCHANGED obsQ
ObsError_Dropped == obs' = IdleObs /\ UNCHANGED obsQ
ObsError == obs' = IdleObs /\ obsQ' = TRUE

StartRollup(s) ==
    \E refs \in Discovered(cEnv.refs, s) :
        obs' = [pc |-> IF refs = cEnv.refs THEN "status" ELSE "spec",
                base |-> cEnv, refs |-> refs, conds |-> RollUp(s)]

ObserveEnvironment ==
    /\ obsQ /\ obs.pc = "idle"
    /\ obsQ' = FALSE
    /\ \/ ~Exists(cEnv) /\ UNCHANGED <<obs, spent>>
       \/ Exists(cEnv) /\ StartRollup(cState) /\ UNCHANGED spent
       \/ /\ Exists(cEnv)
          /\ spent.upsets < MaxUpsets
          /\ spent' = [spent EXCEPT !.upsets = @ + 1, !.skips = @ + 1]
          /\ \E k \in Kinds : StartRollup(Listed(k))
    /\ UNCHANGED <<env, state, cEnv, cState, recQ, rec>>

(* The merge patch of the contract carries what the pass changed of its copy:
   a reference of a kind by itself, and the whole list of ServiceUnits.  It
   asks for no particular version. *)
Merged(e, base, refs) ==
    LET new       == (refs \ base) \cap Singular
        replaced  == UNION {Of(KindOf[r]) : r \in new}
        units     == IF Units \cap refs = Units \cap base THEN e.refs ELSE refs
    IN  new \cup ((e.refs \cap Singular) \ replaced) \cup (Units \cap units)

PatchContract ==
    /\ obs.pc = "spec"
    /\ \/ /\ Exists(env)
          /\ env' = [env EXCEPT !.refs = Merged(env, obs.base.refs, obs.refs)]
          /\ obs' = [obs EXCEPT !.pc = "refetch"]
          /\ UNCHANGED <<obsQ, spent>>
       \/ ~Exists(env) /\ ObsError /\ UNCHANGED <<env, spent>>
       \/ Upset /\ ObsError /\ UNCHANGED env
    /\ UNCHANGED <<state, cEnv, cState, recQ, rec>>

\* The Environment is read again, from the cache.
Refetch ==
    /\ obs.pc = "refetch"
    /\ \/ ~Exists(cEnv) /\ ObsDone
       \/ /\ Exists(cEnv)
          /\ obs' = [obs EXCEPT !.pc = "status", !.base = cEnv]
          /\ UNCHANGED obsQ
    /\ UNCHANGED <<env, state, cEnv, cState, recQ, rec, spent>>

(* The merge patch of the status carries the phase, if it is not the one of
   the copy, and the list of conditions, if that is not the one of the copy.
   The transition times are those of the pass: a list with the same outcomes
   is the same list only within one second. *)
StatusPatch(status, base, conds) ==
    LET phase     == IF base.phase = Phase(conds) THEN status.phase
                                                  ELSE Phase(conds)
        listed    == [phase |-> phase, conds |-> conds, own |-> FALSE]
        unlisted  == [status EXCEPT !.phase = phase]
    IN  IF base.conds # conds \/ base.own THEN {listed}
        ELSE IF conds = NoStatus.conds THEN {unlisted}
        ELSE {listed, unlisted}

PatchStatus ==
    /\ obs.pc = "status"
    /\ \/ /\ Exists(env)
          /\ \E s \in StatusPatch(env.status, obs.base.status, obs.conds) :
                env' = [env EXCEPT !.status = s]
          /\ ObsDone
          /\ UNCHANGED spent
       \/ ~Exists(env) /\ ObsError /\ UNCHANGED <<env, spent>>
       \/ Upset /\ ObsError /\ UNCHANGED env
    /\ UNCHANGED <<state, cEnv, cState, recQ, rec>>

ObserverStep == ObserveEnvironment \/ PatchContract \/ Refetch \/ PatchStatus

-----------------------------------------------------------------------------
(* The Environment reconciler *)

\* A contract that does not resolve ends the pass with an error: the
\* Environment stays queued, which is no step.
ReconcileEnvironment ==
    /\ recQ /\ rec.pc = "idle"
    /\ recQ' = FALSE
    /\ \/ ~Exists(cEnv) /\ UNCHANGED rec
       \/ /\ Exists(cEnv) /\ cEnv.valid
          /\ rec' = [pc |-> "persist",
                     status |-> [cEnv.status EXCEPT !.own = TRUE]]
    /\ UNCHANGED <<env, state, cEnv, cState, obsQ, obs, spent>>

\* RetryOnConflict around: read the latest copy from the cache, replace its
\* status by the one of the pass, update.
PersistStatus ==
    /\ rec.pc = "persist"
    /\ rec' = IdleRec
    /\ \/ /\ Exists(cEnv) /\ cEnv = env
          /\ env' = [env EXCEPT !.status = rec.status]
          /\ UNCHANGED <<recQ, spent>>
       \/ /\ ~Exists(cEnv) \/ cEnv # env
          /\ recQ' = TRUE
          /\ UNCHANGED <<env, spent>>
       \/ Upset /\ recQ' = TRUE /\ UNCHANGED env
    /\ UNCHANGED <<state, cEnv, cState, obsQ, obs>>

ReconcilerStep == ReconcileEnvironment \/ PersistStatus

-----------------------------------------------------------------------------
(* Composition *)

Step ==
    \/ CreateEnvironment \/ DeleteEnvironment \/ EditContract \/ ChangeResource
    \/ Restart \/ ObserverStep \/ ReconcilerStep

\* Without CacheLag the informers come first.
Synced == CacheLag \/ (cEnv = env /\ cState = state)
Next   == WatchEnvironment \/ WatchResource \/ (Synced /\ Step)

\* Informers deliver, and each controller has a worker.
Fairness ==
    /\ WF_vars(WatchEnvironment) /\ WF_vars(WatchResource)
    /\ WF_vars(Synced /\ ObserverStep) /\ WF_vars(Synced /\ ReconcilerStep)

Spec     == Init /\ [][Next]_vars
FairSpec == Spec /\ Fairness

-----------------------------------------------------------------------------
(* Properties *)

Watched == {r \in Resources : KindOf[r] \in WatchedKinds}

\* A status that tells what the caches show: the phase of its conditions, and,
\* unless a list failed, the readiness of every watched resource.
Tells(status, s) ==
    /\ status.phase = Phase(status.conds)
    /\ spent.skips = 0 => \A r \in Watched : status.conds[r] = RollUp(s)[r]

\* Every ServiceUnit there is, and one resource of every other watched kind.
Found(refs, s) ==
    \A r \in Watched \cap Present(s) :
        IF r \in Units THEN r \in refs ELSE refs \cap Of(KindOf[r]) # {}

\* Whatever happens in between, the status ends up with the phase of its
\* conditions, and, unless a list failed, these tell the readiness of every
\* watched resource: although the reconciler writes an older status back,
\* patches are computed from old copies, and resources change during a pass.
RollupConverges ==
    <>[](Exists(env) => Tells(env.status, state))

\* "so the Environment stays current" (observers/environment, 24-26): every
\* ServiceUnit, and one resource of every other watched kind that has any, ends
\* up in the contract, unless a list failed.
RefsDiscovered ==
    <>[](Exists(env) /\ spent.skips = 0 => Found(env.refs, state))

\* The observer does not stop short: when it is neither queued nor in a pass, and
\* its caches are up to date, the status tells the readiness of the resources and
\* the contract names them, although the reconciler may have written an older
\* status back since, the pass patched copies older than it thought, and its own
\* writes come back as events (observers/environment 80-262, and the watches that
\* bring the next pass, 363-374).
ObserverIsDone ==
    Exists(env) /\ cEnv = env /\ cState = state /\ ~obsQ /\ obs.pc = "idle" =>
        /\ Tells(env.status, state)
        /\ spent.skips = 0 => Found(env.refs, state)

\* "We patch refs additively -- never remove what's already there"
\* (observers/environment, 100): a reference in the contract stays.
RefsAreAdditive ==
    [][Exists(env) /\ env'.uid = env.uid => env.refs \subseteq env'.refs]_vars
==============================================================================
