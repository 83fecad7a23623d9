------------------------- MODULE StageConditionsProofs -------------------------
(***************************************************************************)
(* Theorems about the conditions of the stages, for any of the kinds and   *)
(* any bounds.                                                             *)
(***************************************************************************)
EXTENDS StageConditions, TLAPS

\* The constants the passes start from have their types.
LEMMA Constants ==
    /\ Unset \in CondsType /\ IdlePass.pc = "idle" /\ Releasing.pc = "release"
    /\ IdlePass.failed = FALSE /\ Releasing.failed = FALSE
    /\ {IdlePass, Releasing} \subseteq
          [pc: {"idle", "persist", "release"}, read: CondsType, made: CondsType,
           failed: BOOLEAN]
<1>1. Unset \in CondsType
  BY DEF Unset, CondsType
<1> DEFINE Passes == [pc: {"idle", "persist", "release"}, read: CondsType,
                      made: CondsType, failed: BOOLEAN]
<1>2. IdlePass \in Passes /\ IdlePass.pc = "idle" /\ IdlePass.failed = FALSE
  BY <1>1 DEF IdlePass
<1>3. Releasing \in Passes /\ Releasing.pc = "release" /\ Releasing.failed = FALSE
  BY <1>2 DEF Releasing
<1> QED
  BY <1>1, <1>2, <1>3

\* What a pass makes of the conditions it read are conditions again.
LEMMA AfterType ==
    ASSUME NEW read \in CondsType, NEW l, NEW failing
    PROVE  After(read, l, failing) \in CondsType
BY DEF After, Set, CondsType

\* An object of the kind is alive, and every condition unset.
LEMMA TypeInit == Init => TypeOK
<1> SUFFICES ASSUME Init PROVE TypeOK
  OBVIOUS
<1>1. life \in Lives /\ cLife \in Lives
  BY DEF Init, Lives
<1>2. spent \in [troubles: Nat, upsets: Nat]
  BY DEF Init
<1> QED
  BY <1>1, <1>2, Constants DEF Init, TypeOK

\* The kind of an object stays, and with it its stages and conditions.
LEMMA SameKind ==
    ASSUME [Next]_vars
    PROVE  kind' = kind /\ Lives' = Lives /\ CondsType' = CondsType
<1>1. kind' = kind
  BY DEF Next, vars, cluster, Turn, Delete, Watch, Restart, ReconcilerStep,
     Handle, HandleGone, PersistConditions, RemoveFinalizer
<1>2. Lives' = Lives /\ Conditions' = Conditions
  BY <1>1 DEF Lives, Conditions, Of, CacheFailed, Stages, Table
<1> QED
  BY <1>1, <1>2 DEF CondsType

\* The user, the world, the informer, a restart.
LEMMA TypeOutside ==
    ASSUME TypeOK, [Next]_vars, Turn \/ Delete \/ Watch \/ Restart \/ UNCHANGED vars
    PROVE  TypeOK'
<1> USE Constants, SameKind DEF cluster, cache
<1>1. kind' = kind /\ Lives' = Lives /\ CondsType' = CondsType
  OBVIOUS
<1>2. \A l : Stages(l)' = Stages(l)
  BY <1>1 DEF Stages, Table
<1>3. CASE Turn
  <2>1. queued' \in BOOLEAN /\ trouble' \in Stages(life) \cup {0}
    BY <1>3 DEF Turn, TypeOK
  <2>4. publishes' \in BOOLEAN
    BY <1>3 DEF Turn, TypeOK
  <2>2. spent' \in [troubles: Nat, upsets: Nat]
    BY <1>3 DEF Turn, TypeOK
  <2>3. UNCHANGED <<kind, life, conds, cLife, cConds, current, pass, misread>>
    BY <1>3 DEF Turn
  <2> QED
    BY <1>1, <1>2, <2>1, <2>2, <2>3, <2>4 DEF TypeOK
<1>4. CASE Delete
  <2>1. life' \in Lives \cup {"gone"}
    BY <1>4 DEF Delete, Lives
  <2>2. trouble' \in Stages(life') \cup {0} /\ ~current' /\ current' \in BOOLEAN
    BY <1>4 DEF Delete
  <2>3. UNCHANGED <<kind, publishes, conds, cLife, cConds, queued, pass, misread,
                      spent>>
    BY <1>4 DEF Delete
  <2> QED
    BY <1>1, <1>2, <2>1, <2>2, <2>3 DEF TypeOK
<1>5. CASE Watch
  <2>1. queued' \in BOOLEAN
    BY <1>5 DEF Watch, TypeOK
  <2>2. UNCHANGED <<kind, life, trouble, publishes, conds, pass, misread, spent>>
        /\ cLife' = life /\ cConds' = conds /\ current'
        /\ current' \in BOOLEAN
    BY <1>5 DEF Watch
  <2> QED
    BY <1>1, <1>2, <2>1, <2>2 DEF TypeOK
<1>6. CASE Restart
  <2>1. spent' \in [troubles: Nat, upsets: Nat]
    BY <1>6 DEF Restart, Upset, TypeOK
  <2>2. UNCHANGED <<kind, life, trouble, publishes, conds>> /\ misread' = FALSE
        /\ cLife' = life /\ cConds' = conds /\ current' = TRUE
        /\ queued' \in BOOLEAN /\ pass' = IdlePass
    BY <1>6 DEF Restart
  <2> QED
    BY <1>1, <1>2, <2>1, <2>2 DEF TypeOK
<1>7. CASE UNCHANGED vars
  BY <1>1, <1>2, <1>7 DEF TypeOK, vars
<1> QED
  BY <1>3, <1>4, <1>5, <1>6, <1>7

\* A pass that failed comes to persist for the kinds that persist failures.
LEMMA TypeReconciler ==
    ASSUME TypeOK, [Next]_vars, ReconcilerStep
    PROVE  TypeOK'
<1> USE Constants, SameKind DEF cluster, cache
<1>1. kind' = kind /\ Lives' = Lives /\ CondsType' = CondsType
  OBVIOUS
<1>2. \A l : Stages(l)' = Stages(l)
  BY <1>1 DEF Stages, Table
<1> DEFINE PassType == [pc: {"idle", "persist", "release"}, read: CondsType,
                        made: CondsType, failed: BOOLEAN]
<1>3. CASE Handle
  <2>1. PICK failing \in Stages(cLife) \cup {0} :
           LET error == failing # 0 /\ IsError(failing) IN
           /\ Outcome(failing)
           /\ pass' = IF ~error /\ cLife = "deleting" THEN Releasing
                      ELSE IF Persists(error)
                      THEN [pc |-> "persist", read |-> cConds,
                            made |-> After(cConds, cLife, failing), failed |-> error]
                      ELSE IdlePass
           /\ queued' = (error /\ ~Persists(error))
           /\ misread' = IF error THEN misread
                         ELSE ~current /\ kind \in PersistsFailures
    BY <1>3 DEF Handle
  <2> DEFINE error == failing # 0 /\ IsError(failing)
  <2>2. error \in BOOLEAN
    OBVIOUS
  <2>3. After(cConds, cLife, failing) \in CondsType
    BY AfterType DEF TypeOK
  <2>4. pass' \in PassType /\ (pass'.failed => kind \in PersistsFailures)
    <3>1. CASE pass' \in {Releasing, IdlePass}
      BY <3>1
    <3>2. CASE /\ Persists(error)
               /\ pass' = [pc |-> "persist", read |-> cConds,
                           made |-> After(cConds, cLife, failing), failed |-> error]
      <4>1. cConds \in CondsType
        BY DEF TypeOK
      <4>2. error => kind \in PersistsFailures
        BY <3>2 DEF Persists
      <4> HIDE DEF error
      <4> QED
        BY <2>2, <2>3, <3>2, <4>1, <4>2
    <3> QED
      BY <2>1, <3>1, <3>2
  <2>5. queued' \in BOOLEAN /\ misread' \in BOOLEAN
    BY <2>1 DEF TypeOK
  <2>6. spent' \in [troubles: Nat, upsets: Nat]
    BY <2>1 DEF Outcome, Upset, TypeOK
  <2>7. UNCHANGED <<kind, life, trouble, publishes, conds, cLife, cConds, current>>
    BY <1>3 DEF Handle
  <2> HIDE DEF error
  <2> QED
    BY <1>1, <1>2, <2>4, <2>5, <2>6, <2>7 DEF TypeOK
<1>4. CASE HandleGone
  <2>1. queued' = FALSE /\ UNCHANGED <<kind, life, trouble, publishes, conds, cLife,
           cConds, current, pass, misread, spent>>
    BY <1>4 DEF HandleGone
  <2> QED
    BY <1>1, <1>2, <2>1 DEF TypeOK
<1>5. CASE PersistConditions
  <2>1. Written \in CondsType
    BY DEF Written, CondsType, TypeOK
  <2>2. conds' \in CondsType /\ current' \in BOOLEAN
        /\ (current' => cConds = conds')
    BY <1>5, <2>1 DEF PersistConditions, TypeOK
  <2>3. queued' \in BOOLEAN
    BY <1>5 DEF PersistConditions, Again, TypeOK
  <2>4. spent' \in [troubles: Nat, upsets: Nat]
    BY <1>5 DEF PersistConditions, Upset, TypeOK
  <2>5. pass' = IdlePass
        /\ UNCHANGED <<kind, life, trouble, publishes, cLife, cConds, misread>>
        /\ (current' => current)
    BY <1>5 DEF PersistConditions
  <2> QED
    BY <1>1, <1>2, <2>2, <2>3, <2>4, <2>5 DEF TypeOK
<1>6. CASE RemoveFinalizer
  <2>1. /\ life' \in {life, "gone"}
        /\ trouble' = 0 \/ (trouble' = trouble /\ life' = life)
        /\ current' = FALSE \/ (current' = current /\ life' = life)
    BY <1>6 DEF RemoveFinalizer
  <2>2. spent' \in [troubles: Nat, upsets: Nat]
    BY <1>6 DEF RemoveFinalizer, Upset, TypeOK
  <2>3. pass' = IdlePass /\ UNCHANGED <<kind, publishes, conds, cLife, cConds, misread>>
        /\ queued' \in {queued, TRUE}
    BY <1>6 DEF RemoveFinalizer
  <2>4. trouble' \in Stages(life') \cup {0} /\ life' \in Lives \cup {"gone"}
    BY <2>1 DEF TypeOK
  <2>5. current' \in BOOLEAN /\ (current' => cConds = conds /\ cLife = life')
    <3>1. CASE current' = FALSE
      BY <3>1
    <3>2. CASE current' = current /\ life' = life
      <4>1. current \in BOOLEAN /\ (current => cConds = conds /\ cLife = life)
        BY DEF TypeOK
      <4> QED
        BY <3>2, <4>1
    <3> QED
      BY <2>1, <3>1, <3>2
  <2> QED
    BY <1>1, <1>2, <2>2, <2>3, <2>4, <2>5 DEF TypeOK
<1> QED
  BY <1>3, <1>4, <1>5, <1>6 DEF ReconcilerStep

\* Every variable keeps its type, and only kinds that persist failures write
\* the conditions of a pass that failed.
THEOREM StagesTypeCorrect == Spec => []TypeOK
<1>1. TypeOK /\ [Next]_vars => TypeOK'
  BY TypeOutside, TypeReconciler DEF Next
<1> QED
  BY <1>1, TypeInit, PTL DEF Spec

-----------------------------------------------------------------------------
(* A reconciler with nothing to do has nothing left to do *)

\* Does the object wait, without an error, for what will announce itself?
Waiting == trouble # 0 /\ ~IsError(trouble)

\* The copy in the cache follows the object through its life.
LivesInv ==
    /\ life = "live" => cLife = "live"
    /\ cLife = "gone" => life = "gone"
    /\ pass.pc = "release" => life # "live"

\* A Build is only ever told of success: what a stage holds stays True once it is.
BuildInv ==
    kind = "Build" =>
        /\ \A c \in Holds : cConds[c] = "True" => conds[c] = "True"
        /\ pass.pc = "persist" => \A c \in Holds :
              /\ pass.read[c] = "True" => conds[c] = "True"
              /\ pass.made[c] # pass.read[c] => pass.made[c] = "True"

\* The pass about to persist: what it read is what it is to change, unless it is
\* misread; what it made says that all is done, unless it comes again.
PersistInv ==
    pass.pc = "persist" =>
        /\ ~pass.failed /\ ~misread /\ kind \in PersistsFailures => pass.read = conds
        /\ ~pass.failed /\ ~queued /\ life = "live" /\ ~Waiting =>
              \A c \in Holds : pass.made[c] = "True"
        /\ ~queued /\ cLife = "deleting" /\ kind \in DeletionWakes => pass.failed

\* With no pass under way: what a pass that did not come again left behind.
RestInv ==
    /\ ~Retrying /\ life = "live" /\ ~Waiting /\ ~misread => Told
    /\ life = "deleting" /\ cLife = "deleting" /\ kind \in DeletionWakes => Retrying

QuietInv == TypeOK /\ LivesInv /\ BuildInv /\ PersistInv /\ RestInv

LEMMA QuietImplies == QuietInv => QuietMeansDone
<1> SUFFICES ASSUME QuietInv, ~Retrying PROVE
        /\ life = "live" /\ trouble = 0 /\ ~misread => Told
        /\ life = "deleting" /\ kind \in DeletionWakes => ~current
  BY DEF QuietMeansDone
<1>1. trouble = 0 => ~Waiting
  BY DEF Waiting
<1>2. current => cLife = life
  BY DEF QuietInv, TypeOK
<1> QED
  BY <1>1, <1>2 DEF QuietInv, RestInv

LEMMA QuietInit == Init => QuietInv
<1> SUFFICES ASSUME Init PROVE QuietInv
  OBVIOUS
<1>1. pass.pc = "idle" /\ queued /\ life = "live" /\ cLife = "live" /\ cConds = conds
  BY Constants DEF Init
<1> QED
  BY <1>1, TypeInit DEF QuietInv, LivesInv, BuildInv, PersistInv, RestInv, Retrying

\* An update that goes through every stage holds what each of them holds.
LEMMA AfterAll ==
    ASSUME NEW read, NEW c \in Holds
    PROVE  c \in Conditions /\ After(read, "live", 0)[c] = "True"
<1>1. PICK n \in Stages("live") : c \in Table("live")[n].holds
  BY DEF Holds
<1>2. c \in Conditions
  BY <1>1 DEF Conditions, Of, Lives
<1> QED
  BY <1>1, <1>2 DEF After, Set

\* The stages and conditions of an object are those of its kind.
LEMMA SameStages ==
    ASSUME [Next]_vars
    PROVE  /\ kind' = kind /\ Holds' = Holds /\ Conditions' = Conditions
           /\ \A n : IsError(n)' = IsError(n)
<1>1. kind' = kind
  BY SameKind
<1> QED
  BY <1>1 DEF Holds, Conditions, Of, CacheFailed, Lives, Stages, Table, IsError

-----------------------------------------------------------------------------
(* The user, the world, the informer, a restart *)

LEMMA QuietTurn == ASSUME QuietInv, [Next]_vars, Turn, TypeOK' PROVE QuietInv'
<1> USE DEF cluster, cache
<1>1. UNCHANGED <<kind, life, conds, cLife, cConds, current, pass, misread>>
      /\ (queued => queued')
  BY DEF Turn, QuietInv, TypeOK
<1>2. Told' = Told /\ Conditions' = Conditions /\ Holds' = Holds
  BY <1>1, SameStages DEF Told
<1>3. queued' \/ Waiting' = Waiting
  BY SameStages DEF Turn, Waiting, Announced
<1>4. LivesInv' /\ BuildInv'
  BY <1>1, <1>2 DEF QuietInv, LivesInv, BuildInv
<1>5. PersistInv'
  BY <1>1, <1>2, <1>3 DEF QuietInv, PersistInv
<1>6. RestInv'
  BY <1>1, <1>2, <1>3 DEF QuietInv, RestInv, Retrying
<1> QED
  BY <1>4, <1>5, <1>6 DEF QuietInv

LEMMA QuietDelete == ASSUME QuietInv, [Next]_vars, Delete, TypeOK' PROVE QuietInv'
<1> USE DEF cluster, cache
<1>1. UNCHANGED <<kind, conds, cLife, cConds, queued, pass, misread>>
      /\ life = "live" /\ life' \in {"deleting", "gone"} /\ cLife = "live"
  BY DEF Delete, QuietInv, LivesInv
<1>2. Conditions' = Conditions /\ Holds' = Holds
  BY SameStages
<1>3. LivesInv' /\ BuildInv'
  BY <1>1, <1>2 DEF QuietInv, LivesInv, BuildInv
<1>4. PersistInv'
  BY <1>1, <1>2 DEF QuietInv, PersistInv
<1>5. RestInv'
  BY <1>1, <1>2 DEF RestInv
<1> QED
  BY <1>3, <1>4, <1>5 DEF QuietInv

LEMMA QuietWatch == ASSUME QuietInv, [Next]_vars, Watch, TypeOK' PROVE QuietInv'
<1> USE DEF cluster, cache
<1>1. UNCHANGED <<kind, life, trouble, publishes, conds, pass, misread>>
      /\ cLife' = life /\ cConds' = conds /\ (queued => queued')
  BY DEF Watch, QuietInv, TypeOK
<1>2. Conditions' = Conditions /\ Holds' = Holds /\ Told' = Told /\ Waiting' = Waiting
  BY <1>1, SameStages DEF Told, Waiting
<1>3. life = "deleting" /\ kind \in DeletionWakes => queued' \/ cLife = "deleting"
  <2>1. cLife \in {"live", "deleting", "gone"} /\ (cLife = "gone" => life = "gone")
    BY DEF QuietInv, LivesInv, TypeOK, Lives
  <2> QED
    BY <2>1 DEF Watch
<1>4. LivesInv' /\ BuildInv'
  BY <1>1, <1>2 DEF QuietInv, LivesInv, BuildInv
<1>5. PersistInv'
  BY <1>1, <1>2, <1>3 DEF QuietInv, PersistInv
<1>6. RestInv'
  BY <1>1, <1>2, <1>3 DEF QuietInv, RestInv, Retrying
<1> QED
  BY <1>4, <1>5, <1>6 DEF QuietInv

LEMMA QuietRestart == ASSUME QuietInv, [Next]_vars, Restart, TypeOK' PROVE QuietInv'
<1> USE DEF cluster, cache
<1>1. UNCHANGED <<kind, life, conds>> /\ cLife' = life /\ cConds' = conds
      /\ queued' = (life # "gone") /\ pass'.pc = "idle"
  BY Constants DEF Restart
<1>2. Conditions' = Conditions
  BY SameStages
<1> QED
  BY <1>1, <1>2 DEF QuietInv, LivesInv, BuildInv, PersistInv, RestInv, Retrying

-----------------------------------------------------------------------------
(* The reconciler *)

\* A pass of an update that comes to persist without an error, and is not to
\* wait, went through every stage.
LEMMA QuietHandle == ASSUME QuietInv, [Next]_vars, Handle, TypeOK' PROVE QuietInv'
<1> USE DEF cluster, cache
<1>1. PICK failing \in Stages(cLife) \cup {0} :
         LET error == failing # 0 /\ IsError(failing) IN
         /\ Outcome(failing)
         /\ pass' = IF ~error /\ cLife = "deleting" THEN Releasing
                    ELSE IF Persists(error)
                    THEN [pc |-> "persist", read |-> cConds,
                          made |-> After(cConds, cLife, failing), failed |-> error]
                    ELSE IdlePass
         /\ queued' = (error /\ ~Persists(error))
         /\ misread' = IF error THEN misread
                       ELSE ~current /\ kind \in PersistsFailures
  BY DEF Handle
<1> DEFINE error == failing # 0 /\ IsError(failing)
<1>2. UNCHANGED <<kind, life, trouble, publishes, conds, cLife, cConds, current>>
      /\ cLife # "gone"
  BY DEF Handle
<1>3. Conditions' = Conditions /\ Holds' = Holds /\ Waiting' = Waiting
  BY <1>2, SameStages DEF Waiting
<1> DEFINE Fresh == [pc |-> "persist", read |-> cConds,
                     made |-> After(cConds, cLife, failing), failed |-> error]
<1>4. \/ ~error /\ cLife = "deleting" /\ pass' = Releasing
      \/ (error \/ cLife # "deleting") /\ Persists(error) /\ pass' = Fresh
      \/ error /\ ~Persists(error) /\ pass' = IdlePass /\ queued'
  BY <1>1 DEF Persists
<1>5. pass'.pc = "persist" => pass' = Fresh /\ (error \/ cLife # "deleting")
  BY <1>4, Constants
<1>6. LivesInv'
  <2>1. pass'.pc = "release" => cLife = "deleting"
    BY <1>4, Constants
  <2> QED
    BY <1>2, <2>1 DEF QuietInv, LivesInv
<1>7. BuildInv'
  <2> SUFFICES ASSUME kind = "Build", pass'.pc = "persist", NEW c \in Holds
               PROVE  /\ pass'.read[c] = "True" => conds[c] = "True"
                      /\ pass'.made[c] # pass'.read[c] => pass'.made[c] = "True"
    BY <1>2, <1>3 DEF BuildInv, QuietInv
  <2>1. pass' = Fresh /\ (error \/ cLife # "deleting")
    BY <1>5
  <2>2. ~error
    BY <1>4, <1>5, Constants DEF Persists, PersistsFailures
  <2>3. failing = 0
    BY <2>2 DEF IsError
  <2>4. cLife = "live"
    <3>1. cLife \in {"live", "deleting", "gone"}
      BY DEF QuietInv, TypeOK, Lives
    <3> QED
      BY <1>2, <2>1, <2>2, <3>1
  <2>5. pass'.read[c] = cConds[c] /\ pass'.made[c] = "True"
    BY <2>1, <2>3, <2>4, AfterAll
  <2> QED
    BY <2>5 DEF QuietInv, BuildInv
<1>8. PersistInv'
  <2> SUFFICES ASSUME pass'.pc = "persist", pass' = Fresh, error \/ cLife # "deleting"
               PROVE  PersistInv'
    BY <1>5 DEF PersistInv
  <2>1. ASSUME ~error, ~misread', kind \in PersistsFailures PROVE pass'.read = conds
    <3>1. current
      BY <1>1, <2>1
    <3> QED
      BY <3>1 DEF QuietInv, TypeOK
  <2>2. ASSUME ~error, life = "live", ~Waiting, NEW c \in Holds
        PROVE  pass'.made[c] = "True"
    <3>1. cLife = "live"
      BY <2>2 DEF QuietInv, LivesInv
    <3>2. failing = 0
      BY <1>1, <2>2, <3>1 DEF Outcome, Waiting
    <3> QED
      BY <3>1, <3>2, AfterAll
  <2>3. pass'.failed = error
    OBVIOUS
  <2> HIDE DEF error
  <2> QED
    BY <1>2, <1>3, <2>1, <2>2, <2>3 DEF PersistInv
<1>9. RestInv'
  <2>1. Retrying'
    BY <1>4, Constants DEF Retrying
  <2> QED
    BY <2>1 DEF RestInv
<1> QED
  BY <1>6, <1>7, <1>8, <1>9 DEF QuietInv

LEMMA QuietHandleGone == ASSUME QuietInv, [Next]_vars, HandleGone, TypeOK' PROVE QuietInv'
<1> USE DEF cluster, cache
<1>1. UNCHANGED <<kind, life, trouble, publishes, conds, cLife, cConds, current, pass,
                misread>>
      /\ pass.pc = "idle" /\ cLife = "gone" /\ life = "gone"
  BY DEF HandleGone, QuietInv, LivesInv
<1>2. Holds' = Holds
  BY SameStages
<1> QED
  BY <1>1, <1>2 DEF QuietInv, LivesInv, BuildInv, PersistInv, RestInv

\* What a pass writes says what it made, for all that a stage holds.
LEMMA WrittenSaysSo ==
    ASSUME QuietInv, pass.pc = "persist", ~pass.failed, ~queued, life = "live",
           ~Waiting, ~misread, NEW c \in Holds
    PROVE  Written[c] = "True"
<1>1. pass.made[c] = "True" /\ c \in Conditions
  BY AfterAll DEF QuietInv, PersistInv
<1>2. CASE kind \notin MergesChanges
  BY <1>1, <1>2 DEF Written
<1>3. CASE kind \in MergesChanges
  <2>1. pass.made[c] = pass.read[c] => conds[c] = "True"
    BY <1>1, <1>3 DEF QuietInv, PersistInv, BuildInv, MergesChanges, PersistsFailures
  <2> QED
    BY <1>1, <1>3, <2>1 DEF Written
<1> QED
  BY <1>2, <1>3

LEMMA QuietPersist ==
    ASSUME QuietInv, [Next]_vars, PersistConditions, TypeOK' PROVE QuietInv'
<1> USE DEF cluster, cache
<1>1. UNCHANGED <<kind, life, trouble, publishes, cLife, cConds, misread>>
      /\ pass.pc = "persist" /\ pass'.pc = "idle"
  BY Constants DEF PersistConditions
<1>2. Conditions' = Conditions /\ Holds' = Holds /\ Waiting' = Waiting
  BY <1>1, SameStages DEF Waiting
<1>3. conds' = Written \/ (conds' = conds /\ queued')
  BY DEF PersistConditions
<1>4. ~queued' => ~queued /\ ~pass.failed /\ conds' = Written
  BY <1>3 DEF PersistConditions, Again
<1>5. LivesInv' /\ PersistInv'
  BY <1>1 DEF QuietInv, LivesInv, PersistInv
<1>6. BuildInv'
  <2> SUFFICES ASSUME kind = "Build", NEW c \in Holds, cConds[c] = "True"
               PROVE  conds'[c] = "True"
    BY <1>1, <1>2 DEF BuildInv
  <2>3. c \in Conditions
    BY AfterAll
  <2>1. conds[c] = "True"
    BY DEF QuietInv, BuildInv
  <2>2. Written[c] = "True"
    BY <1>1, <2>1, <2>3 DEF Written, MergesChanges, QuietInv, BuildInv
  <2> QED
    BY <1>3, <2>1, <2>2
<1>7. RestInv'
  <2>1. ~queued' /\ life = "live" /\ ~Waiting /\ ~misread => Told'
    BY <1>1, <1>2, <1>4, WrittenSaysSo DEF Told
  <2>2. cLife = "deleting" /\ kind \in DeletionWakes => queued'
    BY <1>1, <1>4 DEF QuietInv, PersistInv
  <2> QED
    BY <1>1, <1>2, <2>1, <2>2 DEF RestInv, Retrying
<1> QED
  BY <1>5, <1>6, <1>7 DEF QuietInv

LEMMA QuietRemove ==
    ASSUME QuietInv, [Next]_vars, RemoveFinalizer, TypeOK' PROVE QuietInv'
<1> USE DEF cluster, cache
<1>1. UNCHANGED <<kind, publishes, conds, cLife, cConds, misread>>
      /\ pass.pc = "release" /\ pass'.pc = "idle" /\ life # "live"
      /\ (life' = "gone" \/ (life' = life /\ queued'))
  BY Constants DEF RemoveFinalizer, QuietInv, LivesInv
<1>2. Holds' = Holds
  BY SameStages
<1> QED
  BY <1>1, <1>2 DEF QuietInv, LivesInv, BuildInv, PersistInv, RestInv, Retrying

\* Whatever the passes read, wherever they fail and whichever of their writes are
\* refused: a reconciler at rest leaves behind a status that says all is done, and
\* no deletion it was told of.
THEOREM NothingLeftUndone == Spec => []QuietMeansDone
<1>1. QuietInv /\ [Next]_vars => QuietInv'
  <2> SUFFICES ASSUME QuietInv, [Next]_vars PROVE QuietInv'
    OBVIOUS
  <2>1. TypeOK'
    BY TypeOutside, TypeReconciler DEF Next, QuietInv
  <2>2. CASE UNCHANGED vars
    BY <2>1, <2>2, SameStages DEF vars, cluster, cache, QuietInv, LivesInv, BuildInv,
       PersistInv, RestInv, Retrying, Told, Waiting
  <2> QED
    BY <2>1, <2>2, QuietTurn, QuietDelete, QuietWatch, QuietRestart, QuietHandle,
       QuietHandleGone, QuietPersist, QuietRemove DEF Next, ReconcilerStep
<1> QED
  BY <1>1, QuietInit, QuietImplies, PTL DEF Spec
=============================================================================
