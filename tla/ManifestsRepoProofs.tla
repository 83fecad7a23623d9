------------------------- MODULE ManifestsRepoProofs -------------------------
(***************************************************************************)
(* Proofs about the manifests repository, for any bounds: type             *)
(* correctness, that a teardown leaves nothing behind, and that a pass     *)
(* that succeeds leaves the layout and other people's commits.             *)
(***************************************************************************)
EXTENDS ManifestsRepo, TLAPS

Outside ==
    \/ CreateDeployment \/ DeleteDeployment \/ EditContract \/ Wake
    \/ SomeonePushes \/ SomeoneDeletes \/ Restart

\* What is queued, asked for and under way, and for whom.
LEMMA ControlTyped ==
    TypeOK /\ Next =>
        /\ goal' \in {"absent", "wanted", "deleted"}
        /\ contract' \in Contracts /\ owner' \in Contracts
        /\ queued' \in BOOLEAN
        /\ pc' \in {"idle", "key", "local", "origin", "commit", "push", "remove"}
        /\ pc' \in {"key", "local", "origin"} => owner' \in Owners
<1> SUFFICES ASSUME TypeOK, Next
             PROVE  /\ goal' \in {"absent", "wanted", "deleted"}
                    /\ contract' \in Contracts /\ owner' \in Contracts
                    /\ queued' \in BOOLEAN
                    /\ pc' \in {"idle", "key", "local", "origin", "commit", "push",
                               "remove"}
                    /\ pc' \in {"key", "local", "origin"} => owner' \in Owners
    OBVIOUS
<1> USE DEF TypeOK, Contracts, PassDone, PassError, PassNext, Fails
<1>1. CASE EnsureRemote \/ DeleteRemote
    BY <1>1 DEF EnsureRemote, DeleteRemote
<1>2. CASE EnsureDeployKey \/ CloneRemote \/ AddOrigin \/ SyncClone
    BY <1>2 DEF EnsureDeployKey, CloneRemote, AddOrigin, SyncClone
<1>3. CASE CommitLayout \/ PushMain \/ RemoveClone
    BY <1>3 DEF CommitLayout, PushMain, RemoveClone
<1>4. CASE Outside
    BY <1>4 DEF Outside, CreateDeployment, DeleteDeployment, EditContract, Wake,
       SomeonePushes, SomeoneDeletes, Restart
<1> QED BY <1>1, <1>2, <1>3, <1>4 DEF Next, PassStep, Outside

\* The counters stay natural numbers.
LEMMA SpentTyped == TypeOK /\ Next => spent' \in SpentType
BY DEF TypeOK, SpentType, Upset, Fails, Next, PassStep,
       CreateDeployment, DeleteDeployment, EditContract, Wake, SomeonePushes, SomeoneDeletes,
       Restart, EnsureRemote, EnsureDeployKey, CloneRemote, AddOrigin, SyncClone,
       CommitLayout, PushMain, DeleteRemote, RemoveClone

\* The history at the origin of a clone.
LEMMA OriginTyped == TypeOK => Origin \in RemoteType
BY DEF TypeOK, Origin, NoRemote, RemoteType

\* All that a step can do to the clone.
LEMMA CloneChanges ==
    TypeOK /\ Next =>
        \/ clone' = clone
        \/ clone' = NoClone /\ pc' \notin {"origin", "commit", "push"}
        \/ clone' = Initialised
        \/ /\ owner \in Owners
           /\ clone' = [git |-> TRUE, origin |-> owner,
                        commits |-> remote[owner].commits]
        \/ pc = "origin" /\ clone' = [clone EXCEPT !.origin = owner]
        \/ clone.git /\ clone' = [clone EXCEPT !.commits = Pulled]
        \/ /\ pc = "commit"
           /\ clone' = [clone EXCEPT !.commits =
                            @ \cup {<<"ours", spent'.commits>>}]
BY DEF PassDone, PassError, Fails, Next, PassStep, Reachable, Removed,
       CreateDeployment, DeleteDeployment, EditContract, Wake, SomeonePushes,
       SomeoneDeletes, Restart, EnsureRemote, EnsureDeployKey, CloneRemote,
       AddOrigin, SyncClone, CommitLayout, PushMain, DeleteRemote, RemoveClone

\* A clone without a repository in it has nothing else in it.
LEMMA CloneTyped ==
    TypeOK /\ Next => clone' \in CloneType /\ (~clone'.git => clone' = NoClone)
<1> SUFFICES ASSUME TypeOK, Next
             PROVE  clone' \in CloneType /\ (~clone'.git => clone' = NoClone)
    OBVIOUS
<1> USE DEF CloneType, NoClone, Contracts
<1>1. clone \in CloneType /\ (~clone.git => clone = NoClone) /\ owner \in Contracts
    BY DEF TypeOK
<1>2. <<"ours", spent'.commits>> \in Commits
    BY SpentTyped DEF SpentType, Commits
<1>3. pc \in {"origin", "commit"} => clone.git
    BY DEF TypeOK
<1>4. Pulled \in SUBSET Commits
    BY <1>1, OriginTyped DEF Pulled, RemoteType
<1>5. CASE clone' = clone
    BY <1>1, <1>5
<1>6. CASE clone' = NoClone
    BY <1>6
<1>7. CASE clone' = Initialised
    BY <1>7 DEF Initialised
<1>8. CASE /\ owner \in Owners
           /\ clone' = [git |-> TRUE, origin |-> owner,
                        commits |-> remote[owner].commits]
  <2>1. remote[owner].commits \in SUBSET Commits
      BY <1>8 DEF TypeOK, RemoteType
  <2> QED BY <1>8, <2>1
<1>9. CASE pc = "origin" /\ clone' = [clone EXCEPT !.origin = owner]
    BY <1>1, <1>3, <1>9
<1>10. CASE clone.git /\ clone' = [clone EXCEPT !.commits = Pulled]
    BY <1>1, <1>4, <1>10
<1>11. CASE /\ pc = "commit"
           /\ clone' = [clone EXCEPT !.commits =
                            @ \cup {<<"ours", spent'.commits>>}]
    BY <1>1, <1>2, <1>3, <1>11
<1> QED BY <1>5, <1>6, <1>7, <1>8, <1>9, <1>10, <1>11, CloneChanges

\* A pass gets to the steps that work in the clone only with one, and to those
\* that lead to a push only with an origin.
LEMMA PassHasClone ==
    TypeOK /\ Next => /\ pc' \in {"origin", "commit", "push"} => clone'.git
                      /\ pc' \in {"commit", "push"} => clone'.origin \in Owners
<1> SUFFICES ASSUME TypeOK, Next
             PROVE  /\ pc' \in {"origin", "commit", "push"} => clone'.git
                    /\ pc' \in {"commit", "push"} => clone'.origin \in Owners
    OBVIOUS
<1> USE DEF TypeOK, CloneType, NoClone, Initialised, PassDone, PassError, PassNext, Fails
<1>1. CASE EnsureRemote \/ EnsureDeployKey \/ DeleteRemote \/ RemoveClone \/ PushMain
    BY <1>1 DEF EnsureRemote, EnsureDeployKey, DeleteRemote, RemoveClone, PushMain
<1>2. CASE CloneRemote \/ AddOrigin
    BY <1>2 DEF CloneRemote, AddOrigin, Reachable
<1>3. CASE SyncClone
    BY <1>3 DEF SyncClone, Reachable
<1>4. CASE CommitLayout
    BY <1>4 DEF CommitLayout
<1>5. CASE Outside
    BY <1>5 DEF Outside, CreateDeployment, DeleteDeployment, EditContract, Wake,
       SomeonePushes, SomeoneDeletes, Restart
<1> QED BY <1>1, <1>2, <1>3, <1>4, <1>5 DEF Next, PassStep, Outside

\* All that a step can do to the repositories: it changes none or one of them.
LEMMA RemoteChanges ==
    TypeOK /\ Next =>
        \/ remote' \in {remote, Made, Pushed}
        \/ pc = "key" /\ remote' = WithKey
        \/ \E o \in Owners :
              \/ remote' = [remote EXCEPT ![o] = NoRemote]
              \/ remote[o].exists /\ remote' = [remote EXCEPT ![o].key = FALSE]
              \/ /\ remote[o].exists
                 /\ remote' = [remote EXCEPT ![o].commits =
                                   @ \cup {<<"theirs", spent'.pushes>>}]
        \/ remote' = [o \in Owners |-> [remote[o] EXCEPT !.key = FALSE]]
<1> SUFFICES ASSUME TypeOK, Next
             PROVE  \/ remote' \in {remote, Made, Pushed}
                    \/ pc = "key" /\ remote' = WithKey
                    \/ \E o \in Owners :
                          \/ remote' = [remote EXCEPT ![o] = NoRemote]
                          \/ /\ remote[o].exists
                             /\ remote' = [remote EXCEPT ![o].key = FALSE]
                          \/ /\ remote[o].exists
                             /\ remote' = [remote EXCEPT ![o].commits =
                                               @ \cup {<<"theirs", spent'.pushes>>}]
                    \/ remote' = [o \in Owners |-> [remote[o] EXCEPT !.key = FALSE]]
    OBVIOUS
<1>1. CASE DeleteRemote
    BY <1>1 DEF DeleteRemote, Fails, Gone, TypeOK, Contracts
<1>2. CASE Outside
    BY <1>2 DEF Outside, CreateDeployment, DeleteDeployment, EditContract, Wake,
       SomeonePushes, SomeoneDeletes, Restart
<1>3. CASE RemoveClone
    BY <1>3 DEF RemoveClone
<1>4. CASE EnsureDeployKey \/ PushMain \/ EnsureRemote
    BY <1>4 DEF EnsureDeployKey, PushMain, EnsureRemote, Fails
<1>5. CASE CloneRemote \/ AddOrigin \/ SyncClone \/ CommitLayout
    BY <1>5 DEF CloneRemote, AddOrigin, SyncClone, CommitLayout, Fails
<1> QED BY <1>1, <1>2, <1>3, <1>4, <1>5 DEF Next, PassStep, Outside

\* A repository that does not exist has nothing in it.
RemotesOK(r) ==
    /\ r \in [Owners -> RemoteType]
    /\ \A o \in Owners : ~r[o].exists => r[o] = NoRemote

\* One repository may be put in the place of another.
LEMMA OneRemote ==
    ASSUME NEW r, RemotesOK(r), NEW o \in Owners, NEW to \in RemoteType,
           ~to.exists => to = NoRemote
    PROVE  RemotesOK([r EXCEPT ![o] = to])
BY DEF RemotesOK

\* A repository that does not exist has no key to lose.
LEMMA NoKey == [NoRemote EXCEPT !.key = FALSE] = NoRemote
<1>1. ASSUME NEW r \in RemoteType, r.key = FALSE
      PROVE  [r EXCEPT !.key = FALSE] = r
    BY <1>1 DEF RemoteType
<1>2. NoRemote \in RemoteType /\ NoRemote.key = FALSE
    BY DEF NoRemote, RemoteType
<1> QED BY <1>1, <1>2

LEMMA RemoteTyped == TypeOK /\ Next => RemotesOK(remote)'
<1> SUFFICES ASSUME TypeOK, Next PROVE RemotesOK(remote')
    BY DEF RemotesOK
<1>1. RemotesOK(remote)
    BY DEF TypeOK, RemotesOK
<1>2. \A o \in Owners : remote[o] \in RemoteType /\ (~remote[o].exists =>
                                                      remote[o] = NoRemote)
    BY <1>1 DEF RemotesOK
<1>3. CASE remote' = remote
    BY <1>1, <1>3
<1>4. CASE remote' = Made
  <2>1. /\ [remote[Account] EXCEPT !.exists = TRUE] \in RemoteType
        /\ [remote[Account] EXCEPT !.exists = TRUE].exists
      BY <1>2, OwnersAssumption DEF RemoteType
  <2>2. Made = [remote EXCEPT ![Account] = [remote[Account] EXCEPT !.exists = TRUE]]
      BY DEF Made
  <2> QED BY <1>1, <1>4, <2>1, <2>2, OneRemote, OwnersAssumption
<1>5. CASE pc = "key" /\ remote' = WithKey
  <2> DEFINE to == [remote[owner] EXCEPT !.key = remote[owner].exists]
  <2>1. owner \in Owners
      BY <1>5 DEF TypeOK
  <2>2. to \in RemoteType /\ to.exists = remote[owner].exists
      BY <1>2, <2>1 DEF RemoteType
  <2>3. ASSUME ~remote[owner].exists PROVE to = NoRemote
    <3>1. remote[owner] = NoRemote
        BY <1>2, <2>1, <2>3
    <3>2. to = [NoRemote EXCEPT !.key = NoRemote.exists]
        BY <3>1
    <3> QED BY <3>2, NoKey DEF NoRemote
  <2>4. remote' = [remote EXCEPT ![owner] = to]
      BY <1>5 DEF WithKey
  <2> HIDE DEF to
  <2> QED BY <1>1, <2>1, <2>2, <2>3, <2>4, OneRemote
<1>6. CASE remote' = Pushed
  <2>1. CASE ~Accepted
      BY <1>1, <1>6, <2>1 DEF Pushed
  <2>2. CASE Accepted
    <3> DEFINE o == clone.origin
               to == [remote[o] EXCEPT !.commits = clone.commits]
    <3>1. o \in Owners /\ remote[o].exists
        BY <2>2 DEF Accepted, Reachable
    <3>2. to \in RemoteType /\ to.exists
        BY <1>2, <3>1 DEF RemoteType, TypeOK, CloneType
    <3>3. remote' = [remote EXCEPT ![o] = to]
        BY <1>6, <2>2 DEF Pushed
    <3> HIDE DEF to, o
    <3> QED BY <1>1, <3>1, <3>2, <3>3, OneRemote
  <2> QED BY <2>1, <2>2
<1>7. ASSUME NEW o \in Owners, remote' = [remote EXCEPT ![o] = NoRemote]
      PROVE  RemotesOK(remote')
    BY <1>1, <1>7, OneRemote DEF NoRemote, RemoteType
<1>8. ASSUME NEW o \in Owners, remote[o].exists,
             remote' = [remote EXCEPT ![o].key = FALSE]
      PROVE  RemotesOK(remote')
  <2> DEFINE to == [remote[o] EXCEPT !.key = FALSE]
  <2>1. to \in RemoteType /\ to.exists
      BY <1>2, <1>8 DEF RemoteType
  <2>2. remote' = [remote EXCEPT ![o] = to]
      BY <1>8
  <2> HIDE DEF to
  <2> QED BY <1>1, <2>1, <2>2, OneRemote
<1>9. ASSUME NEW o \in Owners, remote[o].exists,
             remote' = [remote EXCEPT ![o].commits =
                           @ \cup {<<"theirs", spent'.pushes>>}]
      PROVE  RemotesOK(remote')
  <2> DEFINE to == [remote[o] EXCEPT !.commits = @ \cup {<<"theirs", spent'.pushes>>}]
  <2>1. <<"theirs", spent'.pushes>> \in Commits
      BY SpentTyped DEF SpentType, Commits
  <2>2. to \in RemoteType /\ to.exists
      BY <1>2, <1>9, <2>1 DEF RemoteType
  <2>3. remote' = [remote EXCEPT ![o] = to]
      BY <1>9
  <2> HIDE DEF to
  <2> QED BY <1>1, <2>2, <2>3, OneRemote
<1>10. CASE remote' = [o \in Owners |-> [remote[o] EXCEPT !.key = FALSE]]
  <2>1. ASSUME NEW o \in Owners
        PROVE  /\ remote'[o] \in RemoteType
               /\ ~remote'[o].exists => remote'[o] = NoRemote
    <3>1. remote'[o] = [remote[o] EXCEPT !.key = FALSE]
        BY <1>10
    <3>2. remote'[o] \in RemoteType /\ remote'[o].exists = remote[o].exists
        BY <1>2, <3>1 DEF RemoteType
    <3>3. remote[o] = NoRemote => remote'[o] = NoRemote
        BY <3>1, NoKey
    <3> QED BY <1>2, <3>2, <3>3
  <2> QED BY <1>10, <2>1 DEF RemotesOK
<1> QED BY <1>3, <1>4, <1>5, <1>6, <1>7, <1>8, <1>9, <1>10, RemoteChanges

\* The types hold of every state: repositories and clones that do not exist are
\* empty, whatever is deleted by hand, lost in a restart or half made.
THEOREM ManifestsTypeCorrect == Spec => []TypeOK
<1>1. Init => TypeOK
  <2> SUFFICES ASSUME Init PROVE TypeOK
      OBVIOUS
  <2>1. <<"theirs", 0>> \in Commits
      BY DEF Commits
  <2>2. RemotesOK(remote)
      BY <2>1 DEF Init, RemotesOK, RemoteType, NoRemote
  <2>3. clone \in CloneType /\ (~clone.git => clone = NoClone)
      BY DEF Init, CloneType, NoClone, Contracts
  <2> QED BY <2>2, <2>3 DEF Init, TypeOK, SpentType, RemotesOK, Contracts
<1>2. TypeOK /\ [Next]_vars => TypeOK'
  <2> SUFFICES ASSUME TypeOK, [Next]_vars PROVE TypeOK'
      OBVIOUS
  <2>1. CASE Next
      BY <2>1, ControlTyped, SpentTyped, CloneTyped, PassHasClone, RemoteTyped
         DEF TypeOK, RemotesOK
  <2>2. CASE UNCHANGED vars
      BY <2>2 DEF vars, TypeOK
  <2> QED BY <2>1, <2>2
<1> QED BY <1>1, <1>2, PTL DEF Spec

-----------------------------------------------------------------------------
(* The steps of a pass rest on each other *)

\* Only the commit step leads to the push, and it leaves the layout in the clone.
LEMMA CommitBringsLayout ==
    ASSUME TypeOK, CommitLayout, pc' = "push" PROVE HasLayout(clone'.commits)
<1>1. CASE HasLayout(clone.commits) /\ clone' = clone
    BY <1>1
<1>2. CASE clone' = [clone EXCEPT !.commits =
                        @ \cup {<<"ours", spent'.commits>>}]
  <2>1. <<"ours", spent'.commits>> \in clone'.commits
      BY <1>2 DEF TypeOK, CloneType
  <2> QED BY <2>1 DEF HasLayout
<1> QED BY <1>1, <1>2 DEF CommitLayout, Complete, Fails, PassError

\* A step of a pass keeps the invariant: the clone goes only after the
\* repository, which nobody makes again, and the Deployment only then.
LEMMA PassKeepsTeardown == TypeOK /\ TeardownInv /\ PassStep => TeardownInv'
<1> SUFFICES ASSUME TypeOK, TeardownInv, PassStep PROVE TeardownInv'
    OBVIOUS
<1> USE DEF TeardownInv, TeardownIsTotal, PassDone, PassError, PassNext
<1>1. CASE EnsureRemote
    BY <1>1 DEF EnsureRemote, Fails
<1>2. CASE EnsureDeployKey
    BY <1>2 DEF EnsureDeployKey, Fails
<1>3. CASE CloneRemote
    BY <1>3 DEF CloneRemote, Fails
<1>4. CASE AddOrigin
    BY <1>4 DEF AddOrigin, Fails
<1>5. CASE SyncClone
    BY <1>5 DEF SyncClone, Fails
<1>6. CASE CommitLayout
  <2>1. goal' = goal /\ goal # "absent" /\ pc' \in {"push", "idle"}
      BY <1>6 DEF CommitLayout, Fails
  <2> QED BY <2>1, <1>6, CommitBringsLayout
<1>7. CASE PushMain
    BY <1>7 DEF PushMain, Fails
<1>8. CASE DeleteRemote
  <2>1. CASE pc' = "remove"
    <3>1. /\ goal' = "deleted" /\ owner' = contract
          /\ contract # NoOwner => remote' = Gone(contract)
        BY <1>8, <2>1 DEF DeleteRemote, Fails
    <3>2. contract # NoOwner => remote'[contract] = NoRemote
        BY <3>1 DEF Gone, TypeOK, Contracts
    <3> QED BY <2>1, <3>1, <3>2
  <2>2. CASE pc' # "remove"
      BY <1>8, <2>2 DEF DeleteRemote, Fails
  <2> QED BY <2>1, <2>2
<1>9. CASE RemoveClone
  <2>1. CASE goal' = "absent"
    <3>1. /\ pc' = "idle" /\ owner' = owner /\ clone' = Removed
          /\ remote' = [o \in Owners |-> [remote[o] EXCEPT !.key = FALSE]]
        BY <1>9, <2>1 DEF RemoveClone
    <3>2. ASSUME owner # NoOwner PROVE remote'[owner] = NoRemote
      <4>1. owner \in Owners /\ remote[owner] = NoRemote
          BY <1>9, <3>2 DEF RemoveClone, TypeOK, Contracts
      <4> QED BY <3>1, <4>1, NoKey
    <3> QED BY <2>1, <3>1, <3>2 DEF Removed
  <2>2. CASE goal' # "absent"
      BY <1>9, <2>2 DEF RemoveClone
  <2> QED BY <2>1, <2>2
<1> QED BY <1>1, <1>2, <1>3, <1>4, <1>5, <1>6, <1>7, <1>8, <1>9 DEF PassStep

\* A repository that is gone is neither pushed to nor deleted.
LEMMA GoneStays ==
    ASSUME TypeOK, SomeonePushes \/ SomeoneDeletes, NEW o \in Owners,
           remote[o] = NoRemote
    PROVE  remote'[o] = NoRemote
<1>1. remote \in [Owners -> RemoteType] /\ ~remote[o].exists
    BY DEF TypeOK, NoRemote
<1>2. CASE SomeonePushes
  <2>1. PICK p \in Owners : remote[p].exists /\
             remote' = [remote EXCEPT ![p].commits =
                           @ \cup {<<"theirs", spent'.pushes>>}]
      BY <1>2 DEF SomeonePushes
  <2> QED BY <1>1, <2>1
<1>3. CASE SomeoneDeletes
  <2>1. PICK p \in Owners : remote[p].exists /\
             remote' \in {[remote EXCEPT ![p] = NoRemote],
                          [remote EXCEPT ![p].key = FALSE]}
      BY <1>3 DEF SomeoneDeletes
  <2> QED BY <1>1, <2>1
<1> QED BY <1>2, <1>3

\* Nor does anything outside, and a restart ends the pass.
LEMMA OutsideKeepsTeardown ==
    ASSUME TypeOK, TeardownInv, Outside PROVE TeardownInv'
<1> USE DEF TeardownInv, TeardownIsTotal, Upset
<1>1. CASE CreateDeployment
    BY <1>1 DEF CreateDeployment
<1>2. CASE DeleteDeployment
    BY <1>2 DEF DeleteDeployment
<1>3. CASE EditContract \/ Wake
    BY <1>3 DEF EditContract, Wake
<1>4. CASE SomeonePushes \/ SomeoneDeletes
  <2>1. UNCHANGED <<goal, pc, owner, clone>>
      BY <1>4 DEF SomeonePushes, SomeoneDeletes
  <2>2. owner # NoOwner /\ remote[owner] = NoRemote => remote'[owner] = NoRemote
      BY <1>4, GoneStays DEF TypeOK, Contracts
  <2> QED BY <2>1, <2>2
<1>5. CASE Restart
    BY <1>5 DEF Restart
<1> QED BY <1>1, <1>2, <1>3, <1>4, <1>5 DEF Outside

\* The inductive invariant holds of every state.
LEMMA TeardownInductive == Spec => []TeardownInv
<1>1. Init => TeardownInv
    BY DEF Init, TeardownInv, TeardownIsTotal
<1>2. TypeOK /\ TeardownInv /\ [Next]_vars => TeardownInv'
  <2> SUFFICES ASSUME TypeOK, TeardownInv, [Next]_vars PROVE TeardownInv'
      OBVIOUS
  <2>1. CASE PassStep
      BY <2>1, PassKeepsTeardown
  <2>2. CASE UNCHANGED vars
      BY <2>2 DEF vars, TeardownInv, TeardownIsTotal
  <2> QED BY <2>1, <2>2, OutsideKeepsTeardown DEF Next, Outside
<1> QED BY <1>1, <1>2, ManifestsTypeCorrect, PTL DEF Spec

-----------------------------------------------------------------------------
(* The theorems *)

\* When a Deployment is gone, so are its clone and the repository of the contract
\* it was deleted with, for any number of owners, edits, failures, restarts,
\* deletions by hand and lives.
THEOREM TeardownAlwaysTotal == Spec => []TeardownIsTotal
<1>1. TeardownInv => TeardownIsTotal
    BY DEF TeardownInv
<1> QED BY <1>1, TeardownInductive, PTL

\* Every pass that succeeds leaves the layout on main of the repository its clone
\* came from, with all that was there.
THEOREM PassesLeaveLayout == Spec => PassLeavesLayout
<1> DEFINE Left == pc = "push" /\ pc' = "idle" /\ ~queued' =>
                      /\ Origin'.key /\ HasLayout(Origin'.commits)
                      /\ Origin.commits \subseteq Origin'.commits
<1>1. TypeOK /\ TeardownInv /\ [Next]_vars => [Left]_vars
  <2> SUFFICES ASSUME TypeOK, TeardownInv, Next,
                      pc = "push", pc' = "idle", ~queued'
               PROVE  /\ Origin'.key /\ HasLayout(Origin'.commits)
                      /\ Origin.commits \subseteq Origin'.commits
      BY DEF Left
  <2>1. goal # "absent"
      BY DEF TeardownInv
  <2>2. PushMain
      BY <2>1 DEF Next, CreateDeployment, DeleteDeployment, EditContract, Wake,
            SomeonePushes, SomeoneDeletes, Restart, PassStep, EnsureRemote,
            EnsureDeployKey, CloneRemote, AddOrigin, SyncClone, CommitLayout,
            DeleteRemote, RemoveClone
  <2>3. Accepted /\ remote' = Pushed /\ clone' = clone
      BY <2>2 DEF PushMain, Fails, PassError
  <2>4. remote' = [remote EXCEPT ![clone.origin].commits = clone.commits]
      BY <2>3 DEF Pushed
  <2>5. clone.origin \in Owners /\ remote[clone.origin].key
      BY <2>3 DEF Accepted, Reachable
  <2>6. remote[clone.origin] \in RemoteType /\ remote \in [Owners -> RemoteType]
      BY <2>5 DEF TypeOK
  <2>7. Origin = remote[clone.origin] /\ Origin' = remote'[clone.origin]
      BY <2>3, <2>5 DEF Origin
  <2>8. Origin'.key /\ Origin'.commits = clone.commits
      BY <2>4, <2>5, <2>6, <2>7 DEF RemoteType
  <2> QED BY <2>3, <2>8 DEF Accepted, TeardownInv
<1> QED BY <1>1, ManifestsTypeCorrect, TeardownInductive, PTL
        DEF Spec, PassLeavesLayout
==============================================================================
