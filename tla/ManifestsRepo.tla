---------------------------- MODULE ManifestsRepo ----------------------------
(***************************************************************************)
(* The manifests repository of a Deployment: what the Deployment mediator  *)
(* does, within one of its stages, to a repository on GitHub and to a      *)
(* working clone of it in the manager's temporary directory.  Every call   *)
(* may fail or be the last one before a restart, and the next pass finds   *)
(* what this one left; other people push to the repository.                *)
(*                                                                         *)
(* The repository is called after the Deployment and belongs to the owner  *)
(* the contract names; the contract may as well declare none, and be       *)
(* edited at any time.  There is one working clone, whoever is the owner.  *)
(*                                                                         *)
(* A history is a set of commits.  One is a fast-forward of another if it  *)
(* includes it, and main is unborn if the set is empty.  Other people's    *)
(* commits touch none of the files of the layout (base and overlays).      *)
(***************************************************************************)
EXTENDS Naturals

CONSTANTS
    Owners,         \* whose repositories there may be on GitHub
    Account,        \* the one of them the manager's token belongs to
    NoOwner,        \* stands for a contract that declares no repository
    MaxLives,       \* bound: how often the user creates the Deployment
    MaxEdits,       \* bound: edits of the contract's repository
    MaxPushes,      \* bound: commits of other people
    MaxUpsets       \* bound: failed calls, restarts, deletions of a
                    \* repository or its key by hand, and other wake-ups

ASSUME OwnersAssumption == Account \in Owners /\ NoOwner \notin Owners
ASSUME BoundsAssumption ==
    MaxLives \in Nat /\ MaxEdits \in Nat /\ MaxPushes \in Nat /\ MaxUpsets \in Nat

VARIABLES
    goal,       \* what the user asks for
    contract,   \* the owner of the repository the contract declares, or none
    queued,     \* is the Deployment queued for its reconciler?
    pc,         \* the next step of the pass under way
    owner,      \* the contract as the last pass has read it
    remote,     \* the repositories on GitHub
    clone,      \* the working clone
    spent       \* how much of each bound is used up, and our commits

vars == <<goal, contract, queued, pc, owner, remote, clone, spent>>

-----------------------------------------------------------------------------
(* Repositories *)

Commits    == {"ours", "theirs"} \X Nat
Contracts  == Owners \cup {NoOwner}
RemoteType == [exists: BOOLEAN, key: BOOLEAN, commits: SUBSET Commits]
CloneType  == [git: BOOLEAN, origin: Contracts, commits: SUBSET Commits]
NoRemote   == [exists |-> FALSE, key |-> FALSE, commits |-> {}]
NoClone    == [git |-> FALSE, origin |-> NoOwner, commits |-> {}]

SpentType == [lives: Nat, edits: Nat, pushes: Nat, upsets: Nat, commits: Nat]

\* The types; a repository or clone that does not exist has nothing in it, and a
\* pass that works in the clone has one, with an origin to push to.
TypeOK ==
    /\ goal \in {"absent", "wanted", "deleted"}
    /\ contract \in Contracts /\ owner \in Contracts
    /\ queued \in BOOLEAN
    /\ pc \in {"idle", "key", "local", "origin", "commit", "push", "remove"}
    /\ remote \in [Owners -> RemoteType] /\ clone \in CloneType
    /\ \A o \in Owners : ~remote[o].exists => remote[o] = NoRemote
    /\ ~clone.git => clone = NoClone
    /\ pc \in {"key", "local", "origin"} => owner \in Owners
    /\ pc \in {"origin", "commit", "push"} => clone.git
    /\ pc \in {"commit", "push"} => clone.origin \in Owners
    /\ spent \in SpentType

\* A commit of ours brings the whole layout.
HasLayout(commits) == \E c \in commits : c[1] = "ours"

\* Somebody may have made a repository before.
Init ==
    /\ goal = "absent" /\ contract = NoOwner
    /\ queued = FALSE /\ pc = "idle" /\ owner = NoOwner
    /\ \E made \in SUBSET Owners :
          remote = [o \in Owners |->
                       IF o \in made THEN [exists |-> TRUE, key |-> FALSE,
                                           commits |-> {<<"theirs", 0>>}]
                                     ELSE NoRemote]
    /\ clone = NoClone
    /\ spent = [lives |-> 0, edits |-> 0, pushes |-> 0, upsets |-> 0, commits |-> 0]

Upset ==
    /\ spent.upsets < MaxUpsets
    /\ spent' = [spent EXCEPT !.upsets = @ + 1]

-----------------------------------------------------------------------------
(* The user, other people, and restarts *)

CreateDeployment ==
    /\ goal = "absent" /\ spent.lives < MaxLives
    /\ spent' = [spent EXCEPT !.lives = @ + 1]
    /\ goal' = "wanted" /\ queued' = TRUE
    /\ contract' \in Contracts
    /\ UNCHANGED <<pc, owner, remote, clone>>

DeleteDeployment ==
    /\ goal = "wanted"
    /\ goal' = "deleted" /\ queued' = TRUE
    /\ UNCHANGED <<contract, pc, owner, remote, clone, spent>>

\* The repository is declared, no longer declared, or of another owner.
EditContract ==
    /\ goal # "absent"
    /\ spent.edits < MaxEdits
    /\ spent' = [spent EXCEPT !.edits = @ + 1]
    /\ contract' \in Contracts \ {contract}
    /\ queued' = TRUE
    /\ UNCHANGED <<goal, pc, owner, remote, clone>>

\* Another edit, or a new image, runs the Deployment again.
Wake ==
    /\ goal = "wanted" /\ ~queued
    /\ Upset
    /\ queued' = TRUE
    /\ UNCHANGED <<goal, contract, pc, owner, remote, clone>>

SomeonePushes ==
    /\ spent.pushes < MaxPushes
    /\ spent' = [spent EXCEPT !.pushes = @ + 1]
    /\ \E o \in Owners :
          /\ remote[o].exists
          /\ remote' = [remote EXCEPT ![o].commits =
                            @ \cup {<<"theirs", spent'.pushes>>}]
    /\ UNCHANGED <<goal, contract, queued, pc, owner, clone>>

SomeoneDeletes ==
    /\ Upset
    /\ \E o \in Owners :
          /\ remote[o].exists
          /\ remote' \in {[remote EXCEPT ![o] = NoRemote],
                          [remote EXCEPT ![o].key = FALSE]}
    /\ UNCHANGED <<goal, contract, queued, pc, owner, clone>>

\* A restart may keep the temporary directory or lose it.
Restart ==
    /\ Upset
    /\ pc' = "idle"
    /\ queued' = (goal # "absent")
    /\ clone' \in {clone, NoClone}
    /\ UNCHANGED <<goal, contract, owner, remote>>

-----------------------------------------------------------------------------
(* A pass: its steps, and how it ends *)

PassDone     == pc' = "idle" /\ UNCHANGED queued
PassError    == pc' = "idle" /\ queued' = TRUE
PassNext(at) == pc' = at /\ UNCHANGED queued

\* A call that failed, or whose answer was lost after it had its effect.
Fails(after) ==
    /\ Upset
    /\ PassError
    /\ remote' \in {remote, after}
    /\ UNCHANGED <<goal, clone>>

\* Git reaches the repository with the deploy key.
Reachable(o) == o \in Owners /\ remote[o].exists /\ remote[o].key

\* The repository is created, or is there already: the request names no owner, so
\* that it is about the account of the token, whatever the contract says.
Made == [remote EXCEPT ![Account].exists = TRUE]

\* A contract without a repository has nothing to be done.
EnsureRemote ==
    /\ goal = "wanted" /\ queued /\ pc = "idle"
    /\ owner' = contract
    /\ \/ /\ contract = NoOwner
          /\ queued' = FALSE
          /\ UNCHANGED <<goal, pc, remote, clone, spent>>
       \/ /\ contract # NoOwner
          /\ remote' = Made
          /\ pc' = "key" /\ queued' = FALSE
          /\ UNCHANGED <<goal, clone, spent>>
       \/ contract # NoOwner /\ Fails(Made)
    /\ UNCHANGED contract

WithKey == [remote EXCEPT ![owner].key = remote[owner].exists]

\* GitHub takes a deploy key for one repository, and may refuse it for another.
Taken(o) == ~remote[o].key /\ \E other \in Owners \ {o} : remote[other].key

EnsureDeployKey ==
    /\ pc = "key"
    /\ \/ /\ remote[owner].exists
          /\ remote' = WithKey
          /\ PassNext("local")
          /\ UNCHANGED <<goal, clone, spent>>
       \/ /\ ~remote[owner].exists \/ Taken(owner)
          /\ PassError
          /\ UNCHANGED <<goal, remote, clone, spent>>
       \/ Fails(WithKey)
    /\ UNCHANGED <<contract, owner>>

\* A clone that fails, for whatever reason, is taken for an empty repository,
\* and one is initialised.
Initialised_NoInit == NoClone
Initialised == [NoClone EXCEPT !.git = TRUE]

CloneRemote ==
    /\ pc = "local" /\ ~clone.git
    /\ \/ /\ Reachable(owner)
          /\ clone' = [git |-> TRUE, origin |-> owner,
                       commits |-> remote[owner].commits]
          /\ PassNext("commit")
          /\ UNCHANGED spent
       \/ /\ Upset \/ (~Reachable(owner) /\ UNCHANGED spent)
          /\ clone' = Initialised
          /\ PassNext("origin")
       \/ Fails(remote)
    /\ UNCHANGED <<goal, contract, owner, remote>>

AddOrigin ==
    /\ pc = "origin"
    /\ \/ /\ clone' = [clone EXCEPT !.origin = owner]
          /\ PassNext("commit")
          /\ UNCHANGED <<goal, remote, spent>>
       \/ Fails(remote)
    /\ UNCHANGED <<contract, owner>>

\* Fetch, check main out, pull, all from the origin the clone has had since it was
\* made: main must be there to be pulled, and either of the two histories a
\* fast-forward of the other.
Origin == IF clone.origin \in Owners THEN remote[clone.origin] ELSE NoRemote

Syncs ==
    /\ Origin.commits # {}
    /\ \/ clone.commits \subseteq Origin.commits
       \/ Origin.commits \subseteq clone.commits

Pulled_None == IF clone.commits = {} THEN Origin.commits ELSE clone.commits
Pulled      == clone.commits \cup Origin.commits

SyncClone ==
    /\ pc = "local" /\ clone.git
    /\ \/ /\ Syncs /\ Reachable(clone.origin)
          /\ clone' = [clone EXCEPT !.commits = Pulled]
          /\ PassNext("commit")
          /\ UNCHANGED <<goal, remote, spent>>
       \/ /\ ~(Syncs /\ Reachable(clone.origin))
          /\ PassError
          /\ UNCHANGED <<goal, remote, clone, spent>>
       \/ Fails(remote)
    /\ UNCHANGED <<contract, owner>>

\* The files that are missing are written, and what is new is committed.
Complete_AnyCommit(commits) == commits # {}
Complete(commits) == HasLayout(commits)

CommitLayout ==
    /\ pc = "commit"
    /\ \/ /\ IF Complete(clone.commits)
             THEN UNCHANGED <<clone, spent>>
             ELSE /\ spent' = [spent EXCEPT !.commits = @ + 1]
                  /\ clone' = [clone EXCEPT !.commits =
                                   @ \cup {<<"ours", spent'.commits>>}]
          /\ PassNext("push")
          /\ UNCHANGED <<goal, remote>>
       \/ Fails(remote)
    /\ UNCHANGED <<contract, owner>>

\* A push that is no fast-forward is refused.
Accepted == Reachable(clone.origin) /\ Origin.commits \subseteq clone.commits
Pushed   == IF Accepted THEN [remote EXCEPT ![clone.origin].commits = clone.commits]
            ELSE remote

PushMain ==
    /\ pc = "push"
    /\ \/ /\ Accepted
          /\ remote' = Pushed
          /\ PassDone
          /\ UNCHANGED <<goal, clone, spent>>
       \/ /\ ~Accepted
          /\ PassError
          /\ UNCHANGED <<goal, remote, clone, spent>>
       \/ Fails(Pushed)
    /\ UNCHANGED <<contract, owner>>

\* A repository that is gone already is no error.
Gone_OfAccount(o) == [remote EXCEPT ![Account] = NoRemote]
Gone(o) == [remote EXCEPT ![o] = NoRemote]

\* Only what the contract declares now is torn down.
DeleteRemote ==
    /\ goal = "deleted" /\ queued /\ pc = "idle"
    /\ owner' = contract
    /\ \/ /\ remote' = IF contract = NoOwner THEN remote ELSE Gone(contract)
          /\ pc' = "remove" /\ queued' = FALSE
          /\ UNCHANGED <<goal, clone, spent>>
       \/ contract # NoOwner /\ Fails(Gone(contract))
    /\ UNCHANGED contract

\* The clone goes with a declared repository.
Removed == IF owner = NoOwner THEN clone ELSE NoClone

\* The Deployment goes, and with it its deploy key; the next one has another.
\* What is cleaned up after the repository may fail as well: the finalizer
\* stays, and the next pass starts over.
RemoveClone ==
    /\ pc = "remove"
    /\ \/ /\ clone' = Removed
          /\ goal' = "absent" /\ pc' = "idle" /\ queued' = FALSE
          /\ remote' = [o \in Owners |-> [remote[o] EXCEPT !.key = FALSE]]
          /\ UNCHANGED spent
       \/ /\ clone' \in {clone, Removed}
          /\ Upset
          /\ PassError
          /\ UNCHANGED <<goal, remote>>
    /\ UNCHANGED <<contract, owner>>

PassStep ==
    \/ EnsureRemote \/ EnsureDeployKey \/ CloneRemote \/ AddOrigin \/ SyncClone
    \/ CommitLayout \/ PushMain \/ DeleteRemote \/ RemoveClone

Next ==
    \/ CreateDeployment \/ DeleteDeployment \/ EditContract \/ Wake
    \/ SomeonePushes \/ SomeoneDeletes \/ Restart
    \/ PassStep

\* The one worker of the Deployment controller.
Fairness == WF_vars(PassStep)

Spec     == Init /\ [][Next]_vars
FairSpec == Spec /\ Fairness

-----------------------------------------------------------------------------
(* Properties *)

\* "teardown is total" (mediators/deployment/manifests_repo.go 201-206): when a
\* Deployment is gone, so are the clone and the repository of the contract it was
\* deleted with, whatever failed, was left half made or was deleted by hand before.
\* Nothing is said of the repositories other than that one: one that an edit has
\* taken out of the contract stays, and so does one made for another owner.
TeardownIsTotal ==
    goal = "absent" /\ owner # NoOwner => remote[owner] = NoRemote /\ clone = NoClone

(* Why it holds, as an inductive invariant: no pass is under way for a Deployment
   that is gone, and what a pass is about to do rests on the step before. *)
TeardownInv ==
    /\ TeardownIsTotal
    /\ pc # "idle" => goal # "absent"
    /\ pc = "remove" => /\ goal = "deleted"
                        /\ owner # NoOwner => remote[owner] = NoRemote
    /\ pc = "push" => HasLayout(clone.commits)

\* A pass that reports success left the layout on main of the repository its clone
\* came from, next to everything other people had pushed: whether it cloned,
\* initialised or synced, and whatever an earlier pass left behind.  That is the
\* repository of the contract, unless the owner was edited and the clone is left.
PassLeavesLayout ==
    [][pc = "push" /\ pc' = "idle" /\ ~queued' =>
          /\ Origin'.key /\ HasLayout(Origin'.commits)
          /\ Origin.commits \subseteq Origin'.commits]_vars

\* A clone that no pass can sync: half made before a first push, with commits of
\* its own while others pushed, of a repository that was deleted by hand and is
\* empty now, or of another owner's that git does not reach.
Wedged ==
    /\ clone.git
    /\ ~(Syncs /\ (clone.origin = contract \/ Reachable(clone.origin)))

\* Between passes, what is in the way of all that follow: such a clone, a
\* repository to be made for an owner other than the account of the token, or a
\* deploy key that another repository holds.
Stuck ==
    /\ goal = "wanted" /\ pc = "idle" /\ contract \in Owners
    /\ \/ Wedged
       \/ contract # Account /\ ~remote[contract].exists
       \/ Taken(contract)

\* Once nothing fails any more, every request for a pass leads to one that
\* succeeds, an update or a deletion, unless the Deployment is stuck.  Nothing else
\* an earlier pass or an edit of the contract leaves behind is in the way.
PassesGetThrough ==
    queued ~> Stuck \/ (~queued /\ pc = "idle")
==============================================================================
