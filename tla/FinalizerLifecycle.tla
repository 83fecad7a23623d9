-------------------------- MODULE FinalizerLifecycle --------------------------
(***************************************************************************)
(* What a reconciler with a finalizer promises of one object and of the    *)
(* resources it provisions for it: resources exist only while the object   *)
(* carries the finalizer, and an object that carries it goes only when the *)
(* last of them is gone.  The text is that of the finalizer contract in    *)
(* the comments of the domains: "Handle() must return nil ONLY if it is    *)
(* safe for the controller to remove the finalizer".                       *)
(***************************************************************************)
CONSTANT Resources

VARIABLES
    object,     \* "absent", "plain", "held" by the finalizer, or "deleting"
    resources   \* the resources that exist

vars == <<object, resources>>

Init == object = "absent" /\ resources = {}

Create == object = "absent" /\ object' = "plain" /\ UNCHANGED resources
Hold   == object = "plain"  /\ object' = "held"  /\ UNCHANGED resources

Delete ==
    /\ \/ object = "plain" /\ object' = "absent"
       \/ object = "held"  /\ object' = "deleting"
    /\ UNCHANGED resources

\* Resources come and go while the finalizer is there, also during deletion.
Change ==
    /\ object \in {"held", "deleting"}
    /\ resources' \in SUBSET Resources
    /\ UNCHANGED object

Release ==
    /\ object = "deleting" /\ resources = {}
    /\ object' = "absent"
    /\ UNCHANGED resources

Next == Create \/ Hold \/ Delete \/ Change \/ Release

Spec == Init /\ [][Next]_vars
=============================================================================
