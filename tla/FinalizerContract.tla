-------------------------- MODULE FinalizerContract --------------------------
(***************************************************************************)
(* What a finalizer of this operator promises, whatever kind of resource   *)
(* it guards: while the resource is guarded (`held') the controller may    *)
(* leave a footprint on GitHub; the guard is dropped only on a resource    *)
(* that is being deleted, and under a policy that does not keep the        *)
(* footprint only when there is none left.  No caches, no calls, no        *)
(* failures: those belong to the controllers that implement this.          *)
(***************************************************************************)
CONSTANTS
    Policies,   \* deletion policies
    Keeping     \* the policies among them that leave the footprint on GitHub

VARIABLES
    phase,      \* of the resource: absent, live or deleting
    policy,     \* its deletion policy, Orphan-like when absent
    held,       \* it carries the operator's finalizer
    footprint   \* GitHub has something the operator made for it

contractVars == <<phase, policy, held, footprint>>

ContractInit ==
    /\ phase \in {"absent", "live"}
    /\ policy \in Policies
    /\ held = FALSE
    /\ footprint = FALSE

\* Users own the resource: they write it, edit it and ask for its deletion, but
\* a resource that is held does not go away and cannot be revived.
UserMoves ==
    /\ UNCHANGED <<held, footprint>>
    /\ policy' \in Policies
    /\ \/ phase' = phase
       \/ phase = "absent" /\ phase' = "live"
       \/ phase = "live" /\ phase' = "deleting"
       \/ phase # "absent" /\ ~held /\ phase' = "absent"

Hold ==
    /\ phase = "live"
    /\ held' = TRUE
    /\ UNCHANGED <<phase, policy, footprint>>

Make ==
    /\ held
    /\ footprint' = TRUE
    /\ UNCHANGED <<phase, policy, held>>

\* By the controller's cleanup, or by anybody on GitHub.
Clear ==
    /\ footprint' = FALSE
    /\ UNCHANGED <<phase, policy, held>>

Release ==
    /\ held /\ phase = "deleting"
    /\ policy \in Keeping \/ ~footprint
    /\ held' = FALSE
    /\ phase' \in {"deleting", "absent"}
    /\ policy' \in Policies
    /\ UNCHANGED footprint

ContractNext == UserMoves \/ Hold \/ Make \/ Clear \/ Release

ContractSpec == ContractInit /\ [][ContractNext]_contractVars
=============================================================================
