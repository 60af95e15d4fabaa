------------------------------ MODULE Settings ------------------------------
(***************************************************************************)
(* The five small reconcilers, each with a resource of its kind.  Every    *)
(* kind has its own controller, and they share no state but the GitHub     *)
(* they write to: one behaviour follows one of them.                       *)
(***************************************************************************)
EXTENDS Setting

CONSTANTS
    Roles, TeamRoles, Permissions, Descriptions,   \* what the settings may be
    Fresh,      \* the description of a team whose manifest has none
    There       \* an environment has no value of its own

\* Values and Specs of Setting hold those of every kind.
ASSUME KindsAssumption ==
    /\ Roles \cup TeamRoles \cup Permissions \cup Descriptions \cup {There} \subseteq Values
    /\ Values \cup {Unmanaged} \subseteq Specs
    /\ "maintainer" \in TeamRoles /\ Fresh \in Descriptions

VARIABLE kind   \* which controller

vars == <<settingVars, kind>>

Member == INSTANCE OrganizationMember WITH Specs <- Roles, Values <- Roles
Membership == INSTANCE TeamMembership WITH Specs <- TeamRoles, Values <- TeamRoles
Access == INSTANCE TeamAccess WITH Specs <- Permissions, Values <- Permissions
Deployment == INSTANCE Environment WITH Specs <- {There}, Values <- {There}
Group == INSTANCE Team WITH Specs <- (Descriptions \ {Fresh}) \cup {Unmanaged},
                            Values <- Descriptions

Init ==
    \/ kind = "member" /\ Member!Init
    \/ kind = "membership" /\ Membership!Init
    \/ kind = "access" /\ Access!Init
    \/ kind = "environment" /\ Deployment!Init
    \/ kind = "team" /\ Group!Init

Reconcile ==
    \/ kind = "member" /\ Member!Reconcile
    \/ kind = "membership" /\ Membership!Reconcile
    \/ kind = "access" /\ Access!Reconcile
    \/ kind = "environment" /\ Deployment!Reconcile
    \/ kind = "team" /\ Group!Reconcile

WorkerStep ==
    \/ kind = "member" /\ Member!WorkerStep
    \/ kind = "membership" /\ Membership!WorkerStep
    \/ kind = "access" /\ Access!WorkerStep
    \/ kind = "environment" /\ Deployment!WorkerStep
    \/ kind = "team" /\ Group!WorkerStep

Others ==
    \/ kind = "member" /\ Member!Others
    \/ kind = "membership" /\ Membership!Others
    \/ kind = "access" /\ Access!Others
    \/ kind = "environment" /\ Deployment!Others
    \/ kind = "team" /\ Group!Others

With(step) == step /\ UNCHANGED kind /\ Remember

Next == With(Reconcile) \/ With(WorkerStep) \/ With(SyncAll) \/ With(Others)

\* The manager keeps going; users and GitHub do as they please.
Fairness ==
    /\ WF_vars(With(Reconcile)) /\ WF_vars(With(WorkerStep))
    /\ WF_vars(With(SyncCache /\ Elsewhere))
    /\ WF_vars(With(SyncDependency /\ Elsewhere))
    /\ WF_vars(With(SyncUsers))

Spec == Init /\ [][Next]_vars
FairSpec == Spec /\ Fairness
=============================================================================
