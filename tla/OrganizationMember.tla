------------------------- MODULE OrganizationMember -------------------------
(* The GitHubOrganizationMember reconciler: a user's role in the organization. *)
EXTENDS Setting

Init ==
    SettingInit({[Untouched EXCEPT !.value = v] : v \in Values \cup {Nothing}}, {})

Reconcile == Fetch("resolve") /\ Elsewhere

AddMemberFinalizer == AddFinalizer /\ Elsewhere

\* resolveOrganization: the provider and its credentials.
ResolveOrganization ==
    Resolve("get", "remove", found, Failed) /\ Elsewhere

GetOrganizationMembership == Read(remote.value = obj.spec, Failed, FALSE)

\* PUT: somebody from outside the organization is invited.
SetOrganizationMembership ==
    Write("set", {[remote EXCEPT !.value = obj.spec,
                                 !.pending = @ \/ remote.value = Nothing]},
          Failed, FALSE)

RemoveOrganizationMembership == Remove

WorkerStep ==
    \/ AddMemberFinalizer \/ ResolveOrganization
    \/ GetOrganizationMembership \/ SetOrganizationMembership
    \/ SetReadyCondition
    \/ RemoveOrganizationMembership \/ ReleaseResource

Others == RestartManager \/ Edit \/ Accept \/ Administrate(Revalued)
=============================================================================
