----------------------------- MODULE TeamAccess -----------------------------
(* The GitHubRepositoryTeamAccess reconciler: a team's access to a repository. *)
EXTENDS Setting

Init ==
    SettingInit({[Untouched EXCEPT !.value = v] : v \in Values \cup {Nothing}}, {})

Reconcile == Fetch("resolve") /\ Elsewhere

AddAccessFinalizer == AddFinalizer /\ Elsewhere

\* resolveRepositoryAccess: the repository resource, its provider and credentials.
\* A deletion does not ask GitHub for the repository.
ResolveRepositoryAccess ==
    Resolve("verify", "remove", found, Failed) /\ Elsewhere

VerifyRemoteRepository == VerifyRepository(Failed)

GetTeamRepositoryPermission == Read(remote.value = obj.spec, Failed, FALSE)

\* An archived repository refuses, and there may be no such team.
SetTeamRepositoryPermission ==
    Write("set",
          IF remote.host = "open" THEN {[remote EXCEPT !.value = obj.spec]} ELSE {},
          Failed, FALSE)

RemoveTeamRepository == Remove

WorkerStep ==
    \/ AddAccessFinalizer \/ ResolveRepositoryAccess \/ VerifyRemoteRepository
    \/ GetTeamRepositoryPermission \/ SetTeamRepositoryPermission
    \/ SetReadyCondition
    \/ RemoveTeamRepository \/ ReleaseResource

Others ==
    \/ RestartManager \/ Edit
    \/ Administrate(Revalued \cup Rehosted({"open", "locked", "teamless", "gone"}))
=============================================================================
