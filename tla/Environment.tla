----------------------------- MODULE Environment -----------------------------
(***************************************************************************)
(* The GitHubEnvironment reconciler: a deployment environment, which is    *)
(* there or not.  Its users are the Actions secrets and variables that     *)
(* refer to it.                                                            *)
(***************************************************************************)
EXTENDS Setting

Init ==
    SettingInit({[Untouched EXCEPT !.value = v] : v \in Values \cup {Nothing}},
                {"secrets", "variables"})

\* Wrong: nobody is asked.
Reconcile_Unasked == Fetch("resolve") /\ Elsewhere

Reconcile ==
    Fetch("findUsers") /\ Elsewhere

AddEnvironmentFinalizer == AddFinalizer /\ Elsewhere

\* findEnvironmentDependency
FindEnvironmentDependency ==
    \/ FindUsers("findUsers", "secrets", "findVariables")
    \/ FindUsers("findVariables", "variables", "resolve")

\* resolveRepositoryActionsTarget; a deletion does not ask GitHub for the
\* repository.
ResolveRepositoryActionsTarget ==
    Resolve("verify", "remove", found, Failed) /\ Elsewhere

VerifyRemoteRepository == VerifyRepository(Failed)

GetEnvironment == Read(remote.value # Nothing, Failed, FALSE)

UpsertEnvironment ==
    Write("set",
          IF remote.host = "open" THEN {[remote EXCEPT !.value = obj.spec]} ELSE {},
          Failed, FALSE)

DeleteEnvironment == Remove

WorkerStep ==
    \/ AddEnvironmentFinalizer \/ ResolveRepositoryActionsTarget
    \/ VerifyRemoteRepository \/ GetEnvironment \/ UpsertEnvironment
    \/ SetReadyCondition
    \/ FindEnvironmentDependency \/ DeleteEnvironment \/ ReleaseResource

Others ==
    \/ RestartManager \/ Edit \/ ChangeUsers({"secrets", "variables"})
    \/ Administrate(Revalued \cup Rehosted({"open", "locked", "gone"}))
=============================================================================
