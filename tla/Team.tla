-------------------------------- MODULE Team --------------------------------
(***************************************************************************)
(* The GitHubTeam reconciler: the team of one name, its description and    *)
(* privacy (here one value, which a manifest may leave to others).  Its    *)
(* users are the GitHubTeamMemberships that refer to it.                   *)
(***************************************************************************)
EXTENDS Setting

CONSTANT Fresh   \* the value of a team whose manifest says nothing of it

Init ==
    SettingInit({[Untouched EXCEPT !.value = v] : v \in Values \cup {Nothing}},
                {"memberships"})

Reconcile == Fetch("findUsers") /\ Elsewhere

AddTeamFinalizer == AddFinalizer /\ Elsewhere

\* findDependency
FindDependency == FindUsers("findUsers", "memberships", "resolve")

FirstLookup == IF obj.status.recorded THEN "getTeam" ELSE "listTeams"

\* resolveOrganization
ResolveOrganization ==
    Resolve(FirstLookup, FirstLookup, found, Failed) /\ Elsewhere

\* Wrong: a team that is there is left as it is.
DesiredTeamUpdate_None(team) == FALSE

\* desiredTeamUpdate
DesiredTeamUpdate(team) == obj.spec \notin {team.value, Unmanaged}

\* What was found, or is made, may need an update.
Synchronize(team) ==
    IF DesiredTeamUpdate(team) THEN Goto("update", found)
                               ELSE Conclude(Finished(team, TRUE))

Present == IF obj.phase = "deleting" THEN Goto("remove", found) ELSE Synchronize(remote)

Missing ==
    IF obj.phase = "deleting" THEN Goto("removeFinalizer", found)
                              ELSE Goto("set", found)

FindTeam == FindRemoteTeam(remote.value # Nothing, Present, Missing)

\* What GitHub makes of a POST: the team that was asked for, or one that is not all
\* that was asked.
Created ==
    IF remote.value # Nothing THEN {}
    ELSE {[remote EXCEPT !.value = v] : v \in ({obj.spec} \ {Unmanaged}) \cup {Fresh}}

\* POST: refused when there is a team of that name by now.
CreateTeam ==
    /\ pc = "set"
    /\ \/ \E team \in Created :
            /\ Answered(team)
            /\ \/ Calm /\ Synchronize(team)
               \/ Disturb /\ Conclude(Failed)            \* the answer was lost
       \/ Created = {} /\ Calm /\ Conclude(Failed) /\ Elsewhere
       \/ Disturb /\ Conclude(Failed) /\ Elsewhere
    /\ CallsGitHub

\* PATCH of what is managed.
UpdateTeam ==
    Write("update",
          IF remote.value = Nothing THEN {} ELSE {[remote EXCEPT !.value = obj.spec]},
          Failed, TRUE)

DeleteTeam == Remove

WorkerStep ==
    \/ AddTeamFinalizer \/ ResolveOrganization
    \/ FindTeam \/ CreateTeam \/ UpdateTeam
    \/ SetReadyCondition
    \/ FindDependency \/ DeleteTeam \/ ReleaseResource

Others == RestartManager \/ Edit \/ ChangeUsers({"memberships"}) \/ Administrate(Revalued)
=============================================================================
