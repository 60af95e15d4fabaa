--------------------------- MODULE TeamMembership ---------------------------
(***************************************************************************)
(* The GitHubTeamMembership reconciler: a user's role in a team.           *)
(* `dependency' is the GitHubTeam resource with the provider it refers to; *)
(* the team itself is the host.  When only the resource has gone, a        *)
(* deletion makes do with the slug in the status.                          *)
(***************************************************************************)
EXTENDS Setting

\* An owner of the organization is a maintainer of every team.
Init ==
    SettingInit({[Untouched EXCEPT !.value = v] : v \in Values \cup {Nothing}} \cup
                {[Untouched EXCEPT !.value = "maintainer", !.owner = TRUE]}, {})

Reconcile == Fetch("resolve") /\ Elsewhere

AddMembershipFinalizer == AddFinalizer /\ Elsewhere

\* resolve, its reads from the caches.  What cannot be used is the GitHubTeam or
\* the provider, and the provider may fail for once.
ResolveTeam ==
    /\ pc = "resolve"
    /\ \/ dependencyCache /\ Calm /\ \E label \in {"getTeam", "listTeams"} : Goto(label, found)
       \/ ~dependencyCache /\ Calm /\ Fails
       \/ /\ ~dependencyCache /\ Calm
          /\ obj.phase = "deleting" /\ obj.status.recorded
          /\ Goto("remove", found)
       \/ Disturb /\ Fails
    /\ LocalStep

\* A team that is not on GitHub is an error, in a deletion too.
FindTeam ==
    FindRemoteTeam(remote.host # "gone",
                   Goto(IF obj.phase = "live" THEN "get" ELSE "remove", found), Fails)

\* From here on the status records the team.
FailedInTeam == [Failed EXCEPT !.recorded = TRUE]

GetTeamMembership == Read(remote.value = obj.spec, FailedInTeam, TRUE)

\* PUT: somebody from outside the organization is invited to it first.
Joined ==
    IF remote.host # "open" THEN {}
    ELSE IF remote.owner THEN {[remote EXCEPT !.value = "maintainer"]}
    ELSE IF remote.value # Nothing THEN {[remote EXCEPT !.value = obj.spec]}
    ELSE {[remote EXCEPT !.value = obj.spec, !.pending = p] : p \in BOOLEAN}

SetTeamMembership == Write("set", Joined, FailedInTeam, TRUE)

RemoveTeamMembership == Remove

WorkerStep ==
    \/ AddMembershipFinalizer \/ ResolveTeam \/ FindTeam
    \/ GetTeamMembership \/ SetTeamMembership
    \/ SetReadyCondition
    \/ RemoveTeamMembership \/ ReleaseResource

Others ==
    \/ RestartManager \/ Edit \/ Accept
    \/ Administrate(Revalued \cup Rehosted({"open", "gone"}))
=============================================================================
