------------------------------- MODULE Setting -------------------------------
(***************************************************************************)
(* What five small reconcilers have in common: organization members, team  *)
(* memberships, teams, teams' access to a repository, and environments.    *)
(* Each looks at one thing on GitHub, which its manifest names for good,   *)
(* and writes it when it is missing or differs.  A controller EXTENDS this *)
(* module; Settings runs them all.                                         *)
(***************************************************************************)
EXTENDS ManagedResource

CONSTANTS
    Values,      \* what the setting may be: a role, a permission, a description
    Unmanaged    \* a manifest that leaves the value to others

\* `recorded': the slug of the team, the provider with it.
Statuses == [cond : {"Unknown", "Ready", "InvitationPending", "InUse", "Failed"},
             obsGen : Nat, recorded : BOOLEAN]

\* The setting, and the team or repository that it belongs to: a "locked"
\* repository is archived, a "teamless" one is there without the team that is to
\* have access.  GitHub keeps the role of an organization's owner.
Remotes == [host : {"open", "locked", "teamless", "gone"}, value : Values \cup {Nothing},
            pending : BOOLEAN, owner : BOOLEAN]

\* There can be no setting.
Barren == {"teamless", "gone"}

\* The resources that refer to a team, and to an environment.
UserKinds == {"memberships", "secrets", "variables"}

VARIABLES
    remote,      \* GitHub: what the manifest names, by that name
    users,       \* the kinds of resources that refer to this one, and keep it
    usersCache,  \* those that the informers show
    agreed,      \* history: GitHub was as cr.spec says at some moment since it does
    cleared,     \* history: there was nothing on GitHub at some moment of the deletion
    unguarded    \* history: the kinds of which the informers showed none at some
                 \* moment of this reconcile

elsewhere == <<remote, users, usersCache>>
settingVars == <<managedVars, elsewhere, agreed, cleared, unguarded>>

\* r is as the manifest says.
Agrees(r, spec) ==
    /\ r.value # Nothing /\ ~r.pending
    /\ r.owner \/ spec \in {r.value, Unmanaged}

SettingInit(remotes, used) ==
    /\ ManagedInit([cond |-> "Unknown", obsGen |-> 0, recorded |-> FALSE])
    /\ remote \in remotes
    /\ users \in SUBSET used /\ usersCache = users
    /\ agreed = Agrees(remote, cr.spec)
    /\ cleared = FALSE /\ unguarded = {}

\* What a remote starts as: there, pending or not, or missing.
Untouched == [host |-> "open", value |-> Nothing, pending |-> FALSE, owner |-> FALSE]

\* The history follows every step.
Remember ==
    /\ agreed' = (/\ cr'.phase # "absent"
                  /\ (agreed /\ cr'.spec = cr.spec) \/ Agrees(remote', cr'.spec))
    /\ cleared' = (cr'.phase = "deleting" /\ (cleared \/ remote'.value = Nothing))
    /\ unguarded' = IF pc' = "idle" THEN {} ELSE unguarded \cup (UserKinds \ usersCache')

-----------------------------------------------------------------------------
(* Steps of a reconcile *)

Elsewhere == UNCHANGED elsewhere
LocalStep == CallsGitHub /\ Elsewhere

Answered(r) == remote' = r /\ UNCHANGED <<users, usersCache>>

\* fail: what was recorded stays.
Failed == [obj.status EXCEPT !.cond = "Failed", !.obsGen = obj.gen]

Fails == IF obj.phase = "deleting" THEN Return(TRUE) ELSE Conclude(Failed)

\* Wrong: who is invited counts as a member.
Finished_Pending(r, recorded) ==
    [cond |-> "Ready", obsGen |-> obj.gen, recorded |-> recorded]

\* finish, succeed: Ready, or not yet.
Finished(r, recorded) ==
    [cond |-> IF r.pending THEN "InvitationPending" ELSE "Ready",
     obsGen |-> obj.gen, recorded |-> recorded]

\* Wrong: users are found, and the reconcile ends.
KeptByUsers_NoRetry == Return(FALSE)

\* The deletion says what it waits for and comes back.
KeptByUsers == Conclude([obj.status EXCEPT !.cond = "InUse", !.obsGen = obj.gen])

\* With the policy Delete a deletion first looks for users in the informers, one
\* kind after the other; a list may fail.
FindUsers(label, k, next) ==
    /\ pc = label
    /\ \/ k \in usersCache /\ Calm /\ KeptByUsers
       \/ k \notin usersCache /\ Calm /\ Goto(next, found)
       \/ Disturb /\ Return(TRUE)
    /\ LocalStep

\* GET of the repository, before a live resource is looked at.
VerifyRepository(failed) ==
    /\ pc = "verify"
    /\ \/ Calm /\ remote.host # "gone" /\ Goto("get", found)
       \/ Calm /\ remote.host = "gone" /\ Conclude(failed)
       \/ Disturb /\ Conclude(failed)
    /\ LocalStep

\* findRemoteTeam: by the slug in the team's status, if there is one, and then in
\* the list of all teams, by its name.
FindRemoteTeam(there, Present, Missing) ==
    /\ \/ pc = "getTeam" /\ there /\ Calm /\ Present
       \/ pc = "getTeam" /\ ~there /\ Calm /\ Goto("listTeams", found)
       \/ pc = "listTeams" /\ there /\ Calm /\ Present
       \/ pc = "listTeams" /\ ~there /\ Calm /\ Missing
       \/ pc \in {"getTeam", "listTeams"} /\ Disturb /\ Fails
    /\ LocalStep

\* GET of the setting: written when it is missing, or is not `right'.
Read(right, failed, recorded) ==
    /\ pc = "get"
    /\ \/ right /\ Calm /\ Conclude(Finished(remote, recorded))
       \/ ~right /\ Calm /\ Goto("set", found)
       \/ Disturb /\ Conclude(failed)
    /\ LocalStep

\* PUT or POST, which leaves one of `results'; where there is none, GitHub refuses.
Write(label, results, failed, recorded) ==
    /\ pc = label
    /\ \/ \E r \in results :
            /\ Answered(r)
            /\ \/ Calm /\ Conclude(Finished(r, recorded))
               \/ Disturb /\ Conclude(failed)            \* the answer was lost
       \/ results = {} /\ Calm /\ Conclude(failed) /\ Elsewhere
       \/ Disturb /\ Conclude(failed) /\ Elsewhere
    /\ CallsGitHub

Removed == [remote EXCEPT !.value = Nothing, !.pending = FALSE]

\* Wrong: whatever DELETE answers, the finalizer goes next.
Remove_IgnoreError ==
    /\ pc = "remove"
    /\ \/ Calm /\ Answered(IF remote.host = "locked" THEN remote ELSE Removed)
       \/ Disturb /\ Elsewhere
    /\ Goto("removeFinalizer", found)
    /\ CallsGitHub

\* DELETE: ErrNotFound means that it is gone already.
Remove ==
    /\ pc = "remove"
    /\ \/ remote.host # "locked" /\ Calm /\ Answered(Removed)
          /\ Goto("removeFinalizer", found)
       \/ remote.host # "locked" /\ Disturb /\ Answered(Removed) /\ Return(TRUE)
       \/ remote.host = "locked" /\ Calm /\ Elsewhere /\ Return(TRUE)
       \/ Disturb /\ Elsewhere /\ Return(TRUE)
    /\ CallsGitHub

SetReadyCondition == WriteStatus /\ Elsewhere

ReleaseResource == RemoveFinalizer /\ Elsewhere

-----------------------------------------------------------------------------
(* Everybody else *)

\* Each kind has an informer of its own.
SyncUsers ==
    /\ \E k \in UserKinds :
          \/ k \in users \ usersCache /\ usersCache' = usersCache \cup {k}
          \/ k \in usersCache \ users /\ usersCache' = usersCache \ {k}
    /\ UNCHANGED <<managedVars, remote, users>>

SyncAll == (SyncCache /\ Elsewhere) \/ (SyncDependency /\ Elsewhere) \/ SyncUsers

RestartManager == Restart /\ usersCache' = users /\ UNCHANGED <<remote, users>>

Edit ==
    /\ EditSpec \/ EditPolicy \/ DeleteObject \/ ChangeDependency
    /\ Elsewhere

\* Resources that refer to this one come and go.
ChangeUsers(kinds) ==
    /\ \E k \in kinds :
          \/ k \in users /\ users' = users \ {k} /\ Calm
          \/ k \notin users /\ users' = users \cup {k} /\ Disturb
    /\ UNCHANGED <<clusterVars, queued, dependencyVars, pc, localVars, remote, usersCache>>

\* The user who was invited accepts.
Accept ==
    /\ remote.pending
    /\ Answered([remote EXCEPT !.pending = FALSE])
    /\ UNCHANGED managedVars

\* Outsiders change, remove or make the setting, or do so with what it belongs to.
Administrate(results) ==
    /\ Disturb
    /\ \E r \in results \ {remote} : Answered(r)
    /\ UNCHANGED <<clusterVars, queued, dependencyVars, pc, localVars>>

\* The value changes, or goes.
Revalued ==
    (IF remote.host \notin Barren /\ ~remote.owner
       THEN {[remote EXCEPT !.value = v] : v \in Values} ELSE {}) \cup {Removed}

\* The team or repository goes, with the setting; comes back; is archived, or
\* opened again.
Rehosted(hosts) ==
    {IF host \in Barren THEN [Removed EXCEPT !.host = host]
                        ELSE [remote EXCEPT !.host = host] : host \in hosts}

-----------------------------------------------------------------------------
(* Properties *)

\* Types; what is not there is not pending, and nothing is left of a team or
\* repository that is gone.
TypeOK ==
    /\ ManagedTypeOK(Statuses, {"findUsers", "findVariables", "verify", "getTeam",
                                "listTeams", "get", "set", "update", "remove"})
    /\ remote \in Remotes
    /\ users \subseteq UserKinds /\ usersCache \subseteq UserKinds
    /\ unguarded \subseteq UserKinds
    /\ agreed \in BOOLEAN /\ cleared \in BOOLEAN
    /\ remote.value = Nothing => ~remote.pending
    /\ remote.host \in Barren => remote.value = Nothing

\* Ready=True for the current generation: the setting has been as in the manifest,
\* and in effect, at some moment since the manifest was written; an invitation does
\* not count (finish, succeed, and the resourceVersion of setReadyCondition).
ReadyIsEarned ==
    cr.phase # "absent" /\ cr.status.cond = "Ready" /\ cr.status.obsGen = cr.gen =>
        agreed

\* With the policy Delete or Revoke the setting has been gone from GitHub at some
\* moment of the deletion when our finalizer goes, whatever was archived, lost or
\* crashed on the way.  What resources of some kind were using all through the
\* reconcile, in the informers, is not taken away (findEnvironmentDependency, which
\* lists one kind after the other, and findDependency).
RemovalIsRight ==
    [][/\ Released /\ cr.policy = "Remove" => cleared
       /\ pc = "remove" /\ pc' # "remove" /\ remote' # remote =>
            unguarded = UserKinds]_settingVars

\* With what it needs to be used, and open to changes, the setting is in the end as
\* in the manifest, or an invitation to it is pending.
SettingConverges ==
    <>[](dependency /\ remote.host = "open" /\ cr.phase = "live") =>
        <>[](Agrees([remote EXCEPT !.pending = FALSE], cr.spec))

\* A deletion gets through when it can: when nothing refers to the resource and
\* what it needs can be used, or at once with the policy Orphan.
DeletionCompletes ==
    <>[]((dependency /\ remote.host = "open" /\ users = {}) \/ cr.policy = "Orphan") =>
        []<>(cr.phase # "deleting")
=============================================================================
