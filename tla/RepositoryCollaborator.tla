------------------------ MODULE RepositoryCollaborator ------------------------
(***************************************************************************)
(* The GitHubRepositoryCollaborator reconciler: one user's access to one   *)
(* repository.  A user who is not a member of the organization is invited  *)
(* first and has access only after accepting, at a moment of the user's    *)
(* choice; an archived repository refuses every change.                    *)
(***************************************************************************)
EXTENDS ManagedResource

CONSTANT MaxInvitations   \* bound: invitations that are ever sent

ASSUME InvitationsAssumption == MaxInvitations \in Nat

Permissions == Specs

\* What GetCollaboratorAccess answers; the id is that of an invitation, or 0.
NoAccess == [kind |-> "none", permission |-> Nothing, id |-> 0]
Direct(permission) == [kind |-> "direct", permission |-> permission, id |-> 0]
Invited(permission, id) ==
    [kind |-> "invited", permission |-> permission, id |-> id]

\* An invitation is shown exactly with its id.
Statuses == {s \in
            [cond : {"Unknown", "Ready", "InvitationPending", "RepositoryArchived",
                     "Failed"},
             obsGen : Nat, pending : BOOLEAN, id : 0..MaxInvitations] :
             s.pending <=> s.id # 0}

VARIABLES
    remote,     \* GitHub: the repository, the user's access and invitation
    mirror,     \* GitHubRepository status.archived in the informer cache
    agreed,     \* history: direct access as in cr.spec was seen since its edit
    cleared,    \* history: no access and no invitation, at some moment of the
                \* deletion
    accepted    \* history: an invitation was accepted during the deletion

vars == <<managedVars, remote, mirror, agreed, cleared, accepted>>

NoRepository == [repo |-> "absent", direct |-> Nothing, invitation |-> Nothing,
                 id |-> 0]

Init ==
    /\ ManagedInit([cond |-> "Unknown", obsGen |-> 0, pending |-> FALSE, id |-> 0])
    /\ \E direct \in Permissions \cup {Nothing} :
          remote = [NoRepository EXCEPT !.repo = "open", !.direct = direct]
    /\ mirror = FALSE
    /\ agreed = FALSE /\ cleared = FALSE /\ accepted = FALSE

Clear(r) == r.direct = Nothing /\ r.invitation = Nothing

\* GitHub changes to r.
SetRemote(r) ==
    /\ remote' = r
    /\ cleared' = (cleared \/ (cr.phase = "deleting" /\ Clear(r)))
KeepRemote == UNCHANGED <<remote, cleared>>

\* A step of the worker that changes nothing outside.
LocalStep == CallsGitHub /\ KeepRemote /\ UNCHANGED <<mirror, accepted>>

-----------------------------------------------------------------------------
(* The reconciler *)

\* The status for an access that was answered.
Reported(access, cond) ==
    [cond |-> cond, obsGen |-> obj.gen,
     pending |-> access.kind = "invited", id |-> access.id]

\* One without an answer leaves the invitation of an earlier status in place.
Unreported(cond) == [obj.status EXCEPT !.cond = cond, !.obsGen = obj.gen]

\* Wrong: an invitation counts as access.
Finished_Pending(access) == Reported(access, "Ready")

\* finishAccess
Finished(access) ==
    Reported(access, IF access.kind = "invited" THEN "InvitationPending"
                                                ELSE "Ready")

\* pauseForArchivedRepository
Paused(access) ==
    IF access.kind = "none" THEN Unreported("RepositoryArchived")
                            ELSE Reported(access, "RepositoryArchived")

Reconcile == Fetch("resolve") /\ KeepRemote /\ UNCHANGED <<mirror, agreed, accepted>>

AddCollaboratorFinalizer ==
    AddFinalizer /\ KeepRemote /\ UNCHANGED <<mirror, agreed, accepted>>

\* resolveRepositoryAccess: the cached repository resource tells a deletion
\* whether the repository is archived; a live reconcile asks GitHub.
ResolveRepositoryAccess ==
    /\ Resolve("getRepository", "findDirect",
               [archived |-> mirror, access |-> NoAccess],
               Unreported("Failed"))
    /\ KeepRemote /\ UNCHANGED <<mirror, agreed, accepted>>

GetRemoteRepository ==
    /\ pc = "getRepository"
    /\ \/ /\ remote.repo # "absent" /\ Calm
          /\ Goto("findDirect", [found EXCEPT !.archived = remote.repo = "archived"])
       \/ remote.repo = "absent" /\ Calm /\ Conclude(Unreported("Failed"))
       \/ Disturb /\ Conclude(Unreported("Failed"))
    /\ LocalStep /\ UNCHANGED agreed

\* Wrong: a pending invitation with another permission is left as it is.
AfterLookup_KeepInvitation(access) ==
    IF obj.phase = "deleting"
      THEN IF found.archived THEN Return(TRUE)
                             ELSE Goto("remove", [found EXCEPT !.access = access])
      ELSE IF access.kind = "invited" \/ access.permission = obj.spec
             THEN Conclude(Finished(access))
           ELSE IF found.archived THEN Conclude(Paused(access))
           ELSE Goto("set", [found EXCEPT !.access = access])

\* What follows from the access GitHub has answered.
AfterLookup(access) ==
    IF obj.phase = "deleting"
      THEN IF found.archived THEN Return(TRUE)
                             ELSE Goto("remove", [found EXCEPT !.access = access])
      ELSE IF access.permission = obj.spec THEN Conclude(Finished(access))
           ELSE IF found.archived THEN Conclude(Paused(access))
           ELSE Goto(IF access.kind = "invited" THEN "patch" ELSE "set",
                     [found EXCEPT !.access = access])

\* Wrong: a deletion is not tried again after a failure.
Fails_NoRetry == IF obj.phase = "deleting" THEN Return(FALSE)
                                           ELSE Conclude(Unreported("Failed"))

\* A call that failed: a live reconcile reports it, a deletion comes back.
Fails == IF obj.phase = "deleting" THEN Return(TRUE)
                                   ELSE Conclude(Unreported("Failed"))

\* GetCollaboratorAccess, its first request.  A repository that is not there has
\* no collaborators.
FindDirectCollaborator ==
    /\ pc = "findDirect"
    /\ \/ /\ remote.repo # "absent" /\ remote.direct = Nothing /\ Calm
          /\ Goto("findInvitation", found)
          /\ UNCHANGED agreed
       \/ /\ remote.repo = "absent" /\ Calm
          /\ AfterLookup(NoAccess)
          /\ UNCHANGED agreed
       \/ /\ remote.direct # Nothing /\ Calm
          /\ AfterLookup(Direct(remote.direct))
          /\ agreed' = (agreed \/ remote.direct = cr.spec)
       \/ Disturb /\ Fails /\ UNCHANGED agreed
    /\ LocalStep

\* Its second request, when the first found no direct access.
FindRepositoryInvitation ==
    /\ pc = "findInvitation"
    /\ \/ /\ Calm
          /\ AfterLookup(IF remote.invitation = Nothing THEN NoAccess
                         ELSE Invited(remote.invitation, remote.id))
       \/ Disturb /\ Fails
    /\ LocalStep /\ UNCHANGED agreed

\* PUT: a member of the organization has access at once, another user is
\* invited, or the invitation that is pending is changed.
Granted ==
    {[remote EXCEPT !.direct = obj.spec, !.invitation = Nothing]} \cup
    (IF remote.direct # Nothing THEN {}
     ELSE IF remote.invitation # Nothing
       THEN {[remote EXCEPT !.invitation = obj.spec]}
     ELSE IF remote.id < MaxInvitations
       THEN {[remote EXCEPT !.invitation = obj.spec, !.id = @ + 1]}
     ELSE {})

SetCollaboratorPermission ==
    /\ pc = "set"
    /\ \/ /\ remote.repo = "open" /\ Calm
          /\ \E r \in Granted :
                /\ SetRemote(r)
                /\ Conclude(Finished(IF r.direct # Nothing THEN Direct(obj.spec)
                                     ELSE Invited(obj.spec, r.id)))
                /\ agreed' = (agreed \/ r.direct = cr.spec)
       \/ /\ remote.repo = "open" /\ Disturb     \* done, but the answer was lost
          /\ \E r \in Granted : SetRemote(r)
          /\ Conclude(Unreported("Failed"))
          /\ UNCHANGED agreed
       \/ /\ remote.repo = "archived" /\ Calm    \* archived since the lookup
          /\ Conclude(Paused(NoAccess))
          /\ KeepRemote /\ UNCHANGED agreed
       \/ /\ remote.repo = "absent" /\ Calm
          /\ Conclude(Unreported("Failed"))
          /\ KeepRemote /\ UNCHANGED agreed
       \/ /\ Disturb
          /\ Conclude(Unreported("Failed"))
          /\ KeepRemote /\ UNCHANGED agreed
    /\ CallsGitHub /\ UNCHANGED <<mirror, accepted>>

\* PATCH: the invitation may have been accepted or withdrawn since the lookup.
StillPending(id) == remote.invitation # Nothing /\ remote.id = id

UpdateRepositoryInvitation ==
    /\ pc = "patch"
    /\ \/ /\ remote.repo = "open" /\ StillPending(found.access.id) /\ Calm
          /\ SetRemote([remote EXCEPT !.invitation = obj.spec])
          /\ Conclude(Finished(Invited(obj.spec, remote.id)))
       \/ /\ remote.repo = "open" /\ StillPending(found.access.id) /\ Disturb
          /\ SetRemote([remote EXCEPT !.invitation = obj.spec])
          /\ Conclude(Unreported("Failed"))
       \/ /\ remote.repo # "archived" /\ ~StillPending(found.access.id) /\ Calm
          /\ Conclude(Unreported("Failed"))
          /\ KeepRemote
       \/ /\ remote.repo = "archived" /\ Calm
          /\ Conclude(Paused(NoAccess))
          /\ KeepRemote
       \/ Disturb /\ Conclude(Unreported("Failed")) /\ KeepRemote
    /\ CallsGitHub /\ UNCHANGED <<mirror, agreed, accepted>>

\* The invitation to withdraw: the one just found, or else the one that the
\* status shows; 0 when direct access is to be revoked.
RevokedInvitation ==
    IF found.access.kind = "invited" THEN found.access.id
    ELSE IF obj.status.pending THEN obj.status.id
    ELSE 0

\* DELETE of the collaborator or of that one invitation.
Revoked ==
    CASE RevokedInvitation = 0 -> [remote EXCEPT !.direct = Nothing]
      [] RevokedInvitation # 0 ->
           IF StillPending(RevokedInvitation)
             THEN [remote EXCEPT !.invitation = Nothing] ELSE remote

\* Wrong: every refusal counts as done.
RemoveCollaboratorAccess_Refused ==
    /\ pc = "remove"
    /\ Calm
    /\ SetRemote(IF remote.repo = "archived" THEN remote ELSE Revoked)
    /\ Goto("removeFinalizer", found)
    /\ CallsGitHub /\ UNCHANGED <<mirror, agreed, accepted>>

\* ErrNotFound, of the repository, the collaborator or the invitation, means
\* that there is nothing left to do.
RemoveCollaboratorAccess ==
    /\ pc = "remove"
    /\ \/ /\ remote.repo # "archived" /\ Calm
          /\ SetRemote(Revoked)
          /\ Goto("removeFinalizer", found)
       \/ /\ remote.repo # "archived" /\ Disturb   \* done, the answer was lost
          /\ SetRemote(Revoked)
          /\ Return(TRUE)
       \/ /\ remote.repo = "archived" /\ Calm      \* archived since the lookup
          /\ Return(TRUE)
          /\ KeepRemote
       \/ Disturb /\ Return(TRUE) /\ KeepRemote
    /\ CallsGitHub /\ UNCHANGED <<mirror, agreed, accepted>>

SetReadyCondition ==
    WriteStatus /\ KeepRemote /\ UNCHANGED <<mirror, agreed, accepted>>

RemoveCollaboratorFinalizer ==
    RemoveFinalizer /\ KeepRemote /\ UNCHANGED <<mirror, agreed, accepted>>

WorkerStep ==
    \/ AddCollaboratorFinalizer \/ ResolveRepositoryAccess
    \/ GetRemoteRepository
    \/ FindDirectCollaborator \/ FindRepositoryInvitation
    \/ SetCollaboratorPermission \/ UpdateRepositoryInvitation
    \/ SetReadyCondition
    \/ RemoveCollaboratorAccess \/ RemoveCollaboratorFinalizer

-----------------------------------------------------------------------------
(* Everybody else *)

Manager ==
    /\ SyncCache \/ SyncDependency \/ Restart
    /\ KeepRemote /\ UNCHANGED <<mirror, agreed, accepted>>

\* The repository's own reconciler and its informer.
SyncMirror ==
    /\ mirror # (remote.repo = "archived")
    /\ mirror' = (remote.repo = "archived")
    /\ KeepRemote /\ UNCHANGED <<managedVars, agreed, accepted>>

Users ==
    /\ \/ EditSpec /\ agreed' = FALSE
       \/ EditPolicy /\ UNCHANGED agreed
       \/ DeleteObject /\ UNCHANGED agreed
       \/ ChangeDependency /\ UNCHANGED agreed
    /\ cleared' = (cr'.phase = "deleting" /\ (cleared \/ Clear(remote)))
    /\ UNCHANGED <<remote, mirror, accepted>>

Accept ==
    /\ remote.invitation # Nothing
    /\ SetRemote([remote EXCEPT !.direct = remote.invitation,
                                !.invitation = Nothing])
    /\ accepted' = (accepted \/ cr.phase = "deleting")
    /\ UNCHANGED <<managedVars, mirror, agreed>>

\* Administrators change or remove an access, withdraw an invitation, archive or
\* delete the repository.
Administrate ==
    /\ Disturb
    /\ \/ /\ remote.direct # Nothing
          /\ \E p \in (Permissions \cup {Nothing}) \ {remote.direct} :
                SetRemote([remote EXCEPT !.direct = p])
       \/ /\ remote.invitation # Nothing
          /\ SetRemote([remote EXCEPT !.invitation = Nothing])
       \/ /\ remote.repo # "absent"
          /\ \/ SetRemote([remote EXCEPT
                   !.repo = IF @ = "open" THEN "archived" ELSE "open"])
             \/ SetRemote([NoRepository EXCEPT !.id = remote.id])
    /\ UNCHANGED <<clusterVars, queued, dependencyVars, pc, localVars, mirror,
                   agreed, accepted>>

Next == Reconcile \/ WorkerStep \/ Manager \/ SyncMirror \/ Users \/ Accept
        \/ Administrate

\* The manager keeps going; users and GitHub do as they please.
Fairness ==
    /\ WF_vars(Reconcile) /\ WF_vars(WorkerStep)
    /\ WF_vars(SyncCache /\ KeepRemote /\ UNCHANGED <<mirror, agreed, accepted>>)
    /\ WF_vars(SyncDependency /\ KeepRemote /\ UNCHANGED <<mirror, agreed, accepted>>)
    /\ WF_vars(SyncMirror)

Spec == Init /\ [][Next]_vars
FairSpec == Spec /\ Fairness

-----------------------------------------------------------------------------
(* Properties *)

\* Types, and that an invitation is never on top of direct access.
TypeOK ==
    /\ ManagedTypeOK(Statuses, {"getRepository", "findDirect", "findInvitation",
                                "set", "patch", "remove"})
    /\ remote \in [repo : {"absent", "open", "archived"},
                   direct : Permissions \cup {Nothing},
                   invitation : Permissions \cup {Nothing},
                   id : 0..MaxInvitations]
    /\ Nothing \in {remote.direct, remote.invitation}
    /\ {mirror, agreed, cleared, accepted} \subseteq BOOLEAN

\* docs/resources.md on deletionPolicy Revoke: "Remove the team or collaborator
\* access".  When our finalizer goes under that policy, the user has been without
\* access and without invitation at some moment of the deletion.
RevokeRemovesAccess ==
    [][Released /\ cr.policy = "Remove" => cleared]_vars

\* The only ways to miss it: the status still shows an invitation as pending, so
\* that reconcileDelete withdraws one that is gone, or the user accepts while the
\* deletion runs.  Archived repositories, lost answers, stale copies and restarts
\* are none.
RevokeUnlessInvited ==
    [][Released /\ cr.policy = "Remove" =>
         cleared \/ accepted \/ cr.status.pending]_vars

\* Ready=True for the current generation: direct access as in the manifest has
\* been seen since it was written; a pending invitation does not count
\* (finishAccess and the resourceVersion of setReadyCondition).
ReadyIsAccess ==
    cr.phase # "absent" /\ cr.status.cond = "Ready" /\ cr.status.obsGen = cr.gen =>
        agreed

\* With usable dependencies and a repository open to changes, in the end the user
\* has the access that the manifest says, or an invitation to it.
AccessConverges ==
    <>[](dependency /\ remote.repo = "open" /\ remote.id < MaxInvitations) =>
        <>[](cr.phase = "live" =>
               cr.spec \in {remote.direct, remote.invitation})

\* A deletion gets through, unless its dependencies cannot be used, or the
\* repository is or seems archived, at a moment that it waits.
RevocationCompletes ==
    (cr.phase = "deleting") ~>
        (\/ ~cr.finalizer
         \/ cr.policy = "Remove" /\ (~dependency \/ mirror \/ remote.repo = "archived"))
=============================================================================
