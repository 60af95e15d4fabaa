--------------------------- MODULE CollaboratorProofs ---------------------------
(***************************************************************************)
(* Ready=True means access, and a revocation revokes, whatever the         *)
(* permissions, the edits, the failures and the invitations: the inductive *)
(* invariant of RepositoryCollaborator and what follows from it.           *)
(***************************************************************************)
EXTENDS RepositoryCollaborator, ManagedProofs

-----------------------------------------------------------------------------
(* The invariant *)

Labels == {"getRepository", "findDirect", "findInvitation", "set", "patch", "remove"}

Accesses ==
    {a \in [kind : {"none", "direct", "invited"}, permission : Specs \cup {Nothing},
            id : 0..MaxInvitations] :
        (a.kind = "invited" <=> a.id # 0) /\ (a.kind = "none" => a.permission = Nothing)}

Answers == [archived : BOOLEAN, access : Accesses]

Remotes == [repo : {"absent", "open", "archived"}, direct : Specs \cup {Nothing},
            invitation : Specs \cup {Nothing}, id : 0..MaxInvitations]

\* GitHub's side, and the history that goes with it.
Sound(r) ==
    /\ r \in Remotes
    /\ r.direct = Nothing \/ r.invitation = Nothing
    /\ r.invitation # Nothing => r.id # 0
    /\ r.repo = "absent" => Clear(r)

RemoteInv ==
    /\ Sound(remote)
    /\ mirror \in BOOLEAN /\ agreed \in BOOLEAN
    /\ cleared \in BOOLEAN /\ accepted \in BOOLEAN
    /\ cr.phase = "deleting" /\ Clear(remote) => cleared

\* Where the worker can be, and with what.
WorkInv ==
    /\ pc \in Labels \cup {"idle", "addFinalizer", "resolve", "status", "removeFinalizer"}
    /\ pc \in Labels => found \in Answers
    /\ pc \in {"getRepository", "set", "patch"} => obj.phase = "live"
    /\ pc = "remove" => obj.phase = "deleting"

\* The status speaks of no later generation than there is; one about to be written
\* of the generation that the worker has read.
ReadyInv ==
    /\ cr.phase # "absent" => cr.status.obsGen <= cr.gen
    /\ pc = "status" /\ fresh =>
         report.obsGen = obj.gen /\ (report.cond = "Ready" => agreed)
    /\ ReadyIsAccess

\* What a lookup has found still tells what the DELETE has to take away.
LookedUp(access) ==
    /\ access.kind = "none" => cleared \/ accepted
    /\ access.kind = "direct" => remote.invitation = Nothing
    /\ access.kind = "invited" =>
         /\ remote.direct = Nothing \/ accepted
         /\ remote.invitation # Nothing => access.id = remote.id

RevokeInv ==
    /\ pc = "findInvitation" /\ fresh /\ obj.phase = "deleting" =>
         remote.direct = Nothing \/ accepted
    /\ pc = "remove" /\ fresh => LookedUp(found.access)
    /\ pc = "removeFinalizer" /\ fresh /\ obj.policy = "Remove" =>
         cleared \/ accepted \/ obj.status.pending

IInv == ManagedInv(Statuses) /\ CopyInv /\ RemoteInv /\ WorkInv /\ ReadyInv /\ RevokeInv

\* A version of the resource that has a status, has one of Statuses.
LEMMA StatusType ==
    ASSUME ManagedInv(Statuses), CopyInv
    PROVE  /\ cr.phase # "absent" => cr.status \in Statuses /\ cr.spec \in Specs
           /\ pc # "idle" => obj.status \in Statuses /\ obj.spec \in Specs
           /\ cr.gen \in Nat /\ obj.gen \in Nat
           /\ cr.phase \in Phases /\ obj.phase \in Phases
BY DEF ManagedInv, CopyInv, Objective, Whole, Objects

LEMMA UnreportedType ==
    ASSUME ManagedInv(Statuses), CopyInv, pc # "idle",
           NEW cond \in {"RepositoryArchived", "Failed"}
    PROVE  /\ Unreported(cond) \in Statuses
           /\ Unreported(cond).obsGen = obj.gen
           /\ Unreported(cond).cond = cond
<1>1. obj.status \in Statuses /\ obj.gen \in Nat
  BY StatusType
<1> QED
  BY <1>1 DEF Unreported, Statuses

LEMMA ReportedType ==
    ASSUME ManagedInv(Statuses), CopyInv, NEW access \in Accesses,
           NEW cond \in {"Ready", "InvitationPending", "RepositoryArchived"}
    PROVE  /\ Reported(access, cond) \in Statuses
           /\ Reported(access, cond).obsGen = obj.gen
           /\ Reported(access, cond).cond = cond
<1>1. obj.gen \in Nat
  BY StatusType
<1> QED
  BY <1>1 DEF Reported, Statuses, Accesses

LEMMA AccessTypes ==
    /\ NoAccess \in Accesses
    /\ \A p \in Specs : Direct(p) \in Accesses
    /\ \A p \in Specs, id \in 1..MaxInvitations : Invited(p, id) \in Accesses
BY InvitationsAssumption DEF NoAccess, Direct, Invited, Accesses

THEOREM Initially == Init => IInv
<1> SUFFICES ASSUME Init PROVE IInv
  OBVIOUS
<1> DEFINE first == [cond |-> "Unknown", obsGen |-> 0, pending |-> FALSE, id |-> 0]
<1>1. first \in Statuses
  BY InvitationsAssumption DEF Statuses
<1> HIDE DEF first
<1>2. /\ \E spec \in Specs, policy \in Policies :
           cr = [phase |-> "live", gen |-> 1, spec |-> spec, policy |-> policy,
                 finalizer |-> FALSE, status |-> first]
      /\ cache = cr /\ cacheFresh = TRUE /\ queued = TRUE
      /\ dependency \in BOOLEAN /\ dependencyCache = dependency /\ pc = "idle"
      /\ obj = NoObject /\ fresh = FALSE /\ report = Nothing /\ disturbances = 0
  BY DEF Init, ManagedInit, first
<1>3. Objective(cr, Statuses) /\ cr.phase = "live" /\ cr.gen = 1 /\ cr.status = first
  BY <1>1, <1>2 DEF Objective, Objects, Whole, Phases
<1>4. ManagedInv(Statuses) /\ CopyInv
  <2>1. Objective(cache, Statuses) /\ Objective(obj, Statuses)
    BY <1>2, <1>3, NoObjectType
  <2>2. 0 \in 0..MaxDisturbances
    BY BoundsAssumption
  <2> QED
    BY <1>2, <1>3, <2>1, <2>2 DEF ManagedInv, CopyInv
<1>5. RemoteInv
  <2>1. PICK direct \in Specs \cup {Nothing} :
           remote = [NoRepository EXCEPT !.repo = "open", !.direct = direct]
    BY DEF Init, Permissions
  <2>2. Sound(remote)
    <3>1. remote = [repo |-> "open", direct |-> direct, invitation |-> Nothing, id |-> 0]
      BY <2>1 DEF NoRepository
    <3>2. 0 \in 0..MaxInvitations
      BY InvitationsAssumption
    <3> QED
      BY <3>1, <3>2 DEF Sound, Remotes
  <2> QED
    BY <1>3, <2>2 DEF RemoteInv, Init
<1>6. first.obsGen = 0 /\ first.cond = "Unknown"
  BY DEF first
<1>7. WorkInv /\ ReadyInv /\ RevokeInv
  BY <1>2, <1>3, <1>6 DEF WorkInv, ReadyInv, RevokeInv, ReadyIsAccess, Labels
<1> QED
  BY <1>4, <1>5, <1>7 DEF IInv

-----------------------------------------------------------------------------
(* What the calls of a reconcile preserve *)

\* GitHub's side is fine again, and nothing of the history has been forgotten.
RemoteStep == RemoteInv' /\ (agreed => agreed') /\ (cleared => cleared')
              /\ (accepted => accepted')

\* A call that is the last one.
LEMMA Returns ==
    ASSUME IInv, CallsGitHub, Calm \/ Disturb, Return(TRUE), RemoteStep
    PROVE  IInv'
<1>1. ManagedInv(Statuses)' /\ CopyInv' /\ Drops /\ UNCHANGED <<cr, cache>>
  BY CallReturns DEF IInv
<1>2. WorkInv' /\ RevokeInv'
  BY <1>1 DEF Drops, WorkInv, RevokeInv, Labels
<1>3. ReadyInv'
  BY <1>1 DEF Drops, ReadyInv, ReadyIsAccess, RemoteStep, IInv
<1> QED
  BY <1>1, <1>2, <1>3 DEF IInv, RemoteStep

\* One after which the status is written.
LEMMA Concluding ==
    ASSUME IInv, CallsGitHub, Calm \/ Disturb, obj.phase = "live", Concludes(Statuses),
           report'.obsGen = obj.gen, fresh /\ report'.cond = "Ready" => agreed', RemoteStep
    PROVE  IInv'
<1>1. ManagedInv(Statuses)' /\ CopyInv' /\ UNCHANGED <<cr, cache>>
  BY CallConcludes DEF IInv
<1>2. WorkInv' /\ RevokeInv'
  BY DEF Concludes, WorkInv, RevokeInv, Labels
<1>3. ReadyInv'
  BY <1>1 DEF Concludes, ReadyInv, ReadyIsAccess, RemoteStep, IInv
<1> QED
  BY <1>1, <1>2, <1>3 DEF IInv, RemoteStep

\* One that another call follows.
LEMMA GoingOn ==
    ASSUME IInv, CallsGitHub, Calm \/ Disturb, Continues,
           pc' \in Labels \cup {"removeFinalizer"}, found' \in Answers,
           pc' \in {"getRepository", "set", "patch"} => obj.phase = "live",
           pc' \in {"remove", "removeFinalizer"} => obj.phase = "deleting",
           RemoteStep, RevokeInv'
    PROVE  IInv'
<1>1. ManagedInv(Statuses)' /\ CopyInv' /\ UNCHANGED <<cr, cache>>
  BY CallContinues DEF IInv, Labels
<1>2. WorkInv'
  BY DEF Continues, WorkInv, Labels
<1>3. ReadyInv'
  BY <1>1 DEF Labels, ReadyInv, ReadyIsAccess, RemoteStep, IInv
<1> QED
  BY <1>1, <1>2, <1>3 DEF IInv, RemoteStep

LEMMA RemoteUntouched ==
    ASSUME IInv, CallsGitHub, KeepRemote, UNCHANGED <<mirror, accepted>>,
           agreed' \in BOOLEAN, agreed => agreed'
    PROVE  RemoteStep
BY DEF IInv, RemoteInv, RemoteStep, KeepRemote, CallsGitHub, clusterVars

LEMMA RemoteChanged ==
    ASSUME IInv, UNCHANGED cr, NEW r, Sound(r), SetRemote(r),
           mirror' \in BOOLEAN, accepted' \in BOOLEAN,
           agreed' \in BOOLEAN, agreed => agreed', accepted => accepted'
    PROVE  RemoteStep
<1>1. /\ remote' = r /\ UNCHANGED cr
      /\ cleared' = (cleared \/ (cr.phase = "deleting" /\ Clear(r)))
  BY DEF SetRemote
<1>2. Sound(remote')
  BY <1>1
<1>3. cleared' \in BOOLEAN /\ (cleared => cleared')
      /\ (cr.phase = "deleting" /\ Clear(r) => cleared')
  BY <1>1, Zenon DEF IInv, RemoteInv
<1>4. Clear(remote') <=> Clear(r)
  BY <1>1 DEF Clear
<1> QED
  BY <1>1, <1>2, <1>3, <1>4 DEF RemoteInv, RemoteStep, Sound, Clear

\* A failure is reported, or a deletion comes back.
LEMMA Failing ==
    ASSUME IInv, CallsGitHub, Calm \/ Disturb, pc # "idle", Fails, RemoteStep
    PROVE  IInv'
<1>1. CASE obj.phase = "deleting"
  <2>1. Return(TRUE)
    BY <1>1, Zenon DEF Fails
  <2> QED
    BY <2>1, Returns
<1>2. CASE obj.phase # "deleting"
  <2>1. obj.phase = "live"
    BY <1>2 DEF IInv, CopyInv, ManagedInv, Objective, Objects, Phases
  <2>2. /\ pc' = "status" /\ UNCHANGED <<queued, obj, fresh, found>>
        /\ report' = Unreported("Failed")
    BY <1>2 DEF Fails, Conclude
  <2>3. /\ Unreported("Failed") \in Statuses /\ Unreported("Failed").obsGen = obj.gen
        /\ Unreported("Failed").cond = "Failed"
    BY UnreportedType DEF IInv
  <2> QED
    BY <2>1, <2>2, <2>3, Concluding DEF Concludes
<1> QED
  BY <1>1, <1>2

LEMMA ReportingFailure ==
    ASSUME IInv, CallsGitHub, Calm \/ Disturb, pc # "idle", obj.phase = "live", RemoteStep,
           NEW cond \in {"RepositoryArchived", "Failed"},
           pc' = "status", UNCHANGED <<queued, obj, fresh, found>>,
           report' = Unreported(cond)
    PROVE  IInv'
<1>1. /\ Unreported(cond) \in Statuses /\ Unreported(cond).obsGen = obj.gen
      /\ Unreported(cond).cond = cond
  BY UnreportedType DEF IInv
<1> QED
  BY <1>1, Concluding DEF Concludes

LEMMA ReportingAccess ==
    ASSUME IInv, CallsGitHub, Calm \/ Disturb, pc # "idle", obj.phase = "live", RemoteStep,
           NEW access \in Accesses,
           NEW cond \in {"Ready", "InvitationPending", "RepositoryArchived"},
           pc' = "status", UNCHANGED <<queued, obj, fresh, found>>,
           report' = Reported(access, cond),
           fresh /\ cond = "Ready" => agreed'
    PROVE  IInv'
<1>1. /\ Reported(access, cond) \in Statuses /\ Reported(access, cond).obsGen = obj.gen
      /\ Reported(access, cond).cond = cond
  BY ReportedType DEF IInv
<1> QED
  BY <1>1, Concluding DEF Concludes

\* What follows from a lookup.
LEMMA Looking ==
    ASSUME IInv, LocalStep, Calm, RemoteStep, pc \in {"findDirect", "findInvitation"},
           NEW access \in Accesses, AfterLookup(access),
           fresh /\ access.kind = "direct" /\ access.permission = obj.spec => agreed',
           fresh /\ obj.phase = "deleting" => LookedUp(access)
    PROVE  IInv'
<1>0. /\ CallsGitHub /\ UNCHANGED <<cr, remote, cleared, accepted>>
      /\ found \in Answers /\ obj.phase \in {"live", "deleting"}
      /\ obj.spec \in Specs /\ obj.spec # Nothing
  BY StatusType, NothingAssumption
  DEF LocalStep, KeepRemote, CallsGitHub, clusterVars, IInv, WorkInv, Labels, CopyInv, Phases
<1>1. CASE obj.phase = "deleting" /\ found.archived
  <2>1. Return(TRUE)
    BY <1>1, Zenon DEF AfterLookup
  <2> QED
    BY <1>0, <2>1, Returns
<1>2. ASSUME NEW label \in {"remove", "patch", "set"},
             Goto(label, [found EXCEPT !.access = access]),
             label = "remove" <=> obj.phase = "deleting"
      PROVE  IInv'
  <2>1. /\ pc' = label /\ found' = [found EXCEPT !.access = access]
        /\ UNCHANGED <<queued, obj, fresh, report>>
    BY <1>2 DEF Goto
  <2>2. found' \in Answers /\ found'.access = access
    BY <1>0, <2>1 DEF Answers
  <2>3. RevokeInv'
    BY <1>0, <1>2, <2>1, <2>2 DEF RevokeInv, LookedUp
  <2> QED
    BY <1>0, <1>2, <2>1, <2>2, <2>3, GoingOn DEF Continues, Labels
<1>3. CASE obj.phase = "deleting" /\ ~found.archived
  <2>1. Goto("remove", [found EXCEPT !.access = access])
    BY <1>3, Zenon DEF AfterLookup
  <2> QED
    BY <1>2, <1>3, <2>1
<1>4. CASE obj.phase = "live" /\ access.permission = obj.spec
  <2> DEFINE cond == IF access.kind = "invited" THEN "InvitationPending" ELSE "Ready"
  <2>1. /\ pc' = "status" /\ UNCHANGED <<queued, obj, fresh, found>>
        /\ report' = Reported(access, cond)
    BY <1>4 DEF AfterLookup, Conclude, Finished
  <2>2. access.kind \in {"direct", "invited"}
    BY <1>0, <1>4 DEF Accesses
  <2>3. cond \in {"Ready", "InvitationPending", "RepositoryArchived"}
        /\ (fresh /\ cond = "Ready" => agreed')
    BY <1>4, <2>2
  <2> QED
    BY <1>0, <1>4, <2>1, <2>3, ReportingAccess
<1>5. CASE obj.phase = "live" /\ access.permission # obj.spec /\ found.archived
  <2>1. /\ pc' = "status" /\ UNCHANGED <<queued, obj, fresh, found>>
        /\ report' = Paused(access)
    BY <1>5 DEF AfterLookup, Conclude
  <2>2. CASE access.kind = "none"
    <3>1. report' = Unreported("RepositoryArchived")
      BY <2>1, <2>2 DEF Paused
    <3> QED
      BY <1>0, <1>5, <2>1, <3>1, ReportingFailure
  <2>3. CASE access.kind # "none"
    <3>1. report' = Reported(access, "RepositoryArchived")
      BY <2>1, <2>3 DEF Paused
    <3> QED
      BY <1>0, <1>5, <2>1, <3>1, ReportingAccess
  <2> QED
    BY <2>2, <2>3
<1>6. CASE obj.phase = "live" /\ access.permission # obj.spec /\ ~found.archived
  <2>1. Goto(IF access.kind = "invited" THEN "patch" ELSE "set",
             [found EXCEPT !.access = access])
    BY <1>6, Zenon DEF AfterLookup
  <2>2. CASE access.kind = "invited"
    <3>1. Goto("patch", [found EXCEPT !.access = access])
      BY <2>1, <2>2
    <3> QED
      BY <1>2, <1>6, <3>1
  <2>3. CASE access.kind # "invited"
    <3>1. Goto("set", [found EXCEPT !.access = access])
      BY <2>1, <2>3
    <3> QED
      BY <1>2, <1>6, <3>1
  <2> QED
    BY <2>2, <2>3
<1> QED
  BY <1>0, <1>1, <1>3, <1>4, <1>5, <1>6

-----------------------------------------------------------------------------
(* The calls, one by one *)

LEMMA ResolveStep ==
    ASSUME IInv, ResolveRepositoryAccess
    PROVE  IInv'
<1> DEFINE answer == [archived |-> mirror, access |-> NoAccess]
<1>1. /\ pc = "resolve" /\ (Calm \/ Disturb) /\ CallsGitHub /\ KeepRemote
      /\ UNCHANGED <<mirror, agreed, accepted>>
  BY DEF ResolveRepositoryAccess, Resolve, Unresolved
<1>2. RemoteStep
  BY <1>1, RemoteUntouched DEF IInv, RemoteInv
<1>3. obj.phase \in {"live", "deleting"}
  BY <1>1, StatusType DEF IInv, CopyInv, Phases
<1>4. CASE dependencyCache
              /\ Goto(IF obj.phase = "live" THEN "getRepository" ELSE "findDirect", answer)
  <2>1. /\ pc' = IF obj.phase = "live" THEN "getRepository" ELSE "findDirect"
        /\ found' = answer /\ UNCHANGED <<queued, obj, fresh, report>>
    BY <1>4 DEF Goto
  <2>2. found' \in Answers
    BY <2>1, AccessTypes DEF Answers, IInv, RemoteInv
  <2>3. RevokeInv'
    BY <2>1 DEF RevokeInv
  <2> QED
    BY <1>1, <1>2, <1>3, <2>1, <2>2, <2>3, GoingOn DEF Continues, Labels
<1>5. CASE obj.phase = "live" /\ Conclude(Unreported("Failed"))
  <2>1. /\ pc' = "status" /\ UNCHANGED <<queued, obj, fresh, found>>
        /\ report' = Unreported("Failed")
    BY <1>5 DEF Conclude
  <2> QED
    BY <1>1, <1>2, <1>5, <2>1, ReportingFailure
<1>6. CASE Return(TRUE)
  BY <1>1, <1>2, <1>6, Returns
<1> QED
  BY <1>4, <1>5, <1>6, Zenon DEF ResolveRepositoryAccess, Resolve

LEMMA GetRepositoryStep ==
    ASSUME IInv, GetRemoteRepository
    PROVE  IInv'
<1>1. /\ pc = "getRepository" /\ CallsGitHub /\ KeepRemote
      /\ UNCHANGED <<mirror, agreed, accepted>> /\ (Calm \/ Disturb)
  BY DEF GetRemoteRepository, LocalStep
<1>2. RemoteStep
  BY <1>1, RemoteUntouched DEF IInv, RemoteInv
<1>3. obj.phase = "live" /\ found \in Answers
  BY <1>1 DEF IInv, WorkInv, Labels
<1>4. CASE Goto("findDirect", [found EXCEPT !.archived = remote.repo = "archived"])
  <2>1. /\ pc' = "findDirect" /\ UNCHANGED <<queued, obj, fresh, report>>
        /\ found' = [found EXCEPT !.archived = remote.repo = "archived"]
    BY <1>4 DEF Goto
  <2>2. found' \in Answers
    BY <1>3, <2>1 DEF Answers
  <2>3. RevokeInv'
    BY <2>1 DEF RevokeInv
  <2> QED
    BY <1>1, <1>2, <1>3, <2>1, <2>2, <2>3, GoingOn DEF Continues, Labels
<1>5. CASE Conclude(Unreported("Failed"))
  <2>1. /\ pc' = "status" /\ UNCHANGED <<queued, obj, fresh, found>>
        /\ report' = Unreported("Failed")
    BY <1>5 DEF Conclude
  <2> QED
    BY <1>1, <1>2, <1>3, <2>1, ReportingFailure
<1> QED
  BY <1>4, <1>5, Zenon DEF GetRemoteRepository

LEMMA FindDirectStep ==
    ASSUME IInv, FindDirectCollaborator
    PROVE  IInv'
<1>1. /\ pc = "findDirect" /\ LocalStep /\ CallsGitHub /\ KeepRemote
      /\ UNCHANGED <<cr, remote, mirror, cleared, accepted>> /\ (Calm \/ Disturb)
      /\ found \in Answers
  BY DEF FindDirectCollaborator, LocalStep, CallsGitHub, KeepRemote, clusterVars,
         IInv, WorkInv, Labels
<1>2. agreed' \in BOOLEAN /\ (agreed => agreed')
  <2>1. agreed \in BOOLEAN
    BY DEF IInv, RemoteInv
  <2>2. UNCHANGED agreed \/ agreed' = (agreed \/ remote.direct = cr.spec)
    BY Zenon DEF FindDirectCollaborator
  <2>3. (agreed \/ remote.direct = cr.spec) \in BOOLEAN
    OBVIOUS
  <2> QED
    BY <2>1, <2>2, <2>3, Zenon
<1>3. RemoteStep
  BY <1>1, <1>2, RemoteUntouched
<1>4. Sound(remote) /\ (cr.phase = "deleting" /\ Clear(remote) => cleared)
      /\ (fresh => obj = cr)
  BY DEF IInv, RemoteInv, CopyInv
<1>5. CASE Goto("findInvitation", found) /\ remote.direct = Nothing
  <2>1. pc' = "findInvitation" /\ found' = found /\ UNCHANGED <<queued, obj, fresh, report>>
    BY <1>5 DEF Goto
  <2>2. RevokeInv'
    BY <1>1, <1>5, <2>1 DEF RevokeInv
  <2> QED
    BY <1>1, <1>3, <2>1, <2>2, GoingOn DEF Continues, Labels
<1>6. CASE AfterLookup(NoAccess) /\ remote.repo = "absent" /\ Calm
  <2>1. fresh /\ obj.phase = "deleting" => LookedUp(NoAccess)
    BY <1>4, <1>6 DEF LookedUp, NoAccess, Sound
  <2> QED
    BY <1>1, <1>3, <1>6, <2>1, Looking, AccessTypes DEF NoAccess
<1>7. CASE AfterLookup(Direct(remote.direct)) /\ remote.direct # Nothing /\ Calm
           /\ agreed' = (agreed \/ remote.direct = cr.spec)
  <2> DEFINE access == Direct(remote.direct)
  <2>1. access \in Accesses /\ access.permission = remote.direct /\ access.kind = "direct"
    BY <1>4, <1>7, AccessTypes DEF Sound, Remotes, Direct
  <2>2. fresh /\ access.permission = obj.spec => agreed'
    BY <1>4, <1>7, <2>1
  <2>3. LookedUp(access)
    BY <1>4, <1>7, <2>1 DEF LookedUp, Sound
  <2>4. AfterLookup(access)
    BY <1>7
  <2> HIDE DEF access
  <2> QED
    BY <1>1, <1>3, <1>7, <2>1, <2>2, <2>3, <2>4, Looking
<1>8. CASE Fails
  BY <1>1, <1>3, <1>8, Failing
<1> QED
  BY <1>5, <1>6, <1>7, <1>8, Zenon DEF FindDirectCollaborator

LEMMA FindInvitationStep ==
    ASSUME IInv, FindRepositoryInvitation
    PROVE  IInv'
<1>1. /\ pc = "findInvitation" /\ LocalStep /\ CallsGitHub /\ KeepRemote
      /\ UNCHANGED <<cr, remote, mirror, cleared, accepted, agreed>> /\ (Calm \/ Disturb)
  BY DEF FindRepositoryInvitation, LocalStep, CallsGitHub, KeepRemote, clusterVars
<1>2. RemoteStep
  BY <1>1, RemoteUntouched DEF IInv, RemoteInv
<1>3. /\ Sound(remote) /\ (cr.phase = "deleting" /\ Clear(remote) => cleared)
      /\ fresh => obj = cr
      /\ fresh /\ obj.phase = "deleting" => remote.direct = Nothing \/ accepted
  BY <1>1 DEF IInv, RemoteInv, CopyInv, RevokeInv
<1>4. CASE AfterLookup(NoAccess) /\ remote.invitation = Nothing /\ Calm
  <2>1. fresh /\ obj.phase = "deleting" => LookedUp(NoAccess)
    BY <1>3, <1>4 DEF LookedUp, NoAccess, Clear
  <2> QED
    BY <1>1, <1>2, <1>4, <2>1, Looking, AccessTypes DEF NoAccess
<1>5. CASE AfterLookup(Invited(remote.invitation, remote.id)) /\ remote.invitation # Nothing
           /\ Calm
  <2> DEFINE access == Invited(remote.invitation, remote.id)
  <2>1. remote.id \in 1..MaxInvitations /\ remote.invitation \in Specs
    BY <1>3, <1>5, InvitationsAssumption DEF Sound, Remotes
  <2>2. access \in Accesses /\ access.kind = "invited" /\ access.id = remote.id
    BY <2>1, AccessTypes DEF Invited
  <2>3. AfterLookup(access)
    BY <1>5
  <2> HIDE DEF access
  <2>4. fresh /\ obj.phase = "deleting" => LookedUp(access)
    BY <1>3, <2>2 DEF LookedUp
  <2> QED
    BY <1>1, <1>2, <1>5, <2>2, <2>3, <2>4, Looking
<1>6. CASE Fails
  BY <1>1, <1>2, <1>6, Failing
<1>7. CASE remote.invitation = Nothing
  BY <1>4, <1>6, <1>7, Zenon DEF FindRepositoryInvitation
<1>8. CASE remote.invitation # Nothing
  BY <1>5, <1>6, <1>8, Zenon DEF FindRepositoryInvitation
<1> QED
  BY <1>7, <1>8

LEMMA SetStep ==
    ASSUME IInv, SetCollaboratorPermission
    PROVE  IInv'
<1>1. /\ pc = "set" /\ CallsGitHub /\ UNCHANGED <<cr, mirror, accepted>> /\ (Calm \/ Disturb)
  BY DEF SetCollaboratorPermission, CallsGitHub, clusterVars
<1>2. /\ obj.phase = "live" /\ obj.spec \in Specs /\ obj.spec # Nothing
      /\ mirror \in BOOLEAN /\ agreed \in BOOLEAN /\ accepted \in BOOLEAN
      /\ Sound(remote) /\ (fresh => obj = cr)
  BY <1>1, StatusType, NothingAssumption DEF IInv, WorkInv, RemoteInv, CopyInv
<1>3. ASSUME NEW r \in Granted, remote.repo = "open"
      PROVE  /\ Sound(r)
             /\ r.direct # Nothing => r.direct = obj.spec
             /\ r.direct = Nothing => r.invitation = obj.spec /\ r.id \in 1..MaxInvitations
  <2>1. /\ remote \in Remotes /\ remote.id \in 0..MaxInvitations
        /\ remote.invitation # Nothing => remote.id # 0
    BY <1>2 DEF Sound, Remotes
  <2>2. CASE r = [remote EXCEPT !.direct = obj.spec, !.invitation = Nothing]
    <3>1. /\ r \in Remotes /\ r.direct = obj.spec /\ r.invitation = Nothing /\ r.repo = "open"
      BY <1>2, <1>3, <2>1, <2>2 DEF Remotes
    <3> QED
      BY <1>2, <3>1 DEF Sound
  <2>3. CASE /\ remote.direct = Nothing /\ remote.invitation # Nothing
             /\ r = [remote EXCEPT !.invitation = obj.spec]
    <3>1. /\ r \in Remotes /\ r.direct = Nothing /\ r.invitation = obj.spec
          /\ r.repo = "open" /\ r.id = remote.id
      BY <1>2, <1>3, <2>1, <2>3 DEF Remotes
    <3> QED
      BY <1>2, <2>1, <2>3, <3>1, InvitationsAssumption DEF Sound
  <2>4. CASE /\ remote.direct = Nothing /\ remote.id < MaxInvitations
             /\ r = [remote EXCEPT !.invitation = obj.spec, !.id = remote.id + 1]
    <3>1. remote.id + 1 \in 1..MaxInvitations /\ remote.id + 1 \in 0..MaxInvitations
      BY <2>1, <2>4, InvitationsAssumption
    <3>2. /\ r \in Remotes /\ r.direct = Nothing /\ r.invitation = obj.spec
          /\ r.repo = "open" /\ r.id = remote.id + 1
      <4> DEFINE next == remote.id + 1
      <4>1. next \in 0..MaxInvitations /\ r = [remote EXCEPT !.invitation = obj.spec, !.id = next]
        BY <2>4, <3>1
      <4> HIDE DEF next
      <4>2. /\ r \in Remotes /\ r.direct = Nothing /\ r.invitation = obj.spec
            /\ r.repo = "open" /\ r.id = next
        BY <1>2, <1>3, <2>1, <2>4, <4>1 DEF Remotes
      <4> QED
        BY <4>2 DEF next
    <3> QED
      BY <1>2, <3>1, <3>2, InvitationsAssumption DEF Sound
  <2> QED
    BY <2>2, <2>3, <2>4 DEF Granted
<1>4. CASE \E r \in Granted :
              /\ SetRemote(r)
              /\ Conclude(Finished(IF r.direct # Nothing THEN Direct(obj.spec)
                                   ELSE Invited(obj.spec, r.id)))
              /\ agreed' = (agreed \/ r.direct = cr.spec)
              /\ remote.repo = "open"
  <2>1. PICK r \in Granted :
              /\ SetRemote(r)
              /\ Conclude(Finished(IF r.direct # Nothing THEN Direct(obj.spec)
                                   ELSE Invited(obj.spec, r.id)))
              /\ agreed' = (agreed \/ r.direct = cr.spec)
              /\ remote.repo = "open"
    BY <1>4
  <2>2. agreed' \in BOOLEAN /\ (agreed => agreed') /\ (r.direct = cr.spec => agreed')
    <3>1. (agreed \/ r.direct = cr.spec) \in BOOLEAN
      OBVIOUS
    <3> QED
      BY <2>1, <3>1, Zenon
  <2>3. RemoteStep
    BY <1>1, <1>2, <1>3, <2>1, <2>2, RemoteChanged
  <2> DEFINE access == IF r.direct # Nothing THEN Direct(obj.spec)
                                             ELSE Invited(obj.spec, r.id)
  <2>4. access \in Accesses
    BY <1>2, <1>3, <2>1, AccessTypes
  <2>5. /\ r.direct # Nothing => access.kind = "direct"
        /\ r.direct = Nothing => access.kind = "invited"
    BY DEF Direct, Invited
  <2>6. Conclude(Finished(access))
    BY <2>1
  <2> HIDE DEF access
  <2> DEFINE cond == IF access.kind = "invited" THEN "InvitationPending" ELSE "Ready"
  <2>7. /\ pc' = "status" /\ UNCHANGED <<queued, obj, fresh, found>>
        /\ report' = Reported(access, cond)
    BY <2>6 DEF Conclude, Finished
  <2>8. cond \in {"Ready", "InvitationPending", "RepositoryArchived"}
        /\ (fresh /\ cond = "Ready" => agreed')
    BY <1>2, <1>3, <2>1, <2>2, <2>5
  <2> QED
    BY <1>1, <1>2, <2>3, <2>4, <2>7, <2>8, ReportingAccess
<1>5. CASE /\ remote.repo = "open" /\ \E r \in Granted : SetRemote(r)
           /\ Conclude(Unreported("Failed")) /\ UNCHANGED agreed
  <2>1. RemoteStep
    BY <1>1, <1>2, <1>3, <1>5, RemoteChanged
  <2>2. /\ pc' = "status" /\ UNCHANGED <<queued, obj, fresh, found>>
        /\ report' = Unreported("Failed")
    BY <1>5 DEF Conclude
  <2> QED
    BY <1>1, <1>2, <2>1, <2>2, ReportingFailure
<1>6. CASE /\ Conclude(Paused(NoAccess)) \/ Conclude(Unreported("Failed"))
           /\ KeepRemote /\ UNCHANGED agreed
  <2>1. RemoteStep
    BY <1>1, <1>2, <1>6, RemoteUntouched
  <2>2. /\ pc' = "status" /\ UNCHANGED <<queued, obj, fresh, found>>
        /\ \/ report' = Unreported("Failed")
           \/ report' = Unreported("RepositoryArchived")
    BY <1>6 DEF Conclude, Paused, NoAccess
  <2> QED
    BY <1>1, <1>2, <2>1, <2>2, ReportingFailure
<1> QED
  BY <1>4, <1>5, <1>6, Zenon DEF SetCollaboratorPermission

LEMMA PatchStep ==
    ASSUME IInv, UpdateRepositoryInvitation
    PROVE  IInv'
<1>1. /\ pc = "patch" /\ CallsGitHub /\ UNCHANGED <<cr, mirror, accepted, agreed>>
      /\ Calm \/ Disturb
  BY DEF UpdateRepositoryInvitation, CallsGitHub, clusterVars
<1>2. /\ obj.phase = "live" /\ obj.spec \in Specs /\ obj.spec # Nothing
      /\ mirror \in BOOLEAN /\ agreed \in BOOLEAN /\ accepted \in BOOLEAN
      /\ Sound(remote)
  BY <1>1, StatusType, NothingAssumption DEF IInv, WorkInv, RemoteInv
<1>3. CASE /\ remote.repo = "open" /\ remote.invitation # Nothing
           /\ SetRemote([remote EXCEPT !.invitation = obj.spec])
           /\ \/ Conclude(Finished(Invited(obj.spec, remote.id)))
              \/ Conclude(Unreported("Failed"))
  <2> DEFINE r == [remote EXCEPT !.invitation = obj.spec]
  <2>1. /\ r \in Remotes /\ r.repo = "open" /\ r.direct = remote.direct
        /\ r.invitation = obj.spec /\ r.id = remote.id
    BY <1>2, <1>3 DEF Sound, Remotes
  <2>2. Sound(r) /\ remote.id \in 1..MaxInvitations
    BY <1>2, <1>3, <2>1, InvitationsAssumption DEF Sound, Remotes
  <2>3. SetRemote(r)
    BY <1>3
  <2> HIDE DEF r
  <2>4. RemoteStep
    BY <1>1, <1>2, <2>2, <2>3, RemoteChanged
  <2>5. CASE Conclude(Unreported("Failed"))
    <3>1. /\ pc' = "status" /\ UNCHANGED <<queued, obj, fresh, found>>
          /\ report' = Unreported("Failed")
      BY <2>5 DEF Conclude
    <3> QED
      BY <1>1, <1>2, <2>4, <3>1, ReportingFailure
  <2>6. CASE Conclude(Finished(Invited(obj.spec, remote.id)))
    <3> DEFINE access == Invited(obj.spec, remote.id)
    <3>1. access \in Accesses
      BY <1>2, <2>2, AccessTypes
    <3>2. access.kind = "invited"
      BY DEF Invited
    <3>3. Conclude(Finished(access))
      BY <2>6
    <3> HIDE DEF access
    <3>4. /\ pc' = "status" /\ UNCHANGED <<queued, obj, fresh, found>>
          /\ report' = Reported(access, "InvitationPending")
      BY <3>2, <3>3 DEF Conclude, Finished
    <3> QED
      BY <1>1, <1>2, <2>4, <3>1, <3>4, ReportingAccess
  <2> QED
    BY <1>3, <2>5, <2>6
<1>4. CASE /\ Conclude(Paused(NoAccess)) \/ Conclude(Unreported("Failed"))
           /\ KeepRemote
  <2>1. RemoteStep
    BY <1>1, <1>2, <1>4, RemoteUntouched
  <2>2. /\ pc' = "status" /\ UNCHANGED <<queued, obj, fresh, found>>
        /\ \/ report' = Unreported("Failed")
           \/ report' = Unreported("RepositoryArchived")
    BY <1>4 DEF Conclude, Paused, NoAccess
  <2> QED
    BY <1>1, <1>2, <2>1, <2>2, ReportingFailure
<1> QED
  BY <1>3, <1>4, Zenon DEF UpdateRepositoryInvitation, StillPending

\* The DELETE takes away what the lookup has found, unless the status misleads it.
LEMMA RevokedIsClear ==
    ASSUME Sound(remote), found.access \in Accesses, LookedUp(found.access)
    PROVE  Clear(Revoked) \/ cleared \/ accepted \/ obj.status.pending
<1>1. /\ remote \in Remotes /\ (remote.direct = Nothing \/ remote.invitation = Nothing)
  BY DEF Sound
<1>2. CASE RevokedInvitation = 0
  <2>1. Revoked = [remote EXCEPT !.direct = Nothing]
    BY <1>2 DEF Revoked
  <2>2. /\ Revoked \in Remotes /\ Revoked.direct = Nothing
        /\ Revoked.invitation = remote.invitation
    BY <1>1, <2>1 DEF Remotes
  <2>3. found.access.kind # "invited"
    BY <1>2 DEF RevokedInvitation, Accesses
  <2>4. found.access.kind \in {"none", "direct"}
    BY <2>3 DEF Accesses
  <2> QED
    BY <1>1, <2>2, <2>4 DEF Clear, LookedUp
<1>3. CASE RevokedInvitation # 0
  <2>1. CASE StillPending(RevokedInvitation)
    <3>1. Revoked = [remote EXCEPT !.invitation = Nothing]
      BY <1>3, <2>1 DEF Revoked
    <3>2. /\ Revoked \in Remotes /\ Revoked.invitation = Nothing
          /\ Revoked.direct = remote.direct
      BY <1>1, <3>1 DEF Remotes
    <3>3. CASE found.access.kind = "invited"
      BY <1>1, <3>2, <3>3 DEF Clear, LookedUp
    <3>4. CASE found.access.kind # "invited"
      BY <1>1, <1>3, <3>2, <3>4 DEF Clear, RevokedInvitation
    <3> QED
      BY <3>3, <3>4
  <2>2. CASE ~StillPending(RevokedInvitation)
    <3>1. Revoked = remote
      BY <1>3, <2>2 DEF Revoked
    <3>2. CASE found.access.kind = "invited"
      <4>1. RevokedInvitation = found.access.id
        BY <3>2 DEF RevokedInvitation
      <4>2. remote.invitation = Nothing
        BY <2>2, <3>2, <4>1 DEF StillPending, LookedUp
      <4> QED
        BY <3>1, <3>2, <4>2 DEF Clear, LookedUp
    <3>3. CASE found.access.kind # "invited"
      BY <1>3, <3>1, <3>3 DEF RevokedInvitation
    <3> QED
      BY <3>2, <3>3
  <2> QED
    BY <2>1, <2>2
<1> QED
  BY <1>2, <1>3

LEMMA RemoveStep ==
    ASSUME IInv, RemoveCollaboratorAccess
    PROVE  IInv'
<1>1. /\ pc = "remove" /\ CallsGitHub /\ UNCHANGED <<cr, mirror, accepted, agreed>>
      /\ Calm \/ Disturb
  BY DEF RemoveCollaboratorAccess, CallsGitHub, clusterVars
<1>2. /\ obj.phase = "deleting" /\ found \in Answers /\ (fresh => LookedUp(found.access))
      /\ mirror \in BOOLEAN /\ agreed \in BOOLEAN /\ accepted \in BOOLEAN
      /\ Sound(remote) /\ (fresh => obj = cr)
  BY <1>1 DEF IInv, WorkInv, RemoteInv, RevokeInv, CopyInv, Labels
<1>3. Sound(Revoked)
  <2>1. /\ remote \in Remotes /\ (remote.direct = Nothing \/ remote.invitation = Nothing)
        /\ remote.invitation # Nothing => remote.id # 0
        /\ remote.repo = "absent" => Clear(remote)
    BY <1>2 DEF Sound
  <2>2. \/ Revoked = [remote EXCEPT !.direct = Nothing]
        \/ Revoked = [remote EXCEPT !.invitation = Nothing]
        \/ Revoked = remote
    BY DEF Revoked
  <2>3. /\ Revoked \in Remotes /\ Revoked.repo = remote.repo /\ Revoked.id = remote.id
        /\ Revoked.direct \in {remote.direct, Nothing}
        /\ Revoked.invitation \in {remote.invitation, Nothing}
    BY <2>1, <2>2 DEF Remotes
  <2> QED
    BY <2>1, <2>3 DEF Sound, Clear
<1>4. CASE SetRemote(Revoked) /\ Goto("removeFinalizer", found)
  <2>1. RemoteStep
    BY <1>1, <1>2, <1>3, <1>4, RemoteChanged
  <2>2. pc' = "removeFinalizer" /\ found' = found /\ UNCHANGED <<queued, obj, fresh, report>>
    BY <1>4 DEF Goto
  <2>3. RevokeInv'
    <3>1. fresh => Clear(Revoked) \/ cleared \/ accepted \/ obj.status.pending
      BY <1>2, RevokedIsClear DEF Answers
    <3>2. fresh /\ Clear(Revoked) => cleared'
      BY <1>2, <1>4 DEF SetRemote
    <3> QED
      BY <2>1, <2>2, <3>1, <3>2 DEF RevokeInv, RemoteStep
  <2> QED
    BY <1>1, <1>2, <2>1, <2>2, <2>3, GoingOn DEF Continues
<1>5. CASE SetRemote(Revoked) /\ Return(TRUE)
  <2>1. RemoteStep
    BY <1>1, <1>2, <1>3, <1>5, RemoteChanged
  <2> QED
    BY <1>1, <1>5, <2>1, Returns
<1>6. CASE KeepRemote /\ Return(TRUE)
  <2>1. RemoteStep
    BY <1>1, <1>2, <1>6, RemoteUntouched
  <2> QED
    BY <1>1, <1>6, <2>1, Returns
<1> QED
  BY <1>4, <1>5, <1>6, Zenon DEF RemoveCollaboratorAccess

-----------------------------------------------------------------------------
(* The other steps *)

\* The part of `cleared' in a step that is not a change on GitHub.
Remembered ==
    \/ UNCHANGED cleared
    \/ cleared' = (cr'.phase = "deleting" /\ (cleared \/ Clear(remote)))

LEMMA RememberedType ==
    ASSUME RemoteInv, Remembered
    PROVE  /\ cleared' \in BOOLEAN
           /\ cr'.phase = "deleting" /\ cleared => cleared'
           /\ cr'.phase = "deleting" /\ cr.phase = "deleting" /\ Clear(remote) => cleared'
BY Zenon DEF RemoteInv, Remembered

LEMMA CommonKeeps ==
    ASSUME IInv, Common("resolve"), UNCHANGED <<remote, mirror, agreed, accepted>>, Remembered
    PROVE  IInv'
<1>1. ManagedInv(Statuses)' /\ CopyInv' /\ Outcome("resolve")
  BY CommonStep DEF IInv
<1>2. cr' = cr \/ Guarded \/ Written(report) \/ Gone
  BY <1>1 DEF Outcome
<1>3. cr'.phase \in {cr.phase, "absent"}
  BY <1>2 DEF Guarded, Written, Gone
<1>4. /\ cleared' \in BOOLEAN
      /\ cr'.phase = "deleting" /\ cleared => cleared'
      /\ cr'.phase = "deleting" /\ cr.phase = "deleting" /\ Clear(remote) => cleared'
  BY RememberedType DEF IInv
<1>5. RemoteInv'
  BY <1>3, <1>4 DEF RemoteInv, Sound, Clear, IInv
<1>6. WorkInv'
  BY <1>1 DEF Outcome, Keeps, Drops, Takes, WorkInv, IInv, Labels
<1>7. ReadyInv'
  <2>1. /\ cr'.phase # "absent" => cr'.status.obsGen <= cr'.gen
        /\ ReadyIsAccess'
    <3>1. CASE cr' = cr
      BY <3>1 DEF ReadyInv, ReadyIsAccess, IInv
    <3>2. CASE Guarded
      BY <3>2 DEF Guarded, ReadyInv, ReadyIsAccess, IInv
    <3>3. CASE Written(report)
      <4>1. report.obsGen = cr.gen /\ (report.cond = "Ready" => agreed)
        BY <3>3 DEF Written, IInv, ReadyInv, CopyInv
      <4>2. cr.gen \in Nat
        BY StatusType DEF IInv
      <4> QED
        BY <3>3, <4>1, <4>2 DEF Written, ReadyIsAccess
    <3>4. CASE Gone
      BY <3>4 DEF Gone, ReadyIsAccess
    <3> QED
      BY <1>2, <3>1, <3>2, <3>3, <3>4
  <2>2. pc' = "status" /\ fresh' =>
          report'.obsGen = obj'.gen /\ (report'.cond = "Ready" => agreed')
    BY <1>1 DEF Outcome, Keeps, Drops, Takes, ReadyInv, IInv
  <2> QED
    BY <2>1, <2>2 DEF ReadyInv
<1>8. RevokeInv'
  <2>1. CASE Keeps
    <3>1. fresh' => fresh /\ obj' = obj /\ obj = cr /\ cr' = cr
      BY <2>1 DEF Keeps, IInv, CopyInv
    <3>2. pc \in {"remove", "removeFinalizer"} => obj.phase = "deleting"
      BY DEF IInv, CopyInv, WorkInv
    <3> QED
      BY <1>4, <2>1, <3>1, <3>2 DEF Keeps, IInv, RevokeInv, LookedUp
  <2>2. CASE Drops \/ Takes("resolve")
    BY <2>2 DEF Drops, Takes, RevokeInv
  <2> QED
    BY <1>1, <2>1, <2>2 DEF Outcome
<1> QED
  BY <1>1, <1>5, <1>6, <1>7, <1>8 DEF IInv

LEMMA UsersKeep ==
    ASSUME IInv, Users
    PROVE  IInv'
<1>1. Remembered /\ UNCHANGED <<remote, mirror, accepted>>
  BY Zenon DEF Users, Remembered
<1>2. CASE ChangeDependency /\ UNCHANGED agreed
  BY <1>1, <1>2, CommonKeeps DEF Common
<1>3. CASE (EditSpec \/ EditPolicy \/ DeleteObject) /\ agreed' \in BOOLEAN
  <2>1. ManagedInv(Statuses)' /\ CopyInv' /\ UserOutcome
    BY <1>3, UserStep DEF IInv
  <2>2. /\ cleared' \in BOOLEAN
        /\ cleared' = (cr'.phase = "deleting" /\ (cleared \/ Clear(remote)))
    BY <1>1, RememberedType DEF IInv, Users
  <2>3. RemoteInv'
    BY <1>1, <1>3, <2>2 DEF RemoteInv, Sound, Clear, IInv
  <2>4. WorkInv' /\ RevokeInv'
    BY <2>1 DEF UserOutcome, Keeps, WorkInv, RevokeInv, IInv, Labels
  <2>5. ReadyInv'
    <3>1. CASE Edited
      <4>1. cr.status \in Statuses /\ cr.gen \in Nat /\ cr.status.obsGen <= cr.gen
        BY <3>1, StatusType DEF Edited, IInv, ReadyInv
      <4>2. cr.status.obsGen \in Nat
        BY <4>1 DEF Statuses
      <4> QED
        BY <2>1, <3>1, <4>1, <4>2 DEF Edited, UserOutcome, ReadyInv, ReadyIsAccess
    <3>2. CASE Gone
      BY <2>1, <3>2 DEF Gone, UserOutcome, ReadyInv, ReadyIsAccess
    <3> QED
      BY <2>1, <3>1, <3>2 DEF UserOutcome
  <2> QED
    BY <2>1, <2>3, <2>4, <2>5 DEF IInv
<1>4. agreed \in BOOLEAN
  BY DEF IInv, RemoteInv
<1> QED
  BY <1>2, <1>3, <1>4 DEF Users

\* Changes on GitHub that the operator does not make.
LEMMA OthersKeep ==
    ASSUME IInv, Calm \/ Disturb,
           UNCHANGED <<clusterVars, queued, dependencyVars, pc, localVars, agreed>>,
           RemoteStep,
           cr.phase = "deleting" => (remote.direct = Nothing => remote'.direct = Nothing)
                                      \/ accepted',
           remote'.invitation # Nothing =>
              remote.invitation # Nothing /\ remote'.id = remote.id
    PROVE  IInv'
<1>1. UNCHANGED <<cr, cache, cacheFresh, queued, dependency, dependencyCache, pc, obj, fresh,
                  found, report, agreed>>
  BY DEF clusterVars, dependencyVars, localVars
<1>2. disturbances' \in 0..MaxDisturbances
  BY DisturbanceType DEF IInv, ManagedInv
<1>3. ManagedInv(Statuses)' /\ CopyInv'
  BY <1>1, <1>2 DEF IInv, ManagedInv, CopyInv
<1>4. WorkInv' /\ ReadyInv'
  BY <1>1 DEF IInv, WorkInv, ReadyInv, ReadyIsAccess
<1>5. RevokeInv'
  <2>1. fresh => obj = cr
    BY DEF IInv, CopyInv
  <2>2. pc \in {"remove", "removeFinalizer"} => obj.phase = "deleting"
    BY DEF IInv, CopyInv, WorkInv
  <2> QED
    BY <1>1, <2>1, <2>2 DEF IInv, RevokeInv, LookedUp, RemoteStep
<1> QED
  BY <1>3, <1>4, <1>5 DEF IInv, RemoteStep

LEMMA AcceptKeeps ==
    ASSUME IInv, Accept
    PROVE  IInv'
<1> DEFINE r == [remote EXCEPT !.direct = remote.invitation, !.invitation = Nothing]
<1>1. /\ remote.invitation # Nothing /\ SetRemote(r)
      /\ accepted' = (accepted \/ cr.phase = "deleting")
      /\ UNCHANGED <<managedVars, mirror, agreed>>
  BY DEF Accept
<1>2. /\ UNCHANGED <<clusterVars, queued, dependencyVars, pc, localVars, disturbances>>
      /\ UNCHANGED cr
  BY <1>1 DEF managedVars, clusterVars
<1>3. /\ Sound(remote) /\ remote \in Remotes /\ remote.repo # "absent"
      /\ mirror \in BOOLEAN /\ agreed \in BOOLEAN /\ accepted \in BOOLEAN
  BY <1>1 DEF IInv, RemoteInv, Sound, Clear
<1>4. /\ r \in Remotes /\ r.invitation = Nothing /\ r.repo = remote.repo
  BY <1>3 DEF Remotes
<1>5. Sound(r)
  BY <1>3, <1>4 DEF Sound
<1>6. accepted' \in BOOLEAN /\ (accepted => accepted') /\ (cr.phase = "deleting" => accepted')
  BY <1>1, <1>3, Zenon
<1> HIDE DEF r
<1>7. RemoteStep
  BY <1>1, <1>2, <1>3, <1>5, <1>6, RemoteChanged
<1>8. remote'.invitation = Nothing
  BY <1>1, <1>4 DEF SetRemote
<1> QED
  BY <1>1, <1>2, <1>6, <1>7, <1>8, OthersKeep DEF Calm

LEMMA AdministrateKeeps ==
    ASSUME IInv, Administrate
    PROVE  IInv'
<1>1. /\ Disturb /\ UNCHANGED <<clusterVars, queued, dependencyVars, pc, localVars>>
      /\ UNCHANGED <<cr, mirror, agreed, accepted>>
  BY DEF Administrate, clusterVars
<1>2. /\ Sound(remote) /\ remote \in Remotes
      /\ mirror \in BOOLEAN /\ agreed \in BOOLEAN /\ accepted \in BOOLEAN
  BY DEF IInv, RemoteInv, Sound
<1>3. ASSUME NEW r, SetRemote(r), Sound(r), remote.direct = Nothing => r.direct = Nothing,
             r.invitation # Nothing => remote.invitation # Nothing /\ r.id = remote.id
      PROVE  IInv'
  <2>1. RemoteStep
    BY <1>1, <1>2, <1>3, RemoteChanged
  <2>2. remote' = r
    BY <1>3 DEF SetRemote
  <2> QED
    BY <1>1, <1>3, <2>1, <2>2, OthersKeep
<1>4. CASE \E p \in (Permissions \cup {Nothing}) \ {remote.direct} :
              remote.direct # Nothing /\ SetRemote([remote EXCEPT !.direct = p])
  <2>1. PICK p \in (Permissions \cup {Nothing}) \ {remote.direct} :
              remote.direct # Nothing /\ SetRemote([remote EXCEPT !.direct = p])
    BY <1>4
  <2> DEFINE r == [remote EXCEPT !.direct = p]
  <2>2. /\ r \in Remotes /\ r.direct = p /\ r.invitation = remote.invitation /\ r.repo = remote.repo
        /\ r.id = remote.id
    BY <1>2, <2>1 DEF Remotes, Permissions
  <2>3. Sound(r)
    BY <1>2, <2>1, <2>2 DEF Sound, Clear
  <2>4. SetRemote(r)
    BY <2>1
  <2> HIDE DEF r
  <2> QED
    BY <1>2, <1>3, <2>1, <2>2, <2>3, <2>4 DEF Sound
<1>5. CASE SetRemote([remote EXCEPT !.invitation = Nothing])
  <2> DEFINE r == [remote EXCEPT !.invitation = Nothing]
  <2>1. /\ r \in Remotes /\ r.direct = remote.direct /\ r.invitation = Nothing
        /\ r.repo = remote.repo
    BY <1>2 DEF Remotes
  <2>2. Sound(r)
    BY <1>2, <2>1 DEF Sound, Clear
  <2>3. SetRemote(r)
    BY <1>5
  <2> HIDE DEF r
  <2> QED
    BY <1>3, <2>1, <2>2, <2>3
<1>6. CASE SetRemote([remote EXCEPT !.repo = IF @ = "open" THEN "archived" ELSE "open"])
  <2> DEFINE r == [remote EXCEPT !.repo = IF @ = "open" THEN "archived" ELSE "open"]
  <2>1. /\ r \in Remotes /\ r.direct = remote.direct /\ r.invitation = remote.invitation
        /\ r.repo # "absent" /\ r.id = remote.id
    BY <1>2 DEF Remotes
  <2>2. Sound(r)
    BY <1>2, <2>1 DEF Sound
  <2>3. SetRemote(r)
    BY <1>6
  <2> HIDE DEF r
  <2> QED
    BY <1>3, <2>1, <2>2, <2>3
<1>7. CASE SetRemote([NoRepository EXCEPT !.id = remote.id])
  <2> DEFINE r == [NoRepository EXCEPT !.id = remote.id]
  <2>1. /\ r \in Remotes /\ r.direct = Nothing /\ r.invitation = Nothing
    BY <1>2 DEF Remotes, NoRepository
  <2>2. Sound(r)
    BY <2>1 DEF Sound, Clear
  <2>3. SetRemote(r)
    BY <1>7
  <2> HIDE DEF r
  <2> QED
    BY <1>3, <2>1, <2>2, <2>3
<1> QED
  BY <1>4, <1>5, <1>6, <1>7 DEF Administrate

LEMMA SyncMirrorKeeps ==
    ASSUME IInv, SyncMirror
    PROVE  IInv'
<1>1. /\ UNCHANGED <<clusterVars, queued, dependencyVars, pc, localVars, disturbances>>
      /\ UNCHANGED <<cr, remote, cleared, agreed, accepted>> /\ mirror' \in BOOLEAN
  BY DEF SyncMirror, managedVars, clusterVars, KeepRemote
<1>2. RemoteStep
  BY <1>1 DEF IInv, RemoteInv, RemoteStep
<1> QED
  BY <1>1, <1>2, OthersKeep DEF Calm

LEMMA StutterKeeps ==
    ASSUME IInv, UNCHANGED vars
    PROVE  IInv'
<1>1. /\ UNCHANGED <<clusterVars, queued, dependencyVars, pc, localVars, disturbances>>
      /\ UNCHANGED <<cr, remote, mirror, cleared, agreed, accepted>>
  BY DEF vars, managedVars, clusterVars
<1>2. RemoteStep
  BY <1>1 DEF IInv, RemoteInv, RemoteStep
<1> QED
  BY <1>1, <1>2, OthersKeep DEF Calm

-----------------------------------------------------------------------------
(* The theorems *)

THEOREM Inductive == IInv /\ [Next]_vars => IInv'
<1> SUFFICES ASSUME IInv, [Next]_vars PROVE IInv'
  OBVIOUS
<1>1. CASE Reconcile \/ AddCollaboratorFinalizer \/ SetReadyCondition
           \/ RemoveCollaboratorFinalizer \/ Manager
  <2>1. Common("resolve") /\ UNCHANGED <<remote, mirror, agreed, accepted>> /\ Remembered
    BY <1>1 DEF Reconcile, AddCollaboratorFinalizer, SetReadyCondition,
                RemoveCollaboratorFinalizer, Manager, Common, KeepRemote, Remembered
  <2> QED
    BY <2>1, CommonKeeps
<1> QED
  BY <1>1, ResolveStep, GetRepositoryStep, FindDirectStep, FindInvitationStep, SetStep,
     PatchStep, RemoveStep, UsersKeep, AcceptKeeps, AdministrateKeeps, SyncMirrorKeeps,
     StutterKeeps DEF Next, WorkerStep

THEOREM Invariance == Spec => []IInv
BY Initially, Inductive, PTL DEF Spec

\* Every reachable state is well typed, whatever the permissions and the bounds, and an
\* invitation is never on top of direct access.
THEOREM TypeCorrect == Spec => []TypeOK
<1>1. IInv => TypeOK
  BY DEF IInv, ManagedInv, Objective, RemoteInv, Sound, Remotes, WorkInv, Labels, TypeOK,
         ManagedTypeOK, Permissions
<1> QED
  BY <1>1, Invariance, PTL

\* Ready=True for the current generation means that direct access as in the manifest has
\* been seen since it was written: the status is written under the resourceVersion of the
\* manifest it was computed from, and an invitation alone is reported as pending.
THEOREM ReadySafety == Spec => []ReadyIsAccess
<1>1. IInv => ReadyIsAccess
  BY DEF IInv, ReadyInv
<1> QED
  BY <1>1, Invariance, PTL

\* A finalizer under policy Revoke goes only when the access or the invitation that the
\* lookup of the same reconcile found is gone, unless the user accepted meanwhile or the
\* status still shows an invitation.
THEOREM Revocation == Spec => RevokeUnlessInvited
<1>1. IInv /\ [Next]_vars =>
        [Released /\ cr.policy = "Remove" => cleared \/ accepted \/ cr.status.pending]_vars
  <2> SUFFICES ASSUME IInv, Next, Released, cr.policy = "Remove"
               PROVE  cleared \/ accepted \/ cr.status.pending
    OBVIOUS
  <2>1. Released => fresh /\ pc = "removeFinalizer"
    <3>1. CASE Common("resolve")
      BY <3>1, CommonStep DEF IInv, Outcome, Guarded, Written, Gone, Released
    <3>2. CASE EditSpec \/ EditPolicy \/ DeleteObject
      BY <3>2, UserStep DEF IInv, UserOutcome, Edited, Gone, Drops, Released
    <3>3. CASE UNCHANGED cr
      BY <3>3 DEF Released
    <3>4. CallsGitHub \/ UNCHANGED managedVars \/ UNCHANGED clusterVars => UNCHANGED cr
      BY DEF CallsGitHub, managedVars, clusterVars
    <3>5. \/ Common("resolve") \/ EditSpec \/ EditPolicy \/ DeleteObject
          \/ CallsGitHub \/ UNCHANGED managedVars \/ UNCHANGED clusterVars
      <4>1. CASE Reconcile \/ WorkerStep
        BY <4>1, Zenon
        DEF Reconcile, WorkerStep, AddCollaboratorFinalizer, ResolveRepositoryAccess, Resolve,
            GetRemoteRepository, FindDirectCollaborator, FindRepositoryInvitation, LocalStep,
            SetCollaboratorPermission, UpdateRepositoryInvitation, SetReadyCondition,
            RemoveCollaboratorAccess, RemoveCollaboratorFinalizer, Common
      <4>2. CASE Manager \/ SyncMirror \/ Users \/ Accept \/ Administrate
        BY <4>2 DEF Manager, SyncMirror, Users, Accept, Administrate, Common
      <4> QED
        BY <4>1, <4>2 DEF Next
    <3> QED
      BY <3>1, <3>2, <3>3, <3>4, <3>5
  <2> QED
    BY <2>1 DEF IInv, CopyInv, RevokeInv
<1> QED
  BY <1>1, Invariance, PTL DEF Spec, RevokeUnlessInvited
=============================================================================
