---------------------------- MODULE SettingProofs ----------------------------
(***************************************************************************)
(* Proofs about the five small reconcilers of Settings: the types, that    *)
(* Ready is earned, and that a deletion removes what it has to and nothing *)
(* that is in use.  Every step of every controller is one of four kinds: a *)
(* call to GitHub, a step that all controllers share, a write by a user,   *)
(* or something that happens outside; each kind keeps the invariant.       *)
(***************************************************************************)
EXTENDS Settings, ManagedProofs

-----------------------------------------------------------------------------
(* The inductive invariant *)

Labels == {"idle", "addFinalizer", "resolve", "status", "removeFinalizer", "findUsers",
           "findVariables", "verify", "getTeam", "listTeams", "get", "set", "update",
           "remove"}

\* Who asks for users before anything is removed, and who has none.
Asking == {"team", "environment"}
Plain == {"member", "membership", "access"}

\* The resources that can refer to one of each kind.
Referring ==
    IF kind = "team" THEN {"memberships"}
    ELSE IF kind = "environment" THEN {"secrets", "variables"} ELSE {}

\* Which calls belong to a live resource, and which to a deletion.
LabelInv ==
    /\ pc \in Labels
    /\ kind \in Asking \cup Plain
    /\ pc \in {"verify", "get", "set", "update"} => obj.phase = "live"
    /\ pc \in {"findUsers", "findVariables", "remove"} => obj.phase = "deleting"
    /\ pc = "update" => obj.spec # Unmanaged
    /\ pc = "findVariables" => kind = "environment"

\* What a manifest may say: only that of a team leaves its value to others, and an
\* environment has one value.
Manifest(spec) ==
    /\ spec \in Values \/ (kind = "team" /\ spec = Unmanaged)
    /\ kind = "environment" => spec = There

SpecInv ==
    /\ cr.phase # "absent" => Manifest(cr.spec)
    /\ cache.phase # "absent" => Manifest(cache.spec)
    /\ obj.phase # "absent" => Manifest(obj.spec)

\* What can be on GitHub, for each kind.
Fits(r) ==
    /\ r \in Remotes
    /\ r.value = Nothing => ~r.pending
    /\ r.host \in Barren => r.value = Nothing
    /\ kind \in {"member", "team"} => r.host = "open"
    /\ kind = "environment" => r.value \in {There, Nothing}

RemoteInv == Fits(remote)

UsersInv == users \subseteq Referring /\ usersCache \subseteq Referring

HistoryInv == agreed \in BOOLEAN /\ cleared \in BOOLEAN /\ unguarded \subseteq UserKinds

\* A status is of a generation that has been.  The one to be written is of the worker's
\* copy, and if it says Ready, then it is still earned when that copy is current.
ReadyInv ==
    /\ cr.phase # "absent" => cr.status.obsGen <= cr.gen
    /\ cr.phase # "absent" /\ cr.status.cond = "Ready" /\ cr.status.obsGen = cr.gen =>
          agreed = TRUE
    /\ pc = "status" => report.obsGen = obj.gen
    /\ pc = "status" /\ fresh /\ report.cond = "Ready" => agreed = TRUE

\* A deletion gets to the finalizer when there was nothing on GitHub, and past the
\* search for users when the informers had shown none of any kind.
RemovalInv ==
    /\ pc = "removeFinalizer" /\ fresh /\ obj.policy = "Remove" => cleared = TRUE
    /\ pc = "findVariables" => "secrets" \in unguarded
    /\ pc \in {"resolve", "getTeam", "listTeams", "remove"} /\ obj.phase = "deleting" =>
          UserKinds \subseteq unguarded

IInv ==
    /\ ManagedInv(Statuses) /\ CopyInv
    /\ LabelInv /\ SpecInv /\ RemoteInv /\ UsersInv /\ HistoryInv
    /\ ReadyInv /\ RemovalInv

-----------------------------------------------------------------------------
(* The four kinds of steps *)

\* The worker knows more, and goes on to another call.
Continued ==
    /\ UNCHANGED <<queued, obj, fresh, report>>
    /\ pc' \in {"verify", "getTeam", "listTeams", "get", "set", "update", "resolve",
                "findVariables", "remove", "removeFinalizer"}
    /\ pc' \in {"verify", "get", "set", "update"} => obj.phase = "live"
    /\ pc' \in {"findVariables", "remove", "removeFinalizer"} => obj.phase = "deleting"
    /\ pc' = "update" => obj.spec # Unmanaged
    /\ pc' = "removeFinalizer" => remote'.value = Nothing
    /\ pc' = "findVariables" => kind = "environment" /\ "secrets" \notin usersCache
    /\ \/ pc \in {"resolve", "getTeam", "listTeams", "remove"}
       \/ pc' = "findVariables"
       \/ \A k \in UserKinds : k \in unguarded \/ k \notin usersCache
       \/ obj.phase = "live"

\* The worker knows what to report.
Concluded ==
    /\ UNCHANGED <<queued, obj, fresh, found>>
    /\ pc' = "status" /\ report' \in Statuses /\ report'.obsGen = obj.gen
    /\ report'.cond = "Ready" => Agrees(remote', obj.spec)

Called ==
    /\ pc \notin {"idle", "addFinalizer"}
    /\ CallsGitHub /\ (Calm \/ Disturb) /\ UNCHANGED <<users, usersCache>>
    /\ RemoteInv'
    /\ Return(TRUE) \/ Continued \/ Concluded

Shared ==
    /\ \/ kind \in Plain /\ Common("resolve")
       \/ kind \in Asking /\ Common("findUsers")
    /\ UNCHANGED <<remote, users>> /\ usersCache' \in {usersCache, users}

Manifested ==
    /\ EditSpec \/ EditPolicy \/ DeleteObject
    /\ UNCHANGED <<remote, users, usersCache>>
    /\ cr'.phase # "absent" => Manifest(cr'.spec)

Outside ==
    /\ UNCHANGED <<clusterVars, queued, dependencyVars, pc, localVars>>
    /\ Calm \/ Disturb
    /\ RemoteInv' /\ UsersInv'

\* What becomes of the resource.
Turns == cr' = cr \/ Edited \/ Guarded \/ Written(report) \/ Gone

-----------------------------------------------------------------------------
(* Each of them keeps the invariant *)

\* The history goes with every step.
LEMMA Remembering ==
    ASSUME Remember, HistoryInv
    PROVE  /\ HistoryInv'
           /\ agreed = TRUE /\ cr'.phase # "absent" /\ cr'.spec = cr.spec => agreed' = TRUE
           /\ cr'.phase # "absent" /\ Agrees(remote', cr'.spec) => agreed' = TRUE
           /\ cleared = TRUE /\ cr'.phase = "deleting" => cleared' = TRUE
           /\ cr'.phase = "deleting" /\ remote'.value = Nothing => cleared' = TRUE
           /\ pc' # "idle" => \A k \in UserKinds :
                 k \in unguarded \/ k \notin usersCache' => k \in unguarded'
           /\ pc' # "idle" => unguarded \subseteq unguarded'
<1>1. /\ (/\ cr'.phase # "absent"
          /\ (agreed /\ cr'.spec = cr.spec) \/ Agrees(remote', cr'.spec)) \in BOOLEAN
      /\ (cr'.phase = "deleting" /\ (cleared \/ remote'.value = Nothing)) \in BOOLEAN
  OBVIOUS
<1>2. HistoryInv'
  <2>1. agreed' \in BOOLEAN /\ cleared' \in BOOLEAN
    BY <1>1, Zenon DEF Remember
  <2>2. unguarded' \subseteq UserKinds
    BY DEF Remember, HistoryInv
  <2> QED
    BY <2>1, <2>2, Zenon DEF HistoryInv
<1>3. /\ agreed = TRUE /\ cr'.phase # "absent" /\ cr'.spec = cr.spec => agreed' = TRUE
      /\ cr'.phase # "absent" /\ Agrees(remote', cr'.spec) => agreed' = TRUE
  BY Zenon DEF Remember
<1>4. /\ cleared = TRUE /\ cr'.phase = "deleting" => cleared' = TRUE
      /\ cr'.phase = "deleting" /\ remote'.value = Nothing => cleared' = TRUE
  BY Zenon DEF Remember
<1>5. pc' # "idle" => \A k \in UserKinds :
         k \in unguarded \/ k \notin usersCache' => k \in unguarded'
  BY DEF Remember
<1>6. pc' # "idle" => unguarded \subseteq unguarded'
  BY DEF Remember
<1> QED
  BY <1>2, <1>3, <1>4, <1>5, <1>6

\* What a call to GitHub leaves alone stays right.
LEMMA CalledStep ==
    ASSUME IInv, Called, UNCHANGED kind, Remember
    PROVE  IInv' /\ cr' = cr
<1> USE DEF IInv
<1>1. ManagedInv(Statuses)' /\ CopyInv' /\ UNCHANGED <<cr, cache>>
  <2>1. CASE Return(TRUE)
    BY <2>1, CallReturns DEF Called
  <2>2. CASE Continued
    BY <2>2, CallContinues DEF Called, Continued, Continues
  <2>3. CASE Concluded
    BY <2>3, CallConcludes DEF Called, Concluded, Concludes
  <2> QED
    BY <2>1, <2>2, <2>3 DEF Called
<1>2. CASE Return(TRUE)
  <2>1. Drops
    BY <1>2, Returning, Zenon DEF ManagedInv
  <2>2. pc' = "idle" /\ obj'.phase = "absent" /\ fresh' = FALSE
    BY <2>1 DEF Drops, NoObject
  <2>3. LabelInv' /\ SpecInv' /\ RemovalInv' /\ UsersInv'
    BY <1>1, <2>2 DEF LabelInv, Labels, SpecInv, Manifest, RemovalInv, UsersInv, Referring, Called
  <2>4. ReadyInv'
    BY <1>1, <2>2, Remembering DEF ReadyInv
  <2> QED
    BY <1>1, <2>3, <2>4, Remembering DEF Called
<1>3. CASE Continued
  <2>1. UNCHANGED obj /\ pc' # "idle" /\ pc' # "status" /\ pc # "idle" /\ fresh' = fresh
    BY <1>3 DEF Continued, Called
  <2>2. LabelInv' /\ SpecInv' /\ UsersInv'
    BY <1>1, <1>3, <2>1 DEF LabelInv, Labels, SpecInv, Manifest, UsersInv, Referring,
                            Continued, Called
  <2>3. ReadyInv'
    BY <1>1, <2>1, Remembering DEF ReadyInv
  <2>4. RemovalInv'
    <3>1. pc' = "removeFinalizer" /\ fresh' => cleared' = TRUE
      BY <1>1, <1>3, <2>1, Remembering DEF Continued, CopyInv
    <3>2. \A k \in UserKinds : k \in unguarded \/ k \notin usersCache => k \in unguarded'
      BY <2>1, Remembering DEF Called
    <3>3. "secrets" \in UserKinds
      BY DEF UserKinds
    <3> QED
      BY <1>3, <2>1, <3>1, <3>2, <3>3 DEF RemovalInv, Continued
  <2> QED
    BY <1>1, <2>2, <2>3, <2>4, Remembering DEF Called
<1>4. CASE Concluded
  <2>1. UNCHANGED obj /\ pc' = "status" /\ pc # "idle" /\ fresh' = fresh
    BY <1>4 DEF Concluded, Called
  <2>2. LabelInv' /\ SpecInv' /\ UsersInv' /\ RemovalInv'
    BY <1>1, <2>1 DEF LabelInv, Labels, SpecInv, Manifest, UsersInv, Referring, RemovalInv, Called
  <2>3. ReadyInv'
    <3>1. fresh' /\ report'.cond = "Ready" => agreed' = TRUE
      BY <1>1, <1>4, <2>1, Remembering DEF Concluded, CopyInv
    <3>2. report'.obsGen = obj'.gen
      BY <1>4 DEF Concluded
    <3> QED
      BY <1>1, <2>1, <3>1, <3>2, Remembering DEF ReadyInv
  <2> QED
    BY <1>1, <2>2, <2>3, Remembering DEF Called
<1> QED
  BY <1>1, <1>2, <1>3, <1>4 DEF Called

\* The steps that all controllers share.
LEMMA SharedStep ==
    ASSUME IInv, Shared, UNCHANGED kind, Remember
    PROVE  IInv' /\ (cr' = cr \/ Guarded \/ Written(report) \/ Gone)
<1> USE DEF IInv
<1>1. PICK deletion \in {"resolve", "findUsers"} :
         Common(deletion) /\ (deletion = "resolve" => kind \in Plain)
  BY DEF Shared
<1>2. ManagedInv(Statuses)' /\ CopyInv' /\ Outcome(deletion)
  BY <1>1, CommonStep
<1>3. cr' = cr \/ Guarded \/ Written(report) \/ Gone
  BY <1>2 DEF Outcome
<1>4. Keeps \/ Drops \/ Takes(deletion)
  BY <1>2 DEF Outcome
<1>5. UNCHANGED cache \/ cache' = cr
  BY <1>2 DEF Outcome
<1>6. obj' = obj \/ obj'.phase = "absent" \/ obj' = cache
  BY <1>4 DEF Keeps, Drops, Takes, NoObject
<1>7. LabelInv'
  BY <1>1, <1>4 DEF LabelInv, Labels, Keeps, Drops, Takes
<1>8. SpecInv'
  <2>1. cr'.phase = "absent" \/ (cr'.spec = cr.spec /\ cr'.phase = cr.phase)
    BY <1>3 DEF Guarded, Written, Gone
  <2> QED
    BY <1>5, <1>6, <2>1 DEF SpecInv, Manifest
<1>9. RemoteInv' /\ UsersInv'
  BY DEF RemoteInv, Fits, UsersInv, Referring, Shared
<1>10. ReadyInv'
  <2>1. CASE cr' = cr
    <3>1. agreed = TRUE /\ cr.phase # "absent" => agreed' = TRUE
      BY <2>1, Remembering
    <3>2. pc' = "status" => Keeps
      BY <1>1, <1>4 DEF Drops, Takes
    <3>3. pc' = "status" /\ fresh' => cr.phase # "absent" /\ fresh
      BY <3>2 DEF Keeps, CopyInv
    <3> QED
      BY <2>1, <3>1, <3>2, <3>3 DEF ReadyInv, Keeps
  <2>2. CASE Guarded
    <3>1. agreed = TRUE /\ cr.phase # "absent" => agreed' = TRUE
      BY <2>2, Remembering DEF Guarded
    <3> QED
      BY <2>2, <3>1 DEF ReadyInv, Guarded, Drops
  <2>3. CASE Written(report)
    <3>1. agreed = TRUE /\ cr.phase # "absent" => agreed' = TRUE
      BY <2>3, Remembering DEF Written
    <3>2. obj = cr /\ pc = "status" /\ fresh
      BY <2>3 DEF Written, CopyInv
    <3>3. cr.gen \in Nat
      BY DEF ManagedInv, Objective, Objects
    <3> QED
      BY <2>3, <3>1, <3>2, <3>3 DEF ReadyInv, Written, Drops
  <2>4. CASE Gone
    <3>1. pc' = "status" => ~fresh'
      BY <2>4 DEF Gone, Drops, Keeps, CopyInv
    <3> QED
      BY <1>1, <1>4, <2>4, <3>1 DEF ReadyInv, Gone, Keeps, Drops, Takes
  <2> QED
    BY <1>3, <2>1, <2>2, <2>3, <2>4
<1>11. RemovalInv'
  <2>1. CASE Keeps
    <3>1. pc' = "removeFinalizer" /\ fresh' => fresh /\ cr'.phase = "deleting"
      BY <2>1 DEF Keeps, CopyInv
    <3> QED
      BY <2>1, <3>1, Remembering DEF RemovalInv, Keeps
  <2>2. CASE Drops
    BY <2>2 DEF RemovalInv, Drops
  <2>3. CASE Takes(deletion)
    <3>1. kind \in Plain => usersCache' = {}
      BY DEF UsersInv, Shared, Referring, Plain
    <3>2. pc' = "resolve" /\ obj'.phase = "deleting" => UserKinds \subseteq unguarded'
      BY <1>1, <2>3, <3>1, Remembering DEF Takes
    <3> QED
      BY <1>1, <2>3, <3>2 DEF RemovalInv, Takes
  <2> QED
    BY <1>4, <2>1, <2>2, <2>3
<1> QED
  BY <1>2, <1>3, <1>7, <1>8, <1>9, <1>10, <1>11, Remembering

\* Users write a manifest, a policy, or delete the resource.
LEMMA ManifestedStep ==
    ASSUME IInv, Manifested, UNCHANGED kind, Remember
    PROVE  IInv' /\ (Edited \/ Gone)
<1> USE DEF IInv
<1>1. ManagedInv(Statuses)' /\ CopyInv' /\ UserOutcome
  BY UserStep DEF Manifested
<1>2. /\ Edited \/ Gone
      /\ UNCHANGED <<pc, obj, report, cache>> /\ ~fresh'
  BY <1>1 DEF UserOutcome, Keeps
<1>3. LabelInv' /\ SpecInv' /\ RemoteInv' /\ UsersInv'
  BY <1>2 DEF LabelInv, SpecInv, Manifest, RemoteInv, Fits, UsersInv, Referring, Manifested
<1>4. ReadyInv'
  <2>1. CASE Edited
    <3>1. cr.gen \in Nat /\ cr.status.obsGen \in Nat
      BY <2>1 DEF Edited, ManagedInv, Objective, Whole, Objects, Statuses
    <3> QED
      BY <1>2, <2>1, <3>1 DEF ReadyInv, Edited
  <2>2. CASE Gone
    BY <1>2, <2>2 DEF ReadyInv, Gone
  <2> QED
    BY <1>2, <2>1, <2>2
<1>5. RemovalInv'
  <2>1. pc' # "idle" => unguarded \subseteq unguarded'
    BY Remembering
  <2> QED
    BY <1>2, <2>1 DEF RemovalInv
<1> QED
  BY <1>1, <1>2, <1>3, <1>4, <1>5, Remembering

\* Something happens on GitHub, or to the users of the resource.
LEMMA OutsideStep ==
    ASSUME IInv, Outside, UNCHANGED kind, Remember
    PROVE  IInv' /\ cr' = cr
<1> USE DEF IInv
<1>1. UNCHANGED <<cr, cache, cacheFresh, queued, dependency, dependencyCache, pc, obj, fresh,
                  found, report>>
  BY DEF Outside, clusterVars, dependencyVars, localVars
<1>2. disturbances' \in 0..MaxDisturbances
  BY DisturbanceType DEF Outside, ManagedInv
<1>3. ManagedInv(Statuses)'
  BY <1>1, <1>2 DEF ManagedInv
<1>4. CopyInv' /\ LabelInv' /\ SpecInv'
  BY <1>1 DEF CopyInv, LabelInv, SpecInv, Manifest
<1>5. ReadyInv'
  <2>1. agreed = TRUE /\ cr.phase # "absent" => agreed' = TRUE
    BY <1>1, Remembering
  <2>2. pc = "status" /\ fresh => cr.phase # "absent"
    BY DEF CopyInv
  <2> QED
    BY <1>1, <2>1, <2>2 DEF ReadyInv
<1>6. RemovalInv'
  <2>1. pc = "removeFinalizer" /\ fresh => cr.phase = "deleting"
    BY DEF CopyInv
  <2> QED
    BY <1>1, <2>1, Remembering DEF RemovalInv
<1> QED
  BY <1>1, <1>3, <1>4, <1>5, <1>6, Remembering DEF Outside

-----------------------------------------------------------------------------
(* The pieces of Setting that the controllers put together, all of them    *)
(* calls                                                                   *)

\* What the worker works on.
LEMMA Copy ==
    ASSUME IInv, pc # "idle"
    PROVE  /\ obj \in Objects(Statuses) /\ obj.gen \in Nat /\ obj.phase \in {"live", "deleting"}
           /\ obj.spec \in Specs /\ obj.spec # Nothing /\ obj.status \in Statuses
           /\ Manifest(obj.spec)
BY NothingAssumption DEF IInv, ManagedInv, CopyInv, SpecInv, Objective, Whole, Objects, Phases

\* r is what the manifest asks for, apart from an invitation.
Serves(r) == r.value # Nothing /\ (r.owner = TRUE \/ obj.spec \in {r.value, Unmanaged})

\* The reports: a success is one, ...
LEMMA FinishedRight ==
    ASSUME IInv, pc # "idle", NEW r \in Remotes, Serves(r), NEW recorded \in BOOLEAN
    PROVE  /\ Finished(r, recorded) \in Statuses /\ Finished(r, recorded).obsGen = obj.gen
           /\ Finished(r, recorded).cond = "Ready" => Agrees(r, obj.spec)
<1>1. obj.gen \in Nat
  BY Copy
<1> QED
  BY <1>1 DEF Finished, Statuses, Serves, Agrees

\* ... and a failure names the generation it is about.
LEMMA FailedRight ==
    ASSUME IInv, pc # "idle"
    PROVE  /\ Failed \in Statuses /\ Failed.obsGen = obj.gen /\ Failed.cond = "Failed"
           /\ [Failed EXCEPT !.recorded = TRUE] \in Statuses
           /\ [Failed EXCEPT !.recorded = TRUE].obsGen = obj.gen
           /\ [Failed EXCEPT !.recorded = TRUE].cond = "Failed"
<1>1. obj.gen \in Nat /\ obj.status \in Statuses
  BY Copy
<1> QED
  BY <1>1 DEF Failed, Statuses

\* A failure is reported as one.
Fault(status) ==
    status \in Statuses /\ status.obsGen = obj.gen /\ status.cond \in {"Failed", "InUse"}

LEMMA FaultConcludes ==
    ASSUME NEW status, Fault(status), Conclude(status)
    PROVE  Concluded
BY DEF Fault, Conclude, Concluded

LEMMA Failing ==
    ASSUME IInv, pc # "idle", Fails
    PROVE  Return(TRUE) \/ Concluded
<1>1. Fault(Failed)
  BY FailedRight DEF Fault
<1> QED
  BY <1>1, FaultConcludes DEF Fails

\* Nothing outside the worker is touched.
LEMMA Local ==
    ASSUME IInv, UNCHANGED kind, LocalStep, pc \notin {"idle", "addFinalizer"},
           Calm \/ Disturb, Return(TRUE) \/ Continued \/ Concluded
    PROVE  Called
BY DEF LocalStep, Elsewhere, elsewhere, IInv, RemoteInv, Fits, Called

\* The reads from the informers, and the GET of the repository.
LEMMA FindUsersCalls ==
    ASSUME IInv, UNCHANGED kind,
           \/ kind = "team" /\ FindUsers("findUsers", "memberships", "resolve")
           \/ kind = "environment" /\ FindUsers("findUsers", "secrets", "findVariables")
           \/ kind = "environment" /\ FindUsers("findVariables", "variables", "resolve")
    PROVE  Called
<1>1. /\ pc \in {"findUsers", "findVariables"} /\ LocalStep /\ (Calm \/ Disturb)
      /\ obj.phase = "deleting"
  BY DEF FindUsers, IInv, LabelInv
<1>2. Return(TRUE) \/ Continued \/ Concluded
  <2>1. CASE KeptByUsers
    <3> DEFINE InUse == [obj.status EXCEPT !.cond = "InUse", !.obsGen = obj.gen]
    <3>1. obj.gen \in Nat /\ obj.status \in Statuses
      BY <1>1, Copy
    <3>2. Fault(InUse)
      BY <3>1 DEF Fault, Statuses
    <3> QED
      BY <2>1, <3>2, FaultConcludes DEF KeptByUsers
  <2>2. CASE /\ \/ kind = "team" /\ "memberships" \notin usersCache
                \/ pc = "findVariables" /\ "variables" \notin usersCache
             /\ Goto("resolve", found)
    <3>1. \A k \in UserKinds : k \in unguarded \/ k \notin usersCache
      BY <2>2 DEF IInv, UsersInv, Referring, RemovalInv, LabelInv, UserKinds
    <3> QED
      BY <1>1, <2>2, <3>1 DEF Goto, Continued
  <2>3. CASE /\ kind = "environment" /\ "secrets" \notin usersCache
             /\ Goto("findVariables", found)
    BY <1>1, <2>3 DEF Goto, Continued
  <2> QED
    BY <2>1, <2>2, <2>3 DEF FindUsers
<1> QED
  BY <1>1, <1>2, Local

LEMMA ResolveCalls ==
    ASSUME IInv, UNCHANGED kind, NEW live \in {"verify", "get", "getTeam", "listTeams"},
           NEW deletion \in {"remove", "getTeam", "listTeams"},
           Resolve(live, deletion, found, Failed) /\ Elsewhere
    PROVE  Called
<1>1. pc = "resolve" /\ LocalStep /\ (Calm \/ Disturb)
  BY DEF Resolve, Unresolved, LocalStep
<1>2. Return(TRUE) \/ Continued \/ Concluded
  <2>1. Fault(Failed)
    BY <1>1, FailedRight DEF Fault
  <2>2. CASE Goto(IF obj.phase = "live" THEN live ELSE deletion, found)
    <3>1. obj.phase \in {"live", "deleting"}
      BY <1>1, Copy
    <3> QED
      BY <1>1, <2>2, <3>1 DEF Goto, Continued
  <2> QED
    BY <2>1, <2>2, FaultConcludes DEF Resolve
<1> QED
  BY <1>1, <1>2, Local

LEMMA VerifyCalls ==
    ASSUME IInv, UNCHANGED kind, VerifyRepository(Failed)
    PROVE  Called
<1>1. pc = "verify" /\ LocalStep /\ (Calm \/ Disturb) /\ obj.phase = "live"
  BY DEF VerifyRepository, IInv, LabelInv
<1>2. Fault(Failed)
  BY <1>1, FailedRight DEF Fault
<1>3. Goto("get", found) => Continued
  BY <1>1 DEF Goto, Continued
<1> QED
  BY <1>1, <1>2, <1>3, FaultConcludes, Local DEF VerifyRepository

\* GET of the setting.
LEMMA ReadCalls ==
    ASSUME IInv, UNCHANGED kind, NEW failed, Fault(failed), NEW recorded \in BOOLEAN,
           pc = "get", LocalStep,
           \/ Serves(remote) /\ Calm /\ Conclude(Finished(remote, recorded))
           \/ Calm /\ Goto("set", found)
           \/ Disturb /\ Conclude(failed)
    PROVE  Called
<1>1. obj.phase = "live" /\ remote \in Remotes
  BY DEF IInv, LabelInv, RemoteInv, Fits
<1>2. Goto("set", found) => Continued
  BY <1>1 DEF Goto, Continued
<1>3. ASSUME Serves(remote), Conclude(Finished(remote, recorded))
      PROVE  Concluded
  <2>1. UNCHANGED remote
    BY DEF LocalStep, Elsewhere, elsewhere
  <2> QED
    BY <1>1, <1>3, <2>1, FinishedRight DEF Conclude, Concluded
<1> QED
  BY <1>2, <1>3, FaultConcludes, Local

\* PUT, POST or PATCH.
LEMMA WriteCalls ==
    ASSUME IInv, UNCHANGED kind, NEW label \in {"set", "update"}, NEW results,
           \A r \in results : Fits(r) /\ Serves(r),
           NEW failed, Fault(failed), NEW recorded \in BOOLEAN,
           Write(label, results, failed, recorded)
    PROVE  Called
<1>1. pc \in {"set", "update"} /\ CallsGitHub /\ (Calm \/ Disturb)
  BY DEF Write
<1>2. CASE Conclude(failed) /\ Elsewhere
  BY <1>1, <1>2, FaultConcludes, Local DEF LocalStep
<1>3. ASSUME NEW r \in results, Answered(r),
             \/ Conclude(Finished(r, recorded))
             \/ Conclude(failed)
      PROVE  Called
  <2>1. remote' = r /\ UNCHANGED <<users, usersCache>> /\ Fits(r) /\ Serves(r) /\ r \in Remotes
    BY <1>3 DEF Answered, Fits
  <2>2. RemoteInv'
    BY <2>1 DEF RemoteInv, Fits
  <2>3. Concluded
    <3>1. Conclude(Finished(r, recorded)) => Concluded
      BY <1>1, <2>1, FinishedRight DEF Conclude, Concluded
    <3> QED
      BY <1>3, <3>1, FaultConcludes
  <2> QED
    BY <1>1, <2>1, <2>2, <2>3 DEF Called
<1> QED
  BY <1>2, <1>3 DEF Write

\* What is left when the setting is removed.
LEMMA RemovedFits ==
    ASSUME IInv
    PROVE  Fits(Removed) /\ Removed.value = Nothing
BY DEF IInv, RemoteInv, Fits, Removed, Remotes

\* DELETE.
LEMMA RemoveCalls ==
    ASSUME IInv, UNCHANGED kind, Remove
    PROVE  Called
<1>1. pc = "remove" /\ CallsGitHub /\ (Calm \/ Disturb) /\ obj.phase = "deleting"
  BY DEF Remove, IInv, LabelInv
<1>2. CASE Elsewhere /\ Return(TRUE)
  BY <1>1, <1>2, Local DEF LocalStep
<1>3. CASE Answered(Removed) /\ (Goto("removeFinalizer", found) \/ Return(TRUE))
  <2>1. remote' = Removed /\ UNCHANGED <<users, usersCache>>
    BY <1>3 DEF Answered
  <2>2. RemoteInv'
    BY <2>1, RemovedFits DEF RemoteInv, Fits
  <2>3. Goto("removeFinalizer", found) => Continued
    BY <1>1, <2>1, RemovedFits DEF Goto, Continued
  <2> QED
    BY <1>1, <1>3, <2>1, <2>2, <2>3 DEF Called
<1> QED
  BY <1>2, <1>3 DEF Remove

\* Outsiders leave one of `values', or nothing.
RevaluedIn(values) ==
    (IF remote.host \notin Barren /\ ~remote.owner
       THEN {[remote EXCEPT !.value = v] : v \in values} ELSE {}) \cup {Removed}

\* Users write one of `specs', a policy, or the end.
SpecEdited(specs) ==
    /\ cr.phase # "absent" /\ cr.gen < MaxGen
    /\ \E spec \in specs \ {cr.spec} :
          UserWrite([cr EXCEPT !.spec = spec, !.gen = @ + 1])

UsersWrite(specs) == (SpecEdited(specs) \/ EditPolicy \/ DeleteObject) /\ Elsewhere

\* Steps that all controllers take alike, with nothing of their own in them.
Housekeeping ==
    \/ AddFinalizer /\ Elsewhere
    \/ SetReadyCondition
    \/ ReleaseResource
    \/ RestartManager
    \/ ChangeDependency /\ Elsewhere

\* resolve, of a membership: on to the team, or to its removal, or back.
ResolvedTeam ==
    /\ Calm \/ Disturb
    /\ \/ \E label \in {"getTeam", "listTeams"} : Goto(label, found)
       \/ obj.phase = "deleting" /\ Goto("remove", found)
       \/ Fails

\* What becomes of a team that is there, or is made, ...
SynchronizedTeam(team) ==
    IF obj.spec \notin {team.value, Unmanaged} THEN Goto("update", found)
                                               ELSE Conclude(Finished(team, TRUE))

PresentTeam ==
    IF obj.phase = "deleting" THEN Goto("remove", found) ELSE SynchronizedTeam(remote)

MadeTeam ==
    /\ pc = "set"
    /\ \/ \E team \in Group!Created :
            /\ Answered(team)
            /\ \/ Calm /\ SynchronizedTeam(team)
               \/ Disturb /\ Conclude(Failed)
       \/ Group!Created = {} /\ Calm /\ Conclude(Failed) /\ Elsewhere
       \/ Disturb /\ Conclude(Failed) /\ Elsewhere
    /\ CallsGitHub

\* ... and of one that is not there.
MissingTeam == Goto(IF obj.phase = "deleting" THEN "removeFinalizer" ELSE "set", found)

-----------------------------------------------------------------------------
(* The controllers are made of these pieces.  Each has Setting with values *)
(* of its own, and what depends on no values means the same there.         *)

USE DEF clusterVars, dependencyVars, localVars, managedVars, elsewhere, Disturb, Calm,
        Store, NoObject, Return, Goto, Conclude, CallsGitHub, Elsewhere, LocalStep,
        Answered, Fetch, Branch, Update, AddFinalizer, Resolve, WriteStatus,
        RemoveFinalizer, Failed, Finished, Removed, Remove, SetReadyCondition,
        ReleaseResource, Write, Restart, UserWrite, EditPolicy, DeleteObject,
        ChangeDependency, RestartManager, Edit, Administrate, Policies, Housekeeping,
        UsersWrite, RevaluedIn, SpecEdited, Read, FindUsers, KeptByUsers, VerifyRepository,
        FindRemoteTeam, Fails, Accept, ChangeUsers, Rehosted, Barren, Unresolved

\* A role in the organization.
LEMMA MemberIs ==
    /\ Member!Reconcile => Fetch("resolve") /\ Elsewhere
    /\ Member!WorkerStep =>
          \/ Housekeeping
          \/ Resolve("get", "remove", found, Failed) /\ Elsewhere
          \/ Read(remote.value = obj.spec, Failed, FALSE)
          \/ Write("set", {[remote EXCEPT !.value = obj.spec,
                                 !.pending = @ \/ remote.value = Nothing]},
                   Failed, FALSE)
          \/ Remove
    /\ Member!Others =>
          \/ Housekeeping
          \/ UsersWrite(Roles)
          \/ Accept
          \/ Administrate(RevaluedIn(Roles))
BY DEF Member!Reconcile, Member!Fetch, Member!Branch, Member!WorkerStep, Member!Update,
       Member!AddFinalizer, Member!Resolve, Member!WriteStatus, Member!RemoveFinalizer,
       Member!Failed, Member!Finished, Member!Removed, Member!Remove,
       Member!SetReadyCondition, Member!ReleaseResource, Member!Write,
       Member!AddMemberFinalizer, Member!ResolveOrganization,
       Member!GetOrganizationMembership, Member!SetOrganizationMembership,
       Member!RemoveOrganizationMembership, Member!Read, Member!Others, Member!Restart,
       Member!UserWrite, Member!EditSpec, Member!EditPolicy, Member!DeleteObject,
       Member!ChangeDependency, Member!RestartManager, Member!Edit, Member!Administrate,
       Member!Policies, Member!Revalued, Member!Accept, Member!clusterVars,
       Member!dependencyVars, Member!localVars, Member!managedVars, Member!elsewhere,
       Member!Disturb, Member!Calm, Member!Store, Member!NoObject, Member!Return,
       Member!Goto, Member!Conclude, Member!CallsGitHub, Member!Elsewhere, Member!LocalStep,
       Member!Answered, Member!Unresolved, Member!Barren

\* A role in a team.
LEMMA MembershipIs ==
    /\ Membership!Reconcile => Fetch("resolve") /\ Elsewhere
    /\ Membership!WorkerStep =>
          \/ Housekeeping
          \/ pc = "resolve" /\ LocalStep /\ ResolvedTeam
          \/ FindRemoteTeam(remote.host # "gone",
                            Goto(IF obj.phase = "live" THEN "get" ELSE "remove", found),
                            Fails)
          \/ Read(remote.value = obj.spec, [Failed EXCEPT !.recorded = TRUE], TRUE)
          \/ Write("set", Membership!Joined, [Failed EXCEPT !.recorded = TRUE], TRUE)
          \/ Remove
    /\ Membership!Others =>
          \/ Housekeeping
          \/ UsersWrite(TeamRoles)
          \/ Accept
          \/ Administrate(RevaluedIn(TeamRoles) \cup Rehosted({"open", "gone"}))
BY DEF Membership!Reconcile, Membership!Fetch, Membership!Branch, Membership!WorkerStep,
       Membership!Update, Membership!AddFinalizer, Membership!Resolve,
       Membership!WriteStatus, Membership!RemoveFinalizer, Membership!Failed,
       Membership!Finished, Membership!Removed, Membership!Remove,
       Membership!SetReadyCondition, Membership!ReleaseResource, Membership!Write,
       Membership!AddMembershipFinalizer, Membership!ResolveTeam, Membership!FindTeam,
       Membership!GetTeamMembership, Membership!SetTeamMembership,
       Membership!RemoveTeamMembership, Membership!Read, Membership!FindRemoteTeam,
       Membership!Fails, Membership!FailedInTeam, Membership!Others, Membership!Restart,
       Membership!UserWrite, Membership!EditSpec, Membership!EditPolicy,
       Membership!DeleteObject, Membership!ChangeDependency, Membership!RestartManager,
       Membership!Edit, Membership!Administrate, Membership!Policies, Membership!Revalued,
       Membership!Accept, Membership!Rehosted, Membership!clusterVars,
       Membership!dependencyVars, Membership!localVars, Membership!managedVars,
       Membership!elsewhere, Membership!Disturb, Membership!Calm, Membership!Store,
       Membership!NoObject, Membership!Return, Membership!Goto, Membership!Conclude,
       Membership!CallsGitHub, Membership!Elsewhere, Membership!LocalStep,
       Membership!Answered, Membership!Unresolved, Membership!Barren, ResolvedTeam

\* A permission for a repository.
LEMMA AccessIs ==
    /\ Access!Reconcile => Fetch("resolve") /\ Elsewhere
    /\ Access!WorkerStep =>
          \/ Housekeeping
          \/ Resolve("verify", "remove", found, Failed) /\ Elsewhere
          \/ VerifyRepository(Failed)
          \/ Read(remote.value = obj.spec, Failed, FALSE)
          \/ Write("set", IF remote.host = "open" THEN {[remote EXCEPT !.value = obj.spec]} ELSE {},
                   Failed, FALSE)
          \/ Remove
    /\ Access!Others =>
          \/ Housekeeping
          \/ UsersWrite(Permissions)
          \/ Administrate(RevaluedIn(Permissions)
                             \cup Rehosted({"open", "locked", "teamless", "gone"}))
BY DEF Access!Reconcile, Access!Fetch, Access!Branch, Access!WorkerStep, Access!Update,
       Access!AddFinalizer, Access!Resolve, Access!WriteStatus, Access!RemoveFinalizer,
       Access!Failed, Access!Finished, Access!Removed, Access!Remove,
       Access!SetReadyCondition, Access!ReleaseResource, Access!Write,
       Access!AddAccessFinalizer, Access!ResolveRepositoryAccess,
       Access!VerifyRemoteRepository, Access!GetTeamRepositoryPermission,
       Access!SetTeamRepositoryPermission, Access!RemoveTeamRepository, Access!Read,
       Access!VerifyRepository, Access!Others, Access!Restart, Access!UserWrite,
       Access!EditSpec, Access!EditPolicy, Access!DeleteObject, Access!ChangeDependency,
       Access!RestartManager, Access!Edit, Access!Administrate, Access!Policies,
       Access!Revalued, Access!Rehosted, Access!clusterVars, Access!dependencyVars,
       Access!localVars, Access!managedVars, Access!elsewhere, Access!Disturb, Access!Calm,
       Access!Store, Access!NoObject, Access!Return, Access!Goto, Access!Conclude,
       Access!CallsGitHub, Access!Elsewhere, Access!LocalStep, Access!Answered,
       Access!Unresolved, Access!Barren

\* An environment: users are looked for first, and outsiders may archive the repository.
LEMMA DeploymentIs ==
    /\ Deployment!Reconcile => Fetch("findUsers") /\ Elsewhere
    /\ Deployment!WorkerStep =>
          \/ Housekeeping
          \/ FindUsers("findUsers", "secrets", "findVariables")
          \/ FindUsers("findVariables", "variables", "resolve")
          \/ Resolve("verify", "remove", found, Failed) /\ Elsewhere
          \/ VerifyRepository(Failed)
          \/ Read(remote.value # Nothing, Failed, FALSE)
          \/ Write("set", IF remote.host = "open" THEN {[remote EXCEPT !.value = obj.spec]} ELSE {},
                   Failed, FALSE)
          \/ Remove
    /\ Deployment!Others =>
          \/ Housekeeping
          \/ UsersWrite({There})
          \/ ChangeUsers({"secrets", "variables"})
          \/ Administrate(RevaluedIn({There}) \cup Rehosted({"open", "locked", "gone"}))
BY DEF Deployment!Reconcile, Deployment!Fetch, Deployment!Branch, Deployment!WorkerStep,
       Deployment!Update, Deployment!AddFinalizer, Deployment!Resolve,
       Deployment!WriteStatus, Deployment!RemoveFinalizer, Deployment!Failed,
       Deployment!Finished, Deployment!Removed, Deployment!Remove,
       Deployment!SetReadyCondition, Deployment!ReleaseResource, Deployment!Write,
       Deployment!AddEnvironmentFinalizer, Deployment!ResolveRepositoryActionsTarget,
       Deployment!VerifyRemoteRepository, Deployment!GetEnvironment,
       Deployment!UpsertEnvironment, Deployment!FindEnvironmentDependency,
       Deployment!DeleteEnvironment, Deployment!Read, Deployment!VerifyRepository,
       Deployment!FindUsers, Deployment!KeptByUsers, Deployment!Others, Deployment!Restart,
       Deployment!UserWrite, Deployment!EditSpec, Deployment!EditPolicy,
       Deployment!DeleteObject, Deployment!ChangeDependency, Deployment!RestartManager,
       Deployment!Edit, Deployment!Administrate, Deployment!Policies, Deployment!Revalued,
       Deployment!ChangeUsers, Deployment!Rehosted, Deployment!clusterVars,
       Deployment!dependencyVars, Deployment!localVars, Deployment!managedVars,
       Deployment!elsewhere, Deployment!Disturb, Deployment!Calm, Deployment!Store,
       Deployment!NoObject, Deployment!Return, Deployment!Goto, Deployment!Conclude,
       Deployment!CallsGitHub, Deployment!Elsewhere, Deployment!LocalStep,
       Deployment!Answered, Deployment!Unresolved, Deployment!Barren

\* A team: a POST or a PATCH, after a search by slug and by name.
LEMMA GroupIs ==
    /\ Group!Reconcile => Fetch("findUsers") /\ Elsewhere
    /\ Group!WorkerStep =>
          \/ Housekeeping
          \/ FindUsers("findUsers", "memberships", "resolve")
          \/ Resolve(Group!FirstLookup, Group!FirstLookup, found, Failed) /\ Elsewhere
          \/ FindRemoteTeam(remote.value # Nothing, PresentTeam, MissingTeam)
          \/ MadeTeam
          \/ Write("update",
                   IF remote.value = Nothing THEN {} ELSE {[remote EXCEPT !.value = obj.spec]},
                   Failed, TRUE)
          \/ Remove
    /\ Group!Others =>
          \/ Housekeeping
          \/ UsersWrite((Descriptions \ {Fresh}) \cup {Unmanaged})
          \/ ChangeUsers({"memberships"})
          \/ Administrate(RevaluedIn(Descriptions))
BY DEF Group!Reconcile, Group!Fetch, Group!Branch, Group!WorkerStep, Group!Update,
       Group!AddFinalizer, Group!Resolve, Group!WriteStatus, Group!RemoveFinalizer,
       Group!Failed, Group!Finished, Group!Removed, Group!Remove, Group!SetReadyCondition,
       Group!ReleaseResource, Group!Write, Group!AddTeamFinalizer,
       Group!ResolveOrganization, Group!FindTeam, Group!CreateTeam, Group!UpdateTeam,
       Group!FindDependency, Group!DeleteTeam, Group!FindRemoteTeam, Group!Present,
       Group!Missing, Group!Synchronize, Group!DesiredTeamUpdate, Group!Fails, Group!FindUsers,
       Group!KeptByUsers, Group!Others, Group!Restart, Group!UserWrite, Group!EditSpec,
       Group!EditPolicy, Group!DeleteObject, Group!ChangeDependency, Group!RestartManager,
       Group!Edit, Group!Administrate, Group!Policies, Group!Revalued, Group!ChangeUsers,
       Group!clusterVars, Group!dependencyVars, Group!localVars, Group!managedVars,
       Group!elsewhere, Group!Disturb, Group!Calm, Group!Store, Group!NoObject,
       Group!Return, Group!Goto, Group!Conclude, Group!CallsGitHub, Group!Elsewhere,
       Group!LocalStep, Group!Answered, Group!Unresolved, Group!Barren, SynchronizedTeam,
       PresentTeam, MadeTeam, MissingTeam

HIDE DEF clusterVars, dependencyVars, localVars, managedVars, elsewhere, Disturb, Calm,
         Store, NoObject, Return, Goto, Conclude, CallsGitHub, Elsewhere, LocalStep,
         Answered, Fetch, Branch, Update, AddFinalizer, Resolve, WriteStatus,
         RemoveFinalizer, Failed, Finished, Removed, Remove, SetReadyCondition,
         ReleaseResource, Write, Restart, UserWrite, EditPolicy, DeleteObject,
         ChangeDependency, RestartManager, Edit, Administrate, Policies, Housekeeping,
         UsersWrite, RevaluedIn, SpecEdited, Read, FindUsers, KeptByUsers, VerifyRepository,
         FindRemoteTeam, Fails, Accept, ChangeUsers, Rehosted, Barren, Unresolved

-----------------------------------------------------------------------------
(* So every step is of one of the four kinds                               *)

\* What the controllers share.
LEMMA Keeping ==
    ASSUME IInv, UNCHANGED kind, Housekeeping
    PROVE  Shared
<1>1. kind \in Plain \cup Asking
  BY DEF IInv, LabelInv
<1>2. UNCHANGED <<remote, users>> /\ usersCache' \in {usersCache, users}
  BY DEF Housekeeping, Elsewhere, elsewhere, SetReadyCondition, ReleaseResource, RestartManager
<1>3. AddFinalizer \/ WriteStatus \/ RemoveFinalizer \/ Restart \/ ChangeDependency
  BY DEF Housekeeping, SetReadyCondition, ReleaseResource, RestartManager
<1> QED
  BY <1>1, <1>2, <1>3 DEF Shared, Common

LEMMA Fetching ==
    ASSUME \/ kind \in Plain /\ Fetch("resolve") /\ Elsewhere
           \/ kind \in Asking /\ Fetch("findUsers") /\ Elsewhere
    PROVE  Shared
BY DEF Shared, Common, Elsewhere, elsewhere

\* Users write manifests of the kind.
LEMMA UsersWriting ==
    ASSUME IInv, UNCHANGED kind, NEW specs \in SUBSET Specs, \A spec \in specs : Manifest(spec),
           UsersWrite(specs)
    PROVE  Manifested
<1>1. UNCHANGED <<remote, users, usersCache>>
  BY DEF UsersWrite, Elsewhere, elsewhere
<1>2. cr.phase # "absent" => Manifest(cr.spec)
  BY DEF IInv, SpecInv
<1>3. cr \in Objects(Statuses)
  BY DEF IInv, ManagedInv, Objective
<1>4. CASE SpecEdited(specs)
  <2>1. EditSpec
    BY <1>4 DEF SpecEdited, EditSpec
  <2>2. cr'.spec \in specs
    BY <1>3, <1>4 DEF SpecEdited, UserWrite, Store, Objects
  <2> QED
    BY <1>1, <2>1, <2>2 DEF Manifested
<1>5. CASE EditPolicy
  <2>1. cr'.spec = cr.spec /\ cr.phase # "absent"
    BY <1>3, <1>5 DEF EditPolicy, UserWrite, Store, Objects
  <2> QED
    BY <1>1, <1>2, <1>5, <2>1 DEF Manifested
<1>6. CASE DeleteObject
  <2>1. cr'.phase # "absent" => cr'.spec = cr.spec /\ cr.phase # "absent"
    BY <1>3, <1>6 DEF DeleteObject, UserWrite, Store, Objects, NoObject
  <2> QED
    BY <1>1, <1>2, <1>6, <2>1 DEF Manifested
<1> QED
  BY <1>4, <1>5, <1>6 DEF UsersWrite

\* Outsiders leave what fits the kind.
LEMMA Administrating ==
    ASSUME IInv, UNCHANGED kind, NEW results, \A r \in results : Fits(r),
           Administrate(results)
    PROVE  Outside
<1>1. RemoteInv' /\ UNCHANGED <<users, usersCache>>
  BY DEF Administrate, Answered, RemoteInv, Fits
<1> QED
  BY <1>1 DEF Administrate, Outside, IInv, UsersInv, Referring

LEMMA RevaluedFits ==
    ASSUME IInv, NEW values \in SUBSET Values, kind = "environment" => values \subseteq {There}
    PROVE  \A r \in RevaluedIn(values) : Fits(r)
<1>1. ASSUME NEW v \in values, remote.host \notin Barren
      PROVE  Fits([remote EXCEPT !.value = v])
  <2>1. v \in Values /\ v # Nothing
    BY KindsAssumption, NothingAssumption
  <2> QED
    BY <1>1, <2>1 DEF IInv, RemoteInv, Fits, Remotes
<1> QED
  BY <1>1, RemovedFits DEF RevaluedIn

LEMMA RehostedFits ==
    ASSUME IInv, kind \notin {"member", "team"},
           NEW hosts \in SUBSET {"open", "locked", "teamless", "gone"}
    PROVE  \A r \in Rehosted(hosts) : Fits(r)
<1>1. ASSUME NEW host \in hosts
      PROVE  Fits([Removed EXCEPT !.host = host])
  BY DEF IInv, RemoteInv, Fits, Removed, Remotes
<1>2. ASSUME NEW host \in hosts, host \notin Barren
      PROVE  Fits([remote EXCEPT !.host = host])
  BY <1>2 DEF IInv, RemoteInv, Fits, Remotes
<1> QED
  BY <1>1, <1>2 DEF Rehosted

LEMMA Accepting ==
    ASSUME IInv, UNCHANGED kind, Accept
    PROVE  Outside
<1>1. remote' = [remote EXCEPT !.pending = FALSE] /\ UNCHANGED <<users, usersCache>>
      /\ UNCHANGED managedVars
  BY DEF Accept, Answered
<1>2. RemoteInv'
  BY <1>1 DEF IInv, RemoteInv, Fits, Remotes
<1> QED
  BY <1>1, <1>2 DEF managedVars, Outside, Calm, IInv, UsersInv, Referring

LEMMA UsersChanging ==
    ASSUME IInv, UNCHANGED kind, ChangeUsers(Referring)
    PROVE  Outside
<1>1. UNCHANGED <<remote, usersCache>> /\ (Calm \/ Disturb)
  BY DEF ChangeUsers
<1>2. UsersInv'
  BY DEF ChangeUsers, IInv, UsersInv, Referring
<1> QED
  BY <1>1, <1>2 DEF ChangeUsers, Outside, IInv, RemoteInv, Fits

\* The values of each kind, and what its manifests may say.
LEMMA KindsFit ==
    /\ Roles \subseteq Values /\ TeamRoles \subseteq Values /\ Permissions \subseteq Values
    /\ {There} \subseteq Values /\ Descriptions \subseteq Values
    /\ kind # "environment" => \A spec \in Values : Manifest(spec)
    /\ Manifest(There)
    /\ kind = "team" => \A spec \in (Descriptions \ {Fresh}) \cup {Unmanaged} : Manifest(spec)
    /\ Values \cup {Unmanaged} \subseteq Specs
    /\ Fresh \in Values /\ "maintainer" \in Values
    /\ Nothing \notin Values
BY KindsAssumption, NothingAssumption DEF Manifest

\* A value that is written is one of GitHub's.
LEMMA WrittenFits ==
    ASSUME IInv, NEW value \in Values, kind = "environment" => value = There,
           remote.host \notin Barren
    PROVE  /\ Fits([remote EXCEPT !.value = value])
           /\ [remote EXCEPT !.value = value].value = value
           /\ [remote EXCEPT !.value = value].owner = remote.owner
BY KindsFit DEF IInv, RemoteInv, Fits, Remotes

\* The steps of each controller, by what they are made of.
LEMMA MemberStep ==
    ASSUME IInv, UNCHANGED kind, kind = "member",
           Member!Reconcile \/ Member!WorkerStep \/ Member!Others
    PROVE  Called \/ Shared \/ Manifested \/ Outside
<1>1. CASE Member!Reconcile
  BY <1>1, MemberIs, Fetching DEF Plain
<1>2. CASE Member!WorkerStep
  <2>1. CASE Read(remote.value = obj.spec, Failed, FALSE)
    <3>1. pc = "get" /\ LocalStep /\ Fault(Failed) /\ obj.spec # Nothing
      BY <2>1, Copy, FailedRight DEF Read, Fault
    <3>2. remote.value = obj.spec => Serves(remote)
      BY <3>1 DEF Serves
    <3> QED
      BY <2>1, <3>1, <3>2, ReadCalls DEF Read
  <2>2. CASE Write("set", {[remote EXCEPT !.value = obj.spec,
                                          !.pending = @ \/ remote.value = Nothing]},
                   Failed, FALSE)
    <3> DEFINE r == [remote EXCEPT !.value = obj.spec,
                                   !.pending = @ \/ remote.value = Nothing]
    <3>1. pc = "set" /\ Fault(Failed) /\ obj.spec # Nothing /\ obj.spec \in Values
      BY <1>2, <2>2, Copy, FailedRight DEF Write, Fault, Manifest
    <3>2. Fits(r) /\ Serves(r)
      <4>1. (remote.pending \/ remote.value = Nothing) \in BOOLEAN
        OBVIOUS
      <4> QED
        BY <3>1, <4>1, KindsFit DEF IInv, RemoteInv, Fits, Remotes, Barren, Serves
    <3> QED
      BY <2>2, <3>1, <3>2, WriteCalls
  <2> QED
    BY <1>2, <2>1, <2>2, MemberIs, Keeping, ResolveCalls, RemoveCalls
<1>3. CASE Member!Others
  <2>1. \A r \in RevaluedIn(Roles) : Fits(r)
    BY KindsFit, RevaluedFits
  <2>2. UsersWrite(Roles) => Manifested
    BY KindsFit, UsersWriting
  <2> QED
    BY <1>3, <2>1, <2>2, MemberIs, Keeping, Accepting, Administrating
<1> QED
  BY <1>1, <1>2, <1>3

LEMMA MembershipStep ==
    ASSUME IInv, UNCHANGED kind, kind = "membership",
           Membership!Reconcile \/ Membership!WorkerStep \/ Membership!Others
    PROVE  Called \/ Shared \/ Manifested \/ Outside
<1> DEFINE failed == [Failed EXCEPT !.recorded = TRUE]
<1>1. CASE Membership!Reconcile
  BY <1>1, MembershipIs, Fetching DEF Plain
<1>2. CASE Membership!WorkerStep
  <2>1. CASE pc = "resolve" /\ LocalStep /\ ResolvedTeam
    <3>1. \A label \in {"getTeam", "listTeams"} : Goto(label, found) => Continued
      BY <2>1 DEF Goto, Continued
    <3>2. obj.phase = "deleting" /\ Goto("remove", found) => Continued
      BY <2>1 DEF Goto, Continued
    <3> QED
      BY <2>1, <3>1, <3>2, Failing, Local DEF ResolvedTeam
  <2>2. CASE FindRemoteTeam(remote.host # "gone",
                            Goto(IF obj.phase = "live" THEN "get" ELSE "remove", found),
                            Fails)
    <3>1. pc \in {"getTeam", "listTeams"} /\ LocalStep /\ (Calm \/ Disturb)
      BY <2>2 DEF FindRemoteTeam
    <3>2. Goto("listTeams", found) => Continued
      BY <3>1 DEF Goto, Continued
    <3>3. Goto(IF obj.phase = "live" THEN "get" ELSE "remove", found) => Continued
      BY <3>1, Copy DEF Goto, Continued
    <3> QED
      BY <2>2, <3>1, <3>2, <3>3, Failing, Local DEF FindRemoteTeam
  <2>3. CASE Read(remote.value = obj.spec, failed, TRUE)
    <3>1. pc = "get" /\ LocalStep /\ Fault(failed) /\ obj.spec # Nothing
      BY <2>3, Copy, FailedRight DEF Read, Fault
    <3>2. remote.value = obj.spec => Serves(remote)
      BY <3>1 DEF Serves
    <3> QED
      BY <2>3, <3>1, <3>2, ReadCalls DEF Read
  <2>4. CASE Write("set", Membership!Joined, failed, TRUE)
    <3>1. pc = "set" /\ Fault(failed) /\ obj.spec # Nothing /\ obj.spec \in Values
      BY <1>2, <2>4, Copy, FailedRight DEF Write, Fault, Manifest
    <3>2. ASSUME NEW r \in Membership!Joined
          PROVE  Fits(r) /\ Serves(r)
      <4>1. remote.host = "open" /\ remote.host \notin Barren /\ remote.owner \in BOOLEAN
        BY <3>2 DEF Membership!Joined, IInv, RemoteInv, Fits, Remotes, Barren
      <4>2. CASE remote.owner
        <5>1. r = [remote EXCEPT !.value = "maintainer"]
          BY <3>2, <4>1, <4>2 DEF Membership!Joined
        <5> QED
          BY <4>1, <4>2, <5>1, WrittenFits, KindsFit DEF Serves
      <4>3. CASE ~remote.owner /\ remote.value # Nothing
        <5>1. r = [remote EXCEPT !.value = obj.spec]
          BY <3>2, <4>1, <4>3 DEF Membership!Joined
        <5> QED
          BY <3>1, <4>1, <5>1, WrittenFits DEF Serves
      <4>4. CASE ~remote.owner /\ remote.value = Nothing
        <5>1. PICK p \in BOOLEAN : r = [remote EXCEPT !.value = obj.spec, !.pending = p]
          BY <3>2, <4>1, <4>4 DEF Membership!Joined
        <5> QED
          BY <3>1, <4>1, <5>1 DEF Serves, IInv, RemoteInv, Fits, Remotes
      <4> QED
        BY <4>2, <4>3, <4>4
    <3> QED
      BY <2>4, <3>1, <3>2, WriteCalls
  <2> QED
    BY <1>2, <2>1, <2>2, <2>3, <2>4, MembershipIs, Keeping, RemoveCalls
<1>3. CASE Membership!Others
  <2>1. \A r \in RevaluedIn(TeamRoles) \cup Rehosted({"open", "gone"}) : Fits(r)
    BY KindsFit, RevaluedFits, RehostedFits
  <2>2. UsersWrite(TeamRoles) => Manifested
    BY KindsFit, UsersWriting
  <2> QED
    BY <1>3, <2>1, <2>2, MembershipIs, Keeping, Accepting, Administrating
<1> QED
  BY <1>1, <1>2, <1>3

\* PUT to a repository that is open.
LEMMA OpenWriteCalls ==
    ASSUME IInv, UNCHANGED kind, kind # "team",
           Write("set", IF remote.host = "open" THEN {[remote EXCEPT !.value = obj.spec]} ELSE {},
                 Failed, FALSE)
    PROVE  Called
<1>1. pc = "set" /\ Fault(Failed) /\ obj.spec # Nothing /\ obj.spec \in Values
      /\ (kind = "environment" => obj.spec = There)
  BY Copy, FailedRight DEF Write, Fault, Manifest
<1>2. ASSUME remote.host = "open"
      PROVE  Fits([remote EXCEPT !.value = obj.spec]) /\ Serves([remote EXCEPT !.value = obj.spec])
  BY <1>1, <1>2, WrittenFits DEF Serves, Barren
<1> QED
  BY <1>1, <1>2, WriteCalls

LEMMA AccessStep ==
    ASSUME IInv, UNCHANGED kind, kind = "access",
           Access!Reconcile \/ Access!WorkerStep \/ Access!Others
    PROVE  Called \/ Shared \/ Manifested \/ Outside
<1>1. CASE Access!Reconcile
  BY <1>1, AccessIs, Fetching DEF Plain
<1>2. CASE Access!WorkerStep
  <2>1. CASE Read(remote.value = obj.spec, Failed, FALSE)
    <3>1. pc = "get" /\ LocalStep /\ Fault(Failed) /\ obj.spec # Nothing
      BY <2>1, Copy, FailedRight DEF Read, Fault
    <3>2. remote.value = obj.spec => Serves(remote)
      BY <3>1 DEF Serves
    <3> QED
      BY <2>1, <3>1, <3>2, ReadCalls DEF Read
  <2> QED
    BY <1>2, <2>1, AccessIs, Keeping, ResolveCalls, VerifyCalls, OpenWriteCalls, RemoveCalls
<1>3. CASE Access!Others
  <2>1. \A r \in RevaluedIn(Permissions)
               \cup Rehosted({"open", "locked", "teamless", "gone"}) : Fits(r)
    BY KindsFit, RevaluedFits, RehostedFits
  <2>2. UsersWrite(Permissions) => Manifested
    BY KindsFit, UsersWriting
  <2> QED
    BY <1>3, <2>1, <2>2, AccessIs, Keeping, Administrating
<1> QED
  BY <1>1, <1>2, <1>3

LEMMA DeploymentStep ==
    ASSUME IInv, UNCHANGED kind, kind = "environment",
           Deployment!Reconcile \/ Deployment!WorkerStep \/ Deployment!Others
    PROVE  Called \/ Shared \/ Manifested \/ Outside
<1>1. CASE Deployment!Reconcile
  BY <1>1, DeploymentIs, Fetching DEF Asking
<1>2. CASE Deployment!WorkerStep
  <2>1. CASE Read(remote.value # Nothing, Failed, FALSE)
    <3>1. pc = "get" /\ LocalStep /\ Fault(Failed) /\ obj.spec = There
      BY <2>1, Copy, FailedRight DEF Read, Fault, Manifest
    <3>2. remote.value # Nothing => Serves(remote)
      BY <3>1 DEF Serves, IInv, RemoteInv, Fits
    <3> QED
      BY <2>1, <3>1, <3>2, ReadCalls DEF Read
  <2> QED
    BY <1>2, <2>1, DeploymentIs, Keeping, FindUsersCalls, ResolveCalls, VerifyCalls,
       OpenWriteCalls, RemoveCalls
<1>3. CASE Deployment!Others
  <2>1. \A r \in RevaluedIn({There}) \cup Rehosted({"open", "locked", "gone"}) : Fits(r)
    BY KindsFit, RevaluedFits, RehostedFits
  <2>2. UsersWrite({There}) => Manifested
    BY KindsFit, UsersWriting
  <2> QED
    BY <1>3, <2>1, <2>2, DeploymentIs, Keeping, UsersChanging, Administrating DEF Referring
<1> QED
  BY <1>1, <1>2, <1>3

\* The team that is there, or was made just now, is updated or reported.
LEMMA Synchronizing ==
    ASSUME IInv, pc # "idle", obj.phase = "live", NEW team \in Remotes,
           remote' = team, team.value # Nothing, SynchronizedTeam(team)
    PROVE  Continued \/ Concluded
<1>1. CASE obj.spec \notin {team.value, Unmanaged} /\ Goto("update", found)
  BY <1>1 DEF Goto, Continued
<1>2. CASE obj.spec \in {team.value, Unmanaged} /\ Conclude(Finished(team, TRUE))
  <2>1. Serves(team)
    BY <1>2 DEF Serves
  <2> QED
    BY <1>2, <2>1, FinishedRight DEF Conclude, Concluded
<1> QED
  BY <1>1, <1>2 DEF SynchronizedTeam

LEMMA MakingCalls ==
    ASSUME IInv, UNCHANGED kind, kind = "team", MadeTeam
    PROVE  Called
<1>1. /\ pc = "set" /\ CallsGitHub /\ (Calm \/ Disturb) /\ Fault(Failed)
      /\ obj.phase = "live"
  BY FailedRight DEF MadeTeam, Fault, IInv, LabelInv
<1>2. CASE Conclude(Failed) /\ Elsewhere
  BY <1>1, <1>2, FaultConcludes, Local DEF LocalStep
<1>3. ASSUME NEW team \in Group!Created, Answered(team),
             SynchronizedTeam(team) \/ Conclude(Failed)
      PROVE  Called
  <2>1. PICK value \in ({obj.spec} \ {Unmanaged}) \cup {Fresh} :
           team = [remote EXCEPT !.value = value]
    BY <1>3 DEF Group!Created
  <2>2. value \in Values /\ value # Nothing
    BY <1>1, <2>1, Copy, KindsFit DEF Manifest
  <2>3. remote.host \notin Barren
    BY DEF IInv, RemoteInv, Fits, Barren
  <2>4. Fits(team) /\ team.value # Nothing /\ team \in Remotes
    BY <2>1, <2>2, <2>3, WrittenFits DEF Fits
  <2>5. remote' = team /\ UNCHANGED <<users, usersCache>>
    BY <1>3 DEF Answered
  <2>6. RemoteInv'
    BY <2>4, <2>5 DEF RemoteInv, Fits
  <2>7. Continued \/ Concluded
    BY <1>1, <1>3, <2>4, <2>5, Synchronizing, FaultConcludes
  <2> QED
    BY <1>1, <2>5, <2>6, <2>7 DEF Called
<1> QED
  BY <1>2, <1>3 DEF MadeTeam

LEMMA GroupStep ==
    ASSUME IInv, UNCHANGED kind, kind = "team",
           Group!Reconcile \/ Group!WorkerStep \/ Group!Others
    PROVE  Called \/ Shared \/ Manifested \/ Outside
<1>1. CASE Group!Reconcile
  BY <1>1, GroupIs, Fetching DEF Asking
<1>2. CASE Group!WorkerStep
  <2>1. CASE Resolve(Group!FirstLookup, Group!FirstLookup, found, Failed) /\ Elsewhere
    <3>1. Group!FirstLookup \in {"getTeam", "listTeams"}
      BY DEF Group!FirstLookup
    <3> QED
      BY <2>1, <3>1, ResolveCalls
  <2>2. CASE FindRemoteTeam(remote.value # Nothing, PresentTeam, MissingTeam)
    <3>1. pc \in {"getTeam", "listTeams"} /\ LocalStep /\ (Calm \/ Disturb)
          /\ UNCHANGED remote /\ obj.phase \in {"live", "deleting"}
      BY <2>2, Copy DEF FindRemoteTeam, LocalStep, Elsewhere, elsewhere
    <3>2. Goto("listTeams", found) => Continued
      BY <3>1 DEF Goto, Continued
    <3>3. remote.value # Nothing /\ PresentTeam => Continued \/ Concluded
      <4>1. CASE obj.phase = "deleting" /\ Goto("remove", found)
        BY <3>1, <4>1 DEF Goto, Continued
      <4>2. CASE obj.phase = "live" /\ remote.value # Nothing /\ SynchronizedTeam(remote)
        <5>1. remote \in Remotes /\ remote' = remote
          BY <3>1 DEF IInv, RemoteInv, Fits
        <5> QED
          BY <3>1, <4>2, <5>1, Synchronizing
      <4> QED
        BY <3>1, <4>1, <4>2 DEF PresentTeam
    <3>4. remote.value = Nothing /\ MissingTeam => Continued
      BY <3>1 DEF MissingTeam, Goto, Continued
    <3> QED
      BY <2>2, <3>1, <3>2, <3>3, <3>4, Failing, Local DEF FindRemoteTeam
  <2>3. CASE MadeTeam
    BY <2>3, MakingCalls
  <2>4. CASE Write("update",
                   IF remote.value = Nothing THEN {} ELSE {[remote EXCEPT !.value = obj.spec]},
                   Failed, TRUE)
    <3>1. pc = "update" /\ Fault(Failed)
      BY <2>4, FailedRight DEF Write, Fault
    <3>2. obj.spec \in Values /\ obj.spec # Nothing
      BY <3>1, Copy DEF Manifest, IInv, LabelInv
    <3>3. remote.host \notin Barren
      BY DEF IInv, RemoteInv, Fits, Barren
    <3>4. Fits([remote EXCEPT !.value = obj.spec]) /\ Serves([remote EXCEPT !.value = obj.spec])
      BY <3>2, <3>3, WrittenFits DEF Serves
    <3> QED
      BY <2>4, <3>1, <3>4, WriteCalls
  <2> QED
    BY <1>2, <2>1, <2>2, <2>3, <2>4, GroupIs, Keeping, FindUsersCalls, RemoveCalls
<1>3. CASE Group!Others
  <2>1. \A r \in RevaluedIn(Descriptions) : Fits(r)
    BY KindsFit, RevaluedFits
  <2>2. UsersWrite((Descriptions \ {Fresh}) \cup {Unmanaged}) => Manifested
    BY KindsFit, UsersWriting
  <2> QED
    BY <1>3, <2>1, <2>2, GroupIs, Keeping, UsersChanging, Administrating DEF Referring
<1> QED
  BY <1>1, <1>2, <1>3

\* What happens around the controllers.
LEMMA SyncStep ==
    ASSUME IInv, UNCHANGED kind, SyncAll
    PROVE  Shared \/ Outside
<1>1. kind \in Plain \cup Asking
  BY DEF IInv, LabelInv
<1>2. CASE (SyncCache \/ SyncDependency) /\ Elsewhere
  BY <1>1, <1>2 DEF Shared, Common, Elsewhere, elsewhere
<1>3. CASE SyncUsers
  BY <1>3 DEF SyncUsers, Outside, managedVars, Calm, IInv, UsersInv, Referring, UserKinds,
              RemoteInv, Fits
<1> QED
  BY <1>2, <1>3 DEF SyncAll

\* Every step keeps the invariant, and makes of the resource one of the things known.
LEMMA NextKeeps ==
    ASSUME IInv, Next
    PROVE  IInv' /\ Turns
<1>1. UNCHANGED kind /\ Remember
  BY DEF Next, With
<1>2. Called \/ Shared \/ Manifested \/ Outside
  BY <1>1, SyncStep, MemberStep, MembershipStep, AccessStep, DeploymentStep, GroupStep
     DEF Next, With, Reconcile, WorkerStep, Others
<1> QED
  BY <1>1, <1>2, CalledStep, SharedStep, ManifestedStep, OutsideStep DEF Turns

-----------------------------------------------------------------------------
(* Theorems *)

\* How a resource and its worker start, for each kind.
Start ==
    /\ \E spec \in Specs, policy \in Policies :
          /\ cr = [phase |-> "live", gen |-> 1, spec |-> spec, policy |-> policy,
                   finalizer |-> FALSE,
                   status |-> [cond |-> "Unknown", obsGen |-> 0, recorded |-> FALSE]]
          /\ Manifest(spec)
    /\ cache = cr /\ cacheFresh = TRUE /\ queued = TRUE
    /\ dependency \in BOOLEAN /\ dependencyCache = dependency
    /\ pc = "idle" /\ obj = NoObject /\ fresh = FALSE /\ found = Nothing /\ report = Nothing
    /\ disturbances = 0
    /\ Fits(remote) /\ UsersInv
    /\ agreed = Agrees(remote, cr.spec) /\ cleared = FALSE /\ unguarded = {}

\* Every kind starts like this.
LEMMA Starting == Init => kind \in Plain \cup Asking /\ Start
<1>1. \A value \in Values \cup {Nothing}, owner \in BOOLEAN :
         /\ kind = "environment" => value \in {There, Nothing}
         => Fits([host |-> "open", value |-> value, pending |-> FALSE, owner |-> owner])
  BY DEF Fits, Remotes, Barren
<1> USE DEF Start, Plain, Asking, UsersInv, Referring
<1>2. CASE kind = "member" /\ Member!Init
  BY <1>1, <1>2, KindsFit
  DEF Member!Init, Member!SettingInit, Member!ManagedInit, Member!Untouched, Member!Agrees,
      Member!NoObject, Member!Policies, NoObject, Policies, Agrees
<1>3. CASE kind = "membership" /\ Membership!Init
  BY <1>1, <1>3, KindsFit
  DEF Membership!Init, Membership!SettingInit, Membership!ManagedInit, Membership!Untouched,
      Membership!Agrees, Membership!NoObject, Membership!Policies, NoObject, Policies, Agrees
<1>4. CASE kind = "access" /\ Access!Init
  BY <1>1, <1>4, KindsFit
  DEF Access!Init, Access!SettingInit, Access!ManagedInit, Access!Untouched, Access!Agrees,
      Access!NoObject, Access!Policies, NoObject, Policies, Agrees
<1>5. CASE kind = "environment" /\ Deployment!Init
  BY <1>1, <1>5, KindsFit
  DEF Deployment!Init, Deployment!SettingInit, Deployment!ManagedInit, Deployment!Untouched,
      Deployment!Agrees, Deployment!NoObject, Deployment!Policies, NoObject, Policies, Agrees
<1>6. CASE kind = "team" /\ Group!Init
  BY <1>1, <1>6, KindsFit
  DEF Group!Init, Group!SettingInit, Group!ManagedInit, Group!Untouched, Group!Agrees,
      Group!NoObject, Group!Policies, NoObject, Policies, Agrees
<1> QED
  BY <1>2, <1>3, <1>4, <1>5, <1>6 DEF Init

\* Every initial state is good.
THEOREM Initially == Init => IInv
<1> SUFFICES ASSUME Init PROVE IInv
  OBVIOUS
<1>1. kind \in Plain \cup Asking /\ Start
  BY Starting
<1>2. PICK spec \in Specs, policy \in Policies :
         /\ cr = [phase |-> "live", gen |-> 1, spec |-> spec, policy |-> policy,
                  finalizer |-> FALSE,
                  status |-> [cond |-> "Unknown", obsGen |-> 0, recorded |-> FALSE]]
         /\ Manifest(spec)
  BY <1>1 DEF Start
<1>3. cr \in Objects(Statuses) /\ Whole(cr, Statuses)
  BY <1>2 DEF Objects, Phases, Statuses, Whole
<1>4. ManagedInv(Statuses)
  <2>1. Objective(cr, Statuses) /\ Objective(cache, Statuses) /\ Objective(obj, Statuses)
    BY <1>1, <1>3, NoObjectType DEF Start, Objective
  <2>2. disturbances \in 0..MaxDisturbances
    BY <1>1, BoundsAssumption DEF Start
  <2> QED
    BY <1>1, <2>1, <2>2 DEF Start, ManagedInv
<1>5. CopyInv /\ LabelInv /\ SpecInv /\ RemoteInv /\ UsersInv /\ RemovalInv
  BY <1>1, <1>2
  DEF Start, CopyInv, LabelInv, Labels, SpecInv, RemoteInv, RemovalInv, NoObject
<1>6. ReadyInv
  BY <1>1, <1>2 DEF Start, ReadyInv
<1>7. HistoryInv
  <2>1. Agrees(remote, cr.spec) \in BOOLEAN
    BY DEF Agrees
  <2> QED
    BY <1>1, <2>1, Zenon DEF Start, HistoryInv
<1> QED
  BY <1>4, <1>5, <1>6, <1>7 DEF IInv

\* Every step keeps it.
THEOREM Inductive == IInv /\ [Next]_vars => IInv'
<1> SUFFICES ASSUME IInv, [Next]_vars PROVE IInv'
  OBVIOUS
<1>1. CASE Next
  BY <1>1, NextKeeps
<1>2. CASE UNCHANGED vars
  BY <1>2
  DEF vars, settingVars, managedVars, elsewhere, clusterVars, dependencyVars, localVars,
      IInv, ManagedInv, CopyInv, LabelInv, SpecInv, Manifest, RemoteInv, Fits, UsersInv, Referring,
      HistoryInv, ReadyInv, RemovalInv
<1> QED
  BY <1>1, <1>2

\* The invariant holds of every behaviour of every controller.
THEOREM Invariance == Spec => []IInv
<1> QED BY Initially, Inductive, PTL DEF Spec

\* Types; what is not there is not pending, and nothing is left of a team or repository
\* that is gone.
THEOREM TypeCorrect == Spec => []TypeOK
<1>1. IInv => TypeOK
  BY DEF IInv, ManagedInv, Objective, LabelInv, Labels, Referring, UserKinds, RemoteInv,
         Fits, UsersInv, HistoryInv,
         TypeOK, ManagedTypeOK
<1> QED BY <1>1, Invariance, PTL

\* Ready=True for the current generation: GitHub was as in the manifest, and in effect,
\* since it was written (finish, succeed and setReadyCondition of the five controllers).
THEOREM ReadySafety == Spec => []ReadyIsEarned
<1>1. IInv => ReadyIsEarned
  BY DEF IInv, ReadyInv, ReadyIsEarned
<1> QED BY <1>1, Invariance, PTL

\* With the policy Delete or Revoke our finalizer goes only when the setting has been gone
\* from GitHub in this deletion, and nothing is taken away that others used all through
\* the reconcile (findDependency, findEnvironmentDependency, the DELETE of each kind).
THEOREM Removal == Spec => RemovalIsRight
<1>1. IInv /\ [Next]_vars =>
        [/\ Released /\ cr.policy = "Remove" => cleared
         /\ pc = "remove" /\ pc' # "remove" /\ remote' # remote =>
              unguarded = UserKinds]_settingVars
  <2> SUFFICES ASSUME IInv, Next
               PROVE  /\ Released /\ cr.policy = "Remove" => cleared
                      /\ pc = "remove" => unguarded = UserKinds
    BY DEF vars
  <2>1. pc = "remove" => unguarded = UserKinds
    BY DEF IInv, RemovalInv, LabelInv, HistoryInv
  <2>2. ASSUME Released, cr.policy = "Remove" PROVE cleared
    <3>1. cr' = cr \/ Edited \/ Guarded \/ Written(report) \/ Gone
      BY NextKeeps DEF Turns
    <3>2. Gone /\ cr.finalizer
      BY <2>2, <3>1 DEF Released, Edited, Guarded, Written
    <3>3. fresh /\ pc = "removeFinalizer" /\ obj = cr
      BY <3>2 DEF Gone, IInv, CopyInv
    <3> QED
      BY <2>2, <3>3 DEF IInv, RemovalInv
  <2> QED
    BY <2>1, <2>2
<1> QED BY <1>1, Invariance, PTL DEF Spec, RemovalIsRight
=============================================================================
