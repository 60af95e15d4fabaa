---------------------------- MODULE ManagedProofs ----------------------------
(***************************************************************************)
(* What the steps of ManagedResource preserve and do, whatever controller  *)
(* takes them: the types, what the worker's copy can be, and how a version *)
(* of the resource follows from the one before.                            *)
(***************************************************************************)
EXTENDS ManagedResource, TLAPS

-----------------------------------------------------------------------------
(* Types *)

\* A resource that is there has a manifest and a status.
Whole(c, statuses) == c.phase # "absent" => c.spec \in Specs /\ c.status \in statuses

Objective(c, statuses) == c \in Objects(statuses) /\ Whole(c, statuses)

ManagedInv(statuses) ==
    /\ Objective(cr, statuses) /\ Objective(cache, statuses) /\ Objective(obj, statuses)
    /\ cacheFresh \in BOOLEAN /\ queued \in BOOLEAN /\ fresh \in BOOLEAN
    /\ dependency \in BOOLEAN /\ dependencyCache \in BOOLEAN
    /\ report \in statuses \cup {Nothing}
    /\ pc = "status" => report \in statuses
    /\ disturbances \in 0..MaxDisturbances

\* The worker's copy.
CopyInv ==
    /\ fresh => obj = cr /\ pc # "idle"
    /\ cacheFresh => cache = cr
    /\ pc # "idle" => obj.phase # "absent"
    /\ pc = "addFinalizer" => obj.phase = "live"
    /\ pc = "removeFinalizer" => obj.phase = "deleting"

\* The finalizer: a live copy that carries it shows what the API server has, for the
\* informer cannot be behind a removal; past addFinalizer the worker's copy carries it.
HoldInv ==
    /\ fresh => cacheFresh
    /\ cr.phase = "absent" => ~cr.finalizer
    /\ cache.phase = "live" /\ cache.finalizer => cr.finalizer
    /\ pc \notin {"idle", "addFinalizer"} => obj.finalizer
    /\ obj.phase = "live" /\ obj.finalizer => cr.finalizer

\* What a step makes of the worker: it keeps its copy, drops it, or takes one from the
\* cache, ...
Keeps == pc' = pc /\ UNCHANGED <<obj, found, report>> /\ (fresh' => fresh /\ cr' = cr)
Drops == pc' = "idle" /\ obj' = NoObject /\ fresh' = FALSE /\ report' = Nothing
Takes(deletion) ==
    /\ pc = "idle" /\ UNCHANGED <<cr, cache, report, found>> /\ obj' = cache
    /\ fresh' = cacheFresh
    /\ \/ pc' = "addFinalizer" /\ cache.phase = "live"
       \/ pc' = "resolve" /\ cache.phase = "live" /\ cache.finalizer
       \/ pc' = deletion /\ cache.phase = "deleting" /\ cache.finalizer
          /\ cache.policy # "Orphan"
       \/ pc' = "removeFinalizer" /\ cache.phase = "deleting" /\ cache.finalizer
          /\ cache.policy = "Orphan"

\* ... and of the resource: a new manifest or policy, a deletion, a status, the end.
Edited ==
    /\ cr.phase # "absent" /\ cr'.status = cr.status /\ cr'.gen = cr.gen + 1
    /\ cr'.finalizer = cr.finalizer
    /\ \/ cr'.phase = cr.phase
       \/ cr'.phase = "deleting" /\ cr'.spec = cr.spec /\ cr'.policy = cr.policy
    /\ ~fresh' /\ Keeps
Guarded ==
    /\ fresh /\ pc = "addFinalizer"
    /\ cr'.phase = cr.phase /\ cr'.gen = cr.gen /\ cr'.spec = cr.spec
    /\ cr'.policy = cr.policy /\ cr'.status = cr.status /\ cr'.finalizer = TRUE
    /\ Drops
Written(status) ==
    /\ fresh /\ pc = "status"
    /\ cr'.phase = cr.phase /\ cr'.gen = cr.gen /\ cr'.spec = cr.spec
    /\ cr'.policy = cr.policy /\ cr'.finalizer = cr.finalizer /\ cr'.status = status
    /\ Drops
Gone ==
    /\ cr'.phase = "absent" /\ cr'.finalizer = FALSE /\ UNCHANGED cache
    /\ \/ Drops /\ fresh /\ pc = "removeFinalizer"
       \/ Keeps /\ cr.phase = "live" /\ ~cr.finalizer

LEMMA NoObjectType == \A statuses : Objective(NoObject, statuses)
BY DEF NoObject, Objects, Whole, Phases, Policies, Objective

\* What a write may change leaves an object.
LEMMA EditedType ==
    ASSUME NEW statuses, NEW c \in Objects(statuses), Whole(c, statuses),
           c.phase # "absent", NEW spec \in Specs, NEW policy \in Policies,
           NEW phase \in Phases, NEW gen \in Nat, NEW status \in statuses
    PROVE  \A new \in {[c EXCEPT !.spec = spec, !.gen = gen],
                       [c EXCEPT !.policy = policy, !.gen = gen],
                       [c EXCEPT !.phase = phase, !.gen = gen],
                       [c EXCEPT !.finalizer = TRUE],
                       [c EXCEPT !.status = status]} :
              Objective(new, statuses)
<1>1. [c EXCEPT !.spec = spec, !.gen = gen] \in Objects(statuses)
      /\ [c EXCEPT !.policy = policy, !.gen = gen] \in Objects(statuses)
      /\ [c EXCEPT !.phase = phase, !.gen = gen] \in Objects(statuses)
      /\ [c EXCEPT !.finalizer = TRUE] \in Objects(statuses)
      /\ [c EXCEPT !.status = status] \in Objects(statuses)
  BY DEF Objects
<1>2. Whole([c EXCEPT !.spec = spec, !.gen = gen], statuses)
      /\ Whole([c EXCEPT !.policy = policy, !.gen = gen], statuses)
      /\ Whole([c EXCEPT !.phase = phase, !.gen = gen], statuses)
      /\ Whole([c EXCEPT !.finalizer = TRUE], statuses)
      /\ Whole([c EXCEPT !.status = status], statuses)
  BY DEF Objects, Whole
<1> QED
  BY <1>1, <1>2 DEF Objective

\* Returning drops the copy.
LEMMA Returning ==
    ASSUME NEW requeue \in BOOLEAN, Return(requeue), queued \in BOOLEAN
    PROVE  Drops /\ queued' \in BOOLEAN
BY Zenon DEF Return, Drops

LEMMA DisturbanceType ==
    ASSUME disturbances \in 0..MaxDisturbances, Calm \/ Disturb
    PROVE  disturbances' \in 0..MaxDisturbances
BY BoundsAssumption DEF Calm, Disturb

\* A write of the resource: it came through, or nothing has changed.
LEMMA UpdateOutcome ==
    ASSUME NEW statuses, ManagedInv(statuses), NEW new, NEW requeue \in BOOLEAN,
           Update(new, requeue)
    PROVE  /\ Drops /\ UNCHANGED <<cache, dependencyVars>>
           /\ queued' \in BOOLEAN /\ disturbances' \in 0..MaxDisturbances
           /\ \/ fresh /\ cr' = new /\ cacheFresh' = FALSE
              \/ UNCHANGED <<cr, cacheFresh>>
<1>1. queued \in BOOLEAN /\ disturbances \in 0..MaxDisturbances
  BY DEF ManagedInv
<1>2. \A b \in BOOLEAN : Return(b) => Drops /\ queued' \in BOOLEAN
  BY <1>1, Returning
<1>3. Drops /\ queued' \in BOOLEAN
  BY <1>2, Zenon DEF Update
<1>4. /\ UNCHANGED <<cache, dependencyVars>> /\ (Calm \/ Disturb)
      /\ (fresh /\ Store(new)) \/ UNCHANGED <<cr, cacheFresh>>
  BY Zenon DEF Update
<1> QED
  BY <1>1, <1>3, <1>4, DisturbanceType DEF Store

-----------------------------------------------------------------------------
(* Calls to GitHub *)

LEMMA CallReturns ==
    ASSUME NEW statuses, ManagedInv(statuses), CopyInv, CallsGitHub, Calm \/ Disturb,
           Return(TRUE)
    PROVE  ManagedInv(statuses)' /\ CopyInv' /\ Drops /\ UNCHANGED <<cr, cache>>
<1>1. Drops /\ queued' \in BOOLEAN
  BY Returning, Zenon DEF ManagedInv
<1>2. UNCHANGED <<cr, cache, cacheFresh, dependency, dependencyCache>>
  BY DEF CallsGitHub, clusterVars, dependencyVars
<1>3. disturbances' \in 0..MaxDisturbances
  BY DisturbanceType DEF ManagedInv
<1>4. ManagedInv(statuses)'
  BY <1>1, <1>2, <1>3, NoObjectType DEF ManagedInv, Drops
<1>5. CopyInv'
  BY <1>1, <1>2 DEF CopyInv, Drops
<1> QED
  BY <1>1, <1>2, <1>4, <1>5

\* The next call.
Continues == pc # "idle" /\ UNCHANGED <<queued, obj, fresh, report>>

LEMMA CallContinues ==
    ASSUME NEW statuses, ManagedInv(statuses), CopyInv, CallsGitHub, Calm \/ Disturb,
           Continues, pc' \notin {"idle", "addFinalizer", "status"},
           pc' = "removeFinalizer" => obj.phase = "deleting"
    PROVE  ManagedInv(statuses)' /\ CopyInv' /\ UNCHANGED <<cr, cache>>
<1>1. UNCHANGED <<cr, cache, cacheFresh, dependency, dependencyCache>>
  BY DEF CallsGitHub, clusterVars, dependencyVars
<1>2. disturbances' \in 0..MaxDisturbances
  BY DisturbanceType DEF ManagedInv
<1>3. ManagedInv(statuses)'
  BY <1>1, <1>2 DEF ManagedInv, Continues
<1>4. CopyInv'
  BY <1>1, <1>2 DEF CopyInv, Continues
<1> QED
  BY <1>1, <1>3, <1>4

\* The status to write.
Concludes(statuses) ==
    /\ pc # "idle" /\ pc' = "status" /\ UNCHANGED <<queued, obj, fresh, found>>
    /\ report' \in statuses

LEMMA CallConcludes ==
    ASSUME NEW statuses, ManagedInv(statuses), CopyInv, CallsGitHub, Calm \/ Disturb,
           Concludes(statuses)
    PROVE  ManagedInv(statuses)' /\ CopyInv' /\ UNCHANGED <<cr, cache>>
<1>1. UNCHANGED <<cr, cache, cacheFresh, dependency, dependencyCache>>
  BY DEF CallsGitHub, clusterVars, dependencyVars
<1>2. disturbances' \in 0..MaxDisturbances
  BY DisturbanceType DEF ManagedInv
<1>3. ManagedInv(statuses)'
  BY <1>1, <1>2 DEF ManagedInv, Concludes
<1>4. CopyInv'
  BY <1>1, <1>2 DEF CopyInv, Concludes
<1> QED
  BY <1>1, <1>3, <1>4

-----------------------------------------------------------------------------
(* The steps that all controllers share *)

Common(deletion) ==
    \/ Fetch(deletion) \/ AddFinalizer \/ WriteStatus \/ RemoveFinalizer
    \/ SyncCache \/ SyncDependency \/ Restart \/ ChangeDependency

Outcome(deletion) ==
    /\ Keeps \/ Drops \/ Takes(deletion)
    /\ UNCHANGED cache \/ cache' = cr
    /\ cr' = cr \/ Guarded \/ Written(report) \/ Gone

LEMMA CommonStep ==
    ASSUME NEW statuses, ManagedInv(statuses), CopyInv, NEW deletion,
           deletion \notin {"idle", "addFinalizer", "status", "removeFinalizer"},
           Common(deletion)
    PROVE  ManagedInv(statuses)' /\ CopyInv' /\ Outcome(deletion)
<1> DEFINE Kept == ManagedInv(statuses)' /\ CopyInv' /\ Outcome(deletion)
<1> SUFFICES Kept
  OBVIOUS
<1> HIDE DEF Kept
<1>0. /\ cr \in Objects(statuses) /\ cache \in Objects(statuses) /\ obj \in Objects(statuses)
      /\ cr.phase \in Phases /\ cache.phase \in Phases
      /\ fresh => obj = cr
  BY DEF ManagedInv, Objective, Objects, CopyInv
<1>1. ASSUME NEW new, Objective(new, statuses), NEW requeue \in BOOLEAN, Update(new, requeue),
             fresh /\ Drops /\ UNCHANGED cache /\ cr' = new =>
                Guarded \/ Written(report) \/ Gone
      PROVE  Kept
  <2>1. /\ Drops /\ UNCHANGED <<cache, dependencyVars>>
        /\ queued' \in BOOLEAN /\ disturbances' \in 0..MaxDisturbances
        /\ \/ fresh /\ cr' = new /\ cacheFresh' = FALSE
           \/ UNCHANGED <<cr, cacheFresh>>
    BY <1>1, UpdateOutcome
  <2>2. ManagedInv(statuses)'
    BY <1>1, <2>1, NoObjectType DEF Drops, ManagedInv, dependencyVars
  <2>3. CopyInv'
    BY <2>1 DEF Drops, CopyInv
  <2>4. Outcome(deletion)
    BY <1>1, <2>1 DEF Outcome
  <2> QED
    BY <2>2, <2>3, <2>4 DEF Kept
<1>2. CASE AddFinalizer
  <2>1. pc = "addFinalizer" /\ Update([obj EXCEPT !.finalizer = TRUE], FALSE)
    BY <1>2 DEF AddFinalizer
  <2>2. Objective([obj EXCEPT !.finalizer = TRUE], statuses)
    <3>1. obj.phase # "absent" /\ Whole(obj, statuses) /\ obj.spec \in Specs
          /\ obj.status \in statuses
      BY <2>1 DEF CopyInv, ManagedInv, Objective, Whole
    <3> QED
      BY <1>0, <3>1, EditedType DEF Policies, Phases
  <2>3. fresh /\ Drops /\ cr' = [obj EXCEPT !.finalizer = TRUE] => Guarded
    BY <1>0, <2>1 DEF Guarded, Objects
  <2> QED
    BY <1>1, <2>1, <2>2, <2>3
<1>3. CASE WriteStatus
  <2>1. pc = "status"
    BY <1>3 DEF WriteStatus
  <2>2. CASE report = obj.status
    <3>1. Return(TRUE) /\ Calm /\ CallsGitHub
      BY <1>3, <2>2, Zenon DEF WriteStatus, CallsGitHub
    <3> QED
      BY <3>1, CallReturns DEF Kept, Outcome
  <2>3. CASE report # obj.status
    <3>1. Update([obj EXCEPT !.status = report], TRUE)
      BY <1>3, <2>3 DEF WriteStatus
    <3>2. Objective([obj EXCEPT !.status = report], statuses)
      <4>1. obj.phase # "absent" /\ Whole(obj, statuses) /\ obj.spec \in Specs
            /\ report \in statuses
        BY <2>1 DEF CopyInv, ManagedInv, Objective, Whole
      <4> QED
        BY <1>0, <4>1, EditedType DEF Policies, Phases
    <3>3. fresh /\ Drops /\ cr' = [obj EXCEPT !.status = report] => Written(report)
      BY <1>0, <2>1 DEF Written, Objects
    <3> QED
      BY <1>1, <3>1, <3>2, <3>3
  <2> QED
    BY <2>2, <2>3
<1>4. CASE RemoveFinalizer
  <2>1. pc = "removeFinalizer" /\ Update(NoObject, FALSE)
    BY <1>4 DEF RemoveFinalizer
  <2>2. /\ Drops /\ UNCHANGED cache
    BY <2>1, UpdateOutcome
  <2>3. fresh /\ Drops /\ cr' = NoObject => Gone
    BY <2>1, <2>2 DEF Gone, NoObject
  <2> QED
    BY <1>1, <2>1, <2>3, NoObjectType
<1>5. CASE Fetch(deletion)
  <2>1. /\ pc = "idle" /\ queued' = FALSE /\ pc' = Branch(cache, deletion)
        /\ UNCHANGED <<clusterVars, dependencyVars, found, report, disturbances>>
        /\ \/ pc' = "idle" /\ UNCHANGED <<obj, fresh>>
           \/ pc' # "idle" /\ obj' = cache /\ fresh' = cacheFresh
    BY <1>5 DEF Fetch
  <2>2. CASE pc' = "idle"
    <3>1. ManagedInv(statuses)'
      BY <2>1, <2>2 DEF ManagedInv, clusterVars, dependencyVars
    <3>2. CopyInv'
      BY <2>1, <2>2 DEF CopyInv, ManagedInv, clusterVars
    <3>3. Outcome(deletion)
      BY <2>1, <2>2 DEF Outcome, Keeps, clusterVars
    <3> QED
      BY <3>1, <3>2, <3>3 DEF Kept
  <2>3. CASE pc' # "idle"
    <3>1. Takes(deletion)
      BY <1>0, <2>1, <2>3 DEF Takes, Branch, Phases, clusterVars
    <3>2. UNCHANGED <<cr, cache, cacheFresh, dependency, dependencyCache>>
      BY <2>1 DEF clusterVars, dependencyVars
    <3>3. ManagedInv(statuses)'
      BY <2>1, <2>3, <3>1, <3>2 DEF ManagedInv, Takes
    <3>4. CopyInv'
      BY <2>1, <2>3, <3>1, <3>2 DEF CopyInv, Takes
    <3> QED
      BY <3>1, <3>2, <3>3, <3>4 DEF Kept, Outcome
  <2> QED
    BY <2>2, <2>3
<1>6. CASE SyncCache
  <2>1. /\ cache' = cr /\ cacheFresh' = TRUE /\ queued' = TRUE
        /\ UNCHANGED <<cr, dependency, dependencyCache, pc, obj, fresh, found, report,
                       disturbances>>
    BY <1>6 DEF SyncCache, dependencyVars, localVars
  <2>2. ManagedInv(statuses)'
    BY <2>1 DEF ManagedInv
  <2>3. CopyInv' /\ Outcome(deletion)
    BY <2>1 DEF CopyInv, Outcome, Keeps
  <2> QED
    BY <2>2, <2>3 DEF Kept
<1>7. CASE SyncDependency \/ ChangeDependency
  <2>1. /\ UNCHANGED <<cr, cache, cacheFresh, queued, pc, obj, fresh, found, report>>
        /\ dependency' \in BOOLEAN /\ dependencyCache' \in BOOLEAN
        /\ Disturb \/ Calm
    BY <1>7 DEF SyncDependency, ChangeDependency, clusterVars, localVars, ManagedInv, Calm
  <2>2. disturbances' \in 0..MaxDisturbances
    BY <2>1, DisturbanceType DEF ManagedInv
  <2>3. ManagedInv(statuses)'
    BY <2>1, <2>2 DEF ManagedInv
  <2>4. CopyInv' /\ Outcome(deletion)
    BY <2>1 DEF CopyInv, Outcome, Keeps
  <2> QED
    BY <2>3, <2>4 DEF Kept
<1>8. CASE Restart
  <2>1. (cr.phase # "absent") \in BOOLEAN
    OBVIOUS
  <2>2. /\ Disturb /\ cache' = cr /\ cacheFresh' = TRUE /\ queued' \in BOOLEAN
        /\ dependencyCache' = dependency /\ UNCHANGED <<cr, dependency>> /\ Drops
    BY <1>8, <2>1, Zenon DEF Restart, Drops
  <2>3. disturbances' \in 0..MaxDisturbances
    BY <2>2, DisturbanceType DEF ManagedInv
  <2>4. ManagedInv(statuses)'
    BY <2>2, <2>3, NoObjectType DEF ManagedInv, Drops
  <2>5. CopyInv' /\ Outcome(deletion)
    BY <2>2 DEF CopyInv, Outcome, Drops
  <2> QED
    BY <2>4, <2>5 DEF Kept
<1> QED
  BY <1>2, <1>3, <1>4, <1>5, <1>6, <1>7, <1>8 DEF Common

(* The steps of its users *)

UserOutcome ==
    /\ Keeps /\ ~fresh' /\ UNCHANGED cache
    /\ Edited \/ Gone

LEMMA UserStep ==
    ASSUME NEW statuses, ManagedInv(statuses), CopyInv,
           EditSpec \/ EditPolicy \/ DeleteObject
    PROVE  ManagedInv(statuses)' /\ CopyInv' /\ UserOutcome
<1> DEFINE Kept == ManagedInv(statuses)' /\ CopyInv' /\ UserOutcome
<1> SUFFICES Kept
  OBVIOUS
<1> HIDE DEF Kept
<1>0. /\ cr \in Objects(statuses) /\ cr.phase \in Phases
  BY DEF ManagedInv, Objective, Objects
<1>9. ASSUME NEW new, Objective(new, statuses), UserWrite(new),
             Keeps /\ ~fresh' /\ cr' = new /\ UNCHANGED cache => Edited \/ Gone
      PROVE  Kept
  <2>1. /\ cr' = new /\ cacheFresh' = FALSE /\ fresh' = FALSE
        /\ UNCHANGED <<cache, queued, dependency, dependencyCache, pc, obj, found, report,
                       disturbances>>
    BY <1>9 DEF UserWrite, Store, dependencyVars
  <2>2. ManagedInv(statuses)'
    BY <1>9, <2>1 DEF ManagedInv
  <2>3. CopyInv' /\ Keeps
    BY <2>1 DEF CopyInv, Keeps
  <2>4. UserOutcome
    BY <1>9, <2>1, <2>3 DEF UserOutcome
  <2> QED
    BY <2>2, <2>3, <2>4 DEF Kept
<1>10. Kept
  <2>1. /\ cr.phase # "absent" /\ Whole(cr, statuses) /\ cr.spec \in Specs
        /\ cr.status \in statuses
    BY DEF EditSpec, EditPolicy, DeleteObject, ManagedInv, Objective, Whole
  <2>2. cr.gen + 1 \in Nat
    BY <1>0 DEF Objects
  <2>3. CASE EditSpec
    <3>1. PICK spec \in Specs : UserWrite([cr EXCEPT !.spec = spec, !.gen = cr.gen + 1])
      BY <2>3 DEF EditSpec
    <3>2. Objective([cr EXCEPT !.spec = spec, !.gen = cr.gen + 1], statuses)
      BY <1>0, <2>1, <2>2, EditedType DEF Policies, Phases
    <3>3. Keeps /\ ~fresh' /\ cr' = [cr EXCEPT !.spec = spec, !.gen = cr.gen + 1] => Edited
      BY <1>0, <2>1 DEF Edited, Objects
    <3> QED
      BY <1>9, <3>1, <3>2, <3>3
  <2>4. CASE EditPolicy
    <3>1. PICK policy \in Policies :
             UserWrite([cr EXCEPT !.policy = policy, !.gen = cr.gen + 1])
      BY <2>4 DEF EditPolicy
    <3>2. Objective([cr EXCEPT !.policy = policy, !.gen = cr.gen + 1], statuses)
      BY <1>0, <2>1, <2>2, EditedType DEF Phases
    <3>3. Keeps /\ ~fresh' /\ cr' = [cr EXCEPT !.policy = policy, !.gen = cr.gen + 1] => Edited
      BY <1>0, <2>1 DEF Edited, Objects
    <3> QED
      BY <1>9, <3>1, <3>2, <3>3
  <2>5. CASE DeleteObject
    <3>1. CASE UserWrite([cr EXCEPT !.phase = "deleting", !.gen = cr.gen + 1])
      <4>1. Objective([cr EXCEPT !.phase = "deleting", !.gen = cr.gen + 1], statuses)
        BY <1>0, <2>1, <2>2, EditedType DEF Policies, Phases
      <4>2. Keeps /\ ~fresh' /\ cr' = [cr EXCEPT !.phase = "deleting", !.gen = cr.gen + 1]
              => Edited
        BY <1>0, <2>1 DEF Edited, Objects
      <4> QED
        BY <1>9, <3>1, <4>1, <4>2
    <3>2. CASE UserWrite(NoObject) /\ ~cr.finalizer
      <4>1. Keeps /\ ~fresh' /\ cr' = NoObject /\ UNCHANGED cache => Gone
        BY <2>5, <3>2 DEF Gone, NoObject, DeleteObject
      <4> QED
        BY <1>9, <3>2, <4>1, NoObjectType
    <3> QED
      BY <2>5, <3>1, <3>2 DEF DeleteObject
  <2> QED
    BY <2>3, <2>4, <2>5
<1> QED
  BY <1>10

-----------------------------------------------------------------------------
(* The finalizer *)

\* A call to GitHub leaves it alone.
LEMMA HoldCalls ==
    ASSUME HoldInv, CallsGitHub,
           Drops \/ (UNCHANGED <<obj, fresh>> /\ pc \notin {"idle", "addFinalizer"})
    PROVE  HoldInv'
<1>1. UNCHANGED <<cr, cache, cacheFresh>>
  BY DEF CallsGitHub, clusterVars
<1>2. NoObject.phase = "absent"
  BY DEF NoObject
<1> QED
  BY <1>1, <1>2 DEF HoldInv, Drops

\* Users cannot take it away.
LEMMA HoldUsers ==
    ASSUME HoldInv, UserOutcome
    PROVE  HoldInv'
<1>1. UNCHANGED <<pc, obj, cache>> /\ ~fresh'
  BY DEF UserOutcome, Keeps
<1>2. CASE Edited
  BY <1>1, <1>2 DEF HoldInv, Edited
<1>3. CASE Gone
  BY <1>1, <1>3 DEF HoldInv, Gone, Drops
<1> QED
  BY <1>2, <1>3 DEF UserOutcome

LEMMA HoldCommon ==
    ASSUME NEW statuses, ManagedInv(statuses), CopyInv, HoldInv, NEW deletion,
           deletion \notin {"idle", "addFinalizer", "status", "removeFinalizer"},
           Common(deletion)
    PROVE  HoldInv'
<1>1. Outcome(deletion)
  BY CommonStep
<1>2. NoObject.phase = "absent"
  BY DEF NoObject
<1>3. ASSUME Drops, UNCHANGED cache, cr' = cr \/ Guarded \/ Written(report) \/ Gone
      PROVE  HoldInv'
  <2>1. CASE cr' = cr \/ Guarded \/ Written(report)
    BY <1>2, <1>3, <2>1 DEF HoldInv, Guarded, Written, Drops, CopyInv
  <2>2. CASE Gone
    <3>1. pc = "removeFinalizer" /\ fresh => cache.phase = "deleting"
      BY DEF HoldInv, CopyInv
    <3> QED
      BY <1>2, <1>3, <2>2, <3>1 DEF HoldInv, Gone, Drops
  <2> QED
    BY <1>3, <2>1, <2>2
<1>4. ASSUME NEW new, NEW requeue \in BOOLEAN, Update(new, requeue)
      PROVE  Drops /\ UNCHANGED cache
  BY <1>4, UpdateOutcome
<1>5. CASE AddFinalizer \/ RemoveFinalizer
  <2>1. Drops /\ UNCHANGED cache
    BY <1>4, <1>5 DEF AddFinalizer, RemoveFinalizer
  <2> QED
    BY <1>1, <1>3, <2>1 DEF Outcome
<1>6. CASE WriteStatus
  <2>1. Drops /\ UNCHANGED cache
    <3>1. CASE report = obj.status
      <4>1. Return(TRUE) /\ UNCHANGED clusterVars
        BY <1>6, <3>1, Zenon DEF WriteStatus
      <4>2. queued \in BOOLEAN
        BY DEF ManagedInv
      <4> QED
        BY <4>1, <4>2, Returning DEF clusterVars
    <3>2. CASE report # obj.status
      BY <1>4, <1>6, <3>2 DEF WriteStatus
    <3> QED
      BY <3>1, <3>2
  <2> QED
    BY <1>1, <1>3, <2>1 DEF Outcome
<1>7. CASE Fetch(deletion)
  <2>1. /\ UNCHANGED <<cr, cache, cacheFresh>> /\ pc = "idle" /\ pc' = Branch(cache, deletion)
        /\ \/ pc' = "idle" /\ UNCHANGED <<obj, fresh>>
           \/ pc' # "idle" /\ obj' = cache /\ fresh' = cacheFresh
    BY <1>7 DEF Fetch, clusterVars
  <2>2. pc' \notin {"idle", "addFinalizer"} => cache.finalizer
    <3>1. cache.phase \in Phases
      BY DEF ManagedInv, Objective, Objects
    <3> QED
      BY <2>1, <3>1 DEF Branch, Phases
  <2> QED
    BY <2>1, <2>2 DEF HoldInv, CopyInv
<1>8. CASE SyncCache
  BY <1>8 DEF SyncCache, HoldInv, localVars
<1>9. CASE SyncDependency \/ ChangeDependency
  BY <1>9 DEF SyncDependency, ChangeDependency, HoldInv, clusterVars, localVars
<1>10. CASE Restart
  BY <1>2, <1>10 DEF Restart, HoldInv
<1> QED
  BY <1>5, <1>6, <1>7, <1>8, <1>9, <1>10 DEF Common
=============================================================================
