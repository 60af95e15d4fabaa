---------------------------- MODULE VariableProofs ----------------------------
(***************************************************************************)
(* What the status of a variable says is true, whatever the manifests, the *)
(* values, the rotations and the failures: the inductive invariant of      *)
(* ActionsVariable and what follows from it.                               *)
(***************************************************************************)
EXTENDS ActionsVariable, ManagedProofs

-----------------------------------------------------------------------------
(* The invariant *)

Knowing == {"get", "create", "update", "reread"}
Labels == Knowing \cup {"source", "delete"}

Readings == [value : Values, rv : 1..MaxRotations + 1]

WorldInv ==
    /\ source \in Sources /\ remote \in Remotes /\ agreed \in BOOLEAN
    /\ Agrees(source, remote, cr) => agreed

\* Where the worker can be; what it has read is what that version of the Kubernetes
\* Secret holds.
WorkInv ==
    /\ pc \in Labels \cup {"idle", "addFinalizer", "resolve", "status", "removeFinalizer"}
    /\ pc \in Knowing \cup {"source"} => obj.phase = "live"
    /\ pc = "delete" => obj.phase = "deleting"
    /\ pc \in Knowing =>
         /\ found \in Readings /\ found.rv <= source.rv
         /\ found.rv = source.rv => found.value = source.data[obj.spec.key]

\* A status that says Ready speaks of versions that there are; one about to be
\* written, of the generation that the worker has read and of a variable that agrees.
ReadyInv ==
    /\ cr.phase # "absent" /\ cr.status.cond = "Ready" =>
         cr.status.obsGen <= cr.gen /\ cr.status.rv <= source.rv
    /\ pc = "reread" /\ fresh /\ found.rv = source.rv => agreed
    /\ pc = "status" /\ fresh /\ report.cond = "Ready" =>
         /\ report.obsGen = obj.gen /\ report.rv <= source.rv
         /\ report.rv = source.rv => agreed
    /\ ReadyIsEarned

IInv == ManagedInv(Statuses) /\ CopyInv /\ WorldInv /\ WorkInv /\ ReadyInv

LEMMA StatusType ==
    ASSUME ManagedInv(Statuses), CopyInv
    PROVE  /\ cr.phase # "absent" => cr.status \in Statuses /\ cr.spec \in Specs
           /\ pc # "idle" => obj.status \in Statuses /\ obj.spec \in Specs
           /\ cr.gen \in Nat /\ obj.gen \in Nat
           /\ cr.phase \in Phases /\ obj.phase \in Phases
BY DEF ManagedInv, CopyInv, Objective, Whole, Objects

LEMMA RemoteType ==
    /\ Absent \in Remotes /\ Absent.exists = FALSE
    /\ \A r \in Remotes :
         /\ r.mine \in BOOLEAN
         /\ r.exists => r \in [exists : {TRUE}, value : Values \cup {Foreign},
                              visibility : Visibilities, mine : BOOLEAN]
<1>1. Absent \in Remotes
  BY DEF Remotes
<1>2. Absent.exists = FALSE /\ Absent.mine = FALSE
  BY DEF Absent
<1> QED
  BY <1>1, <1>2 DEF Remotes

THEOREM Initially == Init => IInv
<1> SUFFICES ASSUME Init PROVE IInv
  OBVIOUS
<1> DEFINE first == [cond |-> "Unknown", obsGen |-> 0, rv |-> 0]
<1>1. first \in Statuses /\ first.cond = "Unknown"
  <2>1. 0 \in 0..MaxRotations + 1
    BY ValuesAssumption
  <2> QED
    BY <2>1 DEF Statuses
<1> HIDE DEF first
<1>2. /\ \E spec \in Specs, policy \in Policies :
           cr = [phase |-> "live", gen |-> 1, spec |-> spec, policy |-> policy,
                 finalizer |-> FALSE, status |-> first]
      /\ cache = cr /\ cacheFresh = TRUE /\ queued = TRUE
      /\ dependency \in BOOLEAN /\ dependencyCache = dependency /\ pc = "idle"
      /\ obj = NoObject /\ fresh = FALSE /\ report = Nothing /\ disturbances = 0
  BY DEF Init, ValueInit, ManagedInit, first
<1>3. Objective(cr, Statuses) /\ cr.status = first
  BY <1>1, <1>2 DEF Objective, Objects, Whole, Phases
<1>4. ManagedInv(Statuses) /\ CopyInv
  <2>1. Objective(cache, Statuses) /\ Objective(obj, Statuses)
    BY <1>2, <1>3, NoObjectType
  <2>2. 0 \in 0..MaxDisturbances
    BY BoundsAssumption
  <2> QED
    BY <1>2, <1>3, <2>1, <2>2 DEF ManagedInv, CopyInv
<1>5. WorldInv
  <2>1. 1 \in 1..MaxRotations + 1
    BY ValuesAssumption
  <2>2. source \in Sources
    BY <2>1 DEF Init, ValueInit, Sources
  <2> QED
    BY <2>2 DEF Init, ValueInit, WorldInv, Remotes, Absent, Agrees
<1>6. WorkInv /\ ReadyInv
  BY <1>1, <1>2, <1>3 DEF WorkInv, ReadyInv, ReadyIsEarned, Labels, Knowing
<1> QED
  BY <1>4, <1>5, <1>6 DEF IInv

-----------------------------------------------------------------------------
(* What the calls of a reconcile preserve *)

\* The Kubernetes Secret is as it was, and GitHub has been as the manifest says if it was.
WorldStep == WorldInv' /\ UNCHANGED source /\ (agreed => agreed')

LEMMA Returns ==
    ASSUME IInv, CallsGitHub, Calm \/ Disturb, Return(TRUE), WorldStep
    PROVE  IInv'
<1>1. ManagedInv(Statuses)' /\ CopyInv' /\ Drops /\ UNCHANGED <<cr, cache>>
  BY CallReturns DEF IInv
<1>2. WorkInv'
  BY <1>1 DEF Drops, WorkInv, Labels, Knowing
<1>3. ReadyInv'
  BY <1>1 DEF Drops, ReadyInv, ReadyIsEarned, WorldStep, IInv
<1> QED
  BY <1>1, <1>2, <1>3 DEF IInv, WorldStep

LEMMA Concluding ==
    ASSUME IInv, CallsGitHub, Calm \/ Disturb, obj.phase = "live", Concludes(Statuses),
           WorldStep,
           fresh /\ report'.cond = "Ready" =>
              /\ report'.obsGen = obj.gen /\ report'.rv <= source.rv
              /\ report'.rv = source.rv => agreed'
    PROVE  IInv'
<1>1. ManagedInv(Statuses)' /\ CopyInv' /\ UNCHANGED <<cr, cache>>
  BY CallConcludes DEF IInv
<1>2. WorkInv'
  BY DEF Concludes, WorkInv, Labels, Knowing
<1>3. ReadyInv'
  BY <1>1 DEF Concludes, ReadyInv, ReadyIsEarned, WorldStep, IInv
<1> QED
  BY <1>1, <1>2, <1>3 DEF IInv, WorldStep

\* The source is read, or what was read goes with the worker.
LEMMA GoingOn ==
    ASSUME IInv, CallsGitHub, Calm \/ Disturb, Continues, WorldStep,
           pc' \in Labels \cup {"removeFinalizer"},
           pc' \in Knowing \cup {"source"} => obj.phase = "live",
           pc' \in {"delete", "removeFinalizer"} => obj.phase = "deleting",
           pc' \in Knowing =>
              /\ found' \in Readings /\ found'.rv <= source.rv
              /\ found'.rv = source.rv => found'.value = source.data[obj.spec.key],
           pc' = "reread" /\ fresh /\ found'.rv = source.rv => agreed'
    PROVE  IInv'
<1>1. ManagedInv(Statuses)' /\ CopyInv' /\ UNCHANGED <<cr, cache>>
  BY CallContinues DEF IInv, Labels, Knowing
<1>2. WorkInv'
  BY DEF Continues, WorkInv, Labels, WorldStep
<1>3. ReadyInv'
  BY <1>1 DEF Labels, Knowing, Continues, ReadyInv, ReadyIsEarned, WorldStep, IInv
<1> QED
  BY <1>1, <1>2, <1>3 DEF IInv, WorldStep

LEMMA WorldUntouched ==
    ASSUME IInv, Elsewhere, CallsGitHub
    PROVE  WorldStep
BY DEF IInv, WorldInv, WorldStep, Elsewhere, KeepRemote, Agrees, CallsGitHub, clusterVars

LEMMA WorldChanged ==
    ASSUME IInv, UNCHANGED <<source, cr>>, NEW r \in Remotes, remote' = r,
           agreed' = (agreed \/ Agrees(source, r, cr))
    PROVE  WorldStep /\ (Agrees(source, r, cr) => agreed')
<1>1. agreed' \in BOOLEAN /\ (agreed => agreed') /\ (Agrees(source, r, cr) => agreed')
  <2>1. (agreed \/ Agrees(source, r, cr)) \in BOOLEAN
    OBVIOUS
  <2> QED
    BY <2>1, Zenon
<1> QED
  BY <1>1 DEF IInv, WorldInv, WorldStep, Agrees

\* A failure is reported, before or after the Kubernetes Secret was read.
LEMMA ReportingFailure ==
    ASSUME IInv, CallsGitHub, Calm \/ Disturb, pc # "idle", obj.phase = "live", WorldStep,
           Conclude(FailedEarly) \/ (pc \in Knowing /\ Conclude(Failed))
    PROVE  IInv'
<1>1. obj.status \in Statuses /\ obj.gen \in Nat
  BY StatusType DEF IInv
<1>2. FailedEarly \in Statuses /\ FailedEarly.cond = "Failed"
  BY <1>1 DEF FailedEarly, Statuses
<1>3. CASE Conclude(FailedEarly)
  <2>1. /\ pc' = "status" /\ UNCHANGED <<queued, obj, fresh, found>>
        /\ report' = FailedEarly
    BY <1>3 DEF Conclude
  <2> QED
    BY <1>2, <2>1, Concluding DEF Concludes
<1>4. CASE pc \in Knowing /\ Conclude(Failed)
  <2>1. /\ pc' = "status" /\ UNCHANGED <<queued, obj, fresh, found>>
        /\ report' = Failed
    BY <1>4 DEF Conclude
  <2>2. found.rv \in 0..MaxRotations + 1
    BY <1>4, ValuesAssumption DEF IInv, WorkInv, Readings
  <2>3. Failed \in Statuses /\ Failed.cond = "Failed"
    BY <1>2, <2>2 DEF Failed, Statuses
  <2> QED
    BY <2>1, <2>3, Concluding DEF Concludes
<1> QED
  BY <1>3, <1>4

LEMMA ReportingReady ==
    ASSUME IInv, CallsGitHub, Calm, pc \in Knowing, WorldStep, Conclude(Synchronized),
           fresh /\ found.rv = source.rv => agreed'
    PROVE  IInv'
<1>1. /\ found \in Readings /\ found.rv <= source.rv /\ obj.phase = "live" /\ obj.gen \in Nat
      /\ pc # "idle"
  BY StatusType DEF IInv, WorkInv, Knowing
<1>2. found.rv \in 0..MaxRotations + 1
  BY <1>1, ValuesAssumption DEF Readings
<1>3. /\ Synchronized \in Statuses /\ Synchronized.obsGen = obj.gen
      /\ Synchronized.rv = found.rv
  BY <1>1, <1>2 DEF Synchronized, Statuses
<1>4. /\ pc' = "status" /\ UNCHANGED <<queued, obj, fresh, found>>
      /\ report' = Synchronized
  BY DEF Conclude
<1> QED
  BY <1>1, <1>3, <1>4, Concluding DEF Concludes

-----------------------------------------------------------------------------
(* The calls, one by one *)

LEMMA ResolveStep ==
    ASSUME IInv, ResolveActionsTarget
    PROVE  IInv'
<1>1. /\ pc = "resolve" /\ CallsGitHub /\ Elsewhere /\ (Calm \/ Disturb) /\ pc # "idle"
  BY DEF ResolveActionsTarget, ResolveTarget, Resolve, Unresolved
<1>2. WorldStep
  BY <1>1, WorldUntouched
<1>3. obj.phase \in {"live", "deleting"}
  BY <1>1, StatusType DEF IInv, CopyInv, Phases
<1>4. CASE Goto(IF obj.phase = "live" THEN "source" ELSE "delete", found)
  <2>1. /\ pc' = IF obj.phase = "live" THEN "source" ELSE "delete"
        /\ UNCHANGED <<queued, obj, fresh, report>>
    BY <1>4 DEF Goto
  <2> QED
    BY <1>1, <1>2, <1>3, <2>1, GoingOn DEF Continues, Labels, Knowing
<1>5. CASE obj.phase = "live" /\ Conclude(FailedEarly)
  BY <1>1, <1>2, <1>5, ReportingFailure
<1>6. CASE Return(TRUE)
  BY <1>1, <1>2, <1>6, Returns
<1> QED
  BY <1>4, <1>5, <1>6, Zenon DEF ResolveActionsTarget, ResolveTarget, Resolve

LEMMA SourceStep ==
    ASSUME IInv, ResolveSource
    PROVE  IInv'
<1>1. /\ pc = "source" /\ CallsGitHub /\ Elsewhere /\ (Calm \/ Disturb)
  BY DEF ResolveSource, ResolveActionsValueSource
<1>2. WorldStep
  BY <1>1, WorldUntouched
<1>3. obj.phase = "live" /\ obj.spec \in Specs
  BY <1>1, StatusType DEF IInv, WorkInv
<1>4. CASE /\ source.data[obj.spec.key] # Nothing
           /\ Goto("get", [value |-> source.data[obj.spec.key], rv |-> source.rv])
  <2>1. /\ pc' = "get" /\ found' = [value |-> source.data[obj.spec.key], rv |-> source.rv]
        /\ UNCHANGED <<queued, obj, fresh, report>>
    BY <1>4 DEF Goto
  <2>2. /\ source.data[obj.spec.key] \in Values /\ source.rv \in 1..MaxRotations + 1
        /\ source.rv <= source.rv
    <3>1. source.data \in [Keys -> Values \cup {Nothing}] /\ source.rv \in 1..MaxRotations + 1
      BY DEF IInv, WorldInv, Sources
    <3>2. obj.spec.key \in Keys
      BY <1>3 DEF Keys
    <3> QED
      BY <1>4, <3>1, <3>2, ValuesAssumption
  <2>3. found' \in Readings /\ found'.rv = source.rv
        /\ found'.value = source.data[obj.spec.key]
    BY <2>1, <2>2 DEF Readings
  <2> QED
    BY <1>1, <1>2, <1>3, <2>1, <2>2, <2>3, GoingOn DEF Continues, Labels, Knowing
<1>5. CASE Conclude(FailedEarly)
  BY <1>1, <1>2, <1>3, <1>5, ReportingFailure
<1> QED
  BY <1>4, <1>5, Zenon DEF ResolveSource, ResolveActionsValueSource

\* What the worker knows goes with it to the next call.
LEMMA GoingOnKnowing ==
    ASSUME IInv, CallsGitHub, Calm, pc \in Knowing, WorldStep,
           NEW label \in {"create", "update", "reread"}, Goto(label, found),
           label = "reread" /\ fresh /\ found.rv = source.rv => agreed'
    PROVE  IInv'
<1>1. pc' = label /\ found' = found /\ UNCHANGED <<queued, obj, fresh, report>>
  BY DEF Goto
<1>2. /\ found \in Readings /\ found.rv <= source.rv /\ obj.phase = "live" /\ pc # "idle"
      /\ found.rv = source.rv => found.value = source.data[obj.spec.key]
  BY DEF IInv, WorkInv, Knowing
<1> QED
  BY <1>1, <1>2, GoingOn DEF Continues, Labels, Knowing

\* A current copy, a current source, and a variable that is as both say.
LEMMA Agreement ==
    ASSUME IInv, pc \in Knowing, fresh, found.rv = source.rv, NEW r, r.exists,
           r.value = found.value, r.visibility = obj.spec.visibility
    PROVE  Agrees(source, r, cr)
BY DEF IInv, CopyInv, WorkInv, Knowing, Agrees

LEMMA GetStep ==
    ASSUME IInv, GetActionsVariable
    PROVE  IInv'
<1>1. /\ pc = "get" /\ pc \in Knowing /\ pc # "idle" /\ CallsGitHub /\ Elsewhere
      /\ (Calm \/ Disturb) /\ obj.phase = "live"
  BY DEF GetActionsVariable, IInv, WorkInv, Knowing
<1>2. WorldStep
  BY <1>1, WorldUntouched
<1>3. CASE Calm /\ (Goto("create", found) \/ Goto("update", found))
  BY <1>1, <1>2, <1>3, GoingOnKnowing
<1>4. CASE Calm /\ Conclude(Synchronized) /\ remote.exists /\ ~VariableNeedsUpdate
  <2>1. fresh /\ found.rv = source.rv => agreed
    <3> SUFFICES ASSUME fresh, found.rv = source.rv PROVE agreed
      OBVIOUS
    <3>1. /\ remote.exists /\ remote.value = found.value
          /\ remote.visibility = obj.spec.visibility
      BY <1>4 DEF VariableNeedsUpdate
    <3>2. Agrees(source, remote, cr)
      BY <1>1, <3>1, Agreement
    <3> QED
      BY <3>2 DEF IInv, WorldInv
  <2> QED
    BY <1>1, <1>2, <1>4, <2>1, ReportingReady DEF WorldStep
<1>5. CASE Conclude(Failed)
  BY <1>1, <1>2, <1>5, ReportingFailure
<1> QED
  BY <1>3, <1>4, <1>5, Zenon DEF GetActionsVariable

LEMMA WriteStep ==
    ASSUME IInv, NEW label \in {"create", "update"}, NEW possible,
           WriteActionsVariable(label, possible)
    PROVE  IInv'
<1>1. /\ pc \in Knowing /\ pc # "idle" /\ CallsGitHub /\ UNCHANGED <<source, cr>>
      /\ (Calm \/ Disturb)
  BY DEF WriteActionsVariable, CallsGitHub, clusterVars, Knowing
<1>2. /\ obj.phase = "live" /\ obj.spec \in Specs /\ found \in Readings
  BY <1>1, StatusType DEF IInv, WorkInv, Knowing
<1>3. ASSUME SetRemote(Desired(found.value))
      PROVE  WorldStep /\ (fresh /\ found.rv = source.rv => agreed')
  <2> DEFINE r == Desired(found.value)
  <2>1. /\ r.exists /\ r.value = found.value /\ r.visibility = obj.spec.visibility
    BY DEF Desired
  <2>2. r \in Remotes
    BY <1>2, ValuesAssumption DEF Desired, Remotes, Readings
  <2>3. remote' = r /\ agreed' = (agreed \/ Agrees(source, r, cr))
    BY <1>3 DEF SetRemote
  <2> HIDE DEF r
  <2>4. WorldStep /\ (Agrees(source, r, cr) => agreed')
    BY <1>1, <2>2, <2>3, WorldChanged
  <2> QED
    BY <1>1, <2>1, <2>4, Agreement
<1>4. CASE SetRemote(Desired(found.value)) /\ Calm /\ Goto("reread", found)
  BY <1>1, <1>3, <1>4, GoingOnKnowing
<1>5. CASE SetRemote(Desired(found.value)) /\ Conclude(Failed)
  BY <1>1, <1>2, <1>3, <1>5, ReportingFailure
<1>6. CASE KeepRemote /\ Conclude(Failed)
  <2>1. WorldStep
    BY <1>1, <1>6, WorldUntouched DEF Elsewhere
  <2> QED
    BY <1>1, <1>2, <1>6, <2>1, ReportingFailure
<1> QED
  BY <1>4, <1>5, <1>6, Zenon DEF WriteActionsVariable

LEMMA ReadBackStep ==
    ASSUME IInv, ReadBack
    PROVE  IInv'
<1>1. /\ pc = "reread" /\ pc \in Knowing /\ pc # "idle" /\ CallsGitHub /\ Elsewhere
      /\ (Calm \/ Disturb) /\ obj.phase = "live"
  BY DEF ReadBack, IInv, WorkInv, Knowing
<1>2. WorldStep
  BY <1>1, WorldUntouched
<1>3. CASE Calm /\ Conclude(Synchronized)
  BY <1>1, <1>2, <1>3, ReportingReady DEF IInv, ReadyInv, WorldStep
<1>4. CASE Conclude(Failed)
  BY <1>1, <1>2, <1>4, ReportingFailure
<1> QED
  BY <1>3, <1>4, Zenon DEF ReadBack

LEMMA DeleteStep ==
    ASSUME IInv, DeleteActionsVariable
    PROVE  IInv'
<1>1. /\ pc = "delete" /\ CallsGitHub /\ UNCHANGED <<source, agreed, cr>>
      /\ (Calm \/ Disturb) /\ remote' \in {remote, Absent}
  BY DEF DeleteActionsVariable, DeleteFromGitHub, CallsGitHub, clusterVars
<1>2. WorldStep
  BY <1>1, RemoteType DEF IInv, WorldInv, WorldStep, Agrees
<1>3. CASE Goto("removeFinalizer", found)
  <2>1. pc' = "removeFinalizer" /\ UNCHANGED <<queued, obj, fresh, report>>
    BY <1>3 DEF Goto
  <2>2. obj.phase = "deleting"
    BY <1>1 DEF IInv, WorkInv
  <2> QED
    BY <1>1, <1>2, <2>1, <2>2, GoingOn DEF Continues, Labels, Knowing
<1>4. CASE Return(TRUE)
  BY <1>1, <1>2, <1>4, Returns
<1> QED
  BY <1>3, <1>4, Zenon DEF DeleteActionsVariable, DeleteFromGitHub

-----------------------------------------------------------------------------
(* The other steps *)

LEMMA CommonKeeps ==
    ASSUME IInv, Common("resolve"), Elsewhere
    PROVE  IInv'
<1>1. ManagedInv(Statuses)' /\ CopyInv' /\ Outcome("resolve")
  BY CommonStep DEF IInv
<1>2. UNCHANGED <<source, remote, agreed>>
  BY DEF Elsewhere, KeepRemote
<1>3. cr' = cr \/ Guarded \/ Written(report) \/ Gone
  BY <1>1 DEF Outcome
<1>4. WorldInv'
  BY <1>2, <1>3 DEF IInv, WorldInv, Agrees, Guarded, Written, Gone
<1>5. WorkInv'
  BY <1>1, <1>2 DEF Outcome, Keeps, Drops, Takes, WorkInv, IInv, Labels, Knowing
<1>6. ReadyInv'
  <2>1. /\ cr'.phase # "absent" /\ cr'.status.cond = "Ready" =>
             cr'.status.obsGen <= cr'.gen /\ cr'.status.rv <= source'.rv
        /\ ReadyIsEarned'
    <3>1. CASE cr' = cr
      BY <1>2, <3>1 DEF ReadyInv, ReadyIsEarned, IInv
    <3>2. CASE Guarded
      BY <1>2, <3>2 DEF Guarded, ReadyInv, ReadyIsEarned, IInv
    <3>3. CASE Written(report)
      <4>1. report.cond = "Ready" =>
              /\ report.obsGen = cr.gen /\ report.rv <= source.rv
              /\ report.rv = source.rv => agreed
        BY <3>3 DEF Written, IInv, ReadyInv, CopyInv
      <4>2. cr.gen \in Nat
        BY StatusType DEF IInv
      <4> QED
        BY <1>2, <3>3, <4>1, <4>2 DEF Written, ReadyIsEarned
    <3>4. CASE Gone
      BY <3>4 DEF Gone, ReadyIsEarned
    <3> QED
      BY <1>3, <3>1, <3>2, <3>3, <3>4
  <2>2. /\ pc' = "reread" /\ fresh' /\ found'.rv = source'.rv => agreed'
        /\ pc' = "status" /\ fresh' /\ report'.cond = "Ready" =>
             /\ report'.obsGen = obj'.gen /\ report'.rv <= source'.rv
             /\ report'.rv = source'.rv => agreed'
    BY <1>1, <1>2 DEF Outcome, Keeps, Drops, Takes, ReadyInv, IInv
  <2> QED
    BY <2>1, <2>2 DEF ReadyInv
<1> QED
  BY <1>1, <1>4, <1>5, <1>6 DEF IInv

LEMMA EditsKeep ==
    ASSUME IInv, EditSpec \/ EditPolicy \/ DeleteObject, UNCHANGED <<source, remote>>,
           agreed' \in BOOLEAN, Agrees(source, remote, cr') => agreed'
    PROVE  IInv'
<1>1. ManagedInv(Statuses)' /\ CopyInv' /\ UserOutcome
  BY UserStep DEF IInv
<1>2. WorldInv'
  BY DEF IInv, WorldInv, Agrees
<1>3. WorkInv'
  BY <1>1 DEF UserOutcome, Keeps, WorkInv, IInv, Labels, Knowing
<1>4. ReadyInv'
  <2>1. CASE Edited
    <3>1. cr.status \in Statuses /\ cr.gen \in Nat
      BY <2>1, StatusType DEF Edited, IInv
    <3>2. cr.status.obsGen \in Nat
      BY <3>1 DEF Statuses
    <3> QED
      BY <1>1, <2>1, <3>1, <3>2 DEF Edited, UserOutcome, ReadyInv, ReadyIsEarned, IInv
  <2>2. CASE Gone
    BY <1>1, <2>2 DEF Gone, UserOutcome, ReadyInv, ReadyIsEarned
  <2> QED
    BY <1>1, <2>1, <2>2 DEF UserOutcome
<1> QED
  BY <1>1, <1>2, <1>3, <1>4 DEF IInv

\* Nothing of the resource and the worker changes.
Outside ==
    /\ UNCHANGED <<cr, cache, cacheFresh, dependency, dependencyCache, pc, obj, fresh, found,
                   report>>
    /\ queued' \in BOOLEAN /\ (Calm \/ Disturb)

LEMMA OutsideType ==
    ASSUME IInv, Outside
    PROVE  ManagedInv(Statuses)' /\ CopyInv'
<1>1. disturbances' \in 0..MaxDisturbances
  BY DisturbanceType DEF IInv, ManagedInv, Outside
<1> QED
  BY <1>1 DEF IInv, ManagedInv, CopyInv, Outside

LEMMA RotationKeeps ==
    ASSUME IInv, Rotate, UNCHANGED remote, agreed' = Agrees(source', remote, cr)
    PROVE  IInv'
<1>1. Outside
  BY DEF Rotate, Outside, clusterVars, dependencyVars, localVars, Calm
<1>2. PICK data \in Rotated \ {source.data} : source' = [data |-> data, rv |-> source.rv + 1]
  BY DEF Rotate
<1>3. /\ source.data \in [Keys -> Values \cup {Nothing}] /\ source.rv \in 1..MaxRotations + 1
      /\ source.rv \in Nat /\ source.rv + 1 \in 1..MaxRotations + 1
  BY ValuesAssumption DEF IInv, WorldInv, Sources, Rotate
<1>4. data \in [Keys -> Values \cup {Nothing}]
  BY <1>2, <1>3 DEF Rotated
<1>5. source' \in Sources /\ source'.rv = source.rv + 1
  <2> DEFINE next == source.rv + 1
  <2>1. next \in 1..MaxRotations + 1 /\ source' = [data |-> data, rv |-> next]
    BY <1>2, <1>3
  <2> HIDE DEF next
  <2>2. source' \in Sources /\ source'.rv = next
    BY <1>4, <2>1 DEF Sources
  <2> QED
    BY <2>2 DEF next
<1>6. WorldInv'
  <2>1. Agrees(source', remote, cr) \in BOOLEAN
    BY DEF Agrees
  <2>2. agreed' \in BOOLEAN /\ (Agrees(source', remote, cr) => agreed')
    BY <2>1, Zenon
  <2> QED
    BY <1>1, <1>5, <2>2 DEF WorldInv, IInv, Agrees, Outside
<1>7. WorkInv'
  <2>1. pc \in Knowing => found.rv \in Nat
    BY ValuesAssumption DEF IInv, WorkInv, Readings
  <2> QED
    BY <1>1, <1>3, <1>5, <2>1 DEF IInv, WorkInv, Outside
<1>8. ReadyInv'
  <2>1. pc \in Knowing => found.rv \in Nat /\ found.rv <= source.rv
    BY ValuesAssumption DEF IInv, WorkInv, Readings
  <2>2. cr.phase # "absent" => cr.status.rv \in Nat
    BY StatusType, ValuesAssumption DEF IInv, Statuses
  <2>3. pc = "status" => report.rv \in Nat
    BY ValuesAssumption DEF IInv, ManagedInv, Statuses
  <2> QED
    BY <1>1, <1>3, <1>5, <2>1, <2>2, <2>3
    DEF IInv, ReadyInv, ReadyIsEarned, Outside, Knowing
<1> QED
  BY <1>1, <1>6, <1>7, <1>8, OutsideType DEF IInv

LEMMA OthersKeep ==
    ASSUME IInv, Outside, WorldStep
    PROVE  IInv'
<1>1. WorkInv' /\ ReadyInv'
  BY DEF IInv, WorkInv, ReadyInv, ReadyIsEarned, Outside, WorldStep
<1> QED
  BY <1>1, OutsideType DEF IInv, WorldStep

LEMMA PeopleKeep ==
    ASSUME IInv, People
    PROVE  IInv'
<1>1. Outside
  BY DEF People, Outside, IInv, ManagedInv, clusterVars, dependencyVars, localVars
<1>2. remote' \in Remotes
  <2>1. remote \in Remotes /\ remote.mine \in BOOLEAN
    BY RemoteType DEF IInv, WorldInv
  <2>2. CASE Overwrite
    <3>1. CASE remote.exists
      <4>1. remote.visibility \in Visibilities
        BY <2>1, <3>1, RemoteType
      <4>2. remote' = [exists |-> TRUE, value |-> Foreign, mine |-> remote.mine,
                       visibility |-> remote.visibility]
        BY <2>2, <3>1 DEF Overwrite
      <4> QED
        BY <2>1, <4>1, <4>2 DEF Remotes
    <3>2. CASE ~remote.exists
      <4>1. PICK visibility \in Visibilities :
               remote' = [exists |-> TRUE, value |-> Foreign, mine |-> remote.mine,
                          visibility |-> visibility]
        BY <2>2, <3>2 DEF Overwrite
      <4> QED
        BY <2>1, <4>1 DEF Remotes
    <3> QED
      BY <3>1, <3>2
  <2>3. CASE Reshare
    <3>1. remote \in [exists : {TRUE}, value : Values \cup {Foreign},
                      visibility : Visibilities, mine : BOOLEAN]
      BY <2>1, <2>3, RemoteType DEF Reshare
    <3>2. PICK visibility \in Visibilities : remote' = [remote EXCEPT !.visibility = visibility]
      BY <2>3 DEF Reshare
    <3> QED
      BY <3>1, <3>2 DEF Remotes
  <2>4. CASE TakeAway
    BY <2>4 DEF TakeAway, Remotes
  <2> QED
    BY <2>2, <2>3, <2>4 DEF People
<1>3. WorldStep
  <2>1. UNCHANGED <<source, cr>> /\ agreed' = (agreed \/ Agrees(source, remote', cr))
    BY <1>1 DEF People, Outside
  <2>2. agreed' \in BOOLEAN /\ (agreed => agreed') /\ (Agrees(source, remote', cr) => agreed')
    <3>1. (agreed \/ Agrees(source, remote', cr)) \in BOOLEAN
      OBVIOUS
    <3> QED
      BY <2>1, <3>1, Zenon
  <2> QED
    BY <1>2, <2>1, <2>2 DEF IInv, WorldInv, WorldStep, Agrees
<1> QED
  BY <1>1, <1>3, OthersKeep

LEMMA StutterKeeps ==
    ASSUME IInv, UNCHANGED vars
    PROVE  IInv'
<1>1. Outside /\ UNCHANGED <<cr, source, remote, agreed>>
  BY DEF vars, managedVars, clusterVars, dependencyVars, localVars, Outside, Calm, IInv,
         ManagedInv
<1>2. WorldStep
  BY <1>1 DEF IInv, WorldInv, WorldStep, Agrees
<1> QED
  BY <1>1, <1>2, OthersKeep

-----------------------------------------------------------------------------
(* The theorems *)

THEOREM Inductive == IInv /\ [Next]_vars => IInv'
<1> SUFFICES ASSUME IInv, [Next]_vars PROVE IInv'
  OBVIOUS
<1>1. CASE Reconcile \/ AddVariableFinalizer \/ SetReadyCondition
           \/ RemoveVariableFinalizer \/ Manager \/ (ChangeDependency /\ Elsewhere)
  BY <1>1, CommonKeeps
  DEF Reconcile, AddVariableFinalizer, SetReadyCondition, RemoveVariableFinalizer, Manager, Common
<1>2. CASE (EditPolicy \/ DeleteObject) /\ Elsewhere
  <2>1. Agrees(source, remote, cr') => Agrees(source, remote, cr)
    <3>1. cr \in Objects(Statuses)
      BY DEF IInv, ManagedInv, Objective
    <3>2. CASE EditPolicy
      <4>1. PICK policy \in Policies : cr' = [cr EXCEPT !.policy = policy, !.gen = cr.gen + 1]
        BY <3>2 DEF EditPolicy, UserWrite, Store
      <4>2. cr'.phase = cr.phase /\ cr'.spec = cr.spec
        BY <3>1, <4>1 DEF Objects
      <4> QED
        BY <4>2 DEF Agrees
    <3>3. CASE DeleteObject
      <4>1. cr' = [cr EXCEPT !.phase = "deleting", !.gen = cr.gen + 1] \/ cr' = NoObject
        BY <3>3 DEF DeleteObject, UserWrite, Store
      <4>2. cr'.phase # "live"
        <5>1. [cr EXCEPT !.phase = "deleting", !.gen = cr.gen + 1].phase = "deleting"
          BY <3>1 DEF Objects
        <5>2. NoObject.phase = "absent"
          BY DEF NoObject
        <5> QED
          BY <4>1, <5>1, <5>2
      <4> QED
        BY <4>2 DEF Agrees
    <3> QED
      BY <1>2, <3>2, <3>3
  <2> QED
    BY <1>2, <2>1, EditsKeep DEF Elsewhere, KeepRemote, IInv, WorldInv
<1>3. CASE EditSpec /\ UNCHANGED <<source, remote>> /\ agreed' = Agrees(source, remote, cr')
  <2>1. Agrees(source, remote, cr') \in BOOLEAN
    BY DEF Agrees
  <2>2. agreed' \in BOOLEAN /\ (Agrees(source, remote, cr') => agreed')
    BY <1>3, <2>1, Zenon
  <2> QED
    BY <1>3, <2>2, EditsKeep
<1>4. CASE CreateActionsVariable \/ UpdateActionsVariable
  BY <1>4, WriteStep DEF CreateActionsVariable, UpdateActionsVariable
<1> QED
  BY <1>1, <1>2, <1>3, <1>4, ResolveStep, SourceStep, GetStep, ReadBackStep, DeleteStep,
     RotationKeeps, PeopleKeep, StutterKeeps DEF Next, WorkerStep, Users

THEOREM Invariance == Spec => []IInv
BY Initially, Inductive, PTL DEF Spec

\* Every reachable state is well typed, whatever the manifests, the values and the bounds;
\* GitHub holds values of the Kubernetes Secret or of other people, never a missing key.
THEOREM TypeCorrect == Spec => []TypeOK
<1>1. IInv => TypeOK
  BY DEF IInv, ManagedInv, Objective, WorldInv, WorkInv, Labels, Knowing, TypeOK, ManagedTypeOK
<1> QED
  BY <1>1, Invariance, PTL

\* Ready=True of the current generation and of the current version of the Kubernetes
\* Secret: GitHub had the value and the visibility at some moment since both were written;
\* the version in the status is that of the reading that was compared or sent.
THEOREM ReadySafety == Spec => []ReadyIsEarned
<1>1. IInv => ReadyIsEarned
  BY DEF IInv, ReadyInv
<1> QED
  BY <1>1, Invariance, PTL
=============================================================================
