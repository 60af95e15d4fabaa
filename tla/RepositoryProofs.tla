-------------------------- MODULE RepositoryProofs --------------------------
(* Theorems about RepositoryController for every value of its constants. *)
EXTENDS RepositoryController, TLAPS

(***************************************************************************)
(* Types                                                                   *)
(***************************************************************************)

\* The alerts are read and written only under a manifest that manages them.
AlertsManaged == pc \in {"alertsGet", "alertsSet"} => obj.spec.alerts # Unmanaged

TypeInv == TypeOK /\ AlertsManaged

LEMMA NoObjectType ==
    ASSUME NEW uid \in Nat
    PROVE  NoObject(uid) \in Objects
BY DEF NoObject, Objects, Phases, Policies, Conditions

LEMMA RepositoryType ==
    /\ NoRepository \in Remotes
    /\ NewRepository(TRUE) \in Remotes
    /\ NewRepository(FALSE) \in Remotes
BY ConstantsAssumption DEF NoRepository, NewRepository, Remotes

LEMMA BlankType == [g \in Groups |-> Default] \in [Groups -> Values]
BY ConstantsAssumption

LEMMA DisturbType ==
    ASSUME TypeOK, Disturb \/ Calm
    PROVE  disturbances' \in 0..MaxDisturbances
BY ConstantsAssumption DEF TypeOK, Disturb, Calm

\* The part of the state that a running reconcile owns is well typed.
LocalsOK ==
    /\ pc \in PCs /\ obj \in Objects /\ fresh \in BOOLEAN
    /\ seen \in [Groups -> Values] /\ verdict \in Conditions
    /\ AlertsManaged

LEMMA ReturnType ==
    ASSUME TypeInv, NEW b \in BOOLEAN, Return(b)
    PROVE  LocalsOK' /\ queued' \in BOOLEAN
<1>1. obj' \in Objects
  BY NoObjectType DEF Return
<1>2. seen' \in [Groups -> Values]
  BY BlankType DEF Return
<1> QED
  BY <1>1, <1>2 DEF LocalsOK, Return, TypeInv, TypeOK, PCs, Conditions, AlertsManaged

LEMMA ConcludeType ==
    ASSUME TypeInv, NEW condition \in Conditions, Conclude(condition)
    PROVE  LocalsOK'
BY DEF Conclude, LocalsOK, TypeInv, TypeOK, PCs, AlertsManaged

LEMMA GotoType ==
    ASSUME TypeInv, NEW label \in PCs \cup {"done"}, Goto(label),
           seen' \in [Groups -> Values],
           label \in {"alertsGet", "alertsSet"} => obj.spec.alerts # Unmanaged
    PROVE  LocalsOK'
BY DEF Goto, LocalsOK, TypeInv, TypeOK, PCs, Conditions, AlertsManaged

LEMMA PayloadType ==
    ASSUME TypeOK, NEW cfg \in [Groups -> Values]
    PROVE  Payload(cfg) \in [Groups -> Values]
BY DEF Payload, TypeOK, Groups

LEMMA AgreeingType ==
    ASSUME NEW gs \in SUBSET Groups, NEW cfg
    PROVE  Agreeing(gs, cfg) \subseteq Groups
BY DEF Agreeing

LEMMA SetGroupType ==
    ASSUME TypeOK, NEW g \in Groups, obj.spec[g] # Unmanaged
    PROVE  /\ [remote EXCEPT !.cfg[g] = obj.spec[g]] \in Remotes
           /\ [remote EXCEPT !.cfg[g] = obj.spec[g]].cfg \in [Groups -> Values]
           /\ [seen EXCEPT ![g] = obj.spec[g]] \in [Groups -> Values]
<1>1. obj.spec[g] \in Values
  BY DEF TypeOK, Objects
<1>2. remote.cfg \in [Groups -> Values] /\ seen \in [Groups -> Values]
  BY DEF TypeOK, Remotes
<1>3. [remote.cfg EXCEPT ![g] = obj.spec[g]] \in [Groups -> Values]
  BY <1>1, <1>2
<1>4. [remote EXCEPT !.cfg[g] = obj.spec[g]]
        = [remote EXCEPT !.cfg = [remote.cfg EXCEPT ![g] = obj.spec[g]]]
  BY DEF TypeOK, Remotes
<1> QED
  BY <1>1, <1>2, <1>3, <1>4 DEF TypeOK, Remotes

LEMMA WriteType ==
    ASSUME TypeInv, NEW g \in Groups, NEW gs \in SUBSET Groups,
           NEW next \in PCs \cup {"done"}, Write(g, gs, next),
           obj.spec[g] # Unmanaged,
           next \in {"alertsGet", "alertsSet"} => obj.spec.alerts # Unmanaged
    PROVE  /\ LocalsOK' /\ remote' \in Remotes /\ applied' \subseteq Groups
           /\ disturbances' \in 0..MaxDisturbances
<1>1. "Failed" \in Conditions
  BY DEF Conditions
<1>2. disturbances' \in 0..MaxDisturbances
  BY DisturbType DEF Write, TypeInv
<1>3. CASE /\ Goto(next)
           /\ remote' = [remote EXCEPT !.cfg[g] = obj.spec[g]]
           /\ seen' = IF g = "settings" THEN Payload(remote'.cfg)
                                        ELSE [seen EXCEPT ![g] = obj.spec[g]]
           /\ applied' = applied \cup Agreeing(gs, remote'.cfg)
  <2>1. remote' \in Remotes /\ remote'.cfg \in [Groups -> Values]
    BY <1>3, SetGroupType DEF TypeInv
  <2>2. seen' \in [Groups -> Values]
    BY <1>3, <2>1, SetGroupType, PayloadType DEF TypeInv
  <2>3. applied' \subseteq Groups
    BY <1>3, AgreeingType DEF TypeInv, TypeOK
  <2> QED
    BY <1>2, <1>3, <2>1, <2>2, <2>3, GotoType
<1>4. CASE /\ Conclude("Failed") /\ UNCHANGED applied
           /\ \/ remote' = [remote EXCEPT !.cfg[g] = obj.spec[g]]
              \/ UNCHANGED remote
  BY <1>1, <1>2, <1>4, ConcludeType, SetGroupType DEF TypeInv, TypeOK
<1> QED
  BY <1>3, <1>4 DEF Write

LEMMA TypeInit == Init => TypeInv
<1> SUFFICES ASSUME Init PROVE TypeInv
  OBVIOUS
<1>1. cr \in Objects /\ cache \in Objects /\ obj \in Objects
  BY NoObjectType DEF Init
<1>2. remote \in Remotes
  BY RepositoryType DEF Init
<1>3. seen \in [Groups -> Values]
  BY BlankType DEF Init
<1>4. disturbances \in 0..MaxDisturbances
  BY ConstantsAssumption DEF Init
<1> QED
  BY <1>1, <1>2, <1>3, <1>4
  DEF Init, TypeInv, TypeOK, ProviderStates, AlertsManaged, PCs, Conditions

\* The part of the state that a running reconcile does not own.
RestOK ==
    /\ cr \in Objects /\ cache \in Objects
    /\ cacheFresh \in BOOLEAN /\ event \in BOOLEAN /\ queued \in BOOLEAN
    /\ provider \in ProviderStates /\ providerCache \in ProviderStates
    /\ remote \in Remotes /\ disturbances \in 0..MaxDisturbances
    /\ applied \subseteq Groups /\ cleaned \subseteq Policies
    /\ released \in Policies \cup {"None"}

\* One case for each call of a running reconcile.
LEMMA TypeWorker ==
    ASSUME TypeInv, WorkerStep
    PROVE  TypeInv'
<1> USE DEF kubeVars, providerVars, historyVars
<1>0. RestOK /\ (LocalsOK' /\ RestOK' => TypeInv')
  BY DEF TypeInv, TypeOK, LocalsOK, RestOK
<1> USE DEF RestOK
<1>1. CASE AddFinalizer
  <2>1. LocalsOK' /\ queued' \in BOOLEAN
    BY <1>1, ReturnType DEF AddFinalizer
  <2>2. [obj EXCEPT !.finalizer = TRUE] \in Objects
    BY DEF TypeInv, TypeOK, Objects
  <2>3. disturbances' \in 0..MaxDisturbances
    BY <1>1, DisturbType DEF AddFinalizer, TypeInv
  <2> QED
    BY <1>0, <1>1, <2>1, <2>2, <2>3 DEF AddFinalizer, Store
<1>2. CASE ResolveProvider
  <2>a. Calm \/ Disturb
    BY <1>2 DEF ResolveProvider, Unresolved
  <2>0. /\ disturbances' \in 0..MaxDisturbances
        /\ UNCHANGED <<cr, cache, cacheFresh, event, providerVars, remote, historyVars>>
    BY <1>2, <2>a, DisturbType DEF ResolveProvider, TypeInv
  <2>1. CASE Goto(IF obj.phase = "deleting" THEN "cleanup" ELSE "get")
                /\ UNCHANGED <<queued, seen>>
    BY <1>0, <1>2, <2>0, <2>1, GotoType DEF TypeInv, TypeOK, PCs, CallPCs, RestOK
  <2>2. CASE /\ Conclude(IF providerCache = "suspended" THEN "Suspended" ELSE "Unavailable")
             /\ UNCHANGED queued
    BY <1>0, <1>2, <2>0, <2>2, ConcludeType DEF TypeInv, TypeOK, Conditions, RestOK
  <2>3. CASE Return(TRUE)
    BY <1>0, <1>2, <2>0, <2>3, ReturnType DEF TypeInv, TypeOK, RestOK
  <2> QED
    BY <1>2, <2>1, <2>2, <2>3 DEF ResolveProvider
<1>3. CASE GetRepository
  <2>1. remote.cfg \in [Groups -> Values]
    BY <1>0 DEF Remotes
  <2>2. disturbances' \in 0..MaxDisturbances
    BY <1>3, DisturbType DEF GetRepository, TypeInv
  <2>3. {"settings", "topics"} \in SUBSET Groups /\ "Failed" \in Conditions
        /\ {"settings", "create"} \subseteq PCs
    BY DEF Groups, Conditions, PCs, CallPCs
  <2>4. applied' \subseteq Groups
    BY <1>0, <1>3, <2>3, AgreeingType DEF GetRepository
  <2>5. LocalsOK'
    BY <1>3, <2>1, <2>3, PayloadType, GotoType, ConcludeType
    DEF GetRepository, TypeInv, TypeOK
  <2> QED
    BY <1>0, <1>3, <2>2, <2>4, <2>5 DEF GetRepository
<1>4. CASE CreateRepository
  <2>1. remote' \in Remotes
    BY <1>0, <1>4, RepositoryType DEF CreateRepository
  <2>2. remote'.cfg \in [Groups -> Values]
    BY <2>1 DEF Remotes
  <2>3. disturbances' \in 0..MaxDisturbances
    BY <1>4, DisturbType DEF CreateRepository, TypeInv
  <2>4. {"settings", "topics"} \in SUBSET Groups /\ "Failed" \in Conditions
        /\ "settings" \in PCs
    BY DEF Groups, Conditions, PCs, CallPCs
  <2>5. applied' \subseteq Groups
    BY <1>0, <1>4, <2>4, AgreeingType DEF CreateRepository
  <2>6. LocalsOK'
    BY <1>4, <2>2, <2>4, PayloadType, GotoType, ConcludeType
    DEF CreateRepository, TypeInv
  <2> QED
    BY <1>0, <1>4, <2>1, <2>3, <2>5, <2>6 DEF CreateRepository
<1>5. CASE UpdateRepository
  <2>1. "topics" \in PCs /\ "settings" \in Groups
        /\ {"settings", "topics"} \in SUBSET Groups
    BY DEF PCs, CallPCs, Groups
  <2>2. CASE Differs("settings")
    BY <1>0, <1>5, <2>1, <2>2, WriteType DEF UpdateRepository, Differs
  <2>3. CASE ~Differs("settings")
    BY <1>0, <1>5, <2>1, <2>3, GotoType
    DEF UpdateRepository, Skip, TypeInv, TypeOK
  <2> QED
    BY <2>2, <2>3
<1>6. CASE ReplaceRepositoryTopics
  <2> DEFINE next == IF obj.spec.alerts = Unmanaged THEN "done" ELSE "alertsGet"
  <2>1. /\ next \in PCs \cup {"done"} /\ "topics" \in Groups
        /\ {"topics"} \in SUBSET Groups
        /\ next \in {"alertsGet", "alertsSet"} => obj.spec.alerts # Unmanaged
    BY DEF PCs, CallPCs, Groups
  <2>2. CASE Differs("topics")
    <3>1. Write("topics", {"topics"}, next) /\ obj.spec["topics"] # Unmanaged
      BY <1>6, <2>2 DEF ReplaceRepositoryTopics, Differs
    <3> HIDE DEF next
    <3> QED
      BY <1>0, <1>6, <2>1, <3>1, WriteType DEF ReplaceRepositoryTopics
  <2>3. CASE ~Differs("topics")
    <3>1. Skip(next)
      BY <1>6, <2>3 DEF ReplaceRepositoryTopics
    <3> HIDE DEF next
    <3> QED
      BY <1>0, <1>6, <2>1, <3>1, GotoType
      DEF ReplaceRepositoryTopics, Skip, TypeInv, TypeOK
  <2> QED
    BY <2>2, <2>3
<1>7. CASE GetRepositoryVulnerabilityAlerts
  <2>1. AlertsOnGitHub \in Values /\ "alerts" \in Groups
    BY <1>0, ConstantsAssumption DEF AlertsOnGitHub, Remotes, Groups
  <2>2. [seen EXCEPT !.alerts = AlertsOnGitHub] \in [Groups -> Values]
    BY <2>1 DEF TypeInv, TypeOK
  <2>3. disturbances' \in 0..MaxDisturbances
    BY <1>7, DisturbType DEF GetRepositoryVulnerabilityAlerts, TypeInv
  <2>4. obj.spec.alerts # Unmanaged
    BY <1>7 DEF GetRepositoryVulnerabilityAlerts, TypeInv, AlertsManaged
  <2>5. LocalsOK'
    BY <1>7, <2>2, <2>4, GotoType, ConcludeType
    DEF GetRepositoryVulnerabilityAlerts, PCs, CallPCs, Conditions
  <2>6. applied' \subseteq Groups
    BY <1>0, <1>7, <2>1 DEF GetRepositoryVulnerabilityAlerts
  <2> QED
    BY <1>0, <1>7, <2>3, <2>5, <2>6 DEF GetRepositoryVulnerabilityAlerts
<1>8. CASE SetRepositoryVulnerabilityAlerts
  <2>1. obj.spec["alerts"] # Unmanaged
    BY <1>8 DEF SetRepositoryVulnerabilityAlerts, TypeInv, AlertsManaged
  <2>2. "alerts" \in Groups /\ {"alerts"} \in SUBSET Groups
    BY DEF Groups
  <2> QED
    BY <1>0, <1>8, <2>1, <2>2, WriteType DEF SetRepositoryVulnerabilityAlerts
<1>9. CASE SetReadyCondition
  <2>1. LocalsOK' /\ queued' \in BOOLEAN
    BY <1>9, ReturnType DEF SetReadyCondition
  <2>2. NewStatus \in Objects
    BY DEF NewStatus, TypeInv, TypeOK, Objects
  <2>3. disturbances' \in 0..MaxDisturbances
    BY <1>9, DisturbType DEF SetReadyCondition, TypeInv
  <2> QED
    BY <1>0, <1>9, <2>1, <2>2, <2>3 DEF SetReadyCondition, Store
<1>10. CASE CleanUp
  <2>1. CleanedUp \in Remotes
    BY <1>0, RepositoryType DEF CleanedUp, Remotes
  <2>2. Credited \subseteq Policies
    BY <1>0 DEF Credited, TypeInv, TypeOK, Objects
  <2>3. disturbances' \in 0..MaxDisturbances
    BY <1>10, DisturbType DEF CleanUp, TypeInv
  <2>4. LocalsOK' /\ queued' \in BOOLEAN
    BY <1>0, <1>10, ReturnType, GotoType DEF CleanUp, TypeInv, TypeOK, PCs
  <2> QED
    BY <1>0, <1>10, <2>1, <2>2, <2>3, <2>4 DEF CleanUp
<1>11. CASE RemoveFinalizer
  <2>1. LocalsOK' /\ queued' \in BOOLEAN
    BY <1>11, ReturnType DEF RemoveFinalizer
  <2>2. Finalized \in Objects /\ obj.policy \in Policies
    BY NoObjectType DEF Finalized, TypeInv, TypeOK, Objects
  <2>3. disturbances' \in 0..MaxDisturbances
    BY <1>11, DisturbType DEF RemoveFinalizer, TypeInv
  <2> QED
    BY <1>0, <1>11, <2>1, <2>2, <2>3 DEF RemoveFinalizer, Store
<1> QED
  BY <1>1, <1>2, <1>3, <1>4, <1>5, <1>6, <1>7, <1>8, <1>9, <1>10, <1>11
  DEF WorkerStep

\* The manager: queue, caches, restarts.
LEMMA TypeManager ==
    ASSUME TypeInv, Reconcile \/ SyncCache \/ HandleEvent \/ SyncProvider \/ Restart
    PROVE  TypeInv'
<1> USE DEF kubeVars, providerVars, localVars, historyVars, RestOK
<1>0. LocalsOK /\ RestOK /\ (LocalsOK' /\ RestOK' => TypeInv')
  BY DEF TypeInv, TypeOK, LocalsOK, RestOK
<1>1. CASE Reconcile
  <2>1. pc' \in {"idle", "addFinalizer", "resolve", "removeFinalizer"}
    <3>1. cache.phase \in {"absent", "live", "deleting"}
      BY <1>0 DEF Objects, Phases
    <3> QED
      BY <1>1, <3>1 DEF Reconcile, Branch
  <2>2. LocalsOK'
    BY <1>0, <1>1, <2>1 DEF Reconcile, LocalsOK, AlertsManaged, PCs
  <2> QED
    BY <1>0, <1>1, <2>2 DEF Reconcile
<1>2. CASE SyncCache \/ HandleEvent \/ SyncProvider
  BY <1>0, <1>2 DEF SyncCache, HandleEvent, SyncProvider, LocalsOK, AlertsManaged
<1>3. CASE Restart
  <2>1. obj' \in Objects
    BY <1>3, NoObjectType DEF Restart
  <2>2. seen' \in [Groups -> Values]
    BY <1>3, BlankType DEF Restart
  <2>3. disturbances' \in 0..MaxDisturbances
    BY <1>3, DisturbType DEF Restart, TypeInv
  <2> QED
    BY <1>0, <1>3, <2>1, <2>2, <2>3
    DEF Restart, LocalsOK, AlertsManaged, PCs, Conditions
<1> QED
  BY <1>1, <1>2, <1>3

\* Everybody else.
LEMMA TypeOthers ==
    ASSUME TypeInv, Users \/ ChangeProvider \/ Drift
    PROVE  TypeInv'
<1> USE DEF kubeVars, providerVars, localVars, historyVars, RestOK
<1>0. LocalsOK /\ RestOK /\ (LocalsOK' /\ RestOK' => TypeInv')
  BY DEF TypeInv, TypeOK, LocalsOK, RestOK
<1>1. ASSUME NEW new \in Objects, UserWrite(new),
             applied' \subseteq Groups, cleaned' \subseteq Policies
      PROVE  TypeInv'
  BY <1>0, <1>1 DEF UserWrite, Store, LocalsOK, AlertsManaged
<1>2. CASE CreateObject
  <2>1. PICK spec \in Specs, policy \in Policies, foreign \in Foreign :
             UserWrite([NoObject(cr.uid + 1) EXCEPT
                           !.phase = "live", !.gen = 1, !.spec = spec,
                           !.policy = policy, !.foreign = foreign])
    BY <1>2 DEF CreateObject
  <2> cr.uid + 1 \in Nat
    BY <1>0 DEF Objects
  <2>2. NoObject(cr.uid + 1) \in Objects
    BY NoObjectType
  <2>3. [NoObject(cr.uid + 1) EXCEPT
            !.phase = "live", !.gen = 1, !.spec = spec,
            !.policy = policy, !.foreign = foreign] \in Objects
    BY <2>2, ConstantsAssumption DEF Objects, Phases
  <2> QED
    BY <1>1, <1>2, <2>1, <2>3 DEF CreateObject
<1>3. CASE EditSpec
  <2>1. PICK spec \in Specs : UserWrite([cr EXCEPT !.spec = spec, !.gen = @ + 1])
    BY <1>3 DEF EditSpec
  <2> DEFINE new == [cr EXCEPT !.spec = spec, !.gen = @ + 1]
  <2>2. new \in Objects
    <3>1. cr.gen + 1 \in Nat
      BY <1>0 DEF Objects
    <3> QED
      BY <1>0, <3>1, ConstantsAssumption DEF Objects
  <2>3. UserWrite(new)
    BY <2>1
  <2> HIDE DEF new
  <2> QED
    BY <1>0, <1>1, <1>3, <2>2, <2>3 DEF EditSpec
<1>4. CASE EditPolicy
  <2>1. PICK policy \in Policies :
             UserWrite([cr EXCEPT !.policy = policy, !.gen = @ + 1])
    BY <1>4 DEF EditPolicy
  <2> DEFINE new == [cr EXCEPT !.policy = policy, !.gen = @ + 1]
  <2>2. new \in Objects
    <3>1. cr.gen + 1 \in Nat
      BY <1>0 DEF Objects
    <3> QED
      BY <1>0, <3>1, ConstantsAssumption DEF Objects
  <2>3. UserWrite(new)
    BY <2>1
  <2> HIDE DEF new
  <2> QED
    BY <1>0, <1>1, <1>4, <2>2, <2>3 DEF EditPolicy
<1>5. CASE DeleteObject
  <2>1. CASE cr.finalizer \/ cr.foreign
    <3> DEFINE new == [cr EXCEPT !.phase = "deleting", !.gen = @ + 1]
    <3>1. new \in Objects
      <4>1. cr.gen + 1 \in Nat
        BY <1>0 DEF Objects
      <4> QED
        BY <1>0, <4>1 DEF Objects, Phases
    <3>2. UserWrite(new)
      BY <1>5, <2>1 DEF DeleteObject
    <3> HIDE DEF new
    <3> QED
      BY <1>0, <1>1, <1>5, <3>1, <3>2 DEF DeleteObject
  <2>2. CASE ~(cr.finalizer \/ cr.foreign)
    <3>1. NoObject(cr.uid) \in Objects
      BY <1>0, NoObjectType DEF Objects
    <3> QED
      BY <1>0, <1>1, <1>5, <2>2, <3>1 DEF DeleteObject
  <2> QED
    BY <2>1, <2>2
<1>6. CASE RemoveForeignFinalizer
  <2>1. CASE cr.finalizer
    <3> DEFINE new == [cr EXCEPT !.foreign = FALSE]
    <3>1. new \in Objects
      BY <1>0 DEF Objects, Phases
    <3>2. UserWrite(new)
      BY <1>6, <2>1 DEF RemoveForeignFinalizer
    <3> HIDE DEF new
    <3> QED
      BY <1>0, <1>1, <1>6, <3>1, <3>2 DEF RemoveForeignFinalizer
  <2>2. CASE ~cr.finalizer
    <3>1. NoObject(cr.uid) \in Objects
      BY <1>0, NoObjectType DEF Objects
    <3> QED
      BY <1>0, <1>1, <1>6, <2>2, <3>1 DEF RemoveForeignFinalizer
  <2> QED
    BY <2>1, <2>2
<1>7. CASE ChangeProvider
  <2>1. disturbances' \in 0..MaxDisturbances
    BY <1>7, DisturbType DEF ChangeProvider, TypeInv
  <2> QED
    BY <1>0, <1>7, <2>1 DEF ChangeProvider, LocalsOK, AlertsManaged
<1>8. CASE Drift
  <2>1. disturbances' \in 0..MaxDisturbances
    BY <1>8, DisturbType DEF Drift, TypeInv
  <2>2. ASSUME NEW g \in Groups, NEW v \in Values
        PROVE  [remote EXCEPT !.cfg[g] = v] \in Remotes
    BY <1>0 DEF Remotes
  <2>3. [remote EXCEPT !.archived = ~@] \in Remotes
    BY <1>0 DEF Remotes
  <2>4. remote' \in Remotes
    BY <1>8, <2>2, <2>3, RepositoryType DEF Drift
  <2> QED
    BY <1>0, <1>8, <2>1, <2>4 DEF Drift, LocalsOK, AlertsManaged
<1> QED
  BY <1>2, <1>3, <1>4, <1>5, <1>6, <1>7, <1>8 DEF Users

LEMMA TypeStep == TypeInv /\ [Next]_vars => TypeInv'
<1> SUFFICES ASSUME TypeInv, [Next]_vars PROVE TypeInv'
  OBVIOUS
<1>1. CASE Next
  BY <1>1, TypeWorker, TypeManager, TypeOthers DEF Next
<1>2. CASE UNCHANGED vars
  BY <1>2 DEF vars, kubeVars, providerVars, localVars, historyVars, TypeInv,
             TypeOK, AlertsManaged
<1> QED
  BY <1>1, <1>2

\* Every variable keeps its type, and the vulnerability alerts are touched only
\* under a manifest that manages them.
THEOREM TypeCorrect == Spec => [](TypeOK /\ AlertsManaged)
<1>1. TypeInv => TypeOK /\ AlertsManaged
  BY DEF TypeInv
<1> QED
  BY <1>1, TypeInit, TypeStep, PTL DEF Spec

(***************************************************************************)
(* Versions                                                                *)
(*                                                                         *)
(* The copies of the resource are ordered: what the worker holds is no     *)
(* later than the cache, the cache no later than the API server.  From it  *)
(* follows that a live copy with our finalizer, however old, still has its *)
(* resource guarded in the API server: only the worker takes the finalizer *)
(* away, and only with a copy later than every live one.                   *)
(***************************************************************************)

\* b is the version a of the resource or a later one, as far as it matters.
Later(a, b) ==
    \/ a.uid < b.uid
    \/ /\ a.uid = b.uid
       /\ a.phase = "absent" => b.phase = "absent"
       /\ a.phase = "deleting" => b.phase # "live"

\* What a live copy with our finalizer says is still so.
Guarded(c) ==
    c.phase = "live" /\ c.finalizer => cr.uid = c.uid /\ cr.finalizer

\* Which copies a reconcile can have at hand at each of its steps.
PhaseAtPC ==
    /\ pc = "addFinalizer" => obj.phase = "live"
    /\ pc = "resolve" => obj.phase \in {"live", "deleting"} /\ obj.finalizer
    /\ pc \in {"get", "create", "settings", "topics", "alertsGet", "alertsSet",
              "status"} => obj.phase = "live" /\ obj.finalizer
    /\ pc \in {"cleanup", "removeFinalizer"} => obj.phase = "deleting"

VersionInv ==
    /\ fresh => pc # "idle" /\ obj = cr
    /\ cacheFresh => cache = cr
    /\ Later(cache, cr)
    /\ pc # "idle" => Later(obj, cache)
    /\ cr.phase = "absent" => ~cr.finalizer
    /\ Guarded(cache)
    /\ pc # "idle" => Guarded(obj)
    /\ PhaseAtPC

LEMMA VersionInit == Init => VersionInv
BY DEF Init, VersionInv, NoObject, Later, Guarded, PhaseAtPC

\* A later version of a later version is later.
LEMMA LaterTransitive ==
    ASSUME NEW a \in Objects, NEW b \in Objects, NEW c \in Objects,
           Later(a, b), Later(b, c)
    PROVE  Later(a, c)
BY DEF Later, Objects, Phases

\* A reconcile that goes on with the same copy at a step meant for that copy.
LEMMA VersionGoesOn ==
    ASSUME VersionInv, UNCHANGED <<cr, cache, cacheFresh, obj, fresh>>,
           pc # "idle", pc' # "idle", PhaseAtPC'
    PROVE  VersionInv'
BY DEF VersionInv, Guarded, Later

\* A reconcile that returns without having written the resource.
LEMMA VersionReturns ==
    ASSUME VersionInv, UNCHANGED <<cr, cache, cacheFresh>>, NEW b, Return(b)
    PROVE  VersionInv'
BY DEF VersionInv, Guarded, Later, Return, PhaseAtPC

\* A reconcile that returns having written a version `new' that keeps the
\* incarnation, and the finalizer of a copy that others may still see live.
LEMMA VersionStored ==
    ASSUME TypeInv, VersionInv, NEW new \in Objects, Store(new), UNCHANGED cache,
           NEW b, Return(b), new.uid = cr.uid, Later(cr, new),
           new.phase = "absent" => ~new.finalizer,
           cache.phase = "live" /\ cache.finalizer => new.finalizer
    PROVE  VersionInv'
<1>1. Later(cache, new)
  BY LaterTransitive DEF VersionInv, TypeInv, TypeOK
<1>2. Guarded(cache)'
  BY DEF VersionInv, Guarded, Store
<1> QED
  BY <1>1, <1>2 DEF VersionInv, Return, Store, PhaseAtPC

LEMMA VersionWorker ==
    ASSUME TypeInv, VersionInv, WorkerStep
    PROVE  VersionInv'
<1> USE DEF kubeVars, providerVars
<1>0. /\ cr \in Objects /\ cache \in Objects /\ obj \in Objects
      /\ pc # "idle" => Later(obj, cache)
      /\ Guarded(cache) /\ PhaseAtPC
      /\ fresh => obj = cr
  BY DEF TypeInv, TypeOK, VersionInv
<1>1. CASE AddFinalizer
  <2> DEFINE new == [obj EXCEPT !.finalizer = TRUE]
  <2>0. PICK b \in BOOLEAN : Return(b)
    BY <1>1 DEF AddFinalizer
  <2>1. CASE fresh /\ Store(new)
    <3>1. /\ new \in Objects /\ new.uid = cr.uid /\ new.finalizer
          /\ new.phase = "live" /\ cr.phase = "live"
      BY <1>0, <1>1, <2>1 DEF AddFinalizer, PhaseAtPC, Objects
    <3>2. Later(cr, new)
      BY <3>1 DEF Later
    <3>3. Store(new) /\ UNCHANGED cache
      BY <1>1, <2>1 DEF AddFinalizer
    <3> HIDE DEF new
    <3> QED
      BY <2>0, <3>1, <3>2, <3>3, VersionStored
  <2>2. CASE UNCHANGED <<cr, cacheFresh>>
    BY <1>1, <2>0, <2>2, VersionReturns DEF AddFinalizer
  <2> QED
    BY <1>1, <2>1, <2>2 DEF AddFinalizer
<1>2. CASE ResolveProvider
  <2>1. CASE \/ Goto(IF obj.phase = "deleting" THEN "cleanup" ELSE "get")
             \/ /\ obj.phase = "live"
                /\ Conclude(IF providerCache = "suspended" THEN "Suspended" ELSE "Unavailable")
    <3>1. PhaseAtPC'
      BY <1>0, <1>2, <2>1 DEF ResolveProvider, PhaseAtPC, Goto, Conclude
    <3>2. pc' # "idle" /\ UNCHANGED <<obj, fresh>>
      BY <1>0, <1>2, <2>1 DEF ResolveProvider, PhaseAtPC, Goto, Conclude
    <3> QED
      BY <1>2, <3>1, <3>2, VersionGoesOn DEF ResolveProvider
  <2>2. CASE Return(TRUE)
    BY <1>2, <2>2, VersionReturns DEF ResolveProvider
  <2> QED
    BY <1>2, <2>1, <2>2 DEF ResolveProvider
<1>3. CASE \/ GetRepository \/ CreateRepository \/ UpdateRepository
           \/ ReplaceRepositoryTopics \/ GetRepositoryVulnerabilityAlerts
           \/ SetRepositoryVulnerabilityAlerts
  <2>1. /\ pc \in {"get", "create", "settings", "topics", "alertsGet", "alertsSet"}
        /\ pc' \in {"get", "create", "settings", "topics", "alertsGet",
                    "alertsSet", "status"}
        /\ UNCHANGED <<cr, cache, cacheFresh, obj, fresh>>
    BY <1>3 DEF GetRepository, CreateRepository, UpdateRepository,
                ReplaceRepositoryTopics, GetRepositoryVulnerabilityAlerts,
                SetRepositoryVulnerabilityAlerts, Write, Skip, Goto, Conclude
  <2>2. PhaseAtPC'
    BY <1>0, <2>1 DEF PhaseAtPC
  <2> QED
    BY <2>1, <2>2, VersionGoesOn
<1>4. CASE SetReadyCondition
  <2>1. CASE fresh /\ Store(NewStatus)
    <3>1. /\ NewStatus \in Objects /\ NewStatus.uid = cr.uid
          /\ NewStatus.finalizer = cr.finalizer /\ NewStatus.phase = "live"
          /\ cr.phase = "live" /\ cr.finalizer
      BY <1>0, <1>4, <2>1
      DEF SetReadyCondition, NewStatus, PhaseAtPC, Objects, TypeInv, TypeOK
    <3>2. Later(cr, NewStatus)
      BY <3>1 DEF Later
    <3> QED
      BY <1>4, <2>1, <3>1, <3>2, VersionStored DEF SetReadyCondition
  <2>2. CASE UNCHANGED <<cr, cacheFresh>>
    BY <1>4, <2>2, VersionReturns DEF SetReadyCondition
  <2> QED
    BY <1>4, <2>1, <2>2 DEF SetReadyCondition
<1>5. CASE CleanUp
  <2>1. CASE Goto("removeFinalizer") /\ UNCHANGED <<queued, seen>>
    <3>1. PhaseAtPC'
      BY <1>0, <1>5, <2>1 DEF CleanUp, PhaseAtPC, Goto
    <3> QED
      BY <1>5, <2>1, <3>1, VersionGoesOn DEF CleanUp, Goto
  <2>2. CASE Return(TRUE)
    BY <1>5, <2>2, VersionReturns DEF CleanUp
  <2> QED
    BY <1>5, <2>1, <2>2 DEF CleanUp
<1>6. CASE RemoveFinalizer
  <2>0. PICK b \in BOOLEAN : Return(b)
    BY <1>6 DEF RemoveFinalizer
  <2>1. CASE fresh /\ Store(Finalized)
    <3>1. obj = cr /\ cr.phase = "deleting" /\ Later(cr, cache)
      BY <1>0, <1>6, <2>1 DEF RemoveFinalizer, PhaseAtPC
    <3>2. /\ Finalized \in Objects /\ Finalized.uid = cr.uid
          /\ Finalized.phase \in {"deleting", "absent"} /\ ~Finalized.finalizer
      BY <1>0, <3>1, NoObjectType DEF Finalized, NoObject, Objects
    <3>3. Later(cr, Finalized)
      BY <3>1, <3>2 DEF Later
    <3>4. ~(cache.phase = "live" /\ cache.finalizer)
      \* it would be of this incarnation, and so no longer live
      BY <1>0, <3>1 DEF Guarded, Later, Objects
    <3> QED
      BY <1>6, <2>0, <2>1, <3>2, <3>3, <3>4, VersionStored DEF RemoveFinalizer
  <2>2. CASE UNCHANGED <<cr, cacheFresh>>
    BY <1>6, <2>0, <2>2, VersionReturns DEF RemoveFinalizer
  <2> QED
    BY <1>6, <2>1, <2>2 DEF RemoveFinalizer
<1> QED
  BY <1>1, <1>2, <1>3, <1>4, <1>5, <1>6 DEF WorkerStep

LEMMA VersionManager ==
    ASSUME TypeInv, VersionInv,
           Reconcile \/ SyncCache \/ HandleEvent \/ SyncProvider \/ Restart
    PROVE  VersionInv'
<1> USE DEF kubeVars, providerVars, localVars
<1>0. cr \in Objects /\ cache \in Objects /\ obj \in Objects
  BY DEF TypeInv, TypeOK
<1>1. CASE Reconcile
  <2>1. CASE pc' = "idle"
    BY <1>1, <2>1 DEF Reconcile, VersionInv, Guarded, Later, PhaseAtPC
  <2>2. CASE pc' # "idle"
    <3>1. obj' = cache /\ fresh' = cacheFresh /\ UNCHANGED <<cr, cache, cacheFresh>>
      BY <1>1, <2>2 DEF Reconcile
    <3>2. cache.phase \in {"absent", "live", "deleting"}
      BY <1>0 DEF Objects, Phases
    <3>3. pc' \in {"addFinalizer", "resolve", "removeFinalizer"} /\ PhaseAtPC'
      BY <1>1, <2>2, <3>1, <3>2 DEF Reconcile, Branch, PhaseAtPC
    <3> QED
      BY <2>2, <3>1, <3>3 DEF VersionInv, Guarded, Later
  <2> QED
    BY <2>1, <2>2
<1>2. CASE SyncCache
  <2>1. pc # "idle" => Later(obj, cr)
    BY <1>0, LaterTransitive DEF VersionInv
  <2> QED
    BY <1>0, <1>2, <2>1 DEF SyncCache, VersionInv, Guarded, Later, PhaseAtPC
<1>3. CASE HandleEvent \/ SyncProvider
  BY <1>3 DEF HandleEvent, SyncProvider, VersionInv, Guarded, Later, PhaseAtPC
<1>4. CASE Restart
  BY <1>4 DEF Restart, VersionInv, Guarded, Later, PhaseAtPC
<1> QED
  BY <1>1, <1>2, <1>3, <1>4

LEMMA VersionOthers ==
    ASSUME TypeInv, VersionInv, Users \/ ChangeProvider \/ Drift
    PROVE  VersionInv'
<1> USE DEF kubeVars, providerVars, localVars
<1>0. cr \in Objects /\ cache \in Objects /\ obj \in Objects
  BY DEF TypeInv, TypeOK
\* Users keep the finalizer; a new incarnation follows one that is gone.
<1>1. ASSUME NEW new \in Objects, UserWrite(new), Later(cr, new),
             new.phase = "absent" => ~new.finalizer,
             cr.finalizer => new.uid = cr.uid /\ new.finalizer
      PROVE  VersionInv'
  <2>1. Later(cache, new)
    BY <1>0, <1>1, LaterTransitive DEF VersionInv
  <2> QED
    BY <1>1, <2>1 DEF UserWrite, Store, VersionInv, Guarded, Later, PhaseAtPC
<1>2. CASE CreateObject
  <2>1. PICK spec \in Specs, policy \in Policies, foreign \in Foreign :
             UserWrite([NoObject(cr.uid + 1) EXCEPT
                           !.phase = "live", !.gen = 1, !.spec = spec,
                           !.policy = policy, !.foreign = foreign])
    BY <1>2 DEF CreateObject
  <2> DEFINE new == [NoObject(cr.uid + 1) EXCEPT
                        !.phase = "live", !.gen = 1, !.spec = spec,
                        !.policy = policy, !.foreign = foreign]
  <2>2. new \in Objects /\ new.uid = cr.uid + 1 /\ new.phase = "live"
    <3>1. cr.uid + 1 \in Nat
      BY <1>0 DEF Objects
    <3>2. NoObject(cr.uid + 1) \in Objects
      BY <3>1, NoObjectType
    <3> QED
      BY <3>1, <3>2, ConstantsAssumption DEF NoObject, Objects, Phases
  <2>3. UserWrite(new)
    BY <2>1
  <2> HIDE DEF new
  <2>4. Later(cr, new)
    BY <1>0, <2>2 DEF Later, Objects
  <2>5. ~cr.finalizer
    BY <1>2 DEF CreateObject, VersionInv
  <2> QED
    BY <1>1, <2>2, <2>3, <2>4, <2>5
<1>4. CASE EditSpec \/ EditPolicy
  <2>1. PICK new : /\ UserWrite(new) /\ new.uid = cr.uid
                   /\ new.finalizer = cr.finalizer /\ new.phase = cr.phase
                   /\ new \in Objects
    <3>1. cr.gen + 1 \in Nat
      BY <1>0 DEF Objects
    <3>2. CASE EditSpec
      <4>1. PICK spec \in Specs :
                 UserWrite([cr EXCEPT !.spec = spec, !.gen = @ + 1])
        BY <3>2 DEF EditSpec
      <4> DEFINE new == [cr EXCEPT !.spec = spec, !.gen = @ + 1]
      <4>2. /\ new.uid = cr.uid /\ new.finalizer = cr.finalizer
            /\ new.phase = cr.phase /\ new \in Objects
        BY <1>0, <3>1, ConstantsAssumption DEF Objects
      <4>3. UserWrite(new)
        BY <4>1
      <4> HIDE DEF new
      <4> QED
        BY <4>2, <4>3
    <3>3. CASE EditPolicy
      <4>1. PICK policy \in Policies :
                 UserWrite([cr EXCEPT !.policy = policy, !.gen = @ + 1])
        BY <3>3 DEF EditPolicy
      <4> DEFINE new == [cr EXCEPT !.policy = policy, !.gen = @ + 1]
      <4>2. /\ new.uid = cr.uid /\ new.finalizer = cr.finalizer
            /\ new.phase = cr.phase /\ new \in Objects
        BY <1>0, <3>1 DEF Objects
      <4>3. UserWrite(new)
        BY <4>1
      <4> HIDE DEF new
      <4> QED
        BY <4>2, <4>3
    <3> QED
      BY <1>4, <3>2, <3>3
  <2>2. cr.phase # "absent"
    BY <1>4 DEF EditSpec, EditPolicy
  <2>3. Later(cr, new)
    BY <2>1 DEF Later
  <2> QED
    BY <1>1, <2>1, <2>2, <2>3
<1>5. CASE DeleteObject \/ RemoveForeignFinalizer
  <2>1. CASE UserWrite(NoObject(cr.uid)) /\ ~cr.finalizer
    <3>1. NoObject(cr.uid) \in Objects
      BY <1>0, NoObjectType DEF Objects
    <3>2. /\ NoObject(cr.uid).uid = cr.uid /\ NoObject(cr.uid).phase = "absent"
          /\ ~NoObject(cr.uid).finalizer
      BY DEF NoObject
    <3>3. Later(cr, NoObject(cr.uid))
      BY <3>2 DEF Later
    <3> QED
      BY <1>1, <2>1, <3>1, <3>2, <3>3
  <2>2. CASE ~UserWrite(NoObject(cr.uid)) \/ cr.finalizer
    <3>1. PICK new : /\ UserWrite(new) /\ new.uid = cr.uid
                     /\ new.finalizer = cr.finalizer /\ new.phase = "deleting"
                     /\ new \in Objects
      <4>1. cr.gen + 1 \in Nat
        BY <1>0 DEF Objects
      <4>2. CASE DeleteObject
        <5> DEFINE new == [cr EXCEPT !.phase = "deleting", !.gen = @ + 1]
        <5>1. /\ new.uid = cr.uid /\ new.finalizer = cr.finalizer
              /\ new.phase = "deleting" /\ new \in Objects
          BY <1>0, <4>1 DEF Objects, Phases
        <5>2. UserWrite(new)
          BY <2>2, <4>2 DEF DeleteObject
        <5> HIDE DEF new
        <5> QED
          BY <5>1, <5>2
      <4>3. CASE RemoveForeignFinalizer
        <5> DEFINE new == [cr EXCEPT !.foreign = FALSE]
        <5>1. /\ new.uid = cr.uid /\ new.finalizer = cr.finalizer
              /\ new.phase = "deleting" /\ new \in Objects
          BY <1>0, <4>3 DEF RemoveForeignFinalizer, Objects
        <5>2. UserWrite(new)
          BY <2>2, <4>3 DEF RemoveForeignFinalizer
        <5> HIDE DEF new
        <5> QED
          BY <5>1, <5>2
      <4> QED
        BY <1>5, <4>2, <4>3
    <3>2. Later(cr, new)
      BY <1>5, <3>1 DEF Later, DeleteObject, RemoveForeignFinalizer
    <3> QED
      BY <1>1, <3>1, <3>2
  <2> QED
    BY <2>1, <2>2
<1>6. CASE ChangeProvider \/ Drift
  <2>1. UNCHANGED <<cr, cache, cacheFresh, pc, obj, fresh>>
    BY <1>6 DEF ChangeProvider, Drift
  <2> QED
    BY <2>1 DEF VersionInv, Guarded, Later, PhaseAtPC
<1> QED
  BY <1>2, <1>4, <1>5, <1>6 DEF Users

LEMMA VersionStep == TypeInv /\ VersionInv /\ [Next]_vars => VersionInv'
<1> SUFFICES ASSUME TypeInv, VersionInv, [Next]_vars PROVE VersionInv'
  OBVIOUS
<1>1. CASE Next
  BY <1>1, VersionWorker, VersionManager, VersionOthers DEF Next
<1>2. CASE UNCHANGED vars
  BY <1>2 DEF vars, kubeVars, localVars, VersionInv, Guarded, Later, PhaseAtPC
<1> QED
  BY <1>1, <1>2

(***************************************************************************)
(* The finalizer                                                           *)
(***************************************************************************)

\* NoOrphanedRepository with what the last steps of a deletion have achieved.
FinalizerInv ==
    /\ NoOrphanedRepository
    /\ pc = "removeFinalizer" /\ obj.policy = "Delete" =>
         ~(remote.exists /\ remote.byOperator)
    /\ pc = "removeFinalizer" /\ fresh => obj.policy \in cleaned \cup {"Orphan"}

\* Where the finalizer can go: nowhere but at the end of reconcileDelete, and
\* with a current copy.
LEMMA FinalizerKept ==
    ASSUME TypeInv, VersionInv, [Next]_vars, cr.finalizer, ~cr'.finalizer
    PROVE  RemoveFinalizer /\ fresh /\ obj = cr /\ released' = obj.policy
<1> USE DEF kubeVars, providerVars, localVars
<1>1. cr' # cr /\ cr.phase # "absent"
  BY DEF VersionInv
<1>2. CASE AddFinalizer \/ SetReadyCondition
  <2>1. fresh => obj = cr /\ obj \in Objects
    BY DEF VersionInv, TypeInv, TypeOK
  <2>2. CASE AddFinalizer
    BY <1>1, <2>1, <2>2 DEF AddFinalizer, Store, Objects
  <2>3. CASE SetReadyCondition
    BY <1>1, <2>1, <2>3 DEF SetReadyCondition, Store, NewStatus, Objects
  <2> QED
    BY <1>2, <2>2, <2>3
<1>3. CASE Users
  BY <1>1, <1>3
  DEF Users, CreateObject, EditSpec, EditPolicy, DeleteObject,
      RemoveForeignFinalizer, UserWrite, Store, TypeInv, TypeOK, Objects
<1>4. CASE RemoveFinalizer
  BY <1>1, <1>4 DEF RemoveFinalizer, Store, VersionInv
<1>5. CASE \/ Reconcile \/ ResolveProvider \/ GetRepository \/ CreateRepository
           \/ UpdateRepository \/ ReplaceRepositoryTopics
           \/ GetRepositoryVulnerabilityAlerts
           \/ SetRepositoryVulnerabilityAlerts \/ CleanUp
  BY <1>1, <1>5
  DEF Reconcile, ResolveProvider, GetRepository, CreateRepository,
      UpdateRepository, ReplaceRepositoryTopics,
      GetRepositoryVulnerabilityAlerts, SetRepositoryVulnerabilityAlerts, CleanUp
<1>6. CASE \/ SyncCache \/ HandleEvent \/ SyncProvider \/ Restart
           \/ ChangeProvider \/ Drift
  BY <1>1, <1>6
  DEF SyncCache, HandleEvent, SyncProvider, Restart, ChangeProvider, Drift
<1>7. CASE UNCHANGED vars
  BY <1>1, <1>7 DEF vars
<1> QED
  BY <1>2, <1>3, <1>4, <1>5, <1>6, <1>7 DEF Next, WorkerStep

\* What a step does to the footprint of the operator on GitHub.
LEMMA FootprintMade ==
    ASSUME TypeInv, VersionInv, [Next]_vars,
           remote'.exists /\ remote'.byOperator,
           ~(remote.exists /\ remote.byOperator)
    PROVE  CreateRepository /\ cr.finalizer /\ cr' = cr /\ released' = released
<1> USE DEF kubeVars, providerVars, localVars, historyVars
<1>1. remote' # remote /\ remote \in Remotes
  BY DEF TypeInv, TypeOK
<1>2. CASE CreateRepository
  BY <1>2 DEF CreateRepository, VersionInv, PhaseAtPC, Guarded
<1>3. CASE \/ UpdateRepository \/ ReplaceRepositoryTopics
           \/ SetRepositoryVulnerabilityAlerts
  BY <1>1, <1>3
  DEF UpdateRepository, ReplaceRepositoryTopics,
      SetRepositoryVulnerabilityAlerts, Write, Skip, Remotes
<1>4. CASE CleanUp
  BY <1>1, <1>4 DEF CleanUp, CleanedUp, NoRepository, NewRepository, Remotes
<1>5. CASE Drift
  BY <1>1, <1>5 DEF Drift, NoRepository, NewRepository, Remotes
<1>6. CASE \/ Reconcile \/ AddFinalizer \/ ResolveProvider \/ GetRepository
           \/ GetRepositoryVulnerabilityAlerts \/ SetReadyCondition
           \/ RemoveFinalizer
  BY <1>1, <1>6
  DEF Reconcile, AddFinalizer, ResolveProvider, GetRepository,
      GetRepositoryVulnerabilityAlerts, SetReadyCondition, RemoveFinalizer
<1>7. CASE \/ SyncCache \/ HandleEvent \/ SyncProvider \/ Restart
           \/ ChangeProvider \/ Users
  BY <1>1, <1>7
  DEF SyncCache, HandleEvent, SyncProvider, Restart, ChangeProvider, Users,
      CreateObject, EditSpec, EditPolicy, DeleteObject, RemoveForeignFinalizer,
      UserWrite
<1>8. CASE UNCHANGED vars
  BY <1>1, <1>8 DEF vars
<1> QED
  BY <1>2, <1>3, <1>4, <1>5, <1>6, <1>7, <1>8 DEF Next, WorkerStep

\* How a reconcile comes to removing the finalizer, or stays about to.
LEMMA BeforeRemoval ==
    ASSUME TypeInv, VersionInv, [Next]_vars, pc' = "removeFinalizer"
    PROVE  \/ Reconcile /\ obj'.policy = "Orphan"
           \/ /\ CleanUp /\ UNCHANGED <<cr, obj, fresh>>
              /\ remote' = CleanedUp /\ cleaned' = Credited
           \/ /\ pc = "removeFinalizer" /\ obj' = obj
              /\ fresh' => fresh /\ cleaned' = cleaned
<1> USE DEF kubeVars, providerVars, localVars, historyVars
<1>1. CASE Reconcile
  BY <1>1 DEF Reconcile, Branch, TypeInv, TypeOK, Objects, Phases
<1>2. CASE CleanUp
  BY <1>2 DEF CleanUp, Goto, Return
<1>3. CASE \/ AddFinalizer \/ SetReadyCondition \/ RemoveFinalizer
           \/ ResolveProvider \/ Restart
  BY <1>3 DEF AddFinalizer, SetReadyCondition, RemoveFinalizer, ResolveProvider,
              Restart, Return, Goto, Conclude
<1>4. CASE \/ GetRepository \/ CreateRepository \/ UpdateRepository
           \/ ReplaceRepositoryTopics \/ GetRepositoryVulnerabilityAlerts
           \/ SetRepositoryVulnerabilityAlerts
  BY <1>4
  DEF GetRepository, CreateRepository, UpdateRepository, ReplaceRepositoryTopics,
      GetRepositoryVulnerabilityAlerts, SetRepositoryVulnerabilityAlerts,
      Write, Skip, Goto, Conclude
<1>5. CASE Users
  BY <1>5
  DEF Users, CreateObject, EditSpec, EditPolicy, DeleteObject,
      RemoveForeignFinalizer, UserWrite
<1>6. CASE SyncCache \/ HandleEvent \/ SyncProvider \/ ChangeProvider \/ Drift
  BY <1>6 DEF SyncCache, HandleEvent, SyncProvider, ChangeProvider, Drift
<1>7. CASE UNCHANGED vars
  BY <1>7 DEF vars
<1> QED
  BY <1>1, <1>2, <1>3, <1>4, <1>5, <1>6, <1>7 DEF Next, WorkerStep

\* `released' changes only with the finalizer.
LEMMA ReleasedKept ==
    ASSUME [Next]_vars, released' # released
    PROVE  RemoveFinalizer /\ fresh /\ released' = obj.policy
<1> USE DEF kubeVars, providerVars, localVars, historyVars
<1>1. CASE WorkerStep
  BY <1>1
  DEF WorkerStep, AddFinalizer, ResolveProvider, GetRepository, CreateRepository,
      UpdateRepository, ReplaceRepositoryTopics,
      GetRepositoryVulnerabilityAlerts, SetRepositoryVulnerabilityAlerts,
      SetReadyCondition, CleanUp, RemoveFinalizer
<1>2. CASE Users
  BY <1>2
  DEF Users, CreateObject, EditSpec, EditPolicy, DeleteObject,
      RemoveForeignFinalizer, UserWrite
<1>3. CASE \/ Reconcile \/ SyncCache \/ HandleEvent \/ SyncProvider \/ Restart
           \/ ChangeProvider \/ Drift
  BY <1>3 DEF Reconcile, SyncCache, HandleEvent, SyncProvider, Restart,
              ChangeProvider, Drift
<1>4. CASE UNCHANGED vars
  BY <1>4 DEF vars
<1> QED
  BY <1>1, <1>2, <1>3, <1>4 DEF Next

LEMMA FinalizerInit == Init => FinalizerInv
BY DEF Init, FinalizerInv, NoOrphanedRepository, NoObject, NoRepository,
       NewRepository

LEMMA FinalizerStep ==
    ASSUME TypeInv, VersionInv, FinalizerInv, [Next]_vars
    PROVE  FinalizerInv'
<1>0. cr \in Objects /\ obj \in Objects /\ remote \in Remotes
  BY DEF TypeInv, TypeOK
<1>1. NoOrphanedRepository'
  <2> SUFFICES ASSUME remote'.exists /\ remote'.byOperator
               PROVE  cr'.finalizer \/ released' \in {"Orphan", "Archive"}
    BY DEF NoOrphanedRepository
  <2>1. CASE ~(remote.exists /\ remote.byOperator)
    BY <2>1, FootprintMade
  <2>2. CASE remote.exists /\ remote.byOperator
    <3>1. cr.finalizer \/ released \in {"Orphan", "Archive"}
      BY <2>2 DEF FinalizerInv, NoOrphanedRepository
    <3>2. CASE RemoveFinalizer /\ released' = obj.policy
      BY <1>0, <2>2, <3>2 DEF RemoveFinalizer, FinalizerInv, Objects, Policies
    <3> QED
      BY <3>1, <3>2, FinalizerKept, ReleasedKept
  <2> QED
    BY <2>1, <2>2
<1>2. ASSUME pc' = "removeFinalizer", obj'.policy = "Delete"
      PROVE  ~(remote'.exists /\ remote'.byOperator)
  <2>1. CASE CleanUp /\ remote' = CleanedUp /\ obj' = obj
    BY <1>0, <1>2, <2>1 DEF CleanedUp, NoRepository, NewRepository, Remotes
  <2>2. CASE pc = "removeFinalizer" /\ obj' = obj
    <3>1. ~(remote.exists /\ remote.byOperator)
      BY <1>2, <2>2 DEF FinalizerInv
    <3> QED
      BY <2>2, <3>1, FootprintMade DEF CreateRepository
  <2> QED
    BY <1>2, <2>1, <2>2, BeforeRemoval
<1>3. ASSUME pc' = "removeFinalizer", fresh'
      PROVE  obj'.policy \in cleaned' \cup {"Orphan"}
  <2>1. CASE UNCHANGED <<cr, obj, fresh>> /\ cleaned' = Credited
    BY <1>3, <2>1 DEF Credited, VersionInv
  <2>2. CASE /\ pc = "removeFinalizer" /\ obj' = obj
             /\ fresh' => fresh /\ cleaned' = cleaned
    BY <1>3, <2>2 DEF FinalizerInv
  <2> QED
    BY <1>3, <2>1, <2>2, BeforeRemoval
<1> QED
  BY <1>1, <1>2, <1>3 DEF FinalizerInv

Inv == TypeInv /\ VersionInv /\ FinalizerInv

LEMMA Invariance == Spec => []Inv
<1>1. Init => Inv
  BY TypeInit, VersionInit, FinalizerInit DEF Inv
<1>2. Inv /\ [Next]_vars => Inv'
  BY TypeStep, VersionStep, FinalizerStep DEF Inv
<1> QED
  BY <1>1, <1>2, PTL DEF Spec

\* For every set of manifests, every number of incarnations, edits and
\* failures: a repository that the operator created has a guarded resource or
\* was given up by its deletion policy (AddFinalizer before, RemoveFinalizer
\* after every GitHub call).
THEOREM FinalizerSafety == Spec => []NoOrphanedRepository
<1>1. Inv => NoOrphanedRepository
  BY DEF Inv, FinalizerInv
<1> QED
  BY <1>1, Invariance, PTL

\* Likewise the finalizer goes only once the policy in force at that moment has
\* been carried out for this deletion.
THEOREM PolicyHonoured == Spec => FinalizerHonoursPolicy
<1>1. Inv /\ [Next]_vars =>
        [cr.finalizer /\ ~cr'.finalizer =>
           cr.policy = "Orphan" \/ cr.policy \in cleaned]_vars
  <2> SUFFICES ASSUME Inv, [Next]_vars, cr.finalizer, ~cr'.finalizer
               PROVE  cr.policy = "Orphan" \/ cr.policy \in cleaned
    OBVIOUS
  <2>1. RemoveFinalizer /\ fresh /\ obj = cr
    BY FinalizerKept DEF Inv
  <2> QED
    BY <2>1 DEF Inv, FinalizerInv, RemoveFinalizer
<1> QED
  BY <1>1, Invariance, PTL DEF Spec, FinalizerHonoursPolicy

\* The reconciler implements the contract of a finalizer: each of its steps is
\* a step of the contract or leaves phase, policy, guard and footprint alone.
THEOREM Refinement == Spec => ImplementsContract
<1> USE DEF Contract!contractVars, kubeVars, providerVars, localVars, historyVars
<1> DEFINE footprint == remote.exists /\ remote.byOperator
<1>1. Init => Contract!ContractInit
  BY DEF Init, Contract!ContractInit, NoObject, Policies, NoRepository, NewRepository
<1>2. Inv /\ Inv' /\ [Next]_vars => [Contract!ContractNext]_Contract!contractVars
  <2> SUFFICES ASSUME Inv, Inv', [Next]_vars
               PROVE  [Contract!ContractNext]_Contract!contractVars
    OBVIOUS
  <2>0. /\ cr \in Objects /\ cr' \in Objects
        /\ cr.policy \in Policies /\ cr'.policy \in Policies
        /\ fresh => obj = cr
        /\ footprint \in BOOLEAN /\ footprint' \in BOOLEAN
    BY DEF Inv, TypeInv, TypeOK, Objects, VersionInv
  <2>1. CASE AddFinalizer
    <3>1. UNCHANGED remote
      BY <2>1 DEF AddFinalizer
    <3>2. CASE UNCHANGED cr
      BY <3>1, <3>2
    <3>3. CASE fresh /\ cr' = [obj EXCEPT !.finalizer = TRUE]
      <4>1. cr.phase = "live" /\ cr'.finalizer = TRUE
            /\ cr'.phase = cr.phase /\ cr'.policy = cr.policy
        BY <2>0, <2>1, <3>3
        DEF Inv, VersionInv, PhaseAtPC, AddFinalizer, Objects
      <4> QED
        BY <3>1, <4>1 DEF Contract!ContractNext, Contract!Hold
    <3> QED
      BY <2>1, <3>2, <3>3 DEF AddFinalizer, Store
  <2>2. CASE SetReadyCondition
    <3>1. UNCHANGED <<remote, cr.phase, cr.policy, cr.finalizer>>
      BY <2>0, <2>2 DEF SetReadyCondition, Store, NewStatus, Objects
    <3> QED
      BY <3>1
  <2>3. CASE CreateRepository
    <3>1. cr.finalizer /\ UNCHANGED cr
      BY <2>3 DEF CreateRepository, Inv, VersionInv, PhaseAtPC, Guarded
    <3>2. UNCHANGED remote \/ footprint'
      BY <2>3 DEF CreateRepository, NewRepository
    <3> QED
      BY <3>1, <3>2 DEF Contract!ContractNext, Contract!Make
  <2>4. CASE \/ UpdateRepository \/ ReplaceRepositoryTopics
             \/ SetRepositoryVulnerabilityAlerts \/ CleanUp \/ Drift
    <3>1. UNCHANGED cr /\ remote \in Remotes /\ remote' \in Remotes
      BY <2>4 DEF UpdateRepository, ReplaceRepositoryTopics,
                  SetRepositoryVulnerabilityAlerts, CleanUp, Drift,
                  Inv, TypeInv, TypeOK
    <3>2. footprint' => CreateRepository \/ footprint
      BY FootprintMade DEF Inv
    <3>3. ~CreateRepository
      BY <2>4
      DEF CreateRepository, UpdateRepository, ReplaceRepositoryTopics,
          SetRepositoryVulnerabilityAlerts, CleanUp, Drift, Goto, Conclude
    <3>4. CASE footprint' = FALSE
      BY <3>1, <3>4 DEF Contract!ContractNext, Contract!Clear
    <3>5. CASE footprint' = footprint
      BY <3>1, <3>5
    <3> QED
      BY <2>0, <3>2, <3>3, <3>4, <3>5
  <2>5. CASE RemoveFinalizer
    <3>1. UNCHANGED remote
      BY <2>5 DEF RemoveFinalizer
    <3>2. CASE UNCHANGED cr
      BY <3>1, <3>2
    <3>3. CASE fresh /\ cr' = Finalized
      <4>1. /\ obj = cr /\ cr.phase = "deleting"
            /\ cr.policy \in {"Orphan", "Archive"} \/ ~footprint
        BY <2>0, <2>5, <3>3
        DEF RemoveFinalizer, Inv, VersionInv, FinalizerInv, PhaseAtPC, Policies
      <4>2. cr'.finalizer = FALSE /\ cr'.phase \in {"deleting", "absent"}
        BY <2>0, <3>3, <4>1 DEF Finalized, NoObject, Objects
      <4>3. CASE cr.finalizer
        BY <2>0, <3>1, <4>1, <4>2, <4>3
        DEF Contract!ContractNext, Contract!Release
      <4>4. CASE ~cr.finalizer
        BY <2>0, <3>1, <4>1, <4>2, <4>4
        DEF Contract!ContractNext, Contract!UserMoves, Objects
      <4> QED
        BY <4>3, <4>4
    <3> QED
      BY <2>5, <3>2, <3>3 DEF RemoveFinalizer, Store
  <2>6. CASE Users
    <3>1. UNCHANGED remote
      BY <2>6
      DEF Users, CreateObject, EditSpec, EditPolicy, DeleteObject,
          RemoveForeignFinalizer, UserWrite
    <3>2. cr'.finalizer = cr.finalizer
      <4>1. cr.finalizer => cr'.finalizer
        BY <2>6, FinalizerKept
        DEF Inv, RemoveFinalizer, Return, Users, CreateObject, EditSpec, EditPolicy,
            DeleteObject, RemoveForeignFinalizer, UserWrite
      <4>2. cr'.finalizer => cr.finalizer
        <5>1. CASE CreateObject
          BY <2>0, <5>1 DEF CreateObject, UserWrite, Store, NoObject
        <5>2. CASE EditSpec
          BY <2>0, <5>2 DEF EditSpec, UserWrite, Store, Objects
        <5>4. CASE EditPolicy
          BY <2>0, <5>4 DEF EditPolicy, UserWrite, Store, Objects
        <5>3. CASE DeleteObject
          BY <2>0, <5>3 DEF DeleteObject, UserWrite, Store, NoObject, Objects
        <5>5. CASE RemoveForeignFinalizer
          BY <2>0, <5>5
          DEF RemoveForeignFinalizer, UserWrite, Store, NoObject, Objects
        <5> QED
          BY <2>6, <5>1, <5>2, <5>3, <5>4, <5>5 DEF Users
      <4> QED
        BY <2>0, <4>1, <4>2 DEF Objects
    <3>3. \/ cr'.phase = cr.phase
          \/ cr.phase = "absent" /\ cr'.phase = "live"
          \/ cr.phase = "live" /\ cr'.phase = "deleting"
          \/ cr.phase # "absent" /\ ~cr.finalizer /\ cr'.phase = "absent"
      <4>1. CASE CreateObject
        BY <4>1 DEF CreateObject, UserWrite, Store, NoObject
      <4>2. CASE EditSpec
        BY <2>0, <4>2 DEF EditSpec, UserWrite, Store, Objects
      <4>3. CASE EditPolicy
        BY <2>0, <4>3 DEF EditPolicy, UserWrite, Store, Objects
      <4>4. CASE DeleteObject
        BY <2>0, <4>4 DEF DeleteObject, UserWrite, Store, NoObject, Objects
      <4>5. CASE RemoveForeignFinalizer
        BY <2>0, <4>5 DEF RemoveForeignFinalizer, UserWrite, Store, NoObject, Objects
      <4> QED
        BY <2>6, <4>1, <4>2, <4>3, <4>4, <4>5 DEF Users
    <3> QED
      BY <2>0, <3>1, <3>2, <3>3
      DEF Contract!ContractNext, Contract!UserMoves
  <2>7. CASE \/ Reconcile \/ ResolveProvider \/ GetRepository
             \/ GetRepositoryVulnerabilityAlerts \/ SyncCache \/ HandleEvent
             \/ SyncProvider \/ Restart \/ ChangeProvider
    <3>1. UNCHANGED <<cr, remote>>
      BY <2>7
      DEF Reconcile, ResolveProvider, GetRepository,
          GetRepositoryVulnerabilityAlerts, SyncCache, HandleEvent, SyncProvider,
          Restart, ChangeProvider
    <3> QED
      BY <3>1
  <2>8. CASE UNCHANGED vars
    BY <2>8 DEF vars
  <2> QED
    BY <2>1, <2>2, <2>3, <2>4, <2>5, <2>6, <2>7, <2>8 DEF Next, WorkerStep
<1> QED
  BY <1>1, <1>2, Invariance, PTL DEF Spec, ImplementsContract, Contract!ContractSpec

(***************************************************************************)
(* Ready                                                                   *)
(***************************************************************************)

Earned(g) == obj.spec[g] = Unmanaged \/ g \in applied

\* As long as the worker's copy is the current version, what it has got through
\* GitHub has agreed with, and what it believes to agree does.
Progress ==
    /\ pc \in {"settings", "topics"} =>
         (seen["topics"] = obj.spec["topics"] => "topics" \in applied)
    /\ pc = "settings" =>
         (seen["settings"] = obj.spec["settings"] => "settings" \in applied)
    /\ pc \in {"topics", "alertsGet", "alertsSet"} => Earned("settings")
    /\ pc \in {"alertsGet", "alertsSet"} => Earned("topics")
    /\ pc = "status" /\ verdict = "Ready" => \A g \in Groups : Earned(g)

ReadyInv ==
    /\ ReadyIsEarned
    /\ cr.obsGen <= cr.gen
    /\ fresh => Progress

LEMMA ReadyInit == Init => ReadyInv
BY DEF Init, ReadyInv, ReadyIsEarned, NoObject

\* A reconcile that concludes with something else than Ready has no progress
\* to account for.
LEMMA ProgressConcluded ==
    ASSUME NEW condition, condition # "Ready", Conclude(condition)
    PROVE  Progress'
BY DEF Conclude, Progress

\* What a repository payload says, and what is recorded of it.
LEMMA ProgressPayload ==
    ASSUME TypeInv, obj = cr, NEW cfg \in [Groups -> Values]
    PROVE  /\ Payload(cfg)["settings"] = cfg["settings"]
           /\ Payload(cfg)["topics"] = cfg["topics"]
           /\ \A gs \in SUBSET Groups : \A g \in gs :
                 cfg[g] = obj.spec[g] => g \in Agreeing(gs, cfg)
BY DEF Payload, Agreeing, Groups

\* After a successful write GitHub agrees with the group that was written.
LEMMA ProgressWritten ==
    ASSUME TypeInv, obj = cr, NEW g \in Groups, NEW gs \in SUBSET Groups, g \in gs,
           remote' = [remote EXCEPT !.cfg[g] = obj.spec[g]]
    PROVE  /\ remote'.cfg[g] = obj.spec[g]
           /\ g \in Agreeing(gs, remote'.cfg)
<1>1. remote.cfg \in [Groups -> Values] /\ remote \in Remotes
  BY DEF TypeInv, TypeOK, Remotes
<1>2. remote'.cfg = [remote.cfg EXCEPT ![g] = obj.spec[g]]
  BY <1>1 DEF Remotes
<1>3. remote'.cfg[g] = obj.spec[g]
  BY <1>1, <1>2
<1> QED
  BY <1>3 DEF Agreeing

\* Each call of the reconcile keeps the account.
LEMMA ProgressStep ==
    ASSUME TypeInv, Inv', VersionInv, ReadyInv, fresh,
           \/ GetRepository \/ CreateRepository \/ UpdateRepository
           \/ ReplaceRepositoryTopics \/ GetRepositoryVulnerabilityAlerts
           \/ SetRepositoryVulnerabilityAlerts
    PROVE  Progress'
<1> USE DEF kubeVars, providerVars
<1>0. /\ obj = cr /\ Progress /\ applied \subseteq Groups
      /\ seen \in [Groups -> Values]
      /\ remote.cfg \in [Groups -> Values] /\ remote'.cfg \in [Groups -> Values]
  BY DEF VersionInv, ReadyInv, TypeInv, TypeOK, Inv, Remotes
<1>1. ASSUME NEW cfg \in [Groups -> Values], Goto("settings"),
             seen' = Payload(cfg),
             applied' = applied \cup Agreeing({"settings", "topics"}, cfg)
      PROVE  Progress'
  <2>1. /\ seen'["settings"] = cfg["settings"] /\ seen'["topics"] = cfg["topics"]
        /\ \A g \in {"settings", "topics"} : cfg[g] = obj.spec[g] => g \in applied'
    BY <1>0, <1>1, ProgressPayload DEF Groups
  <2> QED
    BY <1>1, <2>1 DEF Progress, Goto
<1>2. CASE Conclude("Failed")
  BY <1>2, ProgressConcluded
<1>3. CASE GetRepository
  BY <1>0, <1>1, <1>2, <1>3 DEF GetRepository, Goto, Progress
<1>4. CASE CreateRepository
  BY <1>0, <1>1, <1>2, <1>4 DEF CreateRepository
<1>5. CASE UpdateRepository
  <2>1. pc = "settings"
    BY <1>5 DEF UpdateRepository
  <2>2. CASE ~Differs("settings") /\ Skip("topics")
    BY <1>0, <2>1, <2>2 DEF Differs, Skip, Goto, Progress, Earned, Groups
  <2>3. CASE /\ remote' = [remote EXCEPT !.cfg["settings"] = obj.spec["settings"]]
             /\ Goto("topics") /\ seen' = Payload(remote'.cfg)
             /\ applied' = applied \cup Agreeing({"settings", "topics"}, remote'.cfg)
    <3>1. "settings" \in applied'
      BY <1>0, <2>3, ProgressWritten DEF Groups
    <3>2. seen'["topics"] = obj.spec["topics"] => "topics" \in applied'
      BY <1>0, <2>3, ProgressPayload DEF Groups
    <3> QED
      BY <2>3, <3>1, <3>2 DEF Goto, Progress, Earned
  <2> QED
    BY <1>2, <1>5, <2>2, <2>3 DEF UpdateRepository, Write
<1>6. CASE ReplaceRepositoryTopics
  <2> DEFINE next == IF obj.spec.alerts = Unmanaged THEN "done" ELSE "alertsGet"
  <2>1. pc = "topics" /\ Earned("settings")
    BY <1>0, <1>6 DEF ReplaceRepositoryTopics, Progress
  <2>2. ASSUME Goto(next), applied \subseteq applied',
               obj.spec["topics"] = Unmanaged \/ "topics" \in applied'
        PROVE  Progress'
    BY <2>1, <2>2 DEF Goto, Progress, Earned, Groups
  <2>3. CASE ~Differs("topics") /\ Skip(next)
    BY <1>0, <2>1, <2>2, <2>3 DEF Differs, Skip, Progress, Groups
  <2>4. CASE /\ remote' = [remote EXCEPT !.cfg["topics"] = obj.spec["topics"]]
             /\ Goto(next) /\ applied' = applied \cup Agreeing({"topics"}, remote'.cfg)
    <3>1. "topics" \in applied'
      BY <1>0, <2>4, ProgressWritten DEF Groups
    <3> QED
      BY <2>2, <2>4, <3>1
  <2> QED
    BY <1>2, <1>6, <2>3, <2>4 DEF ReplaceRepositoryTopics, Write
<1>7. CASE GetRepositoryVulnerabilityAlerts
  <2>1. pc = "alertsGet" /\ Earned("settings") /\ Earned("topics")
    BY <1>0, <1>7 DEF GetRepositoryVulnerabilityAlerts, Progress
  <2>2. CASE /\ Goto(IF AlertsOnGitHub = obj.spec.alerts THEN "done" ELSE "alertsSet")
             /\ applied' = applied \cup {g \in {"alerts"} : AlertsOnGitHub = cr.spec[g]}
    BY <1>0, <2>1, <2>2 DEF Goto, Progress, Earned, Groups
  <2> QED
    BY <1>2, <1>7, <2>2 DEF GetRepositoryVulnerabilityAlerts
<1>8. CASE SetRepositoryVulnerabilityAlerts
  <2>1. pc = "alertsSet" /\ Earned("settings") /\ Earned("topics")
    BY <1>0, <1>8 DEF SetRepositoryVulnerabilityAlerts, Progress
  <2>2. CASE /\ remote' = [remote EXCEPT !.cfg["alerts"] = obj.spec["alerts"]]
             /\ Goto("done") /\ applied' = applied \cup Agreeing({"alerts"}, remote'.cfg)
    <3>1. "alerts" \in applied'
      BY <1>0, <2>2, ProgressWritten DEF Groups
    <3> QED
      BY <2>1, <2>2, <3>1 DEF Goto, Progress, Earned, Groups
  <2> QED
    BY <1>2, <1>8, <2>2 DEF SetRepositoryVulnerabilityAlerts, Write
<1> QED
  BY <1>3, <1>4, <1>5, <1>6, <1>7, <1>8

\* The steps that write the resource.
LEMMA ReadyStored ==
    ASSUME TypeInv, cr' \in Objects, VersionInv, ReadyInv,
           AddFinalizer \/ SetReadyCondition \/ RemoveFinalizer \/ Users
    PROVE  ReadyInv'
<1> USE DEF localVars
<1>0. /\ cr \in Objects /\ obj \in Objects /\ (fresh => obj = cr /\ Progress)
      /\ cr'.obsGen \in Nat /\ cr'.gen \in Nat
  BY DEF TypeInv, TypeOK, VersionInv, ReadyInv, Objects
<1>1. ~fresh'
  BY DEF AddFinalizer, SetReadyCondition, RemoveFinalizer, Return, Users,
         CreateObject, EditSpec, EditPolicy, DeleteObject,
         RemoveForeignFinalizer, UserWrite
<1>2. CASE UNCHANGED <<cr, applied>>
  BY <1>1, <1>2 DEF ReadyInv, ReadyIsEarned
<1>3. ASSUME UNCHANGED applied, cr'.cond = cr.cond, cr'.obsGen = cr.obsGen,
             cr'.gen = cr.gen, cr'.spec = cr.spec, cr.phase # "absent"
      PROVE  ReadyInv'
  BY <1>1, <1>3 DEF ReadyInv, ReadyIsEarned
<1>4. CASE cr'.phase = "absent" /\ cr'.obsGen = 0
  BY <1>0, <1>1, <1>4 DEF ReadyInv, ReadyIsEarned
<1>5. CASE cr'.obsGen < cr'.gen
  BY <1>0, <1>1, <1>5 DEF ReadyInv, ReadyIsEarned
<1>6. CASE AddFinalizer
  <2>1. UNCHANGED applied /\ obj.phase = "live"
    BY <1>6 DEF AddFinalizer, VersionInv, PhaseAtPC, historyVars
  <2>2. CASE fresh /\ cr' = [obj EXCEPT !.finalizer = TRUE]
    BY <1>0, <1>3, <2>1, <2>2 DEF Objects
  <2> QED
    BY <1>2, <1>6, <2>1, <2>2 DEF AddFinalizer, Store
<1>7. CASE SetReadyCondition
  <2>1. CASE fresh /\ cr' = NewStatus /\ UNCHANGED applied
    <3>1. /\ cr'.cond = verdict /\ cr'.spec = cr.spec
          /\ cr'.obsGen = cr'.gen /\ cr'.gen \in Nat /\ pc = "status"
      BY <1>0, <1>7, <2>1 DEF SetReadyCondition, NewStatus, Objects
    <3>2. verdict = "Ready" => \A g \in Groups : Earned(g)
      BY <1>0, <2>1, <3>1 DEF Progress
    <3> QED
      BY <1>0, <1>1, <2>1, <3>1, <3>2 DEF ReadyInv, ReadyIsEarned, Earned
  <2> QED
    BY <1>2, <1>7, <2>1 DEF SetReadyCondition, Store, historyVars
<1>8. CASE RemoveFinalizer
  <2>1. UNCHANGED applied /\ obj.phase = "deleting"
    BY <1>8 DEF RemoveFinalizer, VersionInv, PhaseAtPC
  <2>2. CASE fresh /\ cr' = [obj EXCEPT !.finalizer = FALSE]
    BY <1>0, <1>3, <2>1, <2>2 DEF Objects
  <2>3. CASE cr' = NoObject(obj.uid)
    BY <1>4, <2>3 DEF NoObject
  <2> QED
    BY <1>2, <1>8, <2>1, <2>2, <2>3 DEF RemoveFinalizer, Store, Finalized
<1>9. CASE Users
  <2>0. cr.gen \in Nat /\ cr.obsGen \in Nat /\ cr.obsGen <= cr.gen
    BY <1>0 DEF Objects, ReadyInv
  <2>1. CASE CreateObject
    BY <1>5, <2>1 DEF CreateObject, UserWrite, Store, NoObject
  <2>2. CASE EditSpec
    BY <1>0, <1>5, <2>0, <2>2 DEF EditSpec, UserWrite, Store, Objects
  <2>3. CASE EditPolicy
    BY <1>0, <1>5, <2>0, <2>3 DEF EditPolicy, UserWrite, Store, Objects
  <2>4. CASE DeleteObject
    BY <1>0, <1>4, <1>5, <2>0, <2>4
    DEF DeleteObject, UserWrite, Store, NoObject, Objects
  <2>5. CASE RemoveForeignFinalizer
    BY <1>0, <1>3, <1>4, <2>0, <2>5
    DEF RemoveForeignFinalizer, UserWrite, Store, NoObject, Objects
  <2> QED
    BY <1>9, <2>1, <2>2, <2>3, <2>4, <2>5 DEF Users
<1> QED
  BY <1>6, <1>7, <1>8, <1>9

LEMMA ReadyStep ==
    ASSUME Inv, Inv', ReadyInv, [Next]_vars
    PROVE  ReadyInv'
<1> USE DEF kubeVars, providerVars, localVars, historyVars
<1>0. TypeInv /\ VersionInv /\ cr' \in Objects
  BY DEF Inv, TypeInv, TypeOK
<1>1. CASE AddFinalizer \/ SetReadyCondition \/ RemoveFinalizer \/ Users
  BY <1>0, <1>1, ReadyStored
\* The account of applied groups only grows within a generation.
<1>2. ASSUME UNCHANGED cr, applied \subseteq applied', fresh' => Progress'
      PROVE  ReadyInv'
  BY <1>2 DEF ReadyInv, ReadyIsEarned
<1>3. CASE \/ GetRepository \/ CreateRepository \/ UpdateRepository
           \/ ReplaceRepositoryTopics \/ GetRepositoryVulnerabilityAlerts
           \/ SetRepositoryVulnerabilityAlerts
  <2>1. UNCHANGED <<cr, fresh>> /\ applied \subseteq applied'
    BY <1>3
    DEF GetRepository, CreateRepository, UpdateRepository, ReplaceRepositoryTopics,
        GetRepositoryVulnerabilityAlerts, SetRepositoryVulnerabilityAlerts,
        Write, Skip, Goto, Conclude
  <2> QED
    BY <1>0, <1>2, <1>3, <2>1, ProgressStep
<1>4. CASE Reconcile \/ ResolveProvider \/ CleanUp
  <2>1. UNCHANGED <<cr, applied>>
    BY <1>4 DEF Reconcile, ResolveProvider, CleanUp
  <2>2. /\ pc' \in {"idle", "addFinalizer", "resolve", "removeFinalizer", "get",
                    "cleanup", "status"}
        /\ pc' = "status" => verdict' # "Ready"
    <3>1. CASE Reconcile
      BY <1>0, <3>1 DEF Reconcile, Branch, TypeInv, TypeOK, Objects, Phases
    <3>2. CASE ResolveProvider
      BY <3>2 DEF ResolveProvider, Goto, Conclude, Return
    <3>3. CASE CleanUp
      BY <3>3 DEF CleanUp, Goto, Return
    <3> QED
      BY <1>4, <3>1, <3>2, <3>3
  <2>3. fresh' => Progress'
    BY <2>2 DEF Progress
  <2> QED
    BY <1>2, <2>1, <2>3
<1>5. CASE \/ SyncCache \/ HandleEvent \/ SyncProvider \/ Restart
           \/ ChangeProvider \/ Drift \/ UNCHANGED vars
  <2>1. UNCHANGED <<cr, applied>> /\ (fresh' => UNCHANGED <<pc, obj, seen, verdict, fresh>>)
    BY <1>5 DEF SyncCache, HandleEvent, SyncProvider, Restart, ChangeProvider,
                Drift, vars
  <2>2. fresh' => Progress'
    BY <2>1 DEF ReadyInv, Progress, Earned
  <2> QED
    BY <1>2, <2>1, <2>2
<1> QED
  BY <1>1, <1>3, <1>4, <1>5 DEF Next, WorkerStep

\* Ready=True for the current generation means that GitHub has agreed with all
\* that this generation manages, for every set of manifests and every number of
\* edits and failures (setReadyCondition under the resourceVersion it read).
THEOREM ReadySafety == Spec => []ReadyIsEarned
<1>1. Init => Inv /\ ReadyInv
  BY TypeInit, VersionInit, FinalizerInit, ReadyInit DEF Inv
<1>2. Inv /\ Inv' /\ ReadyInv /\ [Next]_vars => ReadyInv'
  BY ReadyStep
<1>3. ReadyInv => ReadyIsEarned
  BY DEF ReadyInv
<1> QED
  BY <1>1, <1>2, <1>3, Invariance, PTL DEF Spec
=============================================================================
