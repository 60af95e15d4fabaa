---------------------------- MODULE RulesetProofs ----------------------------
(***************************************************************************)
(* The safety properties of RepositoryRuleset, for all manifests and all   *)
(* bounds.                                                                 *)
(*                                                                         *)
(* The first lemmas say what a step can do: a call (CallDetail), any other *)
(* step (OtherDetail), and either of them to GitHub (GithubGrowth).  Each  *)
(* conjunct of the inductive invariant IInv then has a lemma of its own.   *)
(***************************************************************************)
EXTENDS RepositoryRuleset, FiniteSetTheorems, TLAPS

-----------------------------------------------------------------------------
(* Types *)

Labels == {"idle", "addFinalizer", "resolve", "getRepository", "actors", "getRecorded",
           "list", "getListed", "create", "update", "status", "delete",
           "removeFinalizer"}

\* A resource that is there has a manifest and a status.
Whole(c) == c.phase # "absent" => c.spec \in Specs /\ c.status \in Statuses

ManagedInv ==
    /\ ManagedTypeOK(Statuses, Labels)
    /\ Whole(cr) /\ Whole(cache) /\ Whole(obj)
    /\ pc = "status" => report \in Statuses

\* The worker's copy, and what it can be at each step.
CopyInv ==
    /\ fresh => obj = cr /\ pc # "idle"
    /\ cacheFresh => cache = cr
    /\ pc # "idle" => obj.phase # "absent"
    /\ pc \in {"addFinalizer", "getRepository", "actors", "create", "update", "status"} =>
         obj.phase = "live"
    /\ pc \in {"delete", "removeFinalizer"} => obj.phase = "deleting"

\* GitHub.
GithubInv ==
    /\ repository \in BOOLEAN /\ rulesets \subseteq Rulesets /\ lastID \in Nat
    /\ repository \/ rulesets = {}
    /\ \A r, s \in rulesets : r.id \in 1..lastID /\ (r.id = s.id => r = s)

TypeInv == ManagedInv /\ CopyInv /\ GithubInv

\* The steps of the worker that ask or change GitHub, and those that write the
\* resource.
Call ==
    \/ ResolveRepository \/ GetRemoteRepository \/ ResolveBypassActors
    \/ GetRecordedRuleset \/ ListRulesets \/ GetListedRuleset
    \/ CreateRepositoryRuleset \/ UpdateRepositoryRuleset \/ DeleteRepositoryRuleset
Writing == AddRulesetFinalizer \/ SetReadyCondition \/ RemoveRulesetFinalizer

LEMMA NoObjectType == NoObject \in Objects(Statuses) /\ Whole(NoObject)
BY DEF NoObject, Objects, Whole, Phases, Policies

\* What a write may change leaves an object.
LEMMA EditedType ==
    ASSUME NEW c \in Objects(Statuses), Whole(c), c.phase # "absent",
           NEW spec \in Specs, NEW policy \in Policies, NEW phase \in Phases,
           NEW gen \in Nat
    PROVE  \A new \in {[c EXCEPT !.spec = spec, !.gen = gen],
                       [c EXCEPT !.finalizer = TRUE, !.spec = spec, !.gen = gen],
                       [c EXCEPT !.policy = policy, !.gen = gen],
                       [c EXCEPT !.phase = phase, !.gen = gen]} :
              new \in Objects(Statuses) /\ Whole(new)
<1>1. [c EXCEPT !.spec = spec, !.gen = gen] \in Objects(Statuses)
      /\ [c EXCEPT !.finalizer = TRUE, !.spec = spec, !.gen = gen] \in Objects(Statuses)
      /\ [c EXCEPT !.policy = policy, !.gen = gen] \in Objects(Statuses)
      /\ [c EXCEPT !.phase = phase, !.gen = gen] \in Objects(Statuses)
  BY DEF Objects
<1>2. Whole([c EXCEPT !.spec = spec, !.gen = gen])
      /\ Whole([c EXCEPT !.finalizer = TRUE, !.spec = spec, !.gen = gen])
      /\ Whole([c EXCEPT !.policy = policy, !.gen = gen])
      /\ Whole([c EXCEPT !.phase = phase, !.gen = gen])
  BY DEF Objects, Whole
<1> QED
  BY <1>1, <1>2

LEMMA StatusType ==
    ASSUME ManagedInv, obj.phase # "absent", NEW id \in Nat
    PROVE  Failed \in Statuses /\ Synchronized(id) \in Statuses
BY DEF ManagedInv, ManagedTypeOK, Whole, Objects, Statuses, Failed, Synchronized

\* The worker returns, goes on, or concludes.
Returned ==
    /\ pc' = "idle" /\ obj' = NoObject /\ fresh' = FALSE /\ report' = Nothing
    /\ queued' \in BOOLEAN
Went(labels) == pc' \in labels /\ UNCHANGED <<queued, obj, fresh, report>>
Concluded(status) ==
    pc' = "status" /\ report' = status /\ UNCHANGED <<queued, obj, fresh, found>>

LEMMA CallOutcome ==
    ASSUME TypeInv, Call
    PROVE  /\ UNCHANGED <<clusterVars, dependencyVars>>
           /\ disturbances' \in 0..MaxDisturbances
           /\ pc \notin {"idle", "addFinalizer", "status", "removeFinalizer"}
           /\ \/ obj.phase = "deleting" /\ Returned
              \/ obj.phase = "deleting"
                 /\ Went({"getRecorded", "list", "getListed", "delete", "removeFinalizer"})
              \/ obj.phase = "live"
                 /\ Went({"getRepository", "actors", "getRecorded", "list", "getListed",
                          "create", "update"})
              \/ obj.phase = "live" /\ Concluded(Failed)
              \/ obj.phase = "live" /\ \E id \in Nat : Concluded(Synchronized(id))
<1> USE DEF TypeInv, ManagedInv, CopyInv, GithubInv, ManagedTypeOK, Calm, Disturb,
            LocalStep, CallsGitHub, clusterVars, dependencyVars
<1> DEFINE Outcome ==
              \/ obj.phase = "deleting" /\ Returned
              \/ obj.phase = "deleting"
                 /\ Went({"getRecorded", "list", "getListed", "delete", "removeFinalizer"})
              \/ obj.phase = "live"
                 /\ Went({"getRepository", "actors", "getRecorded", "list", "getListed",
                          "create", "update"})
              \/ obj.phase = "live" /\ Concluded(Failed)
              \/ obj.phase = "live" /\ \E id \in Nat : Concluded(Synchronized(id))
<1>0. /\ MaxDisturbances \in Nat
      /\ disturbances \in 0..MaxDisturbances
      /\ \A r \in rulesets : r.id \in Nat
      /\ pc # "idle" => obj.phase \in {"live", "deleting"}
  BY BoundsAssumption DEF Objects, Phases, Rulesets
<1>a. Return(TRUE) => Returned
  BY Zenon DEF Return, Returned
<1>b. ASSUME NEW label, NEW answer, NEW labels, label \in labels, Goto(label, answer)
      PROVE  Went(labels)
  BY <1>b DEF Goto, Went
<1>c. \A status : Conclude(status) => Concluded(status)
  BY DEF Conclude, Concluded
<1>d. pc # "idle" /\ Fails => Outcome
  BY <1>0, <1>a, <1>c DEF Fails
<1>e. ASSUME pc # "idle", NEW r \in rulesets, Go(r)
      PROVE  Outcome
  BY <1>0, <1>b, <1>c, <1>e DEF Go
<1>f. pc # "idle" /\ Missing => Outcome
  BY <1>0, <1>b DEF Missing
<1> HIDE DEF Outcome
<1>1. CASE ResolveRepository
  <2>1. Outcome
    BY <1>0, <1>1, <1>a, <1>b, <1>c DEF ResolveRepository, Resolve, FirstLookup, Outcome
  <2>2. pc = "resolve" /\ (Calm \/ Disturb) /\ CallsGitHub
    BY <1>1, Zenon DEF ResolveRepository, Resolve, Unresolved
  <2> QED  BY <1>0, <2>1, <2>2 DEF Outcome
<1>2. CASE GetRemoteRepository
  <2>1. Outcome
    BY <1>0, <1>2, <1>b, <1>c DEF GetRemoteRepository, FirstLookup, Outcome
  <2> QED  BY <1>0, <1>2, <2>1 DEF GetRemoteRepository, Outcome
<1>3. CASE ResolveBypassActors
  <2>1. Outcome
    BY <1>0, <1>3, <1>b, <1>c DEF ResolveBypassActors, FirstLookup, Outcome
  <2> QED  BY <1>0, <1>3, <2>1 DEF ResolveBypassActors, Outcome
<1>4. CASE GetRecordedRuleset
  <2>1. Goto("list", 0) => Outcome
    BY <1>0, <1>4, <1>b DEF GetRecordedRuleset, Outcome
  <2>2. Outcome
    BY <1>0, <1>4, <2>1, <1>d, <1>e DEF GetRecordedRuleset
  <2> QED  BY <1>0, <1>4, <2>2 DEF GetRecordedRuleset, Outcome
<1>5. CASE ListRulesets
  <2>1. \A r \in rulesets : Goto("getListed", r.id) => Outcome
    BY <1>0, <1>5, <1>b DEF ListRulesets, Outcome
  <2>2. Outcome
    BY <1>0, <1>5, <2>1, <1>d, <1>f DEF ListRulesets
  <2> QED  BY <1>0, <1>5, <2>2 DEF ListRulesets, Outcome
<1>6. CASE GetListedRuleset
  <2>1. Outcome
    BY <1>0, <1>6, <1>d, <1>e, <1>f DEF GetListedRuleset
  <2> QED  BY <1>0, <1>6, <2>1 DEF GetListedRuleset, Outcome
<1>7. CASE CreateRepositoryRuleset
  <2>1. Outcome
    BY <1>0, <1>7, <1>c DEF CreateRepositoryRuleset, Create, Outcome
  <2> QED  BY <1>0, <1>7, <2>1 DEF CreateRepositoryRuleset, Outcome
<1>8. CASE UpdateRepositoryRuleset
  <2>1. Outcome
    BY <1>0, <1>8, <1>c DEF UpdateRepositoryRuleset, Outcome
  <2> QED  BY <1>0, <1>8, <2>1 DEF UpdateRepositoryRuleset, Outcome
<1>9. CASE DeleteRepositoryRuleset
  <2>1. /\ pc = "delete" /\ (Calm \/ Disturb) /\ CallsGitHub
        /\ Goto("removeFinalizer", 0) \/ Return(TRUE)
    BY <1>9, Zenon DEF DeleteRepositoryRuleset
  <2>2. Outcome
    BY <1>0, <2>1, <1>a, <1>b, Zenon DEF Outcome
  <2> QED  BY <1>0, <2>1, <2>2 DEF Outcome
<1> QED
  BY <1>1, <1>2, <1>3, <1>4, <1>5, <1>6, <1>7, <1>8, <1>9 DEF Call

\* A write of the resource: it came through, or nothing has changed.
LEMMA UpdateOutcome ==
    ASSUME TypeInv, NEW new, NEW requeue \in BOOLEAN, Update(new, requeue)
    PROVE  /\ Returned /\ UNCHANGED <<cache, dependencyVars>>
           /\ disturbances' \in 0..MaxDisturbances
           /\ \/ fresh /\ cr' = new /\ cacheFresh' = FALSE
              \/ UNCHANGED <<cr, cacheFresh>>
<1>1. queued \in BOOLEAN /\ MaxDisturbances \in Nat /\ disturbances \in 0..MaxDisturbances
  BY BoundsAssumption DEF TypeInv, ManagedInv, ManagedTypeOK
<1>2. \A b \in BOOLEAN : Return(b) => Returned
  BY <1>1, Zenon DEF Return, Returned
<1>3. Returned
  BY <1>2, Zenon DEF Update
<1>4. /\ UNCHANGED <<cache, dependencyVars>> /\ (Calm \/ Disturb)
      /\ (fresh /\ Store(new)) \/ UNCHANGED <<cr, cacheFresh>>
  BY Zenon DEF Update
<1> QED
  BY <1>1, <1>3, <1>4 DEF Store, Calm, Disturb

LEMMA ManagedStep ==
    ASSUME TypeInv, Next
    PROVE  ManagedInv' /\ CopyInv'
<1> USE DEF ManagedInv, CopyInv, ManagedTypeOK, clusterVars, dependencyVars, localVars
<1>0. TypeInv
  OBVIOUS
<1>1. MaxDisturbances \in Nat
  BY BoundsAssumption
<1>2. CASE Call
  <2>1. /\ UNCHANGED <<clusterVars, dependencyVars>>
        /\ disturbances' \in 0..MaxDisturbances
    BY <1>0, <1>2, CallOutcome
  <2>2. CASE Returned
    BY <1>0, <2>1, <2>2, NoObjectType DEF Returned, Whole, TypeInv
  <2>3. ASSUME NEW labels \in SUBSET (Labels \ {"idle", "status"}), Went(labels)
        PROVE  ManagedInv' /\ pc' \in labels /\ (fresh' => obj' = cr') /\ obj' = obj
    BY <1>0, <2>1, <2>3 DEF Went, Whole, TypeInv
  <2>4. ASSUME obj.phase = "deleting",
               Went({"getRecorded", "list", "getListed", "delete", "removeFinalizer"})
        PROVE  ManagedInv' /\ CopyInv'
    BY <1>0, <2>1, <2>3, <2>4 DEF Labels, TypeInv
  <2>5. ASSUME obj.phase = "live",
               Went({"getRepository", "actors", "getRecorded", "list", "getListed",
                     "create", "update"})
        PROVE  ManagedInv' /\ CopyInv'
    BY <1>0, <2>1, <2>3, <2>5 DEF Labels, TypeInv
  <2>6. ASSUME NEW status \in Statuses, obj.phase = "live", Concluded(status)
        PROVE  ManagedInv' /\ CopyInv'
    BY <1>0, <2>1, <2>6 DEF Concluded, Labels, Whole, TypeInv
  <2> QED
    BY <1>0, <1>2, <2>2, <2>4, <2>5, <2>6, CallOutcome, StatusType DEF TypeInv
<1>3. ASSUME NEW new \in Objects(Statuses), Whole(new), NEW requeue \in BOOLEAN,
             Update(new, requeue)
      PROVE  ManagedInv' /\ CopyInv'
  <2>1. /\ Returned /\ UNCHANGED <<cache, dependencyVars>>
        /\ disturbances' \in 0..MaxDisturbances
        /\ \/ fresh /\ cr' = new /\ cacheFresh' = FALSE
           \/ UNCHANGED <<cr, cacheFresh>>
    BY <1>0, <1>3, UpdateOutcome
  <2>2. ManagedTypeOK(Statuses, Labels)'
    BY <1>0, <1>3, <2>1, NoObjectType DEF Returned, TypeInv, Labels
  <2>3. (Whole(cr) /\ Whole(cache) /\ Whole(obj))'
    BY <1>0, <1>3, <2>1, NoObjectType DEF Returned, TypeInv
  <2>4. CopyInv'
    BY <1>0, <2>1 DEF Returned, TypeInv
  <2> QED
    BY <2>1, <2>2, <2>3, <2>4 DEF Returned
<1>4. CASE AddRulesetFinalizer
  <2> DEFINE spec == Serialized(obj.spec)
             gen  == IF spec = obj.spec THEN obj.gen ELSE obj.gen + 1
  <2>1. obj \in Objects(Statuses) /\ Whole(obj) /\ obj.phase # "absent"
    BY <1>0, <1>4 DEF AddRulesetFinalizer, TypeInv
  <2>2. spec \in Specs /\ gen \in Nat
    BY <2>1, SpecsAssumption DEF Serialized, Whole, Objects
  <2>3. Update([obj EXCEPT !.finalizer = TRUE, !.spec = spec, !.gen = gen], FALSE)
    BY <1>4 DEF AddRulesetFinalizer
  <2> HIDE DEF spec, gen
  <2>4. [obj EXCEPT !.finalizer = TRUE, !.spec = spec, !.gen = gen] \in Objects(Statuses)
        /\ Whole([obj EXCEPT !.finalizer = TRUE, !.spec = spec, !.gen = gen])
    BY <2>1, <2>2, EditedType DEF Policies, Phases
  <2> QED
    BY <1>3, <2>3, <2>4
<1>5. CASE SetReadyCondition
  <2>1. pc = "status" /\ WriteStatus
    BY <1>5 DEF SetReadyCondition, WriteStatus
  <2>2. [obj EXCEPT !.status = report] \in Objects(Statuses)
        /\ Whole([obj EXCEPT !.status = report])
    BY <1>0, <2>1 DEF TypeInv, Whole, Objects
  <2>3. CASE report = obj.status
    <3>1. Return(TRUE) /\ Calm /\ UNCHANGED <<clusterVars, dependencyVars>>
      BY <2>1, <2>3, Zenon DEF WriteStatus
    <3>2. Returned
      BY <3>1, Zenon DEF Return, Returned
    <3> QED
      BY <1>0, <3>1, <3>2, NoObjectType DEF Returned, Calm, Whole, TypeInv
  <2> QED
    BY <1>3, <2>1, <2>2, <2>3, Zenon DEF WriteStatus
<1>6. CASE RemoveRulesetFinalizer
  <2>1. Update(NoObject, FALSE)
    BY <1>6 DEF RemoveRulesetFinalizer, RemoveFinalizer
  <2> QED
    BY <1>3, <2>1, NoObjectType
<1>7. CASE Reconcile
  <2>1. /\ pc = "idle" /\ queued' = FALSE /\ pc' = Branch(cache, "resolve")
        /\ UNCHANGED <<clusterVars, dependencyVars, found, report, disturbances>>
        /\ \/ pc' = "idle" /\ UNCHANGED <<obj, fresh>>
           \/ pc' # "idle" /\ obj' = cache /\ fresh' = cacheFresh
    BY <1>7 DEF Reconcile, Fetch
  <2>2. CASE pc' = "idle"
    <3>1. ManagedTypeOK(Statuses, Labels)'
      BY <1>0, <2>1, <2>2 DEF TypeInv, Labels
    <3>2. (Whole(cr) /\ Whole(cache) /\ Whole(obj))'
      BY <1>0, <2>1, <2>2 DEF TypeInv
    <3>3. CopyInv'
      BY <1>0, <2>1, <2>2 DEF TypeInv
    <3> QED
      BY <2>2, <3>1, <3>2, <3>3
  <2>3. CASE pc' # "idle"
    <3>1. cache.phase \in Phases
      BY <1>0 DEF TypeInv, Objects
    <3>2. \/ pc' = "addFinalizer" /\ cache.phase = "live"
          \/ pc' = "resolve" /\ cache.phase \in {"live", "deleting"}
          \/ pc' = "removeFinalizer" /\ cache.phase = "deleting"
      BY <2>1, <2>3, <3>1 DEF Branch, Phases
    <3>3. ManagedTypeOK(Statuses, Labels)'
      BY <1>0, <2>1, <2>3, <3>2 DEF TypeInv, Labels
    <3>4. (Whole(cr) /\ Whole(cache) /\ Whole(obj))'
      BY <1>0, <2>1, <2>3 DEF TypeInv
    <3>5. CopyInv'
      BY <1>0, <2>1, <2>3, <3>2 DEF TypeInv
    <3> QED
      BY <3>2, <3>3, <3>4, <3>5
  <2> QED
    BY <2>2, <2>3
<1>8. CASE SyncCache
  BY <1>0, <1>8 DEF SyncCache, TypeInv, Whole
<1>9. CASE SyncDependency
  BY <1>0, <1>9 DEF SyncDependency, TypeInv, Whole
<1>10. CASE Restart
  <2>1. (cr.phase # "absent") \in BOOLEAN
    OBVIOUS
  <2>2. /\ Disturb /\ cache' = cr /\ cacheFresh' = TRUE /\ queued' \in BOOLEAN
        /\ dependencyCache' = dependency /\ pc' = "idle" /\ UNCHANGED <<cr, dependency>>
        /\ obj' = NoObject /\ fresh' = FALSE /\ report' = Nothing
    BY <1>10, <2>1, Zenon DEF Restart
  <2>6. disturbances' \in 0..MaxDisturbances
    BY <1>0, <1>1, <2>2 DEF Disturb, TypeInv
  <2>3. ManagedTypeOK(Statuses, Labels)'
    BY <1>0, <2>2, <2>6, NoObjectType DEF TypeInv, Labels
  <2>4. (Whole(cr) /\ Whole(cache) /\ Whole(obj))'
    BY <1>0, <2>2, NoObjectType DEF TypeInv
  <2>5. CopyInv'
    BY <1>0, <2>2 DEF TypeInv
  <2> QED
    BY <2>2, <2>3, <2>4, <2>5
<1>11. CASE Administrate
  <2>1. Disturb /\ UNCHANGED <<clusterVars, queued, dependencyVars, pc, localVars>>
    BY <1>11, Zenon DEF Administrate
  <2> QED
    BY <1>0, <1>1, <2>1 DEF Disturb, TypeInv, Whole
<1>12. ASSUME NEW new \in Objects(Statuses), Whole(new), UserWrite(new)
       PROVE  ManagedInv' /\ CopyInv'
  BY <1>0, <1>12 DEF UserWrite, Store, TypeInv, Whole
<1>13. CASE EditSpec \/ EditPolicy \/ DeleteObject
  <2>1. /\ cr \in Objects(Statuses) /\ cr.phase # "absent" /\ Whole(cr)
        /\ cr.spec \in Specs /\ cr.gen + 1 \in Nat
    <3>1. cr \in Objects(Statuses) /\ cr.phase # "absent" /\ Whole(cr)
      BY <1>0, <1>13 DEF EditSpec, EditPolicy, DeleteObject, TypeInv
    <3> QED
      BY <3>1 DEF Whole, Objects
  <2>2. CASE EditSpec
    <3>1. PICK spec \in Specs : UserWrite([cr EXCEPT !.spec = spec, !.gen = cr.gen + 1])
      BY <2>2 DEF EditSpec
    <3> QED
      BY <1>12, <2>1, <3>1, EditedType DEF Policies, Phases
  <2>3. CASE EditPolicy
    <3>1. PICK policy \in Policies :
             UserWrite([cr EXCEPT !.policy = policy, !.gen = cr.gen + 1])
      BY <2>3 DEF EditPolicy
    <3> QED
      BY <1>12, <2>1, <3>1, EditedType DEF Phases
  <2>4. CASE DeleteObject
    <3>1. UserWrite([cr EXCEPT !.phase = "deleting", !.gen = cr.gen + 1])
          \/ UserWrite(NoObject)
      BY <2>4 DEF DeleteObject
    <3> QED
      BY <1>12, <2>1, <3>1, NoObjectType, EditedType DEF Policies, Phases
  <2> QED
    BY <1>13, <2>2, <2>3, <2>4
<1>14. CASE ChangeDependency
  BY <1>0, <1>1, <1>14 DEF ChangeDependency, Disturb, TypeInv, Whole
<1> QED
  BY <1>2, <1>4, <1>5, <1>6, <1>7, <1>8, <1>9, <1>10, <1>11, <1>13, <1>14
     DEF Next, WorkerStep, Call, Manager, Users

\* What a step may do to GitHub.
LEMMA GithubOutcome ==
    ASSUME Next
    PROVE  \/ UNCHANGED github
           \/ pc = "create" /\ repository /\ Create
           \/ pc = "update" /\ \E r \in rulesets : r.id = found /\ Overwrite(r)
           \/ pc = "delete" /\ Delete(found)
           \/ Administrate /\ ~WorkerStep
<1>1. CASE Reconcile \/ Manager \/ Users
  BY <1>1 DEF Reconcile, Manager, Users
<1>2. CASE Administrate /\ ~WorkerStep
  BY <1>2
<1>3. CASE WorkerStep
  <2>1. CASE Writing
    BY <2>1 DEF Writing, AddRulesetFinalizer, SetReadyCondition, RemoveRulesetFinalizer
  <2>2. CASE ResolveRepository \/ GetRemoteRepository \/ ResolveBypassActors
             \/ GetRecordedRuleset \/ ListRulesets \/ GetListedRuleset
    BY <2>2 DEF ResolveRepository, GetRemoteRepository, ResolveBypassActors,
                GetRecordedRuleset, ListRulesets, GetListedRuleset, LocalStep
  <2>3. CASE CreateRepositoryRuleset
    BY <2>3 DEF CreateRepositoryRuleset
  <2>4. CASE UpdateRepositoryRuleset
    BY <2>4 DEF UpdateRepositoryRuleset
  <2>5. CASE DeleteRepositoryRuleset
    BY <2>5, Zenon DEF DeleteRepositoryRuleset
  <2> QED
    BY <1>3, <2>1, <2>2, <2>3, <2>4, <2>5 DEF WorkerStep, Writing
<1> QED
  BY <1>1, <1>2, <1>3 DEF Next

LEMMA GithubStep ==
    ASSUME TypeInv, Next
    PROVE  GithubInv'
<1> USE DEF GithubInv
<1>0. GithubInv
  BY DEF TypeInv
<1>1. CASE UNCHANGED github
  BY <1>0, <1>1 DEF github
<1>2. CASE pc = "create" /\ repository /\ Create
  <2>1. obj.spec \in Specs /\ obj.spec.name \in Names
    BY <1>2 DEF TypeInv, ManagedInv, CopyInv, Whole, Names
  <2>2. Written(obj.spec, "none") \in Bypass
    BY <2>1, SpecsAssumption DEF Written, Bypass
  <2> DEFINE new == [id |-> lastID + 1, name |-> obj.spec.name,
                     bypass |-> Written(obj.spec, "none"), ours |-> TRUE]
  <2>3. new \in Rulesets /\ new.id = lastID + 1 /\ lastID + 1 \in Nat
    BY <1>0, <2>1, <2>2 DEF Rulesets
  <2>4. repository' = repository /\ rulesets' = rulesets \cup {new} /\ lastID' = lastID + 1
    BY <1>2 DEF Create
  <2> HIDE DEF new
  <2> QED
    BY <1>0, <1>2, <2>3, <2>4
<1>3. CASE pc = "update" /\ \E r \in rulesets : r.id = found /\ Overwrite(r)
  <2>1. obj.spec \in Specs /\ obj.spec.name \in Names
    BY <1>3 DEF TypeInv, ManagedInv, CopyInv, Whole, Names
  <2>2. PICK r \in rulesets : Overwrite(r)
    BY <1>3
  <2>3. r \in Rulesets
    BY <1>0
  <2>4. Written(obj.spec, r.bypass) \in Bypass
    BY <2>1, <2>3, SpecsAssumption DEF Written, Bypass, Rulesets
  <2> DEFINE new == [r EXCEPT !.name = obj.spec.name,
                              !.bypass = Written(obj.spec, r.bypass)]
  <2>5. new \in Rulesets /\ new.id = r.id
    BY <2>1, <2>3, <2>4 DEF Rulesets
  <2>6. UNCHANGED <<repository, lastID>> /\ rulesets' = (rulesets \ {r}) \cup {new}
    BY <2>2 DEF Overwrite
  <2> HIDE DEF new
  <2> QED
    BY <1>0, <2>2, <2>5, <2>6
<1>4. CASE pc = "delete" /\ Delete(found)
  BY <1>0, <1>4 DEF Delete
<1>5. CASE Administrate
  <2>1. CASE \E r \in rulesets : rulesets' = rulesets \ {r} /\ UNCHANGED <<repository, lastID>>
    BY <1>0, <2>1
  <2>2. ASSUME NEW r \in rulesets, NEW new \in Rulesets, new.id = r.id,
               rulesets' = (rulesets \ {r}) \cup {new}, UNCHANGED <<repository, lastID>>
        PROVE  GithubInv'
    BY <1>0, <2>2
  <2>3. \A r \in rulesets : r \in Rulesets
        /\ (\A name \in Names : [r EXCEPT !.name = name] \in Rulesets
                                /\ [r EXCEPT !.name = name].id = r.id)
        /\ (\A bypass \in Bypass : [r EXCEPT !.bypass = bypass] \in Rulesets
                                   /\ [r EXCEPT !.bypass = bypass].id = r.id)
    BY <1>0 DEF Rulesets
  <2>4. ASSUME NEW name \in Names, repository, UNCHANGED repository, lastID' = lastID + 1,
               rulesets' = rulesets \cup {[id |-> lastID + 1, name |-> name,
                                           bypass |-> "listed", ours |-> FALSE]}
        PROVE  GithubInv'
    <3> DEFINE new == [id |-> lastID + 1, name |-> name, bypass |-> "listed",
                       ours |-> FALSE]
    <3>1. new \in Rulesets /\ new.id = lastID + 1 /\ lastID + 1 \in Nat
      BY <1>0 DEF Rulesets, Bypass
    <3> HIDE DEF new
    <3>2. rulesets' = rulesets \cup {new}
      BY <2>4 DEF new
    <3> QED
      BY <1>0, <2>4, <3>1, <3>2
  <2>5. CASE repository' = ~repository /\ rulesets' = {} /\ UNCHANGED lastID
    BY <1>0, <2>5
  <2> QED
    BY <1>5, <2>1, <2>2, <2>3, <2>4, <2>5 DEF Administrate
<1> QED
  BY <1>1, <1>2, <1>3, <1>4, <1>5, GithubOutcome

LEMMA InitTypes ==
    ASSUME Init
    PROVE  TypeInv
<1> DEFINE status == [cond |-> "Unknown", obsGen |-> 0, id |-> 0]
<1>1. PICK spec \in Specs, policy \in Policies :
         cr = [phase |-> "live", gen |-> 1, spec |-> spec, policy |-> policy,
               finalizer |-> FALSE, status |-> status]
  BY DEF Init, ManagedInit
<1>2. cr \in Objects(Statuses) /\ Whole(cr)
  BY <1>1 DEF Objects, Phases, Statuses, Whole
<1>3. /\ cache = cr /\ cacheFresh = TRUE /\ queued = TRUE
      /\ dependency \in BOOLEAN /\ dependencyCache = dependency /\ pc = "idle"
      /\ obj = NoObject /\ fresh = FALSE /\ report = Nothing /\ disturbances = 0
  BY DEF Init, ManagedInit
<1>4. ManagedInv
  <2>1. disturbances \in 0..MaxDisturbances
    BY <1>3, BoundsAssumption
  <2>2. ManagedTypeOK(Statuses, Labels)
    BY <1>2, <1>3, <2>1, NoObjectType DEF ManagedTypeOK, Labels
  <2> QED
    BY <1>2, <1>3, <2>2, NoObjectType DEF ManagedInv
<1>5. CopyInv
  BY <1>3 DEF CopyInv
<1>6. GithubInv
  <2>1. CASE rulesets = {} /\ lastID = 0
    BY <2>1 DEF Init, GithubInv
  <2>2. CASE lastID = 1 /\ \E name \in Names, bypass \in Bypass :
                rulesets = {[id |-> 1, name |-> name, bypass |-> bypass, ours |-> FALSE]}
    BY <2>2 DEF Init, GithubInv, Rulesets
  <2> QED
    BY <2>1, <2>2 DEF Init
<1> QED
  BY <1>4, <1>5, <1>6 DEF TypeInv

LEMMA TypeStep == TypeInv /\ [Next]_vars => TypeInv'
<1>1. ASSUME TypeInv, Next
      PROVE  TypeInv'
  BY <1>1, ManagedStep, GithubStep DEF TypeInv
<1>2. ASSUME TypeInv, UNCHANGED vars
      PROVE  TypeInv'
  BY <1>2 DEF vars, managedVars, github, history, clusterVars, dependencyVars, localVars,
              TypeInv, ManagedInv, ManagedTypeOK, CopyInv, GithubInv
<1> QED
  BY <1>1, <1>2

-----------------------------------------------------------------------------
(* The history *)

LEMMA Remembered ==
    ASSUME Remember
    PROVE  /\ claimed \subseteq claimed'
           /\ \A s \in rulesets' : s.ours => s.id \in claimed'
           /\ \A s \in rulesets' :
                 obj'.phase # "absent" /\ {s} = {t \in rulesets' : t.name = obj'.spec.name}
                    => s.id \in claimed'
           /\ cr'.spec = cr.spec => agreed \subseteq agreed'
           /\ \A s \in rulesets' :
                 cr'.phase # "absent" /\ Meets(s, cr'.spec) => s.id \in agreed'
<1>1. claimed \subseteq claimed' /\ (cr'.spec = cr.spec => agreed \subseteq agreed')
  BY DEF Remember
<1>2. ASSUME NEW s \in rulesets',
             \/ s.ours
             \/ obj'.phase # "absent" /\ {s} = {t \in rulesets' : t.name = obj'.spec.name}
      PROVE  s.id \in claimed'
  BY <1>2 DEF Remember
<1>3. ASSUME NEW s \in rulesets', cr'.phase # "absent", Meets(s, cr'.spec)
      PROVE  s.id \in agreed'
  BY <1>3 DEF Remember
<1> QED
  BY <1>1, <1>2, <1>3

LEMMA NotStrayed ==
    ASSUME Remember, ~strayed'
    PROVE  /\ ~strayed
           /\ \A r \in rulesets', copy \in {cr, cache, obj}' :
                 /\ copy.phase # "absent"
                 /\ r.ours \/ (cr'.phase # "absent" /\ r.id = cr'.status.id)
                 => r.id = copy.status.id \/ r.name = copy.spec.name
BY DEF Remember

-----------------------------------------------------------------------------
(* What the steps do *)

IDs == {r.id : r \in rulesets}

\* What is looked for by its id is what the worker's copy has recorded.
LookupInv ==
    /\ pc \in {"getRepository", "actors", "getRecorded"} => found = obj.status.id
    /\ pc = "list" => obj.status.id \notin IDs

\* A call returns, or keeps the copy and
CallsOn ==
    \/ pc' \in {"getRepository", "actors", "getRecorded"} /\ found' = obj.status.id
       /\ UNCHANGED github
    \/ pc' = "list" /\ obj.status.id \notin IDs /\ UNCHANGED github
    \/ pc' = "getListed" /\ pc = "list" /\ UNCHANGED github
       /\ \E r \in rulesets : Named(obj.spec.name) = {r} /\ found' = r.id
    \/ pc' \in {"update", "delete"} /\ UNCHANGED github
       /\ pc \in {"getRecorded", "getListed"} /\ found \in IDs /\ found' = found
    \/ pc' = "create" /\ UNCHANGED github
       /\ \/ pc = "list" /\ Named(obj.spec.name) = {}
          \/ pc = "getListed" /\ found \notin IDs
    \/ pc' = "removeFinalizer"
       /\ \/ pc = "list" /\ Named(obj.spec.name) = {} /\ UNCHANGED github
          \/ pc = "getListed" /\ found \notin IDs /\ UNCHANGED github
          \/ pc = "delete" /\ Delete(found)
    \/ pc' = "status" /\ report' = Failed
    \/ /\ pc' = "status" /\ pc \in {"getRecorded", "getListed", "update", "create"}
       /\ \E r \in rulesets' :
             /\ Meets(r, obj.spec) /\ report' = Synchronized(r.id)
             /\ IF pc = "create" THEN r.ours ELSE r.id = found

LEMMA CallDetail ==
    ASSUME TypeInv, LookupInv, Call
    PROVE  \/ obj' = NoObject /\ pc' = "idle"
           \/ obj' = obj /\ CallsOn
<1> DEFINE Detail == (obj' = NoObject /\ pc' = "idle") \/ (obj' = obj /\ CallsOn)
<1>0. /\ pc # "idle" => obj.phase \in {"live", "deleting"} /\ obj.spec \in Specs
                        /\ obj.status.id \in Nat
      /\ \A r \in rulesets : r.id \in Nat /\ r.id # 0 /\ r \in Rulesets
  BY DEF TypeInv, ManagedInv, ManagedTypeOK, CopyInv, GithubInv, Objects, Phases, Whole,
         Statuses, Rulesets
<1>a. Return(TRUE) => Detail
  <2>1. Return(TRUE) => obj' = NoObject /\ pc' = "idle"
    BY Zenon DEF Return
  <2> QED
    BY <2>1
<1>b. ASSUME NEW status, Conclude(status)
      PROVE  obj' = obj /\ pc' = "status" /\ report' = status
  BY <1>b DEF Conclude
<1>c. ASSUME NEW label, NEW answer, Goto(label, answer)
      PROVE  obj' = obj /\ pc' = label /\ found' = answer
  BY <1>c DEF Goto
<1>d. Fails => Detail
  BY <1>a, <1>b DEF Fails, CallsOn
<1>e. ASSUME pc \in {"getRecorded", "getListed"}, UNCHANGED github,
             NEW r \in rulesets, r.id = found, Go(r)
      PROVE  Detail
  <2>1. found \in IDs /\ r \in rulesets'
    BY <1>e DEF IDs, github
  <2>2. CASE obj.phase = "deleting" \/ ~Meets(r, obj.spec)
    BY <1>c, <1>e, <2>1, <2>2 DEF Go, CallsOn
  <2>3. CASE obj.phase # "deleting" /\ Meets(r, obj.spec)
    BY <1>b, <1>e, <2>1, <2>3 DEF Go, CallsOn
  <2> QED
    BY <2>2, <2>3
<1>f. ASSUME UNCHANGED github, Missing,
             \/ pc = "list" /\ Named(obj.spec.name) = {}
             \/ pc = "getListed" /\ found \notin IDs
      PROVE  Detail
  BY <1>c, <1>f DEF Missing, CallsOn
<1>g. ASSUME UNCHANGED github, Goto(FirstLookup, obj.status.id), pc # "idle"
      PROVE  Detail
  BY <1>0, <1>c, <1>g DEF FirstLookup, CallsOn, IDs
<1>h. ASSUME Conclude(Failed)
      PROVE  Detail
  BY <1>b, <1>h DEF CallsOn
<1> SUFFICES Detail
  OBVIOUS
<1> HIDE DEF Detail
<1>1. CASE ResolveRepository
  <2>1. \/ Goto(IF obj.phase = "live" THEN "getRepository" ELSE FirstLookup, obj.status.id)
        \/ Conclude(Failed)
        \/ Return(TRUE)
    BY <1>1, Zenon DEF ResolveRepository, Resolve
  <2>2. pc # "idle" /\ UNCHANGED github
    BY <1>1, Zenon DEF ResolveRepository, Resolve
  <2>3. Goto("getRepository", obj.status.id) => Detail
    BY <1>c, <2>2 DEF Detail, CallsOn
  <2> QED
    BY <1>a, <1>g, <1>h, <2>1, <2>2, <2>3
<1>2. CASE GetRemoteRepository
  <2>1. pc = "getRepository" /\ UNCHANGED github /\ found = obj.status.id
    BY <1>2 DEF GetRemoteRepository, LocalStep, LookupInv
  <2>2. Goto("actors", obj.status.id) => Detail
    BY <1>c, <2>1 DEF Detail, CallsOn
  <2> QED
    BY <1>2, <1>g, <1>h, <2>1, <2>2 DEF GetRemoteRepository
<1>3. CASE ResolveBypassActors
  <2>1. pc = "actors" /\ UNCHANGED github /\ found = obj.status.id
    BY <1>3 DEF ResolveBypassActors, LocalStep, LookupInv
  <2> QED
    BY <1>3, <1>g, <1>h, <2>1 DEF ResolveBypassActors
<1>4. CASE GetRecordedRuleset
  <2>1. pc = "getRecorded" /\ UNCHANGED github /\ found = obj.status.id
    BY <1>4 DEF GetRecordedRuleset, LocalStep, LookupInv
  <2>2. found \notin IDs /\ Goto("list", 0) => Detail
    BY <1>c, <2>1 DEF Detail, CallsOn
  <2> QED
    BY <1>4, <1>d, <1>e, <2>1, <2>2 DEF GetRecordedRuleset, IDs
<1>5. CASE ListRulesets
  <2>1. pc = "list" /\ UNCHANGED github
    BY <1>5 DEF ListRulesets, LocalStep
  <2>2. ASSUME NEW r \in rulesets, Named(obj.spec.name) = {r}, Goto("getListed", r.id)
        PROVE  Detail
    BY <1>c, <2>1, <2>2 DEF Detail, CallsOn
  <2> QED
    BY <1>5, <1>d, <1>f, <2>1, <2>2 DEF ListRulesets
<1>6. CASE GetListedRuleset
  <2>1. pc = "getListed" /\ UNCHANGED github
    BY <1>6 DEF GetListedRuleset, LocalStep
  <2> QED
    BY <1>6, <1>d, <1>e, <1>f, <2>1 DEF GetListedRuleset, IDs
<1>7. CASE CreateRepositoryRuleset
  <2>1. CASE Create /\ Conclude(Synchronized(lastID'))
    <3> DEFINE new == [id |-> lastID + 1, name |-> obj.spec.name,
                       bypass |-> Written(obj.spec, "none"), ours |-> TRUE]
    <3>1. pc = "create" /\ obj.spec \in Specs
      BY <1>0, <1>7 DEF CreateRepositoryRuleset
    <3>2. Meets(new, obj.spec)
      BY <3>1, SpecsAssumption DEF Meets, Written
    <3>3. new \in rulesets' /\ new.id = lastID' /\ new.ours
      BY <2>1 DEF Create
    <3> QED
      BY <1>b, <2>1, <3>1, <3>2, <3>3 DEF Detail, CallsOn
  <2> QED
    BY <1>7, <1>h, <2>1 DEF CreateRepositoryRuleset
<1>8. CASE UpdateRepositoryRuleset
  <2>1. CASE Conclude(Synchronized(found)) /\ \E r \in rulesets : r.id = found /\ Overwrite(r)
    <3>1. pc = "update" /\ obj.spec \in Specs
      BY <1>0, <1>8 DEF UpdateRepositoryRuleset
    <3>2. PICK r \in rulesets : r.id = found /\ Overwrite(r)
      BY <2>1
    <3> DEFINE new == [r EXCEPT !.name = obj.spec.name,
                                !.bypass = Written(obj.spec, r.bypass)]
    <3>3. Meets(new, obj.spec) /\ new.id = found
      BY <1>0, <3>1, <3>2, SpecsAssumption DEF Meets, Written, Rulesets
    <3>4. new \in rulesets'
      BY <3>2 DEF Overwrite
    <3> HIDE DEF new
    <3>5. obj' = obj /\ pc' = "status" /\ report' = Synchronized(new.id)
      BY <1>b, <2>1, <3>3 DEF Synchronized
    <3> QED
      BY <3>1, <3>3, <3>4, <3>5 DEF Detail, CallsOn
  <2> QED
    BY <1>8, <1>h, <2>1 DEF UpdateRepositoryRuleset
<1>9. CASE DeleteRepositoryRuleset
  <2>1. (pc = "delete" /\ Delete(found) /\ Goto("removeFinalizer", 0)) \/ Return(TRUE)
    BY <1>9, Zenon DEF DeleteRepositoryRuleset
  <2>2. pc = "delete" /\ Delete(found) /\ Goto("removeFinalizer", 0) => Detail
    BY <1>c DEF Detail, CallsOn
  <2> QED
    BY <1>a, <2>1, <2>2
<1> QED
  BY <1>1, <1>2, <1>3, <1>4, <1>5, <1>6, <1>7, <1>8, <1>9 DEF Call

\* Of every other step.  The copy is kept, dropped, or taken from the cache; what is
\* written is the manifest, with a new generation, or the status of a fresh copy.
Keeps == pc' = pc /\ UNCHANGED <<obj, found, report>> /\ (fresh' => fresh /\ cr' = cr)
Drops == pc' = "idle" /\ obj' = NoObject /\ fresh' = FALSE
Takes == /\ pc' \in {"addFinalizer", "resolve", "removeFinalizer"}
         /\ obj' = cache /\ UNCHANGED <<cr, cache>>
         /\ pc' # "addFinalizer" => cache.finalizer
         /\ pc' = "removeFinalizer" => cache.policy = "Orphan"

Rewritten ==
    /\ cr.phase # "absent" /\ cr'.status = cr.status /\ cr.gen \in Nat
    /\ cr'.gen = cr.gen + 1 \/ (cr'.gen = cr.gen /\ cr'.spec = cr.spec)
    /\ cr.finalizer => cr'.finalizer
    /\ cr'.phase = cr.phase \/ cr'.phase = "deleting"
Gone ==
    /\ cr'.phase = "absent" /\ cr'.policy = "Orphan" /\ UNCHANGED cache
    /\ \/ Drops /\ fresh /\ pc = "removeFinalizer"
       \/ Keeps /\ cr.phase = "live" /\ ~cr.finalizer
    /\ UNCHANGED github
Reported ==
    pc = "status" /\ fresh /\ cr' = [obj EXCEPT !.status = report]

LEMMA OtherDetail ==
    ASSUME TypeInv, Next, ~Call
    PROVE  /\ UNCHANGED github \/ Administrate
           /\ Keeps \/ Drops \/ Takes
           /\ UNCHANGED cache \/ cache' = cr
           /\ cr' = cr \/ Gone \/ Rewritten \/ Reported
<1> DEFINE Detail == /\ UNCHANGED github \/ Administrate
                     /\ Keeps \/ Drops \/ Takes
                     /\ UNCHANGED cache \/ cache' = cr
                     /\ cr' = cr \/ Gone \/ Rewritten \/ Reported
<1> SUFFICES Detail
  OBVIOUS
<1>0. /\ cr.phase # "absent" => cr \in Objects(Statuses) /\ cr.gen \in Nat
      /\ fresh => obj = cr
      /\ pc # "idle" => obj.phase # "absent"
  BY DEF TypeInv, ManagedInv, ManagedTypeOK, CopyInv, Objects
<1>1. ASSUME NEW new, NEW requeue \in BOOLEAN, Update(new, requeue), UNCHANGED github,
             fresh => \/ new = NoObject /\ pc = "removeFinalizer"
                      \/ new = [obj EXCEPT !.status = report] /\ pc = "status"
                      \/ /\ new.status = cr.status /\ cr.phase # "absent"
                         /\ new.gen = cr.gen + 1 \/ (new.gen = cr.gen /\ new.spec = cr.spec)
                         /\ new.finalizer /\ new.phase = cr.phase
      PROVE  Detail
  <2>1. Drops /\ UNCHANGED cache /\ (cr' = cr \/ (fresh /\ cr' = new))
    BY <1>1, UpdateOutcome DEF Returned, Drops
  <2> QED
    BY <1>0, <1>1, <2>1 DEF Rewritten, Reported, Gone, NoObject
<1>2. CASE AddRulesetFinalizer
  <2> DEFINE spec == Serialized(obj.spec)
             gen  == IF spec = obj.spec THEN obj.gen ELSE obj.gen + 1
             new  == [obj EXCEPT !.finalizer = TRUE, !.spec = spec, !.gen = gen]
  <2>1. UNCHANGED github /\ obj \in Objects(Statuses) /\ obj.phase # "absent"
    BY <1>0, <1>2 DEF AddRulesetFinalizer, TypeInv, ManagedInv, ManagedTypeOK
  <2>2. Update(new, FALSE)
    BY <1>2 DEF AddRulesetFinalizer
  <2>3. /\ new.status = obj.status
        /\ new.gen = obj.gen + 1 \/ (new.gen = obj.gen /\ new.spec = obj.spec)
        /\ new.finalizer = TRUE /\ new.phase = obj.phase
    BY <2>1 DEF Objects
  <2> QED
    BY <1>0, <1>1, <2>1, <2>2, <2>3
<1>3. CASE SetReadyCondition
  <2>1. pc = "status" /\ WriteStatus /\ UNCHANGED github
    BY <1>3 DEF SetReadyCondition, WriteStatus
  <2>2. CASE report = obj.status
    <3>1. Return(TRUE) /\ UNCHANGED <<clusterVars, dependencyVars>>
      BY <2>1, <2>2, Zenon DEF WriteStatus
    <3>2. Drops
      BY <3>1, Zenon DEF Return, Drops
    <3> QED
      BY <2>1, <3>1, <3>2 DEF clusterVars
  <2> QED
    BY <1>1, <2>1, <2>2, Zenon DEF WriteStatus
<1>4. CASE RemoveRulesetFinalizer
  <2>1. Update(NoObject, FALSE) /\ pc = "removeFinalizer" /\ UNCHANGED github
    BY <1>4 DEF RemoveRulesetFinalizer, RemoveFinalizer
  <2> QED
    BY <1>1, <2>1
<1>5. CASE Reconcile
  <2>1. cache.phase \in Phases
    BY DEF TypeInv, ManagedInv, ManagedTypeOK, Objects
  <2>2. pc = "idle" /\ pc' = Branch(cache, "resolve")
        /\ UNCHANGED <<clusterVars, found, report>> /\ UNCHANGED github
        /\ IF pc' = "idle" THEN UNCHANGED <<obj, fresh>> ELSE obj' = cache
    BY <1>5 DEF Reconcile, Fetch
  <2>3. /\ pc' \in {"idle", "addFinalizer", "resolve", "removeFinalizer"}
        /\ pc' \in {"resolve", "removeFinalizer"} => cache.finalizer
        /\ pc' = "removeFinalizer" => cache.policy = "Orphan"
    BY <2>1, <2>2 DEF Branch, Phases
  <2> QED
    BY <2>2, <2>3 DEF Keeps, Takes, clusterVars
<1>6. CASE SyncCache /\ UNCHANGED github
  BY <1>6 DEF SyncCache, Keeps, localVars
<1>7. CASE SyncDependency /\ UNCHANGED github
  BY <1>7 DEF SyncDependency, Keeps, localVars, clusterVars
<1>8. CASE Restart /\ UNCHANGED github
  BY <1>8 DEF Restart, Drops
<1>9. CASE (EditSpec \/ EditPolicy \/ DeleteObject) /\ UNCHANGED github
  <2>1. ASSUME NEW new, UserWrite(new)
        PROVE  Keeps /\ UNCHANGED cache /\ cr' = new
    BY <2>1 DEF UserWrite, Store, Keeps
  <2>2. cr.phase # "absent" /\ cr \in Objects(Statuses) /\ cr.gen \in Nat
    BY <1>0, <1>9 DEF EditSpec, EditPolicy, DeleteObject
  <2>3. CASE EditSpec
    <3>1. PICK spec \in Specs : UserWrite([cr EXCEPT !.spec = spec, !.gen = cr.gen + 1])
      BY <2>3 DEF EditSpec
    <3>2. cr' = [cr EXCEPT !.spec = spec, !.gen = cr.gen + 1]
      BY <2>1, <3>1
    <3> QED
      BY <1>9, <2>1, <2>2, <3>1, <3>2 DEF Rewritten, Objects
  <2>4. CASE EditPolicy
    <3>1. PICK policy \in Policies :
             UserWrite([cr EXCEPT !.policy = policy, !.gen = cr.gen + 1])
      BY <2>4 DEF EditPolicy
    <3>2. cr' = [cr EXCEPT !.policy = policy, !.gen = cr.gen + 1]
      BY <2>1, <3>1
    <3> QED
      BY <1>9, <2>1, <2>2, <3>1, <3>2 DEF Rewritten, Objects
  <2>5. CASE DeleteObject
    <3>1. CASE UserWrite([cr EXCEPT !.phase = "deleting", !.gen = cr.gen + 1])
                 /\ cr.phase = "live"
      <4>1. cr' = [cr EXCEPT !.phase = "deleting", !.gen = cr.gen + 1]
        BY <2>1, <3>1
      <4> QED
        BY <1>9, <2>1, <2>2, <3>1, <4>1 DEF Rewritten, Objects
    <3>2. CASE UserWrite(NoObject) /\ ~cr.finalizer
      BY <1>9, <2>1, <2>5, <3>2 DEF NoObject, Gone, DeleteObject
    <3> QED
      BY <2>5, <3>1, <3>2 DEF DeleteObject
  <2> QED
    BY <1>9, <2>3, <2>4, <2>5
<1>10. CASE ChangeDependency /\ UNCHANGED github
  BY <1>10 DEF ChangeDependency, Keeps, localVars, clusterVars
<1>11. CASE Administrate
  <2>1. UNCHANGED <<clusterVars, queued, dependencyVars, pc, localVars>>
    BY <1>11, Zenon DEF Administrate
  <2> QED
    BY <1>11, <2>1 DEF Keeps, localVars, clusterVars
<1> QED
  BY <1>2, <1>3, <1>4, <1>5, <1>6, <1>7, <1>8, <1>9, <1>10, <1>11
     DEF Next, WorkerStep, Call, Manager, Users

\* How the rulesets on GitHub change: ids grow, and only a creation makes one of ours.
LEMMA GithubGrowth ==
    ASSUME TypeInv, Next
    PROVE  /\ lastID' \in Nat /\ lastID' >= lastID
           /\ \A r \in rulesets' : r.id \in IDs \/ r.id > lastID
           /\ \/ \A r \in rulesets' : r.ours => \E s \in rulesets : s.ours /\ s.id = r.id
              \/ /\ Call /\ pc = "create"
                 /\ \A r \in rulesets' : r.ours => \/ \E s \in rulesets : s.ours /\ s.id = r.id
                                                  \/ r.id = lastID + 1
<1>0. /\ lastID \in Nat /\ \A r \in rulesets : r \in Rulesets
  BY DEF TypeInv, GithubInv
<1>1. CASE UNCHANGED github
  BY <1>0, <1>1 DEF github, IDs
<1>2. CASE Call /\ pc = "create" /\ Create
  BY <1>0, <1>2 DEF Create, IDs
<1>3. ASSUME NEW r \in rulesets, NEW new, new.id = r.id, new.ours = r.ours,
             rulesets' = (rulesets \ {r}) \cup {new}, UNCHANGED lastID
      PROVE  /\ lastID' \in Nat /\ lastID' >= lastID
             /\ \A t \in rulesets' :
                   /\ t.id \in IDs
                   /\ t.ours => \E s \in rulesets : s.ours /\ s.id = t.id
  BY <1>0, <1>3 DEF IDs
<1>4. CASE \E r \in rulesets : r.id = found /\ Overwrite(r)
  <2>1. PICK r \in rulesets : Overwrite(r)
    BY <1>4
  <2> DEFINE new == [r EXCEPT !.name = obj.spec.name,
                              !.bypass = Written(obj.spec, r.bypass)]
  <2>2. new.id = r.id /\ new.ours = r.ours
    BY <1>0, <2>1 DEF Rulesets
  <2>3. rulesets' = (rulesets \ {r}) \cup {new} /\ UNCHANGED lastID
    BY <2>1 DEF Overwrite
  <2> QED
    BY <1>3, <2>2, <2>3
<1>5. CASE Delete(found)
  BY <1>0, <1>5 DEF Delete, IDs
<1>6. CASE Administrate
  <2>1. CASE UNCHANGED lastID /\ rulesets' \subseteq rulesets
    BY <1>0, <2>1 DEF IDs
  <2>2. CASE \E r \in rulesets, name \in Names :
                rulesets' = (rulesets \ {r}) \cup {[r EXCEPT !.name = name]} /\ UNCHANGED lastID
    BY <1>0, <1>3, <2>2 DEF Rulesets
  <2>3. CASE \E r \in rulesets, bypass \in Bypass :
                rulesets' = (rulesets \ {r}) \cup {[r EXCEPT !.bypass = bypass]} /\ UNCHANGED lastID
    BY <1>0, <1>3, <2>3 DEF Rulesets
  <2>4. CASE lastID' = lastID + 1 /\ \E name \in Names :
                rulesets' = rulesets \cup {[id |-> lastID + 1, name |-> name,
                                            bypass |-> "listed", ours |-> FALSE]}
    BY <1>0, <2>4 DEF IDs
  <2> QED
    BY <1>6, <2>1, <2>2, <2>3, <2>4 DEF Administrate
<1>7. pc = "create" /\ ~Call => UNCHANGED github \/ Administrate
  BY OtherDetail
<1> QED
  BY <1>1, <1>2, <1>4, <1>5, <1>6, <1>7, GithubOutcome

-----------------------------------------------------------------------------
(* The ids that are recorded *)

RecordedIn(c, ids) == c.phase # "absent" => c.status.id \in ids

\* No id is recorded that GitHub has not given.
BoundInv ==
    /\ RecordedIn(cr, 0..lastID) /\ RecordedIn(cache, 0..lastID)
    /\ RecordedIn(obj, 0..lastID)
    /\ pc = "status" => report.id \in 0..lastID

\* Where an id comes from that is recorded after a step.
LEMMA RecordedStep ==
    ASSUME TypeInv, LookupInv, Next, NEW c \in {cr, cache, obj}',
           c.phase # "absent"
    PROVE  \/ \E d \in {cr, cache, obj} : d.phase # "absent" /\ c.status = d.status
           \/ pc = "status" /\ c.status = report
<1>0. obj \in Objects(Statuses)
  BY DEF TypeInv, ManagedInv, ManagedTypeOK
<1>1. CASE Call
  BY <1>1, CallDetail, CallOutcome DEF NoObject, clusterVars
<1>2. CASE ~Call
  <2>1. c # NoObject
    BY DEF NoObject
  <2>2. CASE c = obj' \/ c = cache'
    BY <1>2, <2>1, <2>2, OtherDetail DEF Keeps, Drops, Takes
  <2>3. CASE c = cr'
    <3>1. CASE cr' = cr
      BY <2>3, <3>1
    <3>2. CASE Rewritten
      BY <2>3, <3>2 DEF Rewritten
    <3>3. CASE Reported
      <4>1. [obj EXCEPT !.status = report].status = report
        BY <1>0 DEF Objects
      <4> QED
        BY <2>3, <3>3, <4>1 DEF Reported
    <3> QED
      BY <1>2, <2>3, <3>1, <3>2, <3>3, OtherDetail DEF Gone
  <2> QED
    BY <2>2, <2>3
<1> QED
  BY <1>1, <1>2

LEMMA ReportedStep ==
    ASSUME TypeInv, LookupInv, Next, pc' = "status"
    PROVE  \/ pc = "status" /\ report' = report
           \/ obj.phase # "absent" /\ report'.id = obj.status.id
           \/ /\ pc \in {"getRecorded", "getListed", "update", "create"}
              /\ \E r \in rulesets' :
                    report'.id = r.id /\ IF pc = "create" THEN r.ours ELSE r.id = found
<1>1. CASE Call
  <2>1. obj.phase # "absent" /\ obj.status \in Statuses
    BY <1>1, CallOutcome DEF TypeInv, ManagedInv, CopyInv, Whole
  <2>2. Failed.id = obj.status.id
    BY <2>1 DEF Failed, Statuses
  <2>3. \A id : Synchronized(id).id = id
    BY DEF Synchronized
  <2>4. \/ report' = Failed
        \/ /\ pc \in {"getRecorded", "getListed", "update", "create"}
           /\ \E r \in rulesets' :
                 /\ report' = Synchronized(r.id)
                 /\ IF pc = "create" THEN r.ours ELSE r.id = found
    BY <1>1, CallDetail DEF CallsOn
  <2> QED
    BY <2>1, <2>2, <2>3, <2>4
<1>2. CASE ~Call
  BY <1>2, OtherDetail DEF Keeps, Drops, Takes
<1> QED
  BY <1>1, <1>2

LEMMA BoundStep ==
    ASSUME TypeInv, LookupInv, BoundInv, Next
    PROVE  BoundInv'
<1>1. lastID \in Nat /\ lastID' \in Nat /\ lastID' >= lastID
  BY GithubGrowth DEF TypeInv, GithubInv
<1>2. \A r \in rulesets' : r.id \in 1..lastID'
  BY GithubStep DEF GithubInv
<1>3. ASSUME NEW c \in {cr, cache, obj}', c.phase # "absent"
      PROVE  c.status.id \in 0..lastID'
  BY <1>1, <1>3, RecordedStep DEF BoundInv, RecordedIn
<1>4. pc' = "status" => report'.id \in 0..lastID'
  BY <1>1, <1>2, ReportedStep DEF BoundInv, RecordedIn
<1> QED
  BY <1>3, <1>4 DEF BoundInv, RecordedIn

LEMMA LookupStep ==
    ASSUME TypeInv, LookupInv, BoundInv, Next
    PROVE  LookupInv'
<1>1. CASE Call
  <2>1. IDs' = IDs \/ pc' # "list"
    BY <1>1, CallDetail DEF CallsOn, github, IDs
  <2> QED
    BY <1>1, <2>1, CallDetail DEF CallsOn, LookupInv
<1>2. CASE ~Call
  <2>1. CASE Keeps
    <3>1. pc = "list" => obj.phase # "absent" /\ obj.status.id \in 0..lastID /\ lastID \in Nat
      BY DEF BoundInv, RecordedIn, TypeInv, CopyInv, GithubInv
    <3>2. \A r \in rulesets' : r.id \in IDs \/ r.id > lastID
      BY GithubGrowth
    <3>3. pc = "list" => obj.status.id \notin IDs'
      BY <3>1, <3>2 DEF LookupInv, IDs
    <3> QED
      BY <2>1, <3>3 DEF Keeps, LookupInv
  <2> QED
    BY <1>2, <2>1, OtherDetail DEF Drops, Takes, LookupInv
<1> QED
  BY <1>1, <1>2

-----------------------------------------------------------------------------
(* Only rulesets that it may take for its own are changed *)

ClaimInv ==
    /\ RecordedIn(cr, {0} \cup claimed) /\ RecordedIn(cache, {0} \cup claimed)
    /\ RecordedIn(obj, {0} \cup claimed)
    /\ pc = "status" => report.id \in {0} \cup claimed
    /\ pc \in {"getListed", "update", "delete"} => found \in claimed

LEMMA ClaimStep ==
    ASSUME TypeInv, LookupInv, ClaimInv, Next
    PROVE  ClaimInv'
<1>1. Remember
  BY DEF Next
<1>2. /\ claimed \subseteq claimed' /\ \A s \in rulesets' : s.ours => s.id \in claimed'
      /\ \A s \in rulesets' :
            obj'.phase # "absent" /\ {s} = {t \in rulesets' : t.name = obj'.spec.name}
               => s.id \in claimed'
  BY <1>1, Remembered
<1>3. ASSUME NEW c \in {cr, cache, obj}', c.phase # "absent"
      PROVE  c.status.id \in {0} \cup claimed'
  BY <1>2, <1>3, RecordedStep DEF ClaimInv, RecordedIn
<1>4. pc \in {"getRecorded", "getListed", "update", "delete"} /\ found # 0 => found \in claimed
  BY DEF ClaimInv, RecordedIn, LookupInv, TypeInv, CopyInv
<1>5. 0 \notin IDs /\ \A r \in rulesets' : r.id # 0
  BY GithubStep DEF TypeInv, GithubInv, IDs
<1>6. pc' = "status" => report'.id \in {0} \cup claimed'
  BY <1>2, <1>4, <1>5, ReportedStep DEF ClaimInv, RecordedIn
<1>7. pc' \in {"getListed", "update", "delete"} => found' \in claimed'
  <2>1. CASE Call /\ pc' \in {"update", "delete"}
    <3>1. pc \in {"getRecorded", "getListed"} /\ found \in IDs /\ found' = found
      BY <2>1, CallDetail DEF CallsOn
    <3> QED
      BY <1>2, <1>4, <1>5, <3>1
  <2>2. CASE Call /\ pc' = "getListed"
    <3>1. UNCHANGED github /\ obj' = obj /\ obj.phase # "absent"
      BY <2>2, CallDetail, CallOutcome DEF CallsOn, TypeInv, CopyInv
    <3>2. PICK r \in rulesets : Named(obj.spec.name) = {r} /\ found' = r.id
      BY <2>2, CallDetail DEF CallsOn
    <3>3. r \in rulesets' /\ {r} = {t \in rulesets' : t.name = obj'.spec.name}
      BY <3>1, <3>2 DEF Named, github
    <3> QED
      BY <1>2, <3>1, <3>2, <3>3
  <2>3. CASE ~Call
    BY <1>2, <2>3, OtherDetail DEF Keeps, Drops, Takes, ClaimInv
  <2> QED
    BY <2>1, <2>2, <2>3
<1> QED
  BY <1>3, <1>6, <1>7 DEF ClaimInv, RecordedIn

LEMMA ClaimedOnly ==
    ASSUME TypeInv, ClaimInv, Next, WorkerStep
    PROVE  {r.id : r \in rulesets \ rulesets'} \subseteq claimed
<1>1. CASE UNCHANGED github
  BY <1>1 DEF github
<1>2. CASE pc = "create" /\ Create
  BY <1>2 DEF Create
<1>3. CASE pc = "update" /\ \E r \in rulesets : r.id = found /\ Overwrite(r)
  BY <1>3 DEF Overwrite, ClaimInv
<1>4. CASE pc = "delete" /\ Delete(found)
  BY <1>4 DEF Delete, ClaimInv
<1> QED
  BY <1>1, <1>2, <1>3, <1>4, GithubOutcome

-----------------------------------------------------------------------------
(* Ready is earned *)

\* The generation that is reported has not been overtaken, and a fresh report of
\* success is about a ruleset that was as the manifest says.
ReadyInv ==
    /\ ReadyIsEarned
    /\ cr.phase # "absent" => cr.status.obsGen <= cr.gen
    /\ pc = "status" /\ fresh =>
          report.obsGen = obj.gen /\ (report.cond = "Ready" => report.id \in agreed)

LEMMA ReadyStep ==
    ASSUME TypeInv, LookupInv, ReadyInv, Next
    PROVE  ReadyInv'
<1>0. /\ cr.phase # "absent" => cr.gen \in Nat /\ cr.status \in Statuses /\ cr.status.obsGen \in Nat
      /\ fresh => obj = cr /\ obj.phase # "absent"
      /\ obj \in Objects(Statuses)
  BY DEF TypeInv, ManagedInv, ManagedTypeOK, CopyInv, Whole, Objects, Statuses
<1>1. Remember
  BY DEF Next
<1>2. /\ cr'.spec = cr.spec => agreed \subseteq agreed'
      /\ \A s \in rulesets' :
            cr'.phase # "absent" /\ Meets(s, cr'.spec) => s.id \in agreed'
  BY <1>1, Remembered
<1>3. (ReadyIsEarned /\ (cr.phase # "absent" => cr.status.obsGen <= cr.gen))'
  <2>1. CASE cr' = cr
    BY <1>2, <2>1 DEF ReadyInv, ReadyIsEarned
  <2>2. CASE Gone
    BY <2>2 DEF Gone, ReadyIsEarned
  <2>3. CASE Rewritten
    BY <1>0, <1>2, <2>3 DEF Rewritten, ReadyInv, ReadyIsEarned
  <2>4. CASE Reported
    <3>1. /\ cr'.status = report /\ cr'.gen = obj.gen /\ cr'.spec = obj.spec
          /\ pc = "status" /\ fresh
      BY <1>0, <2>4 DEF Reported, Objects
    <3> QED
      BY <1>0, <1>2, <3>1 DEF ReadyInv, ReadyIsEarned
  <2>5. CASE Call
    BY <2>1, <2>5, CallOutcome DEF clusterVars
  <2> QED
    BY <2>1, <2>2, <2>3, <2>4, <2>5, OtherDetail
<1>4. ASSUME pc' = "status", fresh'
      PROVE  (report.obsGen = obj.gen /\ (report.cond = "Ready" => report.id \in agreed))'
  <2>1. CASE Call
    <3>1. /\ obj' = obj /\ cr' = cr
          /\ \/ report' = Failed
             \/ \E r \in rulesets' : Meets(r, obj.spec) /\ report' = Synchronized(r.id)
      BY <1>4, <2>1, CallDetail, CallOutcome DEF CallsOn, clusterVars
    <3>2. obj' = cr' /\ obj'.phase # "absent"
      BY <1>4, ManagedStep DEF CopyInv
    <3>3. obj.status \in Statuses
      BY <1>0, <3>1, <3>2 DEF TypeInv, ManagedInv, Whole
    <3>4. CASE report' = Failed
      BY <3>1, <3>3, <3>4 DEF Failed, Statuses
    <3>5. ASSUME NEW r \in rulesets', Meets(r, obj.spec), report' = Synchronized(r.id)
          PROVE  report'.obsGen = obj.gen /\ report'.id \in agreed'
      BY <1>2, <3>1, <3>2, <3>5 DEF Synchronized
    <3> QED
      BY <3>1, <3>4, <3>5
  <2>2. CASE ~Call
    <3>1. Keeps
      BY <1>4, <2>2, OtherDetail DEF Drops, Takes
    <3> QED
      BY <1>2, <1>4, <3>1 DEF Keeps, ReadyInv
  <2> QED
    BY <2>1, <2>2
<1> QED
  BY <1>3, <1>4 DEF ReadyInv

-----------------------------------------------------------------------------
(* One ruleset of ours *)

Ours == {r \in rulesets : r.ours}

SingleInv ==
    strayed \/ /\ \A r, s \in Ours : r.id = s.id
               /\ pc = "getListed" => \A r \in Ours : r.id = found
               /\ pc = "create" => Ours = {}

LEMMA SingleStep ==
    ASSUME TypeInv, LookupInv, SingleInv, Next
    PROVE  SingleInv'
<1> SUFFICES ASSUME ~strayed'
             PROVE  (/\ \A r, s \in Ours : r.id = s.id
                     /\ pc = "getListed" => \A r \in Ours : r.id = found
                     /\ pc = "create" => Ours = {})'
  BY DEF SingleInv
<1>1. Remember
  BY DEF Next
<1>2. /\ ~strayed
      /\ obj'.phase # "absent" => \A r \in rulesets' :
            r.ours => r.id = obj'.status.id \/ r.name = obj'.spec.name
  BY <1>1, NotStrayed
<1>3. /\ \A r, s \in Ours : r.id = s.id
      /\ pc = "getListed" => \A r \in Ours : r.id = found
      /\ pc = "create" => Ours = {}
  BY <1>2 DEF SingleInv
<1>4. \A r \in Ours' : \/ \E s \in Ours : s.id = r.id
                       \/ Call /\ pc = "create" /\ r.id = lastID + 1
  BY GithubGrowth DEF Ours
<1>5. \A r, s \in Ours' : r.id = s.id
  BY <1>3, <1>4
<1>6. pc' = "getListed" => \A r \in Ours' : r.id = found'
  <2>1. CASE Call /\ pc' = "getListed"
    <3>1. UNCHANGED github /\ obj' = obj /\ obj.phase # "absent" /\ pc = "list"
      BY <2>1, CallDetail, CallOutcome DEF CallsOn, TypeInv, CopyInv
    <3>2. PICK r \in rulesets : Named(obj.spec.name) = {r} /\ found' = r.id
      BY <2>1, CallDetail DEF CallsOn
    <3>3. \A s \in rulesets : s.ours => s.name = obj.spec.name
      BY <1>2, <3>1 DEF github, LookupInv, IDs
    <3> QED
      BY <3>1, <3>2, <3>3 DEF Named, Ours, github
  <2>2. CASE ~Call /\ pc' = "getListed"
    BY <1>3, <1>4, <2>2, OtherDetail DEF Keeps, Drops, Takes
  <2> QED
    BY <2>1, <2>2
<1>7. pc' = "create" => Ours' = {}
  <2>1. CASE Call /\ pc' = "create"
    <3>1. UNCHANGED github /\ obj' = obj /\ obj.phase # "absent"
          /\ \/ pc = "list" /\ Named(obj.spec.name) = {}
             \/ pc = "getListed" /\ found \notin IDs
      BY <2>1, CallDetail, CallOutcome DEF CallsOn, TypeInv, CopyInv
    <3>2. CASE pc = "list" /\ Named(obj.spec.name) = {}
      <4>1. \A s \in rulesets : s.ours => s.name = obj.spec.name
        BY <1>2, <3>1, <3>2 DEF github, LookupInv, IDs
      <4> QED
        BY <3>1, <3>2, <4>1 DEF Named, Ours, github
    <3>3. CASE pc = "getListed" /\ found \notin IDs
      BY <1>3, <3>1, <3>3 DEF Ours, IDs, github
    <3> QED
      BY <3>1, <3>2, <3>3
  <2>2. CASE ~Call /\ pc' = "create"
    <3>1. pc = "create"
      BY <2>2, OtherDetail DEF Keeps, Drops, Takes
    <3> QED
      BY <1>3, <1>4, <2>2, <3>1
  <2> QED
    BY <2>1, <2>2
<1> QED
  BY <1>5, <1>6, <1>7

LEMMA AtMostOne ==
    ASSUME TypeInv, SingleInv
    PROVE  OneRulesetOfOurs
<1> SUFFICES ASSUME ~strayed
             PROVE  Cardinality(Ours) \in {0, 1}
  BY DEF OneRulesetOfOurs, Ours
<1>1. \A r, s \in Ours : r = s
  BY DEF SingleInv, TypeInv, GithubInv, Ours
<1>2. CASE Ours = {}
  BY <1>2, FS_EmptySet
<1>3. CASE \E r \in Ours : Ours = {r}
  BY <1>3, FS_Singleton
<1> QED
  BY <1>1, <1>2, <1>3

-----------------------------------------------------------------------------
(* Nothing is left behind *)

\* The finalizer stands as long as there may be a ruleset of ours, and a copy that
\* can still create one is not older than the deletion.
FinalizerInv ==
    /\ cr.phase = "absent" => cr.policy = "Orphan"
    /\ \A c \in {cache, obj} :
          c.phase # "absent" =>
             /\ cr.phase = "absent" => (c.phase = "live" => ~c.finalizer)
             /\ cr.phase # "absent" => (c.finalizer => cr.finalizer)
             /\ c.phase = "deleting" => cr.phase # "live"
    /\ obj.phase = "deleting" => cache.phase # "live"
    /\ pc \notin {"idle", "addFinalizer"} => obj.finalizer
    /\ Ours # {} => cr.phase = "absent" \/ cr.finalizer

LEMMA FinalizerStep ==
    ASSUME TypeInv, LookupInv, FinalizerInv, Next
    PROVE  FinalizerInv'
<1>0. /\ cr.phase \in Phases /\ cache.phase \in Phases /\ obj.phase \in Phases
      /\ fresh => obj = cr
      /\ pc # "idle" => obj.phase # "absent"
      /\ pc = "create" => obj.phase = "live"
      /\ pc = "removeFinalizer" => obj.phase = "deleting"
      /\ obj \in Objects(Statuses)
  BY DEF TypeInv, ManagedInv, ManagedTypeOK, CopyInv, Objects
<1>1. CASE Call
  <2>1. /\ UNCHANGED <<cr, cache>>
        /\ (obj' = NoObject /\ pc' = "idle") \/ obj' = obj
        /\ pc \notin {"idle", "addFinalizer"}
    BY <1>1, CallDetail, CallOutcome DEF clusterVars
  <2>2. Ours' # {} => cr.phase = "absent" \/ cr.finalizer
    <3>1. pc = "create" => cr.phase = "absent" \/ cr.finalizer
      BY <1>0 DEF FinalizerInv
    <3> QED
      BY <3>1, GithubGrowth DEF FinalizerInv, Ours
  <2> QED
    BY <2>1, <2>2 DEF FinalizerInv, NoObject
<1>2. CASE ~Call
  <2>1. Ours' # {} => Ours # {}
    BY <1>2, GithubGrowth DEF Ours
  <2>2. CASE cr' = cr
    <3>1. CASE Keeps
      BY <1>0, <1>2, <2>1, <2>2, <3>1, OtherDetail DEF Keeps, FinalizerInv
    <3>2. CASE Drops
      BY <1>0, <1>2, <2>1, <2>2, <3>2, OtherDetail DEF Drops, FinalizerInv, NoObject
    <3>3. CASE Takes
      BY <1>0, <1>2, <2>1, <2>2, <3>3, OtherDetail DEF Takes, FinalizerInv
    <3> QED
      BY <1>2, <3>1, <3>2, <3>3, OtherDetail
  <2>3. CASE Rewritten
    <3>1. CASE Keeps
      BY <1>0, <1>2, <2>1, <2>3, <3>1, OtherDetail DEF Keeps, Rewritten, FinalizerInv, Phases
    <3>2. CASE Drops
      BY <1>0, <1>2, <2>1, <2>3, <3>2, OtherDetail DEF Drops, Rewritten, FinalizerInv,
                                                       Phases, NoObject
    <3> QED
      BY <1>2, <2>2, <3>1, <3>2, OtherDetail DEF Takes
  <2>4. CASE Gone
    BY <1>0, <2>1, <2>4 DEF Gone, Keeps, Drops, FinalizerInv, Phases, NoObject
  <2>5. CASE Reported
    <3>1. /\ cr'.phase = cr.phase /\ cr'.finalizer = cr.finalizer /\ cr'.policy = cr.policy
          /\ cr.phase # "absent"
      BY <1>0, <2>5 DEF Reported, Objects
    <3>2. CASE Keeps
      BY <1>0, <1>2, <2>1, <3>1, <3>2, OtherDetail DEF Keeps, FinalizerInv
    <3>3. CASE Drops
      BY <1>0, <1>2, <2>1, <3>1, <3>3, OtherDetail DEF Drops, FinalizerInv, NoObject
    <3> QED
      BY <1>2, <2>2, <3>2, <3>3, OtherDetail DEF Takes
  <2> QED
    BY <1>2, <2>2, <2>3, <2>4, <2>5, OtherDetail
<1> QED
  BY <1>1, <1>2

\* An id is given up only when its ruleset is gone: at each step of the worker,
Faithful ==
    /\ pc \in {"getListed", "create"} => obj.status.id \notin IDs
    /\ pc \in {"update", "delete"} => found = obj.status.id \/ obj.status.id \notin IDs
    /\ pc = "status" => report.id = obj.status.id \/ obj.status.id \notin IDs

\* and from one version of the resource to the next.
FaithfulInv ==
    /\ Faithful
    /\ cr.phase # "absent" => \A c \in {cache, obj} :
          c.phase # "absent" /\ c.status.id \in IDs => c.status.id = cr.status.id

LEMMA FaithfulStep ==
    ASSUME TypeInv, LookupInv, BoundInv, FaithfulInv, Next
    PROVE  FaithfulInv'
<1>0. /\ pc # "idle" => obj.phase # "absent" /\ obj.status \in Statuses
      /\ fresh => obj = cr /\ obj.phase # "absent"
      /\ obj \in Objects(Statuses)
  BY DEF TypeInv, ManagedInv, ManagedTypeOK, CopyInv, Whole
<1>1. \A id \in 0..lastID : id \in IDs' => id \in IDs
  <2>1. \A r \in rulesets' : r.id \in IDs \/ r.id > lastID
    BY GithubGrowth
  <2>2. lastID \in Nat
    BY DEF TypeInv, GithubInv
  <2> QED
    BY <2>1, <2>2 DEF IDs
<1>2. \A c \in {cr, cache, obj} :
         c.phase # "absent" => (c.status.id \in IDs' => c.status.id \in IDs)
  BY <1>1 DEF BoundInv, RecordedIn
<1>3. Faithful'
  <2>1. CASE Call
    <3>1. obj.status.id \in IDs' => obj.status.id \in IDs
      BY <1>0, <1>2, <2>1, CallOutcome
    <3>2. Failed.id = obj.status.id /\ \A id : Synchronized(id).id = id
      BY <1>0, <2>1, CallOutcome DEF Failed, Synchronized, Statuses
    <3> QED
      BY <2>1, <3>1, <3>2, CallDetail DEF CallsOn, LookupInv, FaithfulInv, Faithful
  <2>2. CASE ~Call
    BY <1>0, <1>2, <2>2, OtherDetail DEF Keeps, Drops, Takes, FaithfulInv, Faithful
  <2> QED
    BY <2>1, <2>2
<1>4. ASSUME cr'.phase # "absent", NEW c \in {cache, obj}', c.phase # "absent",
             c.status.id \in IDs'
      PROVE  c.status.id = cr'.status.id
  <2>1. CASE Call
    BY <1>2, <1>4, <2>1, CallDetail, CallOutcome DEF clusterVars, NoObject, FaithfulInv
  <2>2. CASE ~Call
    <3>1. c \in {cache, obj, cr}
      <4>1. c # NoObject
        BY <1>4 DEF NoObject
      <4> QED
        BY <1>4, <2>2, <4>1, OtherDetail DEF Keeps, Drops, Takes
    <3>2. cr.phase # "absent"
      BY <1>0, <1>4, <2>2, OtherDetail DEF Gone, Rewritten, Reported
    <3>3. c.status.id \in IDs /\ c.status.id = cr.status.id
      BY <1>2, <1>4, <3>1, <3>2 DEF FaithfulInv
    <3>4. CASE Reported
      <4>1. cr'.status = report /\ obj = cr /\ pc = "status"
        BY <1>0, <3>4 DEF Reported, Objects
      <4> QED
        BY <3>3, <4>1 DEF FaithfulInv, Faithful
    <3> QED
      BY <1>4, <2>2, <3>3, <3>4, OtherDetail DEF Gone, Rewritten
  <2> QED
    BY <2>1, <2>2
<1> QED
  BY <1>3, <1>4 DEF FaithfulInv

\* Whatever is recorded or about to be changed while a ruleset of ours is there, is that
\* one; and where the deletion of it ends there is none.
UnitInv ==
    strayed \/ cr.phase = "absent" \/
       /\ \A r \in Ours :
             /\ cr.status.id \in IDs => cr.status.id = r.id
             /\ pc \in {"update", "delete"} => found = r.id
             /\ pc = "status" /\ report.id \in IDs => report.id = r.id
       /\ pc = "getListed" /\ cr.status.id \in IDs => cr.status.id = found
       /\ pc = "create" => cr.status.id \notin IDs

RemovedInv ==
    strayed \/ (pc = "removeFinalizer" /\ fresh /\ obj.policy = "Remove" => Ours = {})

LEMMA UnitStep ==
    ASSUME TypeInv, LookupInv, BoundInv, SingleInv, FaithfulInv, UnitInv, Next
    PROVE  UnitInv'
<1> SUFFICES ASSUME ~strayed', cr'.phase # "absent"
             PROVE  (/\ \A r \in Ours :
                           /\ cr.status.id \in IDs => cr.status.id = r.id
                           /\ pc \in {"update", "delete"} => found = r.id
                           /\ pc = "status" /\ report.id \in IDs => report.id = r.id
                     /\ pc = "getListed" /\ cr.status.id \in IDs => cr.status.id = found
                     /\ pc = "create" => cr.status.id \notin IDs)'
  BY DEF UnitInv
<1>0. /\ pc # "idle" => obj.phase # "absent" /\ obj.status \in Statuses
      /\ fresh => obj = cr /\ obj.phase # "absent"
      /\ obj \in Objects(Statuses)
  BY DEF TypeInv, ManagedInv, ManagedTypeOK, CopyInv, Whole
<1>1. /\ ~strayed
      /\ obj'.phase # "absent" => \A r \in rulesets' :
            r.ours \/ r.id = cr'.status.id => r.id = obj'.status.id \/ r.name = obj'.spec.name
  BY NotStrayed DEF Next
<1>2. cr.phase # "absent"
  <2>1. CASE Call
    BY <2>1, CallOutcome DEF clusterVars
  <2>2. CASE ~Call
    BY <1>0, <2>2, OtherDetail DEF Gone, Rewritten, Reported
  <2> QED
    BY <2>1, <2>2
<1>3. /\ \A r \in Ours :
            /\ cr.status.id \in IDs => cr.status.id = r.id
            /\ pc \in {"update", "delete"} => found = r.id
            /\ pc = "status" /\ report.id \in IDs => report.id = r.id
      /\ pc = "getListed" /\ cr.status.id \in IDs => cr.status.id = found
      /\ pc = "create" => cr.status.id \notin IDs
      /\ pc = "getListed" => \A r \in Ours : r.id = found
      /\ pc = "create" => Ours = {}
  BY <1>1, <1>2 DEF UnitInv, SingleInv
<1>4. \A r, s \in Ours' : r.id = s.id
  BY SingleStep DEF SingleInv
<1>5. \A r \in Ours' : \/ \E s \in Ours : s.id = r.id
                       \/ Call /\ pc = "create"
  BY GithubGrowth DEF Ours
<1>6. /\ cr.status.id \in IDs' => cr.status.id \in IDs
      /\ pc = "status" /\ report.id \in IDs' => report.id \in IDs
  <2>1. lastID \in Nat /\ \A r \in rulesets' : r.id \in IDs \/ r.id > lastID
    BY GithubGrowth DEF TypeInv, GithubInv
  <2> QED
    BY <1>2, <2>1 DEF BoundInv, RecordedIn, IDs
<1>7. \A r \in Ours' : cr'.status.id \in IDs' => cr'.status.id = r.id
  <2>1. CASE cr'.status = cr.status
    BY <1>3, <1>5, <1>6, <2>1
  <2>2. CASE Reported /\ ~Call
    <3>1. cr'.status = report /\ pc = "status"
      BY <1>0, <2>2 DEF Reported, Objects
    <3> QED
      BY <1>3, <1>5, <1>6, <2>2, <3>1
  <2>3. CASE Call
    BY <2>1, <2>3, CallOutcome DEF clusterVars
  <2> QED
    BY <2>1, <2>2, <2>3, OtherDetail DEF Gone, Rewritten
<1>8. CASE ~Call
  <2>1. CASE Keeps
    <3>1. pc' = "getListed" /\ cr'.status.id \in IDs' => cr'.status.id = found'
      BY <1>3, <1>6, <1>8, <2>1, OtherDetail DEF Keeps, Gone, Rewritten, Reported
    <3>2. pc' = "create" => cr'.status.id \notin IDs'
      BY <1>3, <1>6, <1>8, <2>1, OtherDetail DEF Keeps, Gone, Rewritten, Reported
    <3> QED
      BY <1>3, <1>5, <1>6, <1>7, <1>8, <2>1, <3>1, <3>2 DEF Keeps
  <2> QED
    BY <1>7, <1>8, <2>1, OtherDetail DEF Drops, Takes
<1>9. CASE Call
  <2>0. /\ obj.phase # "absent" /\ obj.status \in Statuses /\ cr' = cr
        /\ obj.status.id \in IDs => obj.status.id = cr.status.id
    BY <1>0, <1>2, <1>9, CallOutcome DEF clusterVars, FaithfulInv
  <2>1. CASE pc' \in {"update", "delete"}
    <3>1. found \in IDs /\ found' = found /\ UNCHANGED github
          /\ pc \in {"getRecorded", "getListed"}
      BY <1>9, <2>1, CallDetail DEF CallsOn
    <3>2. \A r \in Ours : r.id = found
      BY <1>3, <2>0, <3>1 DEF LookupInv
    <3> QED
      BY <1>7, <2>1, <3>1, <3>2 DEF Ours, github
  <2>2. CASE pc' = "getListed"
    <3>1. UNCHANGED github /\ obj' = obj /\ pc = "list"
      BY <1>9, <2>2, CallDetail DEF CallsOn
    <3>2. PICK r \in rulesets : Named(obj.spec.name) = {r} /\ found' = r.id
      BY <1>9, <2>2, CallDetail DEF CallsOn
    <3>3. \A q \in rulesets : q.id = cr.status.id => q.name = obj.spec.name
      BY <1>1, <2>0, <3>1 DEF LookupInv, IDs, github
    <3>4. cr.status.id \in IDs => cr.status.id = found'
      BY <3>2, <3>3 DEF Named, IDs
    <3> QED
      BY <1>6, <1>7, <2>0, <2>2, <3>4
  <2>3. CASE pc' = "create"
    <3>1. /\ UNCHANGED github /\ obj' = obj
          /\ \/ pc = "list" /\ Named(obj.spec.name) = {}
             \/ pc = "getListed" /\ found \notin IDs
      BY <1>9, <2>3, CallDetail DEF CallsOn
    <3>2. CASE pc = "list" /\ Named(obj.spec.name) = {}
      <4>1. \A q \in rulesets : q.id = cr.status.id => q.name = obj.spec.name
        BY <1>1, <2>0, <3>1, <3>2 DEF LookupInv, IDs, github
      <4> QED
        BY <1>6, <1>7, <2>0, <2>3, <3>2, <4>1 DEF Named, IDs
    <3>3. CASE pc = "getListed" /\ found \notin IDs
      BY <1>3, <1>6, <1>7, <2>0, <2>3, <3>3
    <3> QED
      BY <3>1, <3>2, <3>3
  <2>4. CASE pc' = "status"
    <3>1. ASSUME NEW r \in Ours', report'.id \in IDs'
          PROVE  report'.id = r.id
      <4>1. CASE report' = Failed
        <5>1. report'.id = obj.status.id
          BY <2>0, <4>1 DEF Failed, Statuses
        <5>2. obj.status.id \in IDs' => obj.status.id \in IDs
          <6>1. lastID \in Nat /\ \A q \in rulesets' : q.id \in IDs \/ q.id > lastID
            BY GithubGrowth DEF TypeInv, GithubInv
          <6> QED
            BY <2>0, <6>1 DEF BoundInv, RecordedIn, IDs
        <5> QED
          BY <1>7, <2>0, <3>1, <5>1, <5>2
      <4>2. ASSUME NEW q \in rulesets', report' = Synchronized(q.id),
                   pc \in {"getRecorded", "getListed", "update", "create"},
                   IF pc = "create" THEN q.ours ELSE q.id = found
            PROVE  report'.id = r.id
        <5>1. report'.id = q.id
          BY <4>2 DEF Synchronized
        <5>2. CASE pc = "create"
          BY <1>4, <3>1, <4>2, <5>1, <5>2 DEF Ours
        <5>3. CASE pc \in {"getListed", "update"}
          BY <1>3, <1>5, <3>1, <4>2, <5>1, <5>3
        <5>4. CASE pc = "getRecorded"
          <6>1. found = obj.status.id /\ obj.status.id \in IDs'
            BY <3>1, <4>2, <5>1, <5>4 DEF LookupInv
          <6>2. lastID \in Nat /\ \A t \in rulesets' : t.id \in IDs \/ t.id > lastID
            BY GithubGrowth DEF TypeInv, GithubInv
          <6>3. obj.status.id \in IDs
            BY <2>0, <6>1, <6>2 DEF BoundInv, RecordedIn, IDs
          <6> QED
            BY <1>7, <2>0, <3>1, <4>2, <5>1, <5>4, <6>1, <6>3
        <5> QED
          BY <4>2, <5>2, <5>3, <5>4
      <4> QED
        BY <1>9, <2>4, <4>1, <4>2, CallDetail DEF CallsOn
    <3> QED
      BY <1>7, <2>4, <3>1
  <2> QED
    BY <1>7, <2>1, <2>2, <2>3, <2>4
<1> QED
  BY <1>8, <1>9

LEMMA RemovedStep ==
    ASSUME TypeInv, LookupInv, BoundInv, SingleInv, FaithfulInv, UnitInv, RemovedInv, Next
    PROVE  RemovedInv'
<1> SUFFICES ASSUME ~strayed', pc' = "removeFinalizer", fresh', obj'.policy = "Remove"
             PROVE  Ours' = {}
  BY DEF RemovedInv
<1>1. /\ ~strayed
      /\ obj'.phase # "absent" => \A r \in rulesets' :
            r.ours => r.id = obj'.status.id \/ r.name = obj'.spec.name
  BY NotStrayed DEF Next
<1>2. obj' = cr' /\ obj'.phase # "absent"
  BY ManagedStep DEF CopyInv
<1>3. \A r \in Ours' : \/ \E s \in Ours : s.id = r.id
                       \/ Call /\ pc = "create"
  BY GithubGrowth DEF Ours
<1>4. CASE Call
  <2>1. obj' = obj /\ cr' = cr
        /\ \/ pc = "list" /\ Named(obj.spec.name) = {} /\ UNCHANGED github
           \/ pc = "getListed" /\ found \notin IDs /\ UNCHANGED github
           \/ pc = "delete" /\ Delete(found)
    BY <1>4, CallDetail, CallOutcome DEF CallsOn, clusterVars
  <2>2. CASE pc = "list" /\ Named(obj.spec.name) = {} /\ UNCHANGED github
    <3>1. \A r \in rulesets : r.ours => r.name = obj.spec.name
      BY <1>1, <1>2, <2>1, <2>2 DEF LookupInv, IDs, github
    <3> QED
      BY <2>2, <3>1 DEF Named, Ours, github
  <2>3. CASE pc = "getListed" /\ found \notin IDs /\ UNCHANGED github
    BY <1>1, <2>3 DEF SingleInv, Ours, IDs, github
  <2>4. CASE pc = "delete" /\ Delete(found)
    <3>1. \A r \in Ours : r.id = found
      BY <1>1, <1>2, <2>1, <2>4 DEF UnitInv
    <3> QED
      BY <2>4, <3>1 DEF Delete, Ours
  <2> QED
    BY <2>1, <2>2, <2>3, <2>4
<1>5. CASE ~Call
  <2>1. CASE Keeps
    BY <1>1, <1>3, <1>5, <2>1 DEF Keeps, RemovedInv
  <2> QED
    BY <1>5, <2>1, OtherDetail DEF Drops, Takes
<1> QED
  BY <1>4, <1>5

LEMMA GoneStep ==
    ASSUME TypeInv, LookupInv, FinalizerInv, RemovedInv, Next
    PROVE  /\ cr'.phase = "absent"
           /\ cr.policy = "Remove" \/ Ours = {}
           /\ Ours' # {}
           => strayed
<1> SUFFICES ASSUME ~strayed, cr'.phase = "absent", cr.policy = "Remove" \/ Ours = {}
             PROVE  Ours' = {}
  OBVIOUS
<1>0. /\ fresh => obj = cr
      /\ pc = "create" => obj.phase = "live"
      /\ pc = "status" => obj.phase = "live"
      /\ obj \in Objects(Statuses)
  BY DEF TypeInv, CopyInv, ManagedInv, ManagedTypeOK
<1>1. CASE cr.phase = "absent"
  <2>1. Ours = {} /\ pc # "create"
    BY <1>0, <1>1 DEF FinalizerInv
  <2> QED
    BY <2>1, GithubGrowth DEF Ours
<1>2. CASE cr.phase # "absent"
  <2>1. ~Call
    BY <1>2, CallOutcome DEF clusterVars
  <2>2. Gone
    <3>1. ~Reported
      BY <1>0 DEF Reported, Objects
    <3> QED
      BY <1>2, <2>1, <3>1, OtherDetail DEF Rewritten
  <2>3. Ours' = Ours
    BY <2>2 DEF Gone, Ours, github
  <2>4. CASE fresh /\ pc = "removeFinalizer"
    BY <1>0, <2>3, <2>4 DEF RemovedInv
  <2>5. CASE cr.phase = "live" /\ ~cr.finalizer
    BY <1>2, <2>3, <2>5 DEF FinalizerInv
  <2> QED
    BY <2>2, <2>4, <2>5 DEF Gone
<1> QED
  BY <1>1, <1>2

-----------------------------------------------------------------------------
(* The theorems *)

IInv ==
    /\ TypeInv /\ LookupInv /\ BoundInv /\ ClaimInv /\ ReadyInv /\ SingleInv
    /\ FinalizerInv /\ FaithfulInv /\ UnitInv /\ RemovedInv

LEMMA InitInv ==
    ASSUME Init
    PROVE  IInv
<1>1. TypeInv
  BY InitTypes
<1>2. /\ cr.status = [cond |-> "Unknown", obsGen |-> 0, id |-> 0] /\ cr.gen = 1
      /\ cache = cr /\ obj.phase = "absent" /\ pc = "idle" /\ fresh = FALSE
      /\ cr.phase = "live"
  BY DEF Init, ManagedInit, NoObject
<1>3. lastID \in Nat
  BY <1>1 DEF TypeInv, GithubInv
<1>4. LookupInv /\ BoundInv /\ ClaimInv
  BY <1>2, <1>3 DEF LookupInv, BoundInv, ClaimInv, RecordedIn
<1>5. ReadyInv
  BY <1>2 DEF ReadyInv, ReadyIsEarned
<1>6. SingleInv
  <2>1. \A r \in rulesets : r.ours = FALSE
    BY DEF Init
  <2> QED
    BY <1>2, <2>1 DEF SingleInv, Ours
<1>7. \A r \in rulesets : r.ours = FALSE
  BY DEF Init
<1>8. FinalizerInv
  BY <1>2, <1>7 DEF FinalizerInv, Ours
<1>9. FaithfulInv /\ UnitInv /\ RemovedInv
  BY <1>2, <1>7 DEF FaithfulInv, Faithful, UnitInv, RemovedInv, Ours
<1> QED
  BY <1>1, <1>4, <1>5, <1>6, <1>8, <1>9 DEF IInv

LEMMA StepInv == IInv /\ [Next]_vars => IInv'
<1>1. ASSUME IInv, Next
      PROVE  IInv'
  BY <1>1, TypeStep, BoundStep, LookupStep, ClaimStep, ReadyStep, SingleStep,
     FinalizerStep, FaithfulStep, UnitStep, RemovedStep DEF IInv
<1>2. ASSUME IInv, UNCHANGED vars
      PROVE  IInv'
  <2>1. TypeInv'
    BY <1>2, TypeStep DEF IInv
  <2>2. UNCHANGED <<cr, cache, obj, fresh, pc, found, report, github, history>>
    BY <1>2 DEF vars, managedVars, clusterVars, localVars
  <2>3. (LookupInv /\ BoundInv /\ ClaimInv)'
    BY <1>2, <2>2 DEF IInv, LookupInv, BoundInv, ClaimInv, RecordedIn, IDs, github, history
  <2>4. (ReadyInv /\ SingleInv)'
    BY <1>2, <2>2 DEF IInv, ReadyInv, ReadyIsEarned, SingleInv, Ours, github, history
  <2>5. FinalizerInv'
    BY <1>2, <2>2 DEF IInv, FinalizerInv, Ours, github
  <2>6. (FaithfulInv /\ UnitInv /\ RemovedInv)'
    BY <1>2, <2>2 DEF IInv, FaithfulInv, Faithful, UnitInv, RemovedInv, Ours, IDs,
                      github, history
  <2> QED
    BY <2>1, <2>3, <2>4, <2>5, <2>6 DEF IInv
<1> QED
  BY <1>1, <1>2

\* The inductive invariant holds throughout.
THEOREM Invariance == Spec => []IInv
<1> QED
  BY InitInv, StepInv, PTL DEF Spec

\* Types, and ids that are unique, given by GitHub, and recorded only then.
THEOREM TypeCorrect == Spec => []TypeOK
<1>1. IInv => TypeOK
  BY DEF IInv, TypeInv, ManagedInv, GithubInv, BoundInv, RecordedIn, TypeOK,
         ManagedTypeOK, Labels
<1> QED
  BY <1>1, Invariance, PTL

\* Whatever edits, outages, lost answers, crashes and administrators do, Ready=True for
\* the current generation says that the ruleset was as in the manifest.
THEOREM ReadySafety == Spec => []ReadyIsEarned
<1>1. IInv => ReadyIsEarned
  BY DEF IInv, ReadyInv
<1> QED
  BY <1>1, Invariance, PTL

\* No second ruleset of ours is created, unless a name was changed before the id of
\* the first was recorded and had reached the informer.
THEOREM OneRuleset == Spec => []OneRulesetOfOurs
<1>1. IInv => OneRulesetOfOurs
  BY AtMostOne DEF IInv
<1> QED
  BY <1>1, Invariance, PTL

\* Of several rulesets with the name none is changed or deleted, except one that was
\* ours or the only one before.
THEOREM DuplicatesSpared == Spec => NeverAmbiguous
<1>1. IInv /\ [Next]_vars =>
         [WorkerStep => {r.id : r \in rulesets \ rulesets'} \subseteq claimed]_vars
  BY ClaimedOnly DEF IInv
<1> QED
  BY <1>1, Invariance, PTL DEF Spec, NeverAmbiguous

\* With the policy Delete the resource takes every ruleset of ours along, under the same
\* condition as above, and none appears when it has gone.
THEOREM LeavesNothing == Spec => NothingLeftBehind
<1>1. IInv /\ [Next]_vars =>
         [/\ cr'.phase = "absent"
          /\ cr.policy = "Remove" \/ {r \in rulesets : r.ours} = {}
          /\ \E r \in rulesets' : r.ours
          => strayed]_vars
  <2>1. IInv /\ Next /\ cr'.phase = "absent" /\ (cr.policy = "Remove" \/ Ours = {})
           /\ Ours' # {} => strayed
    BY GoneStep DEF IInv
  <2> QED
    BY <2>1 DEF Ours
<1> QED
  BY <1>1, Invariance, PTL DEF Spec, NothingLeftBehind
=============================================================================
