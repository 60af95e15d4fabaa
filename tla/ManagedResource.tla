--------------------------- MODULE ManagedResource ---------------------------
(***************************************************************************)
(* What the reconcilers of the operator have in common: a custom resource  *)
(* with a finalizer and a deletion policy, the informer copy of it, the    *)
(* worker that holds one copy during a reconcile, and the objects it       *)
(* depends on (the provider with its credentials, and the repository, team *)
(* or environment it refers to).  A controller EXTENDS this module and     *)
(* adds its remote state and its calls.                                    *)
(*                                                                         *)
(* RepositoryController models this layer in more detail: deletion and     *)
(* re-creation, finalizers of others, events apart from the cache, the     *)
(* provider's states.                                                      *)
(***************************************************************************)
EXTENDS Naturals

CONSTANTS
    Specs,            \* the manifests users write
    Nothing,          \* the nil value
    MaxGen,           \* bound: edits of the resource, plus one
    MaxDisturbances   \* bound: failures, crashes and changes by outsiders

ASSUME BoundsAssumption == MaxGen \in Nat /\ MaxDisturbances \in Nat
ASSUME NothingAssumption == Nothing \notin Specs

\* "Remove" is the policy that takes the thing away from GitHub; the code calls
\* it Revoke or Delete, depending on the kind.
Policies == {"Orphan", "Remove"}
Phases == {"absent", "live", "deleting"}

Objects(statuses) ==
    [phase : Phases, gen : Nat, spec : Specs \cup {Nothing}, policy : Policies,
     finalizer : BOOLEAN, status : statuses \cup {Nothing}]

NoObject == [phase |-> "absent", gen |-> 0, spec |-> Nothing,
             policy |-> "Orphan", finalizer |-> FALSE, status |-> Nothing]

VARIABLES
    cr,               \* the resource in the API server
    cache,            \* the manager's informer copy of it
    cacheFresh,       \* the informer copy is the current version
    queued,           \* the key waits in the workqueue
    dependency,       \* what the resource refers to can be used
    dependencyCache,  \* the informer copies say so
    pc,               \* the worker: the next call of the running Reconcile
    obj,              \* the copy of the resource that it works on
    fresh,            \* that copy is still the current version
    found,            \* what GitHub has answered so far
    report,           \* the status setReadyCondition has computed
    disturbances

clusterVars == <<cr, cache, cacheFresh>>
dependencyVars == <<dependency, dependencyCache>>
localVars == <<obj, fresh, found, report>>
managedVars == <<clusterVars, queued, dependencyVars, pc, localVars, disturbances>>

\* A resource just created, and whatever it depends on.
ManagedInit(status) ==
    /\ \E spec \in Specs, policy \in Policies :
          cr = [phase |-> "live", gen |-> 1, spec |-> spec, policy |-> policy,
                finalizer |-> FALSE, status |-> status]
    /\ cache = cr /\ cacheFresh = TRUE
    /\ queued = TRUE
    /\ dependency \in BOOLEAN /\ dependencyCache = dependency
    /\ pc = "idle"
    /\ obj = NoObject /\ fresh = FALSE /\ found = Nothing /\ report = Nothing
    /\ disturbances = 0

ManagedTypeOK(statuses, pcs) ==
    /\ cr \in Objects(statuses) /\ cache \in Objects(statuses)
    /\ obj \in Objects(statuses)
    /\ cacheFresh \in BOOLEAN /\ queued \in BOOLEAN /\ fresh \in BOOLEAN
    /\ dependency \in BOOLEAN /\ dependencyCache \in BOOLEAN
    /\ pc \in pcs \cup {"idle", "addFinalizer", "resolve", "status",
                        "removeFinalizer"}
    /\ report \in statuses \cup {Nothing}
    /\ disturbances \in 0..MaxDisturbances

-----------------------------------------------------------------------------
(* Pieces of a reconcile *)

Disturb ==
    /\ disturbances < MaxDisturbances
    /\ disturbances' = disturbances + 1

Calm == UNCHANGED disturbances

Store(new) == cr' = new /\ cacheFresh' = FALSE

\* Reconcile returns; the key comes back with an error or a RequeueAfter.
Return(requeue) ==
    /\ pc' = "idle"
    /\ queued' = (queued \/ requeue)
    /\ obj' = NoObject /\ fresh' = FALSE /\ found' = Nothing /\ report' = Nothing

\* Go on to the next call, knowing what GitHub has answered.
Goto(label, answer) ==
    /\ pc' = label
    /\ found' = answer
    /\ UNCHANGED <<queued, obj, fresh, report>>

\* Go on to setReadyCondition.
Conclude(status) ==
    /\ pc' = "status"
    /\ report' = status
    /\ UNCHANGED <<queued, obj, fresh, found>>

\* A call to GitHub touches nothing in the cluster.
CallsGitHub == UNCHANGED <<clusterVars, dependencyVars>>

\* The last write of a reconcile, under the resourceVersion that it read: a
\* conflict when there is a newer version; it may fail, or succeed with the
\* answer lost.  `requeue': the result of a reconcile whose write succeeded.
Update(new, requeue) ==
    /\ \/ fresh /\ Calm /\ Store(new) /\ Return(requeue)
       \/ fresh /\ Disturb /\ Store(new) /\ Return(TRUE)
       \/ ~fresh /\ Calm /\ UNCHANGED <<cr, cacheFresh>> /\ Return(TRUE)
       \/ fresh /\ Disturb /\ UNCHANGED <<cr, cacheFresh>> /\ Return(TRUE)
    /\ UNCHANGED <<cache, dependencyVars>>

-----------------------------------------------------------------------------
(* The steps that all reconcilers take alike *)

\* Where a reconcile goes with the version c.  `deletion' is where a deletion
\* that is to remove something begins.
Branch(c, deletion) ==
    CASE c.phase = "absent" -> "idle"
      [] c.phase = "live" -> IF c.finalizer THEN "resolve" ELSE "addFinalizer"
      [] c.phase = "deleting" ->
           IF ~c.finalizer THEN "idle"
           ELSE IF c.policy = "Orphan" THEN "removeFinalizer" ELSE deletion

Fetch(deletion) ==
    /\ pc = "idle" /\ queued
    /\ queued' = FALSE
    /\ pc' = Branch(cache, deletion)
    /\ IF pc' = "idle"
         THEN UNCHANGED <<obj, fresh>>
         ELSE obj' = cache /\ fresh' = cacheFresh
    /\ UNCHANGED <<clusterVars, dependencyVars, found, report, disturbances>>

AddFinalizer ==
    /\ pc = "addFinalizer"
    /\ Update([obj EXCEPT !.finalizer = TRUE], FALSE)

\* They cannot be used; or the credentials cannot be read or exchanged for a
\* token this time.
Unresolved == (~dependencyCache /\ Calm) \/ Disturb

\* Resolve the dependencies from the caches and go on with `answer'.  When that
\* fails, a live resource says so, a deletion just comes back later.
Resolve(live, deletion, answer, unavailable) ==
    /\ pc = "resolve"
    /\ \/ /\ dependencyCache /\ Calm
          /\ Goto(IF obj.phase = "live" THEN live ELSE deletion, answer)
       \/ Unresolved /\ obj.phase = "live" /\ Conclude(unavailable)
       \/ Unresolved /\ obj.phase = "deleting" /\ Return(TRUE)
    /\ CallsGitHub

\* setReadyCondition writes a status that differs from the one read.  Every
\* outcome of the reconcile comes back to the queue.
WriteStatus ==
    /\ pc = "status"
    /\ IF report = obj.status
         THEN Calm /\ Return(TRUE) /\ UNCHANGED <<clusterVars, dependencyVars>>
         ELSE Update([obj EXCEPT !.status = report], TRUE)

RemoveFinalizer ==
    /\ pc = "removeFinalizer"
    /\ Update(NoObject, FALSE)

-----------------------------------------------------------------------------
(* Around the worker *)

SyncCache ==
    /\ ~cacheFresh
    /\ cache' = cr /\ cacheFresh' = TRUE
    /\ queued' = TRUE
    /\ UNCHANGED <<cr, dependencyVars, pc, localVars, disturbances>>

SyncDependency ==
    /\ dependencyCache # dependency
    /\ dependencyCache' = dependency
    /\ UNCHANGED <<clusterVars, queued, dependency, pc, localVars, disturbances>>

Restart ==
    /\ Disturb
    /\ cache' = cr /\ cacheFresh' = TRUE
    /\ queued' = (cr.phase # "absent")
    /\ dependencyCache' = dependency
    /\ pc' = "idle"
    /\ obj' = NoObject /\ fresh' = FALSE /\ found' = Nothing /\ report' = Nothing
    /\ UNCHANGED <<cr, dependency>>

UserWrite(new) ==
    /\ Store(new) /\ fresh' = FALSE
    /\ UNCHANGED <<cache, queued, dependencyVars, pc, obj, found, report,
                   disturbances>>

EditSpec ==
    /\ cr.phase # "absent" /\ cr.gen < MaxGen
    /\ \E spec \in Specs \ {cr.spec} :
          UserWrite([cr EXCEPT !.spec = spec, !.gen = @ + 1])

EditPolicy ==
    /\ cr.phase # "absent" /\ cr.gen < MaxGen
    /\ \E policy \in Policies \ {cr.policy} :
          UserWrite([cr EXCEPT !.policy = policy, !.gen = @ + 1])

DeleteObject ==
    /\ cr.phase = "live"
    /\ UserWrite(IF cr.finalizer
                    THEN [cr EXCEPT !.phase = "deleting", !.gen = @ + 1]
                    ELSE NoObject)

ChangeDependency ==
    /\ Disturb
    /\ dependency' = ~dependency
    /\ UNCHANGED <<clusterVars, queued, dependencyCache, pc, localVars>>

\* Our finalizer is removed in this step, under the policy of that moment.
Released == cr.finalizer /\ ~cr'.finalizer
=============================================================================
