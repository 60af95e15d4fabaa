------------------------ MODULE RepositoryController ------------------------
(***************************************************************************)
(* The GitHubRepository reconciler: one custom resource, the one GitHub    *)
(* repository it names, and the worker that reconciles the two.            *)
(*                                                                         *)
(* The worker serves one key, so it never runs twice at once; everybody    *)
(* else interleaves with it between any two of its calls: users editing,   *)
(* deleting and re-creating the resource, the informer cache falling       *)
(* behind, the provider being suspended, people changing the repository    *)
(* directly on GitHub, calls that fail or whose answer is lost, and the    *)
(* manager process dying.  Every write to the resource carries the         *)
(* resourceVersion the worker read and is refused when it is out of date.  *)
(***************************************************************************)
EXTENDS Naturals

CONSTANTS
    Values,           \* values a group of repository settings has on GitHub
    Default,          \* the value GitHub gives a group of a new repository
    Unmanaged,        \* a group the manifest leaves out (a nil pointer)
    Specs,            \* the manifests users write: [Groups -> Values + Unmanaged]
    Foreign,          \* whether others keep a finalizer too: a set of BOOLEANs
    MaxUid,           \* bound: incarnations of the resource
    MaxGen,           \* bound: spec edits of one incarnation, plus one
    MaxDisturbances   \* bound: failures, crashes, provider and GitHub changes

\* What the reconciler compares and writes as one unit, in this order: the
\* fields of one PATCH, the topics, the vulnerability alerts.
Groups == {"settings", "topics", "alerts"}

ASSUME ConstantsAssumption ==
    /\ Default \in Values
    /\ Unmanaged \notin Values
    /\ Specs \subseteq [Groups -> Values \cup {Unmanaged}]
    /\ Specs # {}
    /\ Foreign \subseteq BOOLEAN
    /\ MaxUid \in Nat /\ MaxGen \in Nat /\ MaxDisturbances \in Nat

Policies == {"Orphan", "Archive", "Delete"}
Phases == {"absent", "live", "deleting"}
\* The Ready condition: "Ready" is Ready=True, the others are the reasons of
\* Ready=False that the code tells apart.
Conditions == {"Unknown", "Ready", "Suspended", "Unavailable", "Failed"}

\* Suspended by its spec; broken: missing, or without usable credentials.
ProviderStates == {"active", "suspended", "broken"}

\* "deleting" is a non-zero deletionTimestamp; `foreign' is a finalizer that
\* somebody else keeps on the resource.
Objects == [uid : Nat, phase : Phases, gen : Nat,
            spec : [Groups -> Values \cup {Unmanaged}], policy : Policies,
            finalizer : BOOLEAN, foreign : BOOLEAN,
            cond : Conditions, obsGen : Nat]

\* No resource; the uid is that of the last incarnation, 0 before the first.
NoObject(uid) == [uid |-> uid, phase |-> "absent", gen |-> 0,
                  spec |-> [g \in Groups |-> Unmanaged], policy |-> "Orphan",
                  finalizer |-> FALSE, foreign |-> FALSE,
                  cond |-> "Unknown", obsGen |-> 0]

Remotes == [exists : BOOLEAN, byOperator : BOOLEAN, archived : BOOLEAN,
            cfg : [Groups -> Values]]

NewRepository(byOperator) ==
    [exists |-> TRUE, byOperator |-> byOperator, archived |-> FALSE,
     cfg |-> [g \in Groups |-> Default]]

NoRepository == [NewRepository(FALSE) EXCEPT !.exists = FALSE]

CallPCs == {"get", "create", "settings", "topics", "alertsGet", "alertsSet",
            "cleanup"}
PCs == CallPCs \cup {"idle", "addFinalizer", "resolve", "status",
                     "removeFinalizer"}

VARIABLES
    \* Kubernetes
    cr,             \* the resource in the API server
    cache,          \* the manager's informer copy of it
    cacheFresh,     \* the informer copy is the current version
    event,          \* a watch event has reached the cache, not yet the queue
    queued,         \* the key waits in the workqueue
    provider,       \* the GitHubProviderConfig: active, suspended or broken
    providerCache,  \* the informer copy of it
    \* GitHub
    remote,
    \* the worker: program counter and locals of the running Reconcile
    pc,
    obj,            \* the copy of the resource this reconcile works on
    fresh,          \* its resourceVersion is still the current one
    seen,           \* the settings of the repository as last answered
    verdict,        \* the condition setReadyCondition is called with
    \* bookkeeping
    disturbances,
    \* history
    applied,        \* groups GitHub has agreed with cr.spec on since its edit
    cleaned,        \* policies whose cleanup has been done for this deletion
    released        \* policy under which our finalizer was last removed

kubeVars == <<cr, cache, cacheFresh, event, queued>>
providerVars == <<provider, providerCache>>
localVars == <<obj, fresh, seen, verdict>>
historyVars == <<applied, cleaned, released>>
vars == <<kubeVars, providerVars, remote, pc, localVars, disturbances,
          historyVars>>

Init ==
    /\ cr = NoObject(0)
    /\ cache = cr
    /\ cacheFresh = TRUE
    /\ event = FALSE
    /\ queued = FALSE
    /\ provider = "active"
    /\ providerCache = provider
    \* the repository may be there already: it is then adopted
    /\ remote \in {NoRepository, NewRepository(FALSE)}
    /\ pc = "idle"
    /\ obj = NoObject(0)
    /\ fresh = FALSE
    /\ seen = [g \in Groups |-> Default]
    /\ verdict = "Unknown"
    /\ disturbances = 0
    /\ applied = {}
    /\ cleaned = {}
    /\ released = "None"

-----------------------------------------------------------------------------
(* Helpers *)

\* Something outside the controller's will; how often is bounded.
Disturb ==
    /\ disturbances < MaxDisturbances
    /\ disturbances' = disturbances + 1

Calm == UNCHANGED disturbances

\* A write accepted by the API server: every other copy is now out of date.
Store(new) ==
    /\ cr' = new
    /\ cacheFresh' = FALSE

\* Reconcile returns.  The key goes back to the queue when the result carries
\* an error or RequeueAfter; an event meanwhile has put it there already.
Return(requeue) ==
    /\ pc' = "idle"
    /\ queued' = (queued \/ requeue)
    /\ obj' = NoObject(0)
    /\ fresh' = FALSE
    /\ seen' = [g \in Groups |-> Default]
    /\ verdict' = "Unknown"

\* Go on to setReadyCondition with a condition.
Conclude(condition) ==
    /\ pc' = "status"
    /\ verdict' = condition
    /\ UNCHANGED <<obj, fresh, seen>>

\* Go on to the next call; after the last one the reconcile has succeeded.
Goto(label) ==
    /\ pc' = IF label = "done" THEN "status" ELSE label
    /\ verdict' = IF label = "done" THEN "Ready" ELSE verdict
    /\ UNCHANGED <<obj, fresh>>

\* GitHub refuses writes to a repository that is archived or missing.
Writable == remote.exists /\ ~remote.archived

\* Wrong: a missing repository reads as no answer at all.
AlertsOnGitHub_Nil == IF remote.exists THEN remote.cfg.alerts ELSE Unmanaged

\* The alerts endpoint answers 404 both for "off" and for "no such repository".
AlertsOnGitHub == IF remote.exists THEN remote.cfg.alerts ELSE Default

\* The groups of gs that GitHub has as the current manifest wants them.
Agreeing(gs, cfg) == {g \in gs : cfg[g] = cr.spec[g]}

\* What a repository payload tells: everything but the alerts.
Payload(cfg) == [cfg EXCEPT !.alerts = seen.alerts]

-----------------------------------------------------------------------------
(* The reconciler.  A definition with a suffix, like Branch_NoFinalizer, is a  *)
(* deliberately wrong variant of the one after it: the README says which       *)
(* property notices the slip.                                                  *)

\* Wrong: works on GitHub without the finalizer.
Branch_NoFinalizer(c) ==
    CASE c.phase = "absent" -> "idle"
      [] c.phase = "live" -> "resolve"
      [] c.phase = "deleting" ->
           IF ~c.finalizer THEN "idle"
           ELSE IF c.policy = "Orphan" THEN "removeFinalizer" ELSE "resolve"

\* Wrong: an orphaning deletion asks for the provider too.
Branch_OrphanResolves(c) ==
    CASE c.phase = "absent" -> "idle"
      [] c.phase = "live" -> IF c.finalizer THEN "resolve" ELSE "addFinalizer"
      [] c.phase = "deleting" -> IF c.finalizer THEN "resolve" ELSE "idle"

\* Where a reconcile goes with the version c of the resource.
Branch(c) ==
    CASE c.phase = "absent" -> "idle"
      [] c.phase = "live" -> IF c.finalizer THEN "resolve" ELSE "addFinalizer"
      [] c.phase = "deleting" ->
           IF ~c.finalizer THEN "idle"
           ELSE IF c.policy = "Orphan" THEN "removeFinalizer" ELSE "resolve"

\* Take the key from the queue and read the cached resource.
Reconcile ==
    /\ pc = "idle"
    /\ queued
    /\ queued' = FALSE
    /\ pc' = Branch(cache)
    /\ IF pc' = "idle"
         THEN UNCHANGED <<obj, fresh>>
         ELSE obj' = cache /\ fresh' = cacheFresh
    /\ UNCHANGED <<cr, cache, cacheFresh, event, providerVars, remote, seen,
                   verdict, disturbances, historyVars>>

\* Update with the finalizer added.  No requeue: the update's own watch event
\* brings the key back.  A write can fail before or after it took effect.
AddFinalizer ==
    /\ pc = "addFinalizer"
    /\ \/ /\ fresh /\ Calm
          /\ Store([obj EXCEPT !.finalizer = TRUE])
          /\ Return(FALSE)
       \/ /\ fresh /\ Disturb          \* stored, but the answer was lost
          /\ Store([obj EXCEPT !.finalizer = TRUE])
          /\ Return(TRUE)
       \/ /\ ~fresh /\ Calm            \* conflict
          /\ UNCHANGED <<cr, cacheFresh>>
          /\ Return(TRUE)
       \/ /\ fresh /\ Disturb          \* API server unreachable
          /\ UNCHANGED <<cr, cacheFresh>>
          /\ Return(TRUE)
    /\ UNCHANGED <<cache, event, providerVars, remote, historyVars>>

\* Wrong: spec.suspended is not looked at.
Usable_Suspended == providerCache # "broken"

\* resolveProvider: the cached provider and its credentials.
Usable == providerCache = "active"

\* Suspended is found first; then the Secret of the credentials is read, and for
\* a GitHub App a token requested, and either may fail this time.
Unresolved ==
    \/ ~Usable /\ Calm
    \/ providerCache # "suspended" /\ Disturb

\* A reconcile reports the failure in the condition, a deletion only comes back
\* later.
ResolveProvider ==
    /\ pc = "resolve"
    /\ \/ /\ Usable /\ Calm
          /\ Goto(IF obj.phase = "deleting" THEN "cleanup" ELSE "get")
          /\ UNCHANGED <<queued, seen>>
       \/ /\ Unresolved
          /\ obj.phase = "live"
          /\ Conclude(IF providerCache = "suspended" THEN "Suspended"
                                                     ELSE "Unavailable")
          /\ UNCHANGED queued
       \/ /\ Unresolved
          /\ obj.phase = "deleting"
          /\ Return(TRUE)
    /\ UNCHANGED <<cr, cache, cacheFresh, event, providerVars, remote,
                   historyVars>>

GetRepository ==
    /\ pc = "get"
    /\ \/ /\ remote.exists /\ Calm
          /\ Goto("settings")
          /\ seen' = Payload(remote.cfg)
          /\ applied' = applied \cup Agreeing({"settings", "topics"}, remote.cfg)
       \/ /\ ~remote.exists /\ Calm
          /\ Goto("create")
          /\ UNCHANGED <<seen, applied>>
       \/ /\ Disturb
          /\ Conclude("Failed")
          /\ UNCHANGED applied
    /\ UNCHANGED <<kubeVars, providerVars, remote, cleaned, released>>

\* POST.  The name may have been taken since the lookup; the answer may be lost
\* after GitHub created the repository.
CreateRepository ==
    /\ pc = "create"
    /\ \/ /\ ~remote.exists /\ Calm
          /\ remote' = NewRepository(TRUE)
          /\ Goto("settings")
          /\ seen' = Payload(remote'.cfg)
          /\ applied' = applied \cup Agreeing({"settings", "topics"}, remote'.cfg)
       \/ /\ ~remote.exists /\ Disturb
          /\ remote' = NewRepository(TRUE)
          /\ Conclude("Failed")
          /\ UNCHANGED applied
       \/ /\ remote.exists /\ Calm
          /\ Conclude("Failed")
          /\ UNCHANGED <<remote, applied>>
       \/ /\ Disturb
          /\ Conclude("Failed")
          /\ UNCHANGED <<remote, applied>>
    /\ UNCHANGED <<kubeVars, providerVars, cleaned, released>>

Differs(g) == obj.spec[g] # Unmanaged /\ obj.spec[g] # seen[g]

\* A write of group g, and the ways it can end; `read' are the groups that the
\* answer of a successful write reports.
Write(g, read, next) ==
    \/ /\ Writable /\ Calm
       /\ remote' = [remote EXCEPT !.cfg[g] = obj.spec[g]]
       /\ Goto(next)
       /\ seen' = IF g = "settings" THEN Payload(remote'.cfg)
                                    ELSE [seen EXCEPT ![g] = obj.spec[g]]
       /\ applied' = applied \cup Agreeing(read, remote'.cfg)
    \/ /\ Writable /\ Disturb            \* written, but the answer was lost
       /\ remote' = [remote EXCEPT !.cfg[g] = obj.spec[g]]
       /\ Conclude("Failed")
       /\ UNCHANGED applied
    \/ /\ ~Writable /\ Calm
       /\ Conclude("Failed")
       /\ UNCHANGED <<remote, applied>>
    \/ /\ Disturb
       /\ Conclude("Failed")
       /\ UNCHANGED <<remote, applied>>

\* Nothing to write: on to the next step.
Skip(next) ==
    /\ Goto(next)
    /\ UNCHANGED <<seen, remote, applied, disturbances>>

\* PATCH the managed settings that differ; the answer replaces what is known of
\* the repository, the topics included.
UpdateRepository ==
    /\ pc = "settings"
    /\ IF Differs("settings")
         THEN Write("settings", {"settings", "topics"}, "topics")
         ELSE Skip("topics")
    /\ UNCHANGED <<kubeVars, providerVars, cleaned, released>>

\* PUT the topics when managed and different.  With the alerts unmanaged the
\* reconcile is through.
ReplaceRepositoryTopics ==
    /\ pc = "topics"
    /\ LET next == IF obj.spec.alerts = Unmanaged THEN "done" ELSE "alertsGet"
       IN IF Differs("topics")
            THEN Write("topics", {"topics"}, next)
            ELSE Skip(next)
    /\ UNCHANGED <<kubeVars, providerVars, cleaned, released>>

GetRepositoryVulnerabilityAlerts ==
    /\ pc = "alertsGet"
    /\ \/ /\ Calm
          /\ seen' = [seen EXCEPT !.alerts = AlertsOnGitHub]
          /\ applied' = applied \cup
                {g \in {"alerts"} : AlertsOnGitHub = cr.spec[g]}
          /\ Goto(IF AlertsOnGitHub = obj.spec.alerts THEN "done"
                                                      ELSE "alertsSet")
       \/ /\ Disturb
          /\ Conclude("Failed")
          /\ UNCHANGED applied
    /\ UNCHANGED <<kubeVars, providerVars, remote, cleaned, released>>

SetRepositoryVulnerabilityAlerts ==
    /\ pc = "alertsSet"
    /\ Write("alerts", {"alerts"}, "done")
    /\ UNCHANGED <<kubeVars, providerVars, cleaned, released>>

\* The status that setReadyCondition computes on the copy it works on.
NewStatus == [obj EXCEPT !.cond = verdict, !.obsGen = obj.gen]

\* Wrong: the status goes to whatever version is current, without a conflict.
SetReadyCondition_Refetch ==
    /\ pc = "status"
    /\ IF cr.phase = "absent"
         THEN UNCHANGED <<cr, cacheFresh>>
         ELSE Store([cr EXCEPT !.cond = verdict, !.obsGen = cr.gen])
    /\ Return(TRUE)
    /\ UNCHANGED <<cache, event, providerVars, remote, disturbances, historyVars>>

\* Wrong: a Ready resource is not looked at again until it is edited.
SetReadyCondition_NoRequeue ==
    /\ pc = "status"
    /\ IF NewStatus # obj /\ fresh
         THEN Store(NewStatus)
         ELSE UNCHANGED <<cr, cacheFresh>>
    /\ Return(verdict # "Ready" \/ ~fresh)
    /\ UNCHANGED <<cache, event, providerVars, remote, disturbances, historyVars>>

\* setReadyCondition, then the return of Reconcile: every outcome comes back to
\* the queue, after the drift interval, the retry delay or the error backoff.
\* A status equal to the one read is not written.
SetReadyCondition ==
    /\ pc = "status"
    /\ \/ /\ NewStatus # obj /\ fresh /\ Calm
          /\ Store(NewStatus)
       \/ /\ NewStatus = obj \/ ~fresh    \* nothing to write, or a conflict
          /\ Calm
          /\ UNCHANGED <<cr, cacheFresh>>
       \/ /\ NewStatus # obj /\ fresh /\ Disturb
          /\ UNCHANGED <<cr, cacheFresh>>
    /\ Return(TRUE)
    /\ UNCHANGED <<cache, event, providerVars, remote, historyVars>>

\* The remote part of reconcileDelete under Archive or Delete.  A repository
\* that is not there needs no cleanup (ErrNotFound).
CleanedUp ==
    CASE ~remote.exists -> remote
      [] remote.exists /\ obj.policy = "Archive" ->
           [remote EXCEPT !.archived = TRUE]
      [] remote.exists /\ obj.policy # "Archive" -> NoRepository

\* Recorded for the incarnation it was done for.
Credited == IF obj.uid = cr.uid THEN cleaned \cup {obj.policy} ELSE cleaned

\* Wrong: the finalizer goes whatever GitHub answered.
CleanUp_IgnoreError ==
    /\ pc = "cleanup"
    /\ \/ /\ Calm
          /\ remote' = CleanedUp /\ cleaned' = Credited
       \/ /\ Disturb
          /\ UNCHANGED <<remote, cleaned>>
    /\ Goto("removeFinalizer")
    /\ UNCHANGED <<kubeVars, seen, providerVars, applied, released>>

CleanUp ==
    /\ pc = "cleanup"
    /\ \/ /\ Calm
          /\ remote' = CleanedUp /\ cleaned' = Credited
          /\ Goto("removeFinalizer")
          /\ UNCHANGED <<queued, seen>>
       \/ /\ Disturb                      \* done, but the answer was lost
          /\ remote' = CleanedUp /\ cleaned' = Credited
          /\ Return(TRUE)
       \/ /\ Disturb                      \* refused, rate-limited, unreachable
          /\ UNCHANGED <<remote, cleaned>>
          /\ Return(TRUE)
    /\ UNCHANGED <<cr, cache, cacheFresh, event, providerVars, applied, released>>

\* Update with the finalizer removed.  The resource goes away with its last
\* finalizer; no requeue.
Finalized == IF obj.foreign THEN [obj EXCEPT !.finalizer = FALSE]
                            ELSE NoObject(obj.uid)

RemoveFinalizer ==
    /\ pc = "removeFinalizer"
    /\ \/ /\ fresh /\ Calm
          /\ Store(Finalized) /\ released' = obj.policy
          /\ Return(FALSE)
       \/ /\ fresh /\ Disturb             \* stored, but the answer was lost
          /\ Store(Finalized) /\ released' = obj.policy
          /\ Return(TRUE)
       \/ /\ ~fresh /\ Calm               \* conflict
          /\ UNCHANGED <<cr, cacheFresh, released>>
          /\ Return(TRUE)
       \/ /\ fresh /\ Disturb
          /\ UNCHANGED <<cr, cacheFresh, released>>
          /\ Return(TRUE)
    /\ UNCHANGED <<cache, event, providerVars, remote, applied, cleaned>>

WorkerStep ==
    \/ AddFinalizer \/ ResolveProvider
    \/ GetRepository \/ CreateRepository
    \/ UpdateRepository \/ ReplaceRepositoryTopics
    \/ GetRepositoryVulnerabilityAlerts \/ SetRepositoryVulnerabilityAlerts
    \/ SetReadyCondition
    \/ CleanUp \/ RemoveFinalizer

-----------------------------------------------------------------------------
(* The manager around the reconciler (controller-runtime) *)

\* The informer catches up with the API server; its event handler, running
\* later, puts the key into the workqueue.
SyncCache ==
    /\ ~cacheFresh
    /\ cache' = cr
    /\ cacheFresh' = TRUE
    /\ event' = TRUE
    /\ UNCHANGED <<cr, queued, providerVars, remote, pc, localVars,
                   disturbances, historyVars>>

HandleEvent ==
    /\ event
    /\ event' = FALSE
    /\ queued' = TRUE
    /\ UNCHANGED <<cr, cache, cacheFresh, providerVars, remote, pc, localVars,
                   disturbances, historyVars>>

SyncProvider ==
    /\ providerCache # provider
    /\ providerCache' = provider
    /\ UNCHANGED <<kubeVars, provider, remote, pc, localVars, disturbances,
                   historyVars>>

\* The manager dies and starts again: the running reconcile and the queue are
\* lost, the caches are listed anew and every resource is queued.
Restart ==
    /\ Disturb
    /\ cache' = cr /\ cacheFresh' = TRUE
    /\ event' = FALSE /\ queued' = (cr.phase # "absent")
    /\ providerCache' = provider
    /\ pc' = "idle"
    /\ obj' = NoObject(0) /\ fresh' = FALSE
    /\ seen' = [g \in Groups |-> Default] /\ verdict' = "Unknown"
    /\ UNCHANGED <<cr, provider, remote, historyVars>>

-----------------------------------------------------------------------------
(* Users of the cluster *)

UserWrite(new) ==
    /\ Store(new)
    /\ fresh' = FALSE
    /\ UNCHANGED <<cache, event, queued, providerVars, remote, pc, obj, seen,
                   verdict, disturbances, released>>

CreateObject ==
    /\ cr.phase = "absent" /\ cr.uid < MaxUid
    /\ \E spec \in Specs, policy \in Policies, foreign \in Foreign :
          UserWrite([NoObject(cr.uid + 1) EXCEPT
                        !.phase = "live", !.gen = 1, !.spec = spec,
                        !.policy = policy, !.foreign = foreign])
    /\ applied' = {} /\ cleaned' = {}

EditSpec ==
    /\ cr.phase # "absent" /\ cr.gen < MaxGen
    /\ \E spec \in Specs \ {cr.spec} :
          UserWrite([cr EXCEPT !.spec = spec, !.gen = @ + 1])
    /\ applied' = {} /\ UNCHANGED cleaned

EditPolicy ==
    /\ cr.phase # "absent" /\ cr.gen < MaxGen
    /\ \E policy \in Policies \ {cr.policy} :
          UserWrite([cr EXCEPT !.policy = policy, !.gen = @ + 1])
    /\ UNCHANGED <<applied, cleaned>>

\* kubectl delete: at once without finalizers, else a deletionTimestamp, which
\* is a metadata change that advances the generation too.
DeleteObject ==
    /\ cr.phase = "live"
    /\ UserWrite(IF cr.finalizer \/ cr.foreign
                    THEN [cr EXCEPT !.phase = "deleting", !.gen = @ + 1]
                    ELSE NoObject(cr.uid))
    /\ UNCHANGED <<applied, cleaned>>

RemoveForeignFinalizer ==
    /\ cr.phase = "deleting" /\ cr.foreign
    /\ UserWrite(IF cr.finalizer THEN [cr EXCEPT !.foreign = FALSE]
                                 ELSE NoObject(cr.uid))
    /\ UNCHANGED <<applied, cleaned>>

ChangeProvider ==
    /\ Disturb
    /\ provider' \in ProviderStates \ {provider}
    /\ UNCHANGED <<kubeVars, providerCache, remote, pc, localVars, historyVars>>

-----------------------------------------------------------------------------
(* People working on GitHub directly *)

Drift ==
    /\ Disturb
    /\ \/ /\ remote.exists
          /\ \/ \E g \in Groups, v \in Values :
                  /\ v # remote.cfg[g]
                  /\ remote' = [remote EXCEPT !.cfg[g] = v]
             \/ remote' = [remote EXCEPT !.archived = ~@]
             \/ remote' = NoRepository
       \/ /\ ~remote.exists
          /\ remote' = NewRepository(FALSE)
    /\ UNCHANGED <<kubeVars, providerVars, pc, localVars, historyVars>>

-----------------------------------------------------------------------------
Users ==
    \/ CreateObject \/ EditSpec \/ EditPolicy \/ DeleteObject
    \/ RemoveForeignFinalizer

Next ==
    \/ Reconcile \/ WorkerStep
    \/ SyncCache \/ HandleEvent \/ SyncProvider \/ Restart
    \/ Users \/ ChangeProvider \/ Drift

\* The manager keeps its promises: the informers catch up, events reach the
\* queue, a waiting key is taken and a running reconcile goes on.  Nothing is
\* asked of users, of GitHub or of failures.
Fairness ==
    /\ WF_vars(Reconcile)
    /\ WF_vars(WorkerStep)
    /\ WF_vars(SyncCache)
    /\ WF_vars(HandleEvent)
    /\ WF_vars(SyncProvider)

Spec == Init /\ [][Next]_vars
FairSpec == Spec /\ Fairness

-----------------------------------------------------------------------------
(* Properties *)

\* Every variable has its type, and an idle worker holds no locals.
TypeOK ==
    /\ cr \in Objects /\ cache \in Objects /\ obj \in Objects
    /\ cacheFresh \in BOOLEAN /\ event \in BOOLEAN /\ queued \in BOOLEAN
    /\ fresh \in BOOLEAN
    /\ provider \in ProviderStates /\ providerCache \in ProviderStates
    /\ remote \in Remotes
    /\ pc \in PCs
    /\ seen \in [Groups -> Values]
    /\ verdict \in Conditions
    /\ disturbances \in 0..MaxDisturbances
    /\ applied \subseteq Groups
    /\ cleaned \subseteq Policies
    /\ released \in Policies \cup {"None"}

\* The finalizer does its work (the order of AddFinalizer before any GitHub call
\* in Reconcile, and of the GitHub call before RemoveFinalizer in
\* reconcileDelete): a repository that the operator created is never left on
\* GitHub without a resource that still answers for it, unless its deletion
\* policy gave it up.  Lost answers, crashes between the calls, stale caches and
\* a resource deleted in the middle of a reconcile do not break it.
NoOrphanedRepository ==
    remote.exists /\ remote.byOperator =>
        cr.finalizer \/ released \in {"Orphan", "Archive"}

\* The finalizer goes only when the policy in force at that moment, which users
\* can change while the deletion runs, asks for nothing on GitHub or has been
\* carried out for this very deletion (reconcileDelete and the conflict check of
\* its Update).
FinalizerHonoursPolicy ==
    [][cr.finalizer /\ ~cr'.finalizer =>
         cr.policy = "Orphan" \/ cr.policy \in cleaned]_vars

\* Ready=True for the current generation is earned: GitHub has agreed with every
\* group this generation manages at some moment since the generation was
\* written.  A reconcile that worked on an older manifest, or that failed on the
\* way, cannot leave Ready=True behind (setReadyCondition's ObservedGeneration
\* and the resourceVersion of its Status().Update).
ReadyIsEarned ==
    cr.phase # "absent" /\ cr.cond = "Ready" /\ cr.obsGen = cr.gen =>
        {g \in Groups : cr.spec[g] # Unmanaged} \subseteq applied

\* A live resource is Ready, with the repository there and every managed group
\* as the manifest says.  Exempt is an archived repository, which GitHub does not
\* let anybody change.
Settled ==
    cr.phase = "live" /\ ~remote.archived =>
        /\ cr.cond = "Ready" /\ cr.obsGen = cr.gen
        /\ remote.exists
        /\ \A g \in Groups : cr.spec[g] \in {Unmanaged, remote.cfg[g]}

\* Drift and every edit are made good: once users and GitHub leave things alone
\* and the provider stays active, the resource settles (the drift interval of
\* driftDetectionResult and the error backoff bring every outcome back).
Converges == <>[](provider = "active") => <>[]Settled

\* A deletion gets through: our finalizer goes unless, while it waits, the
\* provider is or becomes unusable for a policy that needs it.  Under Orphan no
\* provider is needed.
DeletionCompletes ==
    (cr.phase = "deleting") ~>
        (~cr.finalizer \/ (cr.policy # "Orphan" /\ provider # "active"))

\* A suspension that lasts stops the traffic of the resource, and the resource
\* says so.
SuspensionSettles ==
    <>[](provider = "suspended") =>
        <>[](/\ pc \notin CallPCs
             /\ cr.phase = "live" =>
                  cr.cond = "Suspended" /\ cr.obsGen = cr.gen)

\* The reconciler implements the contract of a finalizer: its footprint is a
\* repository that it created.
Contract == INSTANCE FinalizerContract WITH
    Keeping <- {"Orphan", "Archive"},
    phase <- cr.phase,
    policy <- cr.policy,
    held <- cr.finalizer,
    footprint <- remote.exists /\ remote.byOperator

ImplementsContract == Contract!ContractSpec
=============================================================================
