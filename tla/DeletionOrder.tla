---------------------------- MODULE DeletionOrder ----------------------------
(***************************************************************************)
(* Who may go while others still refer to it.  A provider is kept while    *)
(* anything refers to it, a GitHubTeam with the policy Delete while a      *)
(* GitHubTeamMembership refers to it; whoever removes something from       *)
(* GitHub needs the provider, and its team or repository, to do so.  The   *)
(* checks read the informers, kind by kind, while users create and delete. *)
(*                                                                         *)
(* `Repositories' stands for repositories and organization members, which  *)
(* name the provider themselves and are listed first, `Actions' for the    *)
(* Actions secrets and variables of an organization, which are listed      *)
(* last.  A list is read in one step, with the teams and the repositories  *)
(* that its items refer to.                                                *)
(***************************************************************************)
EXTENDS Naturals

CONSTANTS
    Provider, Teams, Memberships, Repositories, Rulesets, Actions,
    TeamOf,           \* the team that a membership refers to
    RepositoryOf,     \* the repository that a ruleset refers to
    Own,              \* the repositories and Actions resources of this provider
    MaxDisturbances   \* bound: creations, failures, restarts, acts of outsiders

Dependents == Teams \cup Memberships \cup Repositories \cup Rulesets \cup Actions
Objects == {Provider} \cup Dependents
Kinds == {{Provider}, Teams, Memberships, Repositories, Rulesets, Actions}

ASSUME ReferencesAssumption ==
    /\ TeamOf \in [Memberships -> Teams]
    /\ RepositoryOf \in [Rulesets -> Repositories]
    /\ Own \subseteq Repositories \cup Actions
    /\ MaxDisturbances \in Nat
ASSUME KindsAssumption ==
    /\ Provider \notin Dependents
    /\ Teams \cap (Memberships \cup Repositories \cup Rulesets \cup Actions) = {}
    /\ Memberships \cap (Repositories \cup Rulesets \cup Actions) = {}
    /\ Repositories \cap (Rulesets \cup Actions) = {}
    /\ Rulesets \cap Actions = {}

\* A new resource has no finalizer yet.
Phases == {"absent", "new", "live", "deleting"}
\* "Remove" is Delete or Revoke.
Policies == {"Orphan", "Remove"}

VARIABLES
    object,          \* the resources in the API server
    policy,          \* their deletion policies
    informer,        \* the manager's copies
    usable,          \* the provider is not suspended and its credentials are right
    at,              \* per resource: what its controller does with it next
    remoteTeams,     \* the teams on GitHub
    remoteMembers,   \* the memberships on GitHub
    recorded,        \* the memberships with provider and slug in their status
    disturbances,
    known            \* history: what was there, and in the informers, when the
                     \* deletion of a resource began to check

cluster == <<object, policy>>
remote == <<remoteTeams, remoteMembers>>
vars == <<cluster, informer, usable, at, remote, recorded, disturbances, known>>

Init ==
    /\ object \in [Objects -> {"absent", "new"}] /\ object[Provider] = "new"
    /\ policy \in [Dependents -> Policies]
    /\ informer = object
    /\ usable = TRUE
    /\ at = [x \in Objects |-> "idle"]
    /\ remoteTeams \in SUBSET Teams /\ remoteMembers = {}
    /\ recorded = {}
    /\ disturbances = 0
    /\ known = [x \in Objects |-> {}]

Disturb == disturbances < MaxDisturbances /\ disturbances' = disturbances + 1
Calm == UNCHANGED disturbances

Visible(x) == informer[x] # "absent"

\* resolveOrganization: the provider of x is there and gives its credentials.
ProviderResolves(x) ==
    x \in (Repositories \cup Actions) \ Own \/ (Visible(Provider) /\ usable)

Goto(x, label) == at' = [at EXCEPT ![x] = label]

\* Wrong: the deletion timestamp is not looked at.
Begins_Undeleted(x, phase) ==
    /\ informer[x] \in {phase, "live"}
    /\ \E kind \in Kinds : x \in kind /\ \A y \in kind : at[y] = "idle"

\* One reconcile at a time in every controller.
Begins(x, phase) ==
    /\ informer[x] = phase
    /\ \E kind \in Kinds : x \in kind /\ \A y \in kind : at[y] = "idle"

\* What the deletion of x could have known of: there now, and in the informer.
Remember(x) ==
    known' = [known EXCEPT ![x] =
                 {y \in Dependents : object[y] # "absent" /\ Visible(y)}]

AddFinalizer(x) ==
    /\ Begins(x, "new") /\ object[x] = "new"
    /\ object' = [object EXCEPT ![x] = "live"]
    /\ UNCHANGED <<policy, informer, usable, at, remote, recorded, disturbances, known>>

\* The finalizer is removed and the resource goes, or the write fails.  A copy of a
\* resource that has gone is not written.  The conflict on another version of a
\* resource that is being deleted is left out: more writes succeed than would.
RemoveFinalizer(x) ==
    /\ at[x] = "removeFinalizer"
    /\ \/ /\ Calm /\ object[x] = "deleting"
          /\ object' = [object EXCEPT ![x] = "absent"]
          /\ recorded' = recorded \ {x}
          /\ known' = [y \in Objects |-> known[y] \ {x}]
       \/ Calm /\ object[x] # "deleting" /\ UNCHANGED <<object, recorded, known>>
       \/ Disturb /\ UNCHANGED <<object, recorded, known>>
    /\ Goto(x, "idle")
    /\ UNCHANGED <<policy, informer, usable, remote>>

-----------------------------------------------------------------------------
(* GitHubProviderConfig *)

\* Wrong: what is being deleted itself does not count.
UsingRepositories_Live ==
    {x \in Own \cap Repositories : informer[x] \notin {"absent", "deleting"}}

UsingRepositories == {x \in Own \cap Repositories : Visible(x)}

UsingTeams == {x \in Teams : Visible(x)}

\* A membership whose team cannot be read is passed over.
UsingMemberships == {x \in Memberships : Visible(x) /\ Visible(TeamOf[x])}

\* Wrong: rulesets of other providers count.
UsingRulesets_All == {x \in Rulesets : Visible(x)}

\* A ruleset whose repository cannot be read is an error, whoever it belongs to.
UsingRulesets ==
    {x \in Rulesets : Visible(x) /\
        (RepositoryOf[x] \in Own \/ ~Visible(RepositoryOf[x]))}

UsingActions == {x \in Own \cap Actions : Visible(x)}

\* What keeps the provider.
Users(kind) ==
    CASE kind = "repositories" -> UsingRepositories
      [] kind = "teams" -> UsingTeams
      [] kind = "memberships" -> UsingMemberships
      [] kind = "rulesets" -> UsingRulesets
      [] kind = "actions" -> UsingActions

After == [repositories |-> "teams", teams |-> "memberships", memberships |-> "rulesets",
          rulesets |-> "actions", actions |-> "removeFinalizer"]

DeleteProvider ==
    /\ Begins(Provider, "deleting")
    /\ Goto(Provider, "repositories")
    /\ Remember(Provider)
    /\ UNCHANGED <<cluster, informer, usable, remote, recorded, disturbances>>

\* Wrong: an error ends the deletion for good.
ListUsers_GiveUp ==
    \E kind \in DOMAIN After :
        /\ at[Provider] = kind
        /\ Goto(Provider, IF Users(kind) = {} THEN After[kind] ELSE "stopped")
        /\ UNCHANGED <<cluster, informer, usable, remote, recorded, disturbances, known>>

\* One kind after the other; the first user ends the reconcile, which comes back.
ListUsers ==
    \E kind \in DOMAIN After :
        /\ at[Provider] = kind
        /\ Goto(Provider, IF Users(kind) = {} THEN After[kind] ELSE "idle")
        /\ UNCHANGED <<cluster, informer, usable, remote, recorded, disturbances, known>>

-----------------------------------------------------------------------------
(* GitHubTeam *)

\* The team is looked for on GitHub; one that is there is left alone.
ReconcileTeam(t) ==
    /\ Begins(t, "live") /\ ProviderResolves(t) /\ t \notin remoteTeams
    /\ Goto(t, "create")
    /\ UNCHANGED <<cluster, informer, usable, remote, recorded, disturbances, known>>

\* The POST fails, or its answer is lost.
CreateTeam(t) ==
    /\ at[t] = "create"
    /\ \/ Calm /\ remoteTeams' = remoteTeams \cup {t}
       \/ Disturb /\ remoteTeams' \in {remoteTeams, remoteTeams \cup {t}}
    /\ Goto(t, "idle")
    /\ UNCHANGED <<cluster, informer, usable, remoteMembers, recorded, known>>

\* Wrong: the dependency is not looked for.
FindDependency_Skipped(t) == {}

\* findDependency
FindDependency(t) == {m \in Memberships : Visible(m) /\ TeamOf[m] = t}

\* With the policy Delete the team waits for its memberships, and for the provider.
DeleteTeam(t) ==
    /\ Begins(t, "deleting")
    /\ \/ policy[t] = "Orphan" /\ Goto(t, "removeFinalizer")
       \/ /\ policy[t] = "Remove"
          /\ FindDependency(t) = {} /\ ProviderResolves(t)
          /\ Goto(t, "cleanup")
    /\ Remember(t)
    /\ UNCHANGED <<cluster, informer, usable, remote, recorded, disturbances>>

GoneFromGitHub(t) ==
    /\ remoteTeams' = remoteTeams \ {t}
    /\ remoteMembers' = {m \in remoteMembers : TeamOf[m] # t}

\* A team that is not there any more counts as deleted.
DeleteRemoteTeam(t) ==
    /\ at[t] = "cleanup"
    /\ \/ Calm /\ GoneFromGitHub(t) /\ Goto(t, "removeFinalizer")
       \/ Disturb /\ (GoneFromGitHub(t) \/ UNCHANGED remote) /\ Goto(t, "idle")
    /\ UNCHANGED <<cluster, informer, usable, recorded, known>>

-----------------------------------------------------------------------------
(* GitHubTeamMembership *)

\* resolve: the team, found on GitHub by name or slug; in a deletion the status
\* stands in for a team that cannot be read.
Resolves(m, allowStatusFallback) ==
    /\ ProviderResolves(m)
    /\ \/ Visible(TeamOf[m]) /\ TeamOf[m] \in remoteTeams
       \/ ~Visible(TeamOf[m]) /\ allowStatusFallback /\ m \in recorded

\* A user who is in the team already, and whose status says so, is left alone.
ReconcileMembership(m) ==
    /\ Begins(m, "live") /\ Resolves(m, FALSE)
    /\ m \notin remoteMembers \/ m \notin recorded
    /\ Goto(m, "join")
    /\ UNCHANGED <<cluster, informer, usable, remote, recorded, disturbances, known>>

\* GET and PUT: the team may have gone from GitHub meanwhile, which is an error as
\* any other.
JoinTeam(m) ==
    /\ at[m] = "join"
    /\ \/ Calm /\ TeamOf[m] \in remoteTeams /\ remoteMembers' = remoteMembers \cup {m}
       \/ Calm /\ TeamOf[m] \notin remoteTeams /\ UNCHANGED remoteMembers
       \/ Disturb /\ UNCHANGED remoteMembers
    /\ Goto(m, "record")
    /\ UNCHANGED <<cluster, informer, usable, remoteTeams, recorded, known>>

\* setReadyCondition, after an error too: the status is not written over a newer
\* version of the resource.
RecordMembership(m) ==
    /\ at[m] = "record"
    /\ \/ Calm /\ object[m] = "live" /\ recorded' = recorded \cup {m}
       \/ Calm /\ object[m] # "live" /\ UNCHANGED recorded
       \/ Disturb /\ UNCHANGED recorded
    /\ Goto(m, "idle")
    /\ UNCHANGED <<cluster, informer, usable, remote, known>>

\* Wrong: a team that cannot be read means that there is nothing to revoke.
DeleteMembership_Resigned(m) ==
    /\ Begins(m, "deleting")
    /\ Goto(m, IF policy[m] = "Remove" /\ Resolves(m, TRUE)
                  THEN "cleanup" ELSE "removeFinalizer")
    /\ UNCHANGED <<cluster, informer, usable, remote, recorded, disturbances, known>>

DeleteMembership(m) ==
    /\ Begins(m, "deleting")
    /\ \/ policy[m] = "Orphan" /\ Goto(m, "removeFinalizer")
       \/ policy[m] = "Remove" /\ Resolves(m, TRUE) /\ Goto(m, "cleanup")
    /\ UNCHANGED <<cluster, informer, usable, remote, recorded, disturbances, known>>

\* A user who is not in the team, or a team that is not there, counts as removed.
RemoveTeamMembership(m) ==
    /\ at[m] = "cleanup"
    /\ \/ Calm /\ remoteMembers' = remoteMembers \ {m} /\ Goto(m, "removeFinalizer")
       \/ /\ Disturb
          /\ remoteMembers' \in {remoteMembers, remoteMembers \ {m}}
          /\ Goto(m, "idle")
    /\ UNCHANGED <<cluster, informer, usable, remoteTeams, recorded, known>>

-----------------------------------------------------------------------------
(* The others: what they do on GitHub is left out *)

DeleteRepository(x) ==
    /\ Begins(x, "deleting")
    /\ policy[x] = "Orphan" \/ ProviderResolves(x)
    /\ Goto(x, "removeFinalizer")
    /\ UNCHANGED <<cluster, informer, usable, remote, recorded, disturbances, known>>

\* resolve: the repository and its provider.
DeleteRuleset(x) ==
    /\ Begins(x, "deleting")
    /\ \/ policy[x] = "Orphan"
       \/ Visible(RepositoryOf[x]) /\ ProviderResolves(RepositoryOf[x])
    /\ Goto(x, "removeFinalizer")
    /\ UNCHANGED <<cluster, informer, usable, remote, recorded, disturbances, known>>

-----------------------------------------------------------------------------
(* Users, outsiders, the cluster *)

\* A name is used again when the informer has seen the deletion.
Create(x) ==
    /\ object[x] = "absent" /\ informer[x] = "absent"
    /\ Disturb
    /\ object' = [object EXCEPT ![x] = "new"]
    /\ \/ x = Provider /\ UNCHANGED policy
       \/ x # Provider /\ \E p \in Policies : policy' = [policy EXCEPT ![x] = p]
    /\ UNCHANGED <<informer, usable, at, remote, recorded, known>>

Delete(x) ==
    /\ object[x] \in {"new", "live"}
    /\ object' = [object EXCEPT ![x] = IF @ = "live" THEN "deleting" ELSE "absent"]
    /\ known' = IF object'[x] = "absent"
                   THEN [y \in Objects |-> known[y] \ {x}] ELSE known
    /\ UNCHANGED <<policy, informer, usable, at, remote, recorded, disturbances>>

SuspendOrResume ==
    /\ Disturb
    /\ usable' = ~usable
    /\ UNCHANGED <<cluster, informer, at, remote, recorded, known>>

OutsiderDeletesTeam(t) ==
    /\ Disturb
    /\ t \in remoteTeams /\ GoneFromGitHub(t)
    /\ UNCHANGED <<cluster, informer, usable, at, recorded, known>>

\* The events of a kind arrive in their order.
Sync(kind) ==
    /\ \E x \in kind : informer[x] # object[x]
    /\ informer' = [x \in Objects |-> IF x \in kind THEN object[x] ELSE informer[x]]
    /\ UNCHANGED <<cluster, usable, at, remote, recorded, disturbances, known>>

Restart ==
    /\ Disturb
    /\ informer' = object
    /\ at' = [x \in Objects |-> "idle"]
    /\ UNCHANGED <<cluster, usable, remote, recorded, known>>

Reconcile(x) ==
    \/ AddFinalizer(x) \/ RemoveFinalizer(x)
    \/ x = Provider /\ (DeleteProvider \/ ListUsers)
    \/ x \in Teams /\ 
         (ReconcileTeam(x) \/ CreateTeam(x) \/ DeleteTeam(x) \/ DeleteRemoteTeam(x))
    \/ x \in Memberships /\
         \/ ReconcileMembership(x) \/ JoinTeam(x) \/ RecordMembership(x)
         \/ DeleteMembership(x) \/ RemoveTeamMembership(x)
    \/ x \in Repositories \cup Actions /\ DeleteRepository(x)
    \/ x \in Rulesets /\ DeleteRuleset(x)

Next ==
    \/ \E x \in Objects : Reconcile(x) \/ Create(x) \/ Delete(x)
    \/ \E kind \in Kinds : Sync(kind)
    \/ \E t \in Teams : OutsiderDeletesTeam(t)
    \/ SuspendOrResume \/ Restart

\* Every outcome of a deletion comes back to its queue, and informers catch up.
\* The provider's check starts over and over, and takes turns with nobody; the
\* resources of other kinds share one worker.
Fairness ==
    /\ \A x \in Objects : SF_vars(Reconcile(x))
    /\ \A kind \in Kinds : WF_vars(Sync(kind))

Spec == Init /\ [][Next]_vars
FairSpec == Spec /\ Fairness

-----------------------------------------------------------------------------
(* Properties *)

Deleting == {"cleanup", "removeFinalizer"} \cup DOMAIN After
Labels == {"idle", "create", "join", "record"} \cup Deleting

\* Types; a deletion goes on only for a resource that is being deleted, or has gone.
TypeOK ==
    /\ object \in [Objects -> Phases] /\ informer \in [Objects -> Phases]
    /\ policy \in [Dependents -> Policies] /\ usable \in BOOLEAN
    /\ at \in [Objects -> Labels]
    /\ remoteTeams \subseteq Teams /\ remoteMembers \subseteq Memberships
    /\ recorded \subseteq Memberships
    /\ disturbances \in 0..MaxDisturbances
    /\ known \in [Objects -> SUBSET Dependents]
    /\ \A x \in Objects : at[x] \in Deleting => object[x] # "live"

\* The finalizer of x is removed.
Goes(x) == object[x] = "deleting" /\ object'[x] = "absent"

\* A resource is kept while something refers to it that was there, and in the
\* informer, when the check began: whatever is created, deleted or seen late
\* while one list follows the other (reconcileDelete, findDependency).
UsersProtect ==
    [][/\ Goes(Provider) =>
            /\ known[Provider] \cap (Own \cup Teams) = {}
            /\ \A x \in known[Provider] \cap Rulesets : RepositoryOf[x] \notin Own
       /\ \A t \in Teams : Goes(t) /\ policy[t] = "Remove" =>
            \A m \in known[t] \cap Memberships : TeamOf[m] # t]_vars

\* What was to be removed from GitHub is not there when the finalizer goes, with
\* the team read from its resource or from the status.
CleanupPrecedesRelease ==
    [][\A x \in Dependents : Goes(x) /\ policy[x] = "Remove" =>
          x \notin remoteTeams \cup remoteMembers]_vars

\* What a deletion waits for; nothing else.
Clear(x) ==
    CASE x = Provider ->
           /\ \A y \in Own \cup Teams : object[y] = "absent"
           /\ \A y \in Rulesets : object[y] # "absent" =>
                 RepositoryOf[y] \notin Own /\ object[RepositoryOf[y]] # "absent"
      [] x \in Dependents /\ policy[x] = "Orphan" -> TRUE
      [] x \in Rulesets /\ policy[x] = "Remove" ->
           /\ object[RepositoryOf[x]] # "absent"
           /\ RepositoryOf[x] \in Own => object[Provider] # "absent" /\ usable
      [] x \in Repositories \cup Actions /\ policy[x] = "Remove" ->
           x \in Own => object[Provider] # "absent" /\ usable
      [] x \in Teams /\ policy[x] = "Remove" ->
           /\ object[Provider] # "absent" /\ usable
           /\ \A m \in Memberships : TeamOf[m] = x => object[m] = "absent"
      [] x \in Memberships /\ policy[x] = "Remove" ->
           /\ object[Provider] # "absent" /\ usable
           /\ IF object[TeamOf[x]] # "absent"
                THEN TeamOf[x] \in remoteTeams ELSE x \in recorded

\* A deletion ends when what it waits for stays clear, whatever failed before: time
\* and again only those are left that wait for something.
DeletionEnds == []<>(\A x \in Objects : object[x] = "deleting" => ~Clear(x))
=============================================================================
