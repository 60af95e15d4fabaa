# TLA+ models of github-platform-operator

The operator reconciles eleven kinds of Kubernetes custom resources with GitHub.
This directory holds TLA+ models of its reconcilers and of what they share inside
the manager process, TLC configurations that check small instances, and TLAPS
proofs of the most important properties for every value of the constants.
Sources are cited as `file:line`, relative to `internal/controller/` unless another
directory is named.

To run, inside this directory: `tlc -config Gate.cfg MCRateLimitGate` (see the table
of runs for the pairs) and `tlapm SharedProofs.tla`.

## 1. The system

One process (`cmd/main.go:60-388`) starts a controller-runtime manager with eleven
reconcilers, each with one worker: eleven reconciles may run at once, never two of
one kind. What they share: the informer cache, the API server, one HTTP transport
with a rate-limit gate, and one cache of GitHub App installation tokens
(`cmd/main.go:222-226`). Every reconcile has the same shape:

1. read the resource **from the informer copy**, which may be old;
2. if it is being deleted: carry out the deletion policy on GitHub, then remove the
   finalizer; else add the finalizer if it is missing, and return;
3. resolve the provider (suspended? credentials?) and the objects referred to;
4. compare with GitHub, one HTTP call after the other, and write what differs;
5. write the Ready condition, with the observed generation, to the resource.

Every write to Kubernetes carries the `resourceVersion` that was read and is refused
when it is out of date; no write to GitHub carries anything of the sort. A reconcile
can stop between any two calls (error, lost answer, process death) and the next one
has only the status and GitHub to go by.

### Components

| Component | State it keeps | Operations | Hard behaviours | What makes it correct |
|---|---|---|---|---|
| GitHubRepository | resource (finalizer, Ready condition, observed generation), repository on GitHub | create/adopt, PATCH settings, topics, vulnerability alerts, Orphan/Archive/Delete | stale copies, policy edited during the deletion, provider suspended half way, lost answers, re-created resource | Ready=True is earned; finalizer goes only after the policy in force; nothing the operator made is orphaned; convergence |
| GitHubRepositoryCollaborator | status with the id of an invitation; access and invitation on GitHub | look up, invite, change, withdraw, remove | the user accepts at any time, archived repositories refuse writes | Ready=True is direct access; Revoke leaves no access |
| GitHubActionsSecret | status: source UID/version, GitHub's update time, observed generation | PUT, metadata GET, delete | the value cannot be read back; rotation; foreign writes | a status that vouches for the secret is right; rotation arrives |
| GitHubActionsVariable | status; the value is readable | GET, POST or PATCH, delete | appears or vanishes between two calls | Ready=True is earned; rotation arrives |
| GitHubProviderConfig | resource with finalizer; used by all others | validate credentials, in-use check over all kinds | lists follow each other; references by way of teams and repositories | a provider in use stays; its deletion ends |
| GitHubTeam | status.slug, team on GitHub | find/adopt/create/update, in-use check, delete | created by somebody else meanwhile; membership created after the check | a team in use stays; the managed settings converge |
| GitHubTeamMembership | status fallback to team and provider | add, role, revoke | team or provider gone first; invitations; organization owners | Ready=True is a membership in effect; revoked before release |
| GitHubOrganizationMember | membership and invitation on GitHub | invite, role, remove | the user accepts, or not | Ready=True is a membership in effect; removed before release |
| GitHubRepositoryTeamAccess | access on GitHub | grant, change, revoke | archived or missing repositories | Ready=True is access as in the manifest; revoked before release |
| GitHubRepositoryRuleset | status.rulesetID; the ruleset on GitHub | find by id, else by name; compare canonical forms; create, update, delete | a creation not recorded, duplicates of a name, renames, lists of which empty is not absent | one ruleset per resource, none left behind, nobody else's touched |
| GitHubEnvironment | environment on GitHub | upsert, in-use check, delete | used by secrets and variables of another kind | an environment in use stays; deleted before release |
| Provider resolution (`provider_helpers.go`, `organization_helpers.go`) | none | provider → suspended? → credentials → token | reads caches, then calls GitHub | suspension takes effect |
| Rate-limit gate (`internal/github/rate_limit.go`) | blockedUntil, a gauge | ask, send, close | asked under a lock, sent outside it | every limit is honoured; overruns are bounded; nobody is shut out |
| Token cache (`internal/github/auth.go`) | map of tokens, one mutex | resolve | mutex held during a request; key rotation | right credentials; one token for all; no starvation |
| REST client (`internal/github/rest_*.go`) | none | one function per endpoint | 404 means different things; first page only | — |

### Interactions

* Watches: every controller watches its own kind (`For`, without predicates); the two
  Actions controllers also watch Kubernetes Secrets (`docs/operations.md:169`). Other
  dependencies are polled: results carry `RequeueAfter`.
* A resource refers to a provider directly, or by way of a team, a repository or an
  environment; only the in-use checks of provider, team and environment protect what
  is referred to, and there are no owner references.
* The gate and the token cache are called by every reconcile below step 3.

## 2. Modules

| Module | Models | Extends / instances |
|---|---|---|
| `FinalizerContract` | abstract specification: what any finalizer of the operator promises | — |
| `RepositoryController` | `githubrepository_controller.go`, with deletion and re-creation of the resource, finalizers of others, events apart from the cache, provider states | instance of `FinalizerContract` |
| `RepositoryProofs` | proofs | `RepositoryController`, TLAPS |
| `ManagedResource`, `ManagedProofs` | what the other reconcilers share: resource, copy, worker, dependencies | TLAPS for the lemmas |
| `RepositoryCollaborator`, `CollaboratorProofs` | `githubrepositorycollaborator_controller.go` | `ManagedResource`; `ManagedProofs` for the proofs |
| `ActionsValue` | what secrets and variables share: source Secret, target, visibility | `ManagedResource` |
| `ActionsSecret`, `ActionsVariable` | `githubactionssecret_controller.go`, `githubactionsvariable_controller.go` | `ActionsValue`; the secret also an instance of `FinalizerContract` |
| `SecretProofs`, `VariableProofs` | proofs | `ActionsSecret` or `ActionsVariable`, `ManagedProofs` |
| `RepositoryRuleset`, `RulesetProofs` | `githubrepositoryruleset_controller.go`, `rest_ruleset.go` | `ManagedResource`; TLAPS for the proofs |
| `Setting` | what the five small reconcilers share: look at one thing on GitHub, write it when it differs, remove it | `ManagedResource` |
| `OrganizationMember`, `TeamMembership`, `TeamAccess`, `Environment`, `Team` | one controller each | `Setting` |
| `Settings` | the five of them, each with the values of its kind | `Setting`, instance of the five |
| `SettingProofs` | proofs for the five at once | `Settings`, `ManagedProofs` |
| `RateLimitGate` | `internal/github/rate_limit.go` | — |
| `TokenCache` | `internal/github/auth.go` | — |
| `DeletionOrder` | the in-use checks and deletions of provider, team, membership, repository and ruleset, together | — |
| `SharedProofs` | proofs for these three; hence the prefixes in their names (`GateSpec`, `TokenSpec`) | `RateLimitGate`, `TokenCache`, `DeletionOrder` |
| `MC*` | constants of the instances that TLC checks | the module named |

How code and actions correspond: a reconcile is a program counter (`pc`, or `at[x]` per resource
in `DeletionOrder`) with the locals of the Go function; **every call to GitHub or to the API
server is one action**, so anything else can happen between two calls (`DeletionOrder` joins a GET
with the write that follows it, see below); what happens between the calls (conditions, early
returns, which call is next) is part of the action. The provider and its credentials are resolved
in one action, which may fail although the provider is in order (the Secret cannot be read, no
token is issued); a suspended provider is refused before either. A call that fails, or takes
effect while its answer is lost, is a disjunct of the action and counts as a disturbance, as do
crashes and what outsiders do; `MaxDisturbances` bounds them. A restarted process starts all
reconciles anew, which is `Restart`. Variables marked "history" exist for the properties only.

Representation, in `RepositoryController` and `ManagedResource`:

* A `resourceVersion` is a flag: `fresh` says whether the worker's copy is current,
  `cacheFresh` whether the informer's is. The cache never goes back in time.
* Settings are three groups that are written by one call each (PATCH, topics, alerts); a
  value is one of two, or unmanaged (a nil pointer in the manifest).
* The status fields that only repeat what GitHub said are left out; those that a later
  reconcile reads (pending invitation, source version, update time, slug) are kept.
* A deletion bumps the generation, as Kubernetes does.

Simplifications of GitHub: a lost answer's effect takes place at once; PATCHes apply as
given; archiving an archived repository has no effect; a PUT on a pending invitation
updates it; nobody else invites the user; two writes of one secret get different update
times, and a change of visibility does not touch the time. `ActionsSecret` gives every
write of the secret a stamp that is unused rather than a counter. At most five are remembered
at a time (by GitHub, the status, its copies in the cache and in the reconcile, and the report), so six
stamps, and 0 for none, never run out.

`RepositoryRuleset` keeps two of the managed fields: the name, which every comparison and
every write includes as it does the target, the enforcement and the rules; and the bypass
actors, which a manifest leaves out ("unmanaged"), empties or lists. A ruleset on GitHub
carries `ours` when the operator created it. The pages of the list are left out: the code
reads all of them.

`Setting` gives GitHub one record: the setting (a role, a permission, a description, or that an
environment is there), whether it is a pending invitation, and the state of what it belongs to
(`host`: the team of a membership, the repository of an access or an environment; for an access,
also whether the team is missing). An organization owner is a maintainer of every team, and stays
one. A team is the team of its name: one that is renamed on GitHub is gone under the old name, and
`status.slug` only decides which lookup comes first. What GitHub makes of a POST may differ from
what was asked, and is then corrected by a PATCH. The users are the kinds of which something
refers to the team (memberships) or to the environment (secrets, and variables, listed one after
the other), and the informers' view of them is another set. The five kinds share no state, so one
behaviour of `Settings` follows one of them, chosen at the start.

`DeletionOrder` keeps less of each kind and more of how they interact. `Repositories` stands for
the kinds that name their provider directly and are listed first (repositories, organization
members), `Actions` for those listed last (Actions secrets, then variables, of an organization);
`Own` are those of the one provider modelled, others belong to a foreign one. The deletion policy
is fixed for the life of a resource (edits are in the other modules). Informers catch up kind by
kind. A name is used again only after the informers have seen it go. Looking for a team, creating
it, joining it, and writing the status are steps of their own; joined in one are the GET and the
PUT of a membership, finding and deleting a team, and a list with the teams or repositories its
items refer to. The modules of the single controllers take the first two apart. A reconcile that
would find everything in order is left out. The write that removes a finalizer succeeds on any
version that is being deleted, which allows more than the code does. The provider's own Ready
condition is folded into `usable`.

`RateLimitGate` counts whole seconds, as the metric does; `Delays` contains times in the
past, since a `Retry-After` date may have passed. Transport errors and the backoff between
attempts are not told apart from an answer. `TokenCache` treats address, application,
installation and private key as one value; tokens that GitHub has revoked are not modelled.

A definition with a suffix, such as `CurrentError_Unshared`, is a deliberately wrong
variant ("Wrong: ...") of the one without. It is used nowhere: put in place of the
right one it shows that a property can fail (section 5).

## 3. What is checked

Nine runs pass, three find a violation on purpose (section 6). Sizes are distinct states.

| Run (module) | Question | Bounds |
|---|---|---|
| `Repository` (`MCRepository`) | Is Ready=True earned, the policy in force carried out before the finalizer goes, no repository orphaned, the finalizer contract implemented, whatever is edited, deleted, re-created or lost? Does a resource settle under an active provider, a deletion get through, a lasting suspension stop the traffic and get reported? | two incarnations and generations, two manifests (one leaves a group unmanaged), a finalizer of others, one disturbance, fewer of them at once (below); 0.72 M |
| `Collaborator` (`MCCollaborator`) | Does Ready=True mean access, does a revocation miss the access only by way of an invitation, does the access converge and the deletion get through? | two permissions, two generations, two invitations, one disturbance; 0.24 M |
| `Collaborator_revoke` | violation: Revoke leaves the access | two generations, one invitation, no disturbance |
| `Secret` (`MCActionsSecret`) | Does a status that vouches for the secret tell the truth, after an edit that selects another key of an unchanged Kubernetes Secret, and after rotations? Is the finalizer contract implemented? Does a rotated value arrive when no failure is left unrepaired? | two keys, two values, two generations, one rotation, one disturbance, fewer of them at once; 1.0 M |
| `Secret_rotation` | violation: one failed call and the rotated value never arrives | one generation, one rotation, one disturbance |
| `Variable` (`MCActionsVariable`) | Ready=True earned, rotated value arrives whatever failed | two keys, two values, two visibilities, two generations, one rotation, one disturbance; 1.0 M |
| `Ruleset` (`MCRuleset`) | Does one resource make one ruleset, leave none behind, touch nobody else's, and end with the ruleset of the manifest, whatever is renamed, duplicated or lost? | two names, three ways to write the bypass actors, two generations, one disturbance; 0.42 M |
| `Ruleset_bypass` | violation: the empty list of bypass actors is dropped | one generation, no disturbance |
| `Settings` (`MCSettings`) | For member, membership, access, environment and team: is Ready=True what is in effect, is the removal carried out before the finalizer goes and does it spare what is used, does the setting converge, does a deletion get through? | two values of each kind (three of a team, one of an environment), two generations, one disturbance; 0.64 M |
| `Gate` (`MCRateLimitGate`) | Does a request pass only after every limit handled so far; how often is a closed gate overrun; is anybody shut out? | two workers, three limits, delays −2, 0 and 2 s; 0.2 M |
| `Token` (`MCTokenCache`) | Right credentials, no needless request, nobody starves behind the mutex | two workers, two keys, lifetimes 1 and 3 with a margin of 1, clock to 4, two failures; 0.3 M |
| `Deletion` (`MCDeletionOrder`) | Do users protect what they use, is everything cleaned up before it is released, does every deletion end when what it waits for stays clear; does a ruleset of another provider hold this provider up? | provider, team, membership, own and foreign repository, one ruleset, one Actions resource, one disturbance; 0.55 M |

Why the bounds are enough to see the interesting cases:

* *One disturbance* is one failure (before or after it took effect), one restart or one
  outsider's act, at every point of every interleaving; edits, deletions, provider
  changes by users, acceptances and rotations come on top of it. Two generations let an
  edit fall inside a reconcile of the earlier one; two incarnations let a worker hold a
  copy of a resource that is gone and back. Cross effects of two failures are left
  to the proofs, where there are any.
* *Fewer of them at once*: three MC modules restrict the specification, by a predicate
  `Bounded` that is conjoined to every step.
  In `MCRepository` a resource that was created again, or that somebody else's finalizer
  holds, has the manifest that manages everything and is not edited, and nothing disturbs the second
  incarnation. In `MCActionsSecret` the manifest is edited (or deleted) or the Kubernetes Secret
  changes, not both while the resource lives, and the first key starts with a fixed value, as the values are
  alike. In `MCDeletionOrder` either team and membership exist beside the provider, or the
  repositories and the ruleset, or a repository and the Actions resource; nothing disturbs the last
  two, and what they stand for stays on GitHub. Only
  steps of users and disturbances are cut off: whatever the managers' steps could do, they
  can do, so fairness asks for nothing that the bound forbids.
* *Two workers and three limits* let a shorter limit be handled after a longer one, and a
  worker wake while the gate is closed. *Two keys of the Secret* let an edit change the
  key and nothing else. A lifetime of 1 under a margin of 1 is a token that is due when it
  arrives. *Two names* of rulesets let the manifest, the recorded ruleset and a foreign one
  agree or differ in every way.
* In `AccessConverges` the premise `remote.id < MaxInvitations` excludes behaviours that
  ran into the bound on invitations.

`CHECK_DEADLOCK FALSE` is set where the system may rest: a resource that is gone and whose
creations are used up, or nothing left to do. `Gate` and `Token` never rest, and are
checked for deadlock. The type invariants of `RepositoryCollaborator`, `ActionsSecret`,
`RepositoryRuleset` and `Setting` are left out of the runs; all four are proved.

### Properties worth a second look

* `ReadyIsEarned` / `ReadyIsAccess` relate the status to a *history*: GitHub agreed with
  every managed group at some moment since this generation was written. They would
  break if the status were written to a version the reconcile did not work on.
* `FinalizerHonoursPolicy` speaks of the policy **in force when the finalizer goes**, which a
  user may have changed after the cleanup started; only the conflict on the final
  update protects it.
* `VouchedIsRight` cannot compare with GitHub, as the operator cannot; it says that the
  evidence in the status is good, with the two exceptions that the code leaves open (`missed`).
* `UsersProtect` is about lists that follow each other: `known` is what was there, and
  visible, when the check began.
* `OneRulesetOfOurs` and `NothingLeftBehind` hold but for `strayed`: a copy of the resource
  was in use that had neither the id nor the name of a ruleset of ours, because one of them
  was renamed before the id was recorded and had reached the informer. The code can do nothing
  about it, since GitHub offers no key of the client's own.
* `NeverAmbiguous` states whose rulesets may be changed: our own, and those that were at some
  moment the only ones of the name in the manifest, or in the copy of it that a reconcile works
  on; that excludes a choice among duplicates.
* `RemovalIsRight` speaks of a moment *within the deletion*: that nothing was there before the
  deletion began does not count, and an archived repository's refusal must keep the finalizer.
* `SettingConverges` lets a pending invitation stand, as the operator cannot accept it. For an
  organization owner, whom a manifest calls `member` of a team, GitHub answers `maintainer` for ever: the
  reconciler writes it again at every drift check, and says Ready=True; the predicate
  `Agrees` makes that exception.
* `OneOverrunEach`: a request asked for before the gate closed may reach GitHub after it,
  but once per worker.

### Fairness

* Weak fairness of the worker's steps and of taking the key from the queue: a manager that
  runs schedules its goroutines; of `SyncCache`, `HandleEvent`, `SyncProvider` and `Sync`: a
  watch delivers. Users, outsiders, failures and restarts have none.
* An error and `RequeueAfter` put the key back (`Return(TRUE)`): the workqueue guarantees it,
  whatever the delay; delays are not modelled except in the gate.
* Gate: the clock ticks while somebody waits, and round trips end.
* Token: a request ends since the HTTP client has a timeout, and the worker that waits for
  the mutex gets it in the end: **strong** fairness of `Lock`, because `sync.Mutex` hands
  over to a waiter that starves (others may take it in between for a while).
* Deletion: a reconcile of x is disabled while another resource of the kind is served by the
  one worker, but the queue serves keys in turn, and every result of a pending deletion comes
  back. That justifies the strong fairness of `Reconcile(x)` in `DeletionOrder`; the run shows
  the same result under weak fairness, which assumes less and is enough for its few objects
  of a kind. `DeletionEnds` says that deletions that are clear to go do not stay for ever.
* Rulesets and settings: weak fairness of the worker, of taking the key and of the informers.

## 4. What is proved

`tlapm` proves the following for every value of the constants, under the named assumptions,
which only give the constants their types (and, in `DeletionOrder`, keep the kinds apart; in
`Settings`, put the values of each kind among the values). Every invariant and every action
property that a run checks, and both refinements, are stated by one of these theorems.

| Module | Theorem | Argument |
|---|---|---|
| `RepositoryProofs` | `TypeCorrect` | typing, action by action |
| | `FinalizerSafety`: `[]NoOrphanedRepository` | `VersionInv`: the worker's copy is no later than the cache, the cache no later than the API server; hence a live copy with our finalizer, however old, still has a guarded resource. `FinalizerInv`: what the cleanup has achieved holds until the finalizer goes |
| | `PolicyHonoured`: `FinalizerHonoursPolicy` | the finalizer goes only with a current copy, whose policy has been cleaned up for |
| | `Refinement`: the reconciler implements `FinalizerContract` | step simulation under the same invariant |
| | `ReadySafety`: `[]ReadyIsEarned` | `ReadyInv`: a worker with a current copy has the agreement of GitHub for all it has got through |
| `RulesetProofs` | `TypeCorrect`; `ReadySafety`: `[]ReadyIsEarned` | `ReadyInv`: a report made from a current copy names its generation, and a ruleset that agrees |
| | `OneRuleset`: `[]OneRulesetOfOurs` | `SingleInv`: unless a name has strayed, what is listed under the name is ours when one of ours is there, and nothing of ours is there when one is about to be created |
| | `LeavesNothing`: `NothingLeftBehind` | `UnitInv`: while a ruleset of ours is there, every id that is recorded or about to be deleted, and still on GitHub, is its own; `FaithfulInv`: an id is given up only when its ruleset is gone; `FinalizerInv`: no copy that could still create is older than the deletion |
| | `DuplicatesSpared`: `NeverAmbiguous` | `ClaimInv`: every id that is recorded or about to be changed was claimed rightly |
| `CollaboratorProofs` | `TypeCorrect`; `ReadySafety`: `[]ReadyIsAccess` | `ReadyInv`: a report made from a current copy names its generation, and says Ready only of a direct access that was seen |
| | `Revocation`: `RevokeUnlessInvited` | `RevokeInv`: what the two lookups found still covers all that the DELETE must take away, until a user accepts; a repository that is gone has neither access nor invitation; an id is of the latest invitation |
| `VariableProofs` | `TypeCorrect`; `ReadySafety`: `[]ReadyIsEarned` | `WorkInv`: the value that the worker carries is what that version of the Kubernetes Secret holds; `ReadyInv`: a report of the newest version was made when GitHub agreed |
| `SecretProofs` | `TypeCorrect`; `VouchedSafety`: `[]VouchedIsRight` | `VouchInv`: every copy of the resource, however old, is faithful: if it names the newest version of the Kubernetes Secret and the last update on GitHub, then GitHub has the value that its manifest asks for; so is the report about to be written, since a reconcile may find its own copy in order and pass it on. `WorkInv`: the value that the worker carries is what that version of the Kubernetes Secret holds. A stamp is given again only when nothing remembers it |
| | `Refinement`: `ImplementsContract` | step simulation. `HoldInv`: what may still write holds the finalizer; `CleanInv`: what the cleanup has achieved holds until the finalizer goes |
| `SettingProofs` | `TypeCorrect`; `ReadySafety`: `[]ReadyIsEarned` | `ReadyInv`: a report made from a current copy names its generation, and says Ready only when what was seen agreed with the manifest (or will never, for an owner) |
| | `Removal`: `RemovalIsRight` | `RemovalInv`: from the moment the removal is done, or was seen to be needless, until the finalizer goes, the history holds a moment within the deletion when nothing was there or the users kept it |
| `SharedProofs` | `GateTypeCorrect` (with: the gauge never shows more than the gate), `LimitsHonoured`, `OverrunBounded` | the gate is the latest time told; a worker that has overrun a closed gate is not about to send |
| | `TokenTypeCorrect` (with: the mutex is with the worker that asks), `TokensOwned`, `TokensShared` | every entry belongs to its key; the cache keeps the longest-lived token, or that is due |
| | `DeletionTypeCorrect`, `KnownUsersProtect` | what the check could have known of stays visible until it goes; what the lists have passed contains none of it |
| | `CleanupFirst`: `CleanupPrecedesRelease` | `CleanedUp`: at the update that takes the finalizer away, what the policy demands has been done and is not undone |

The proofs for collaborators, secrets, variables and settings rest on the lemmas of `ManagedProofs`,
proved once for whatever statuses and remote state a controller adds: `CommonStep` and `UserStep` say
what the shared steps keep (the types; a current copy is the resource; the phase at each program counter)
and how a version of the resource follows from the one before; `CallReturns`, `CallContinues` and
`CallConcludes` do so for the three ways a call to GitHub ends; `HoldCalls`, `HoldUsers` and
`HoldCommon` say that no copy that may still write to GitHub is without the finalizer.

`SettingProofs` proves the five kinds at once. Lemmas such as `MemberIs` and `GroupIs` turn what the instance
of each kind defines into what `Setting` says of any of them; four more sort every step of
`Settings` by what it may change: a call to GitHub (`Called`), a step that all controllers share
(`Shared`), a user's edit or creation (`Manifested`), an act of somebody else (`Outside`). Each part of the
invariant is then proved of those four.

None of the properties is inductive by itself. `NoOrphanedRepository` needs the order
of the copies, because the step that creates a repository looks at an old copy and not at the
resource; `NothingLeftBehind` needs to know of every
copy whether the id in it is still on GitHub, because a deletion looks for one ruleset only;
`UsersProtect` needs the intermediate program counters, because each list is
read at another moment; `PassesAfterLimits` needs the equation between the gate and the history.

Only model-checked: the properties under fairness (`Converges`, `DeletionCompletes`,
`SuspensionSettles`, `AccessConverges`, `RevocationCompletes`, `RotationArrives`,
`RotationArrivesUnlessMissed`, `RulesetConverges`, `SettingConverges`, `DeletionEnds`, `EverybodyGetsThrough`,
`EverybodyIsServed`), since liveness and `ENABLED` are out of the prover's reach. The other way round, the
ruleset clause of `UsersProtect` is proved, and is met by no run, whose ruleset belongs to
another provider; and the proofs know no bound on disturbances other than the constant, which may be
any number, nor the predicate `Bounded` of the MC modules.

## 5. Slips the properties notice

Each line is a plausible slip in one definition; the property on the right fails
when the wrong variant takes the place of the right one.

| Slip | Noticed by |
|---|---|
| `AlertsOnGitHub_Nil`: a missing repository reads as no answer | `TypeOK` |
| `SetReadyCondition_Refetch`: the status goes to whatever version is current | `ReadyIsEarned` |
| `SetReadyCondition_NoRequeue`: a condition written ends the work | `Converges` |
| `CleanUp_IgnoreError`: the finalizer goes although the call failed | `FinalizerHonoursPolicy`, `ImplementsContract` |
| `Branch_NoFinalizer`: GitHub before the finalizer | `NoOrphanedRepository` |
| `Branch_OrphanResolves`: an orphaning deletion needs the provider | `DeletionCompletes` |
| `Usable_Suspended`: suspension not looked at | `SuspensionSettles` |
| `Finished_Pending`, `RemoveCollaboratorAccess_Refused`, `AfterLookup_KeepInvitation`, `Fails_NoRetry` | `ReadyIsAccess`, `RevokeUnlessInvited`, `AccessConverges`, `RevocationCompletes` |
| `ResolveActionsValueSource_NoKey`: a missing key is a value | `TypeOK` |
| `NeedsSynchronization_NoTime`, `_NoGeneration`, `_NoSource`: one of the three reasons to send again is forgotten | `VouchedIsRight` twice, `RotationArrivesUnlessMissed` |
| `DeleteFromGitHub_IgnoreError` | `ImplementsContract` |
| `VariableNeedsUpdate_NoVisibility`, `_ByStatus` | `ReadyIsEarned`, `RotationArrives` |
| `NewLimit_Last`: the last answer counts, not the latest time | `GateTypeOK`, `PassesAfterLimits` |
| `CurrentError_Unshared`, `CurrentError_OneWaits` | `OneOverrunEach`, `EverybodyGetsThrough` |
| `Fail_Locked`: an early return keeps the mutex | `TokenTypeOK`, `EverybodyIsServed` |
| `InstallationTokenCacheKey_NoHash`, `Lock_Released` | `TokenOfCredentials`, `NoTokenWasted` |
| `Begins_Undeleted`, `FindDependency_Skipped`, `DeleteMembership_Resigned`, `ListUsers_GiveUp` | `TypeOK`, `UsersProtect`, `CleanupPrecedesRelease`, `DeletionEnds` |
| `UsingRepositories_Live`, `UsingRulesets_All` | `UsersProtect`, `DeletionEnds` |
| `Go_NoUpdate`: a ruleset that is there is taken as it is | `ReadyIsEarned`, `RulesetConverges` |
| `ListRulesets_NoAdoption`, `ListRulesets_TakeAny`: what has no id is not looked for, or any of the name will do | `OneRulesetOfOurs`, `NeverAmbiguous` |
| `DeleteRepositoryRuleset_IgnoreError`, `_NoRetry` | `NothingLeftBehind`, `DeletionCompletes` |
| `Finished_Pending` (`Setting`), `Remove_IgnoreError`, `Reconcile_Unasked` (`Environment`: nobody is asked) | `ReadyIsEarned`, `RemovalIsRight` twice |
| `DesiredTeamUpdate_None`, `KeptByUsers_NoRetry` | `SettingConverges`, `DeletionCompletes` |

## 6. Where code and documentation disagree

Found by runs:

1. **A revoked user keeps the access** (`Collaborator_revoke`;
   `githubrepositorycollaborator_controller.go:313`). When no pending invitation is found
   but the status shows one, the deletion withdraws *that invitation*; if it was accepted
   meanwhile, GitHub answers 404, which counts as done, and the collaborator stays.
   `docs/resources.md:449` promises "Remove the team or collaborator access".
2. **A rotated secret may never arrive** (`Secret_rotation`;
   `githubactionssecret_controller.go:252`). A failed reconcile records the source version and
   the generation as observed; the next one finds nothing to do and reports Ready=True over
   the old value. `docs/resources.md:578` promises automatic rotation.

3. **An empty list of bypass actors does nothing** (`Ruleset_bypass`;
   `githubrepositoryruleset_controller.go:80`). The update that adds the finalizer writes the whole
   resource back, and `omitempty` (`api/v1alpha1/githubrepositoryruleset_types.go:201`) drops
   the empty list, which then reads as "unmanaged". `docs/resources.md:281` promises
   "`bypassActors: []` removes every managed bypass actor." Only a list emptied after the
   finalizer is there takes effect.

Met while modelling, and written into the properties as the condition under which they hold:

4. A reconcile in flight still calls GitHub after the provider was suspended
   (`githubrepository_controller.go:119`; `docs/operations.md:95` promises no request).
   `SuspensionSettles` says that the traffic ends.
5. The in-use check of a provider reads informer copies, one kind after the other
   (`githubproviderconfig_controller.go:160`): a team created meanwhile is not seen, and
   the provider goes although `docs/resources.md:80-82` says that it cannot. `UsersProtect`
   speaks of what was visible when the check began.
6. A membership whose team cannot be read is skipped by that check
   (`githubproviderconfig_controller.go:227`): team, then provider go, and the membership
   waits for a provider that is no more. In `Clear`, the provider must stay.
7. A team that is not on GitHub and its membership, deleted together, wait for each other
   (`githubteammembership_controller.go:178`, `githubteam_controller.go:202`). In `Clear`, the
   team of a membership must be on GitHub while its resource is there.
8. A ruleset whose repository is missing, of any provider, is an error of every provider's
   in-use check (`githubproviderconfig_controller.go:249`). In `Clear`, no such ruleset.
9. The gauge of the gate is set after the lock is released, so a worker may overwrite a later
   time with an earlier one (`internal/github/rate_limit.go:177`; `docs/operations.md:132`). It
   never shows more than the gate, which `GateTypeOK` states and `SharedProofs` proves.
10. A ruleset whose name changes, in the manifest or on GitHub, before its id is recorded is
   lost sight of, and a second one is created (`githubrepositoryruleset_controller.go:343`). `strayed`.
11. An organization owner never becomes a `member` of a team; the membership is written again at
   every drift check and reported Ready=True (`githubteammembership_controller.go:105`). `Agrees`.
12. The deletion of a team access or an environment waits for the GitHubRepository resource, also when
   that is gone for good (`githubrepositoryteamaccess_controller.go:171`). In `DeletionCompletes`,
   the dependency must be there.

## 7. Not modelled

* Credential validation and the Ready condition of the provider itself: only its effect, a
  provider that can be used or not.
* Identities on GitHub behind names: a team, user or repository that is renamed is another one.
* Fields that are compared and written like one another: a ruleset's target, enforcement,
  conditions and rules, a team's privacy apart from its description. The canonical JSON of rule
  parameters is taken for what it decides, same or not.
* Pages and sizes of lists. The lists of teams and rulesets are read to the end; invitations
  beyond the first page are not seen by the code.
* Two manager processes at once (leader election is off by default, one replica is assumed).
* The informer going back in time after a restart against another API server.
* Revoked tokens (the code does not react to them).
* Metrics other than the gate's gauge, logging, generated deep copies, charts, dashboards,
  flags and TLS of `cmd/main.go`: no behaviour that the properties speak of.
* CEL validation: identity fields are constants of the models because it makes them immutable.

## 8. Plan

Done: `FinalizerContract` and `RepositoryController` (the pattern that every controller
repeats), its proofs, `ManagedResource` with the kinds whose remote state is hardest to know
(`RepositoryCollaborator`, `ActionsSecret`), `ActionsVariable` as its counterpart, what is shared
(`RateLimitGate`, `TokenCache`), what composes several controllers (`DeletionOrder`), and the other six
kinds: `RepositoryRuleset`, and `Settings` with five.

Proved: every invariant, every action property and both refinements that the runs check, and the lemmas of
`ManagedProofs` for every controller built on `ManagedResource`.

Next, prove what the runs could not reach: that `Setting`, the collaborators and the rulesets implement
`FinalizerContract` as the secrets do, where their deletion policies fit it; and the safety behind the
liveness properties (that a failure always leaves the key in the queue).

Then, model: the canonical comparison of rulesets and of selected repositories against a reference
definition, and a repository's deletion together with its children (access, rulesets, environments).
