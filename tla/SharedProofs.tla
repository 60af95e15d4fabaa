----------------------------- MODULE SharedProofs -----------------------------
(***************************************************************************)
(* Proofs about what the controllers share: the objects that must outlive  *)
(* those which refer to them (DeletionOrder), the gate in front of GitHub  *)
(* (RateLimitGate) and the cache of installation tokens (TokenCache).      *)
(* Three specifications with nothing in common but their controllers, each *)
(* under the assumptions on its own constants.                             *)
(***************************************************************************)
EXTENDS DeletionOrder, RateLimitGate, TokenCache, TLAPS

-----------------------------------------------------------------------------
(* The order of deletions: for any teams, memberships, repositories and    *)
(* rulesets, whatever the checks could have known of protects what it      *)
(* refers to, although each kind is listed at another moment.              *)

\* A copy that is being deleted is of a resource that is, or was.
CopiesDelete ==
    \A x \in Objects : informer[x] = "deleting" => object[x] \in {"deleting", "absent"}

\* What a check could have known of stays visible to it.
KnownVisible ==
    \A x \in Objects : \A y \in known[x] : object[y] # "absent" /\ Visible(y)

\* What the check of the provider has passed.
ProviderChecked ==
    /\ at[Provider] \in {"teams", "memberships", "rulesets", "actions", "removeFinalizer"} =>
          known[Provider] \cap Own \cap Repositories = {}
    /\ at[Provider] \in {"memberships", "rulesets", "actions", "removeFinalizer"} =>
          known[Provider] \cap Teams = {}
    /\ at[Provider] \in {"actions", "removeFinalizer"} =>
          \A x \in known[Provider] \cap Rulesets : RepositoryOf[x] \notin Own
    /\ at[Provider] = "removeFinalizer" => known[Provider] \cap Own = {}

\* What the check of a team has passed; a team that was created again meanwhile
\* is not being deleted.
TeamsChecked ==
    \A t \in Teams :
        at[t] \in Deleting /\ object[t] = "deleting" /\ policy[t] = "Remove" =>
            \A m \in known[t] \cap Memberships : TeamOf[m] # t

\* Whose finalizer goes next under the policy Delete or Revoke is not on GitHub: nobody
\* begins to make it again meanwhile, and a resource under another policy is not being
\* deleted.
CleanedUp ==
    \A x \in Dependents :
        at[x] = "removeFinalizer" /\ object[x] = "deleting" /\ policy[x] = "Remove" =>
            x \notin remoteTeams \cup remoteMembers

Inv ==
    /\ TypeOK /\ CopiesDelete /\ KnownVisible /\ ProviderChecked /\ TeamsChecked
    /\ CleanedUp

USE ReferencesAssumption, KindsAssumption

LEMMA InvInit == Init => Inv
  BY DEF Init, Inv, TypeOK, CopiesDelete, KnownVisible, ProviderChecked, TeamsChecked,
         CleanedUp, Objects, Dependents, Phases, Policies, Labels, Deleting

\* A controller begins only when it is idle.
LEMMA BeginsIdle ==
    ASSUME NEW x \in Objects, NEW phase, Begins(x, phase)
    PROVE  at[x] = "idle" /\ informer[x] = phase
  BY DEF Begins

-----------------------------------------------------------------------------
(* Each conjunct is kept by every step of a controller, a user, the cluster. *)

LEMMA TypeStep == Inv /\ [Next]_vars => TypeOK'
<1> SUFFICES ASSUME Inv, [Next]_vars PROVE TypeOK'
    OBVIOUS
<1> USE DEF Inv, TypeOK, Phases, Policies, Labels, Deleting, After, Goto, Calm, Disturb
<1>1. ASSUME NEW x \in Objects, AddFinalizer(x) PROVE TypeOK'
  BY <1>1, BeginsIdle DEF AddFinalizer, remote
<1>2. ASSUME NEW x \in Objects, RemoveFinalizer(x) PROVE TypeOK'
  <2>1. at' \in [Objects -> Labels] /\ at'[x] = "idle"
          /\ \A y \in Objects : y # x => at'[y] = at[y]
    BY <1>2 DEF RemoveFinalizer
  <2>2. /\ object' \in [Objects -> Phases]
        /\ known' \in [Objects -> SUBSET Dependents]
        /\ recorded' \subseteq Memberships
        /\ disturbances' \in 0..MaxDisturbances
    BY <1>2 DEF RemoveFinalizer
  <2>3. \A y \in Objects : y # x => object'[y] = object[y]
    BY <1>2 DEF RemoveFinalizer
  <2> QED BY <1>2, <2>1, <2>2, <2>3 DEF RemoveFinalizer, remote
<1>3. ASSUME DeleteProvider PROVE TypeOK'
  <2>1. at[Provider] = "idle" /\ object[Provider] # "live"
    BY <1>3, BeginsIdle DEF DeleteProvider, CopiesDelete, Objects
  <2> QED BY <1>3, <2>1 DEF DeleteProvider, Remember, cluster, remote, Objects
<1>4. ASSUME ListUsers PROVE TypeOK'
  <2>1. PICK kind \in DOMAIN After :
           /\ at[Provider] = kind
           /\ Goto(Provider, IF Users(kind) = {} THEN After[kind] ELSE "idle")
           /\ UNCHANGED <<cluster, informer, usable, remote, recorded, disturbances, known>>
    BY <1>4 DEF ListUsers
  <2>2. at[Provider] # "idle" /\ After[kind] \in Labels
    BY <2>1
  <2> QED BY <2>1, <2>2 DEF cluster, remote, Objects
<1>5. ASSUME NEW t \in Teams, ReconcileTeam(t) \/ CreateTeam(t) PROVE TypeOK'
  BY <1>5 DEF ReconcileTeam, CreateTeam, cluster, remote, Objects, Dependents
<1>6. ASSUME NEW t \in Teams, DeleteTeam(t) PROVE TypeOK'
  <2>1. t \in Objects /\ object[t] # "live"
    BY <1>6, BeginsIdle DEF DeleteTeam, CopiesDelete, Objects, Dependents
  <2> QED BY <1>6, <2>1 DEF DeleteTeam, Remember, cluster, remote
<1>7. ASSUME NEW t \in Teams, DeleteRemoteTeam(t) PROVE TypeOK'
  <2>1. remoteTeams' \subseteq Teams /\ remoteMembers' \subseteq Memberships
    BY <1>7 DEF DeleteRemoteTeam, GoneFromGitHub, remote
  <2> QED BY <1>7, <2>1 DEF DeleteRemoteTeam, cluster, Objects, Dependents
<1>8. ASSUME NEW m \in Memberships,
             ReconcileMembership(m) \/ JoinTeam(m) \/ RecordMembership(m)
      PROVE  TypeOK'
  <2>1. m \in Objects
    BY DEF Objects, Dependents
  <2>2. CASE ReconcileMembership(m)
    BY <2>1, <2>2 DEF ReconcileMembership, cluster, remote
  <2>3. CASE JoinTeam(m)
    BY <2>1, <2>3 DEF JoinTeam, cluster
  <2>4. CASE RecordMembership(m)
    BY <2>1, <2>4 DEF RecordMembership, cluster, remote
  <2> QED BY <1>8, <2>2, <2>3, <2>4
<1>9. ASSUME NEW m \in Memberships, DeleteMembership(m) PROVE TypeOK'
  <2>1. m \in Objects /\ object[m] # "live"
    BY <1>9, BeginsIdle DEF DeleteMembership, CopiesDelete, Objects, Dependents
  <2> QED BY <1>9, <2>1 DEF DeleteMembership, cluster, remote
<1>10. ASSUME NEW m \in Memberships, RemoveTeamMembership(m) PROVE TypeOK'
  BY <1>10 DEF RemoveTeamMembership, cluster, Objects, Dependents
<1>11. ASSUME NEW x \in Objects, DeleteRepository(x) \/ DeleteRuleset(x) PROVE TypeOK'
  <2>1. object[x] # "live"
    BY <1>11, BeginsIdle DEF DeleteRepository, DeleteRuleset, CopiesDelete
  <2> QED BY <1>11, <2>1 DEF DeleteRepository, DeleteRuleset, cluster, remote
<1>12. ASSUME NEW x \in Objects, Create(x) PROVE TypeOK'
  <2>1. policy' \in [Dependents -> Policies]
    BY <1>12 DEF Create, Objects
  <2> QED BY <1>12, <2>1 DEF Create, remote
<1>13. ASSUME NEW x \in Objects, Delete(x) PROVE TypeOK'
  <2>1. known' \in [Objects -> SUBSET Dependents]
    BY <1>13 DEF Delete
  <2> QED BY <1>13, <2>1 DEF Delete, remote
<1>14. ASSUME NEW kind \in Kinds, Sync(kind) PROVE TypeOK'
  BY <1>14 DEF Sync, cluster, remote
<1>15. ASSUME NEW t \in Teams, OutsiderDeletesTeam(t) PROVE TypeOK'
  BY <1>15 DEF OutsiderDeletesTeam, GoneFromGitHub, cluster
<1>16. CASE SuspendOrResume
  BY <1>16 DEF SuspendOrResume, cluster, remote
<1>17. CASE Restart
  BY <1>17 DEF Restart, cluster, remote
<1>18. CASE UNCHANGED vars
  BY <1>18 DEF vars, cluster, remote
<1> QED BY <1>1, <1>2, <1>3, <1>4, <1>5, <1>6, <1>7, <1>8, <1>9, <1>10, <1>11, <1>12,
           <1>13, <1>14, <1>15, <1>16, <1>17, <1>18 DEF Next, Reconcile

-----------------------------------------------------------------------------
(* What the other conjuncts need to know of a step. *)

\* A resource comes into being where its copy is absent, and is being deleted
\* only after it was live.
LEMMA CopiesStep == Inv /\ [Next]_vars => CopiesDelete'
<1> SUFFICES ASSUME Inv, [Next]_vars PROVE CopiesDelete'
    OBVIOUS
<1> USE DEF Inv, TypeOK, CopiesDelete
<1>1. ASSUME NEW x \in Objects, AddFinalizer(x) PROVE CopiesDelete'
  BY <1>1, BeginsIdle DEF AddFinalizer
<1>2. ASSUME NEW x \in Objects, RemoveFinalizer(x) PROVE CopiesDelete'
  BY <1>2 DEF RemoveFinalizer
<1>3. ASSUME NEW x \in Objects, Create(x) PROVE CopiesDelete'
  BY <1>3 DEF Create
<1>4. ASSUME NEW x \in Objects, Delete(x) PROVE CopiesDelete'
  BY <1>4 DEF Delete
<1>5. ASSUME NEW kind \in Kinds, Sync(kind) PROVE CopiesDelete'
  BY <1>5 DEF Sync, cluster
<1>6. CASE Restart
  BY <1>6 DEF Restart, cluster
<1>7. CASE UNCHANGED <<object, informer>>
  BY <1>7
<1> QED BY <1>1, <1>2, <1>3, <1>4, <1>5, <1>6, <1>7
       DEF Next, Reconcile, DeleteProvider, ListUsers, ReconcileTeam, CreateTeam, DeleteTeam,
           DeleteRemoteTeam, ReconcileMembership, JoinTeam, RecordMembership,
           DeleteMembership, RemoveTeamMembership, DeleteRepository, DeleteRuleset,
           OutsiderDeletesTeam, SuspendOrResume, vars, cluster

\* What is forgotten is what has gone.
LEMMA KnownStep == Inv /\ [Next]_vars => KnownVisible'
<1> SUFFICES ASSUME Inv, [Next]_vars PROVE KnownVisible'
    OBVIOUS
<1> USE DEF Inv, TypeOK, KnownVisible, Visible, Dependents, Objects
<1>1. ASSUME NEW x \in Objects, AddFinalizer(x) PROVE KnownVisible'
  BY <1>1 DEF AddFinalizer
<1>2. ASSUME NEW x \in Objects, RemoveFinalizer(x) PROVE KnownVisible'
  BY <1>2 DEF RemoveFinalizer
<1>3. ASSUME NEW x \in Objects, Create(x) PROVE KnownVisible'
  BY <1>3 DEF Create
<1>4. ASSUME NEW x \in Objects, Delete(x) PROVE KnownVisible'
  <2>1. CASE object'[x] = "absent"
    BY <1>4, <2>1 DEF Delete
  <2>2. CASE object'[x] # "absent"
    BY <1>4, <2>2 DEF Delete
  <2> QED BY <2>1, <2>2
<1>5. ASSUME NEW kind \in Kinds, Sync(kind) PROVE KnownVisible'
  BY <1>5 DEF Sync, cluster
<1>6. CASE Restart
  BY <1>6 DEF Restart, cluster
<1>7. ASSUME NEW x \in Objects, Remember(x), UNCHANGED <<object, informer>>
      PROVE KnownVisible'
  BY <1>7 DEF Remember
<1>8. CASE UNCHANGED <<object, informer, known>>
  BY <1>8
<1> QED BY <1>1, <1>2, <1>3, <1>4, <1>5, <1>6, <1>7, <1>8
       DEF Next, Reconcile, DeleteProvider, ListUsers, ReconcileTeam, CreateTeam, DeleteTeam,
           DeleteRemoteTeam, ReconcileMembership, JoinTeam, RecordMembership,
           DeleteMembership, RemoveTeamMembership, DeleteRepository, DeleteRuleset,
           OutsiderDeletesTeam, SuspendOrResume, vars, cluster

\* A step that leaves the provider's check where it is, or ends it, keeps what the
\* check has passed; a list that is empty passes what it looked for.
LEMMA ProviderStep == Inv /\ [Next]_vars => ProviderChecked'
<1> SUFFICES ASSUME Inv, [Next]_vars PROVE ProviderChecked'
    OBVIOUS
<1> USE DEF Inv, TypeOK, Objects, Goto
<1>1. ASSUME at'[Provider] \in {at[Provider], "idle"},
             known'[Provider] \subseteq known[Provider]
      PROVE  ProviderChecked'
  BY <1>1 DEF ProviderChecked
<1>2. ASSUME NEW x \in Objects, RemoveFinalizer(x) PROVE ProviderChecked'
  BY <1>1, <1>2 DEF RemoveFinalizer
<1>3. CASE DeleteProvider
  <2>1. at'[Provider] = "repositories"
    BY <1>3 DEF DeleteProvider
  <2> QED BY <2>1 DEF ProviderChecked
<1>4. CASE ListUsers
  <2>1. PICK kind \in DOMAIN After :
           /\ at[Provider] = kind
           /\ Goto(Provider, IF Users(kind) = {} THEN After[kind] ELSE "idle")
           /\ known' = known
    BY <1>4 DEF ListUsers
  <2>2. CASE Users(kind) # {}
    BY <1>1, <2>1, <2>2
  <2>3. CASE Users(kind) = {}
    <3>1. at'[Provider] = After[kind]
      BY <2>1, <2>3
    <3>2. \A y \in known[Provider] : Visible(y)
      BY DEF KnownVisible
    <3>3. CASE kind = "repositories"
      <4>1. known[Provider] \cap Own \cap Repositories = {}
        BY <2>3, <3>2, <3>3 DEF Users, UsingRepositories
      <4> QED BY <2>1, <3>1, <3>3, <4>1 DEF After, ProviderChecked
    <3>4. CASE kind = "teams"
      <4>1. known[Provider] \cap Teams = {}
        BY <2>3, <3>2, <3>4 DEF Users, UsingTeams
      <4> QED BY <2>1, <3>1, <3>4, <4>1 DEF After, ProviderChecked
    <3>5. CASE kind = "memberships"
      BY <2>1, <3>1, <3>5 DEF After, ProviderChecked
    <3>6. CASE kind = "actions"
      <4>1. known[Provider] \cap Own \cap Actions = {}
        BY <2>3, <3>2, <3>6 DEF Users, UsingActions
      <4>2. known[Provider] \cap Own \cap Repositories = {}
        BY <2>1, <3>6 DEF ProviderChecked
      <4> QED BY <2>1, <3>1, <3>6, <4>1, <4>2 DEF After, ProviderChecked
    <3>7. CASE kind = "rulesets"
      <4>1. \A x \in known[Provider] \cap Rulesets : RepositoryOf[x] \notin Own
        BY <2>3, <3>2, <3>7 DEF Users, UsingRulesets
      <4> QED BY <2>1, <3>1, <3>7, <4>1 DEF After, ProviderChecked
    <3> QED BY <3>3, <3>4, <3>5, <3>6, <3>7 DEF After
  <2> QED BY <2>2, <2>3
<1>5. ASSUME NEW t \in Teams, DeleteTeam(t) PROVE ProviderChecked'
  <2>1. t # Provider /\ t \in Objects
    BY DEF Dependents
  <2> QED BY <1>1, <1>5, <2>1 DEF DeleteTeam, Remember
<1>6. ASSUME NEW x \in Objects, Delete(x) PROVE ProviderChecked'
  BY <1>1, <1>6 DEF Delete
<1>7. CASE Restart
  BY <1>1, <1>7 DEF Restart
<1>8. ASSUME NEW x \in Dependents, at' = [at EXCEPT ![x] = at'[x]], UNCHANGED known
      PROVE ProviderChecked'
  BY <1>1, <1>8
<1>9. CASE UNCHANGED <<at, known>>
  BY <1>1, <1>9
<1>10. ASSUME NEW x \in Objects,
              \/ x \in Teams /\ (ReconcileTeam(x) \/ CreateTeam(x) \/ DeleteRemoteTeam(x))
              \/ x \in Memberships /\
                   (\/ ReconcileMembership(x) \/ JoinTeam(x) \/ RecordMembership(x)
                    \/ DeleteMembership(x) \/ RemoveTeamMembership(x))
              \/ x \in Repositories \cup Actions /\ DeleteRepository(x)
              \/ x \in Rulesets /\ DeleteRuleset(x)
       PROVE ProviderChecked'
  <2>1. x \in Dependents
    BY <1>10 DEF Dependents
  <2>2. known' = known /\ \E label : at' = [at EXCEPT ![x] = label]
    BY <1>10 DEF ReconcileTeam, CreateTeam, DeleteRemoteTeam, ReconcileMembership, JoinTeam,
                 RecordMembership, DeleteMembership, RemoveTeamMembership,
                 DeleteRepository, DeleteRuleset
  <2> QED BY <1>8, <2>1, <2>2
<1> QED BY <1>2, <1>3, <1>4, <1>5, <1>6, <1>7, <1>9, <1>10
       DEF Next, Reconcile, AddFinalizer, Create, Sync, OutsiderDeletesTeam,
           SuspendOrResume, vars

LEMMA TeamsStep == Inv /\ [Next]_vars => TeamsChecked'
<1> SUFFICES ASSUME Inv, [Next]_vars, NEW t \in Teams,
                    at'[t] \in Deleting, object'[t] = "deleting", policy'[t] = "Remove"
             PROVE  \A m \in known'[t] \cap Memberships : TeamOf[m] # t
    BY DEF TeamsChecked
<1> USE DEF Inv, TypeOK, Objects, Dependents, Deleting, After, Goto
<1>1. ASSUME at[t] \in Deleting, object[t] = "deleting", policy[t] = "Remove",
             known'[t] \subseteq known[t]
      PROVE  \A m \in known'[t] \cap Memberships : TeamOf[m] # t
  BY <1>1 DEF TeamsChecked
<1>2. ASSUME NEW x \in Objects, AddFinalizer(x)
      PROVE \A m \in known'[t] \cap Memberships : TeamOf[m] # t
  BY <1>1, <1>2 DEF AddFinalizer
<1>3. ASSUME NEW x \in Objects, RemoveFinalizer(x)
      PROVE \A m \in known'[t] \cap Memberships : TeamOf[m] # t
  BY <1>1, <1>3 DEF RemoveFinalizer
<1>4. CASE DeleteProvider
  <2>1. t # Provider
    OBVIOUS
  <2> QED BY <1>1, <1>4, <2>1 DEF DeleteProvider, Remember, cluster
<1>5. CASE ListUsers
  <2>1. PICK label : at' = [at EXCEPT ![Provider] = label]
    BY <1>5 DEF ListUsers
  <2>2. at'[t] = at[t]
    BY <2>1
  <2> QED BY <1>1, <1>5, <2>2 DEF ListUsers, cluster
<1>6. ASSUME NEW u \in Teams, DeleteTeam(u)
      PROVE \A m \in known'[t] \cap Memberships : TeamOf[m] # t
  <2>1. CASE u = t
    <3>1. FindDependency(t) = {}
      BY <1>6, <2>1 DEF DeleteTeam, cluster
    <3>2. \A m \in known'[t] : Visible(m)
      BY <1>6, <2>1 DEF DeleteTeam, Remember
    <3> QED BY <3>1, <3>2 DEF FindDependency
  <2>2. CASE u # t
    BY <1>1, <1>6, <2>2 DEF DeleteTeam, Remember, cluster
  <2> QED BY <2>1, <2>2
<1>7. ASSUME NEW x \in Objects, Create(x)
      PROVE \A m \in known'[t] \cap Memberships : TeamOf[m] # t
  <2>1. x # t
    BY <1>7 DEF Create
  <2>2. policy'[t] = policy[t]
    BY <1>7, <2>1 DEF Create
  <2> QED BY <1>1, <1>7, <2>1, <2>2 DEF Create
<1>8. ASSUME NEW x \in Objects, Delete(x)
      PROVE \A m \in known'[t] \cap Memberships : TeamOf[m] # t
  <2>1. at[t] \in Deleting /\ object[t] # "live"
    BY <1>8 DEF Delete
  <2>2. object[t] = "deleting"
    BY <1>8, <2>1 DEF Delete
  <2>3. known'[t] \subseteq known[t]
    BY <1>8 DEF Delete
  <2> QED BY <1>1, <1>8, <2>1, <2>2, <2>3 DEF Delete
<1>9. CASE Restart
  BY <1>9 DEF Restart
<1>10. ASSUME NEW x \in Objects,
              \/ x \in Teams /\ (ReconcileTeam(x) \/ CreateTeam(x) \/ DeleteRemoteTeam(x))
              \/ x \in Memberships /\
                   (\/ ReconcileMembership(x) \/ JoinTeam(x) \/ RecordMembership(x)
                    \/ DeleteMembership(x) \/ RemoveTeamMembership(x))
              \/ x \in Repositories \cup Actions /\ DeleteRepository(x)
              \/ x \in Rulesets /\ DeleteRuleset(x)
       PROVE \A m \in known'[t] \cap Memberships : TeamOf[m] # t
  <2>1. UNCHANGED <<object, policy, known>>
    BY <1>10 DEF ReconcileTeam, CreateTeam, DeleteRemoteTeam, ReconcileMembership, JoinTeam,
                 RecordMembership, DeleteMembership, RemoveTeamMembership,
                 DeleteRepository, DeleteRuleset, cluster
  <2>2. CASE x = t
    <3>1. ReconcileTeam(t) \/ CreateTeam(t) \/ DeleteRemoteTeam(t)
      BY <1>10, <2>2
    <3>2. DeleteRemoteTeam(t) /\ at[t] \in Deleting
      BY <3>1 DEF ReconcileTeam, CreateTeam, DeleteRemoteTeam
    <3> QED BY <1>1, <2>1, <3>2
  <2>3. CASE x # t
    <3>1. at'[t] = at[t]
      BY <1>10, <2>3 DEF ReconcileTeam, CreateTeam, DeleteRemoteTeam, ReconcileMembership,
                         JoinTeam, RecordMembership, DeleteMembership,
                         RemoveTeamMembership, DeleteRepository, DeleteRuleset
    <3> QED BY <1>1, <2>1, <3>1
  <2> QED BY <2>2, <2>3
<1>11. CASE UNCHANGED <<object, policy, at, known>>
  BY <1>1, <1>11
<1> QED BY <1>2, <1>3, <1>4, <1>5, <1>6, <1>7, <1>8, <1>9, <1>10, <1>11
       DEF Next, Reconcile, Sync, OutsiderDeletesTeam, SuspendOrResume, vars, cluster

\* A step leaves a resource whose finalizer goes next where it is and as it is, and
\* nothing is made on GitHub in its name.
LEMMA CleanedStep == Inv /\ [Next]_vars => CleanedUp'
<1> SUFFICES ASSUME Inv, [Next]_vars, NEW x \in Dependents,
                    at'[x] = "removeFinalizer", object'[x] = "deleting", policy'[x] = "Remove"
             PROVE  x \notin remoteTeams' \cup remoteMembers'
    BY DEF CleanedUp
<1> USE DEF Inv, TypeOK, Objects, Dependents, Goto
<1>1. ASSUME at[x] = "removeFinalizer", object[x] = "deleting", policy[x] = "Remove",
             x \notin (remoteTeams' \cup remoteMembers') \ (remoteTeams \cup remoteMembers)
      PROVE  x \notin remoteTeams' \cup remoteMembers'
  BY <1>1 DEF CleanedUp
<1>2. ASSUME NEW y \in Objects,
             AddFinalizer(y) \/ RemoveFinalizer(y) \/ Delete(y)
      PROVE  x \notin remoteTeams' \cup remoteMembers'
  <2>1. UNCHANGED <<policy, remoteTeams, remoteMembers>> /\ at[x] = "removeFinalizer"
    BY <1>2 DEF AddFinalizer, RemoveFinalizer, Delete, remote
  <2>2. object[x] = "deleting"
    BY <1>2, <2>1 DEF AddFinalizer, RemoveFinalizer, Delete, Deleting
  <2> QED BY <1>1, <2>1, <2>2
<1>3. ASSUME NEW y \in Objects, Create(y) PROVE x \notin remoteTeams' \cup remoteMembers'
  <2>1. x # y /\ object[x] = "deleting" /\ policy[x] = "Remove"
    BY <1>3 DEF Create
  <2> QED BY <1>1, <1>3, <2>1 DEF Create, remote
<1>4. ASSUME UNCHANGED <<object, policy, remoteTeams, remoteMembers>>, at'[x] = at[x]
      PROVE  x \notin remoteTeams' \cup remoteMembers'
  BY <1>1, <1>4
<1>5. CASE DeleteProvider \/ ListUsers
  <2>1. x # Provider /\ \E label : at' = [at EXCEPT ![Provider] = label]
    BY <1>5 DEF DeleteProvider, ListUsers
  <2> QED BY <1>4, <1>5, <2>1 DEF DeleteProvider, ListUsers, cluster, remote
<1>6. ASSUME NEW t \in Teams, ReconcileTeam(t) \/ CreateTeam(t)
      PROVE  x \notin remoteTeams' \cup remoteMembers'
  <2>1. x # t /\ at'[x] = at[x] /\ UNCHANGED <<object, policy, remoteMembers>>
    BY <1>6 DEF ReconcileTeam, CreateTeam, cluster, remote
  <2>2. remoteTeams' \subseteq remoteTeams \cup {t}
    BY <1>6 DEF ReconcileTeam, CreateTeam, remote
  <2> QED BY <1>1, <2>1, <2>2
<1>7. ASSUME NEW t \in Teams, DeleteTeam(t)
      PROVE  x \notin remoteTeams' \cup remoteMembers'
  <2>1. x # t
    BY <1>7 DEF DeleteTeam, cluster
  <2> QED BY <1>4, <1>7, <2>1 DEF DeleteTeam, cluster, remote
<1>8. ASSUME NEW t \in Teams, DeleteRemoteTeam(t)
      PROVE  x \notin remoteTeams' \cup remoteMembers'
  <2>1. CASE x = t
    <3>1. GoneFromGitHub(t)
      BY <1>8, <2>1 DEF DeleteRemoteTeam
    <3> QED BY <2>1, <3>1 DEF GoneFromGitHub
  <2>2. CASE x # t
    <3>1. at'[x] = at[x] /\ remoteTeams' \subseteq remoteTeams
          /\ remoteMembers' \subseteq remoteMembers
      BY <1>8, <2>2 DEF DeleteRemoteTeam, GoneFromGitHub, remote
    <3> QED BY <1>1, <1>8, <3>1 DEF DeleteRemoteTeam, cluster
  <2> QED BY <2>1, <2>2
<1>9. ASSUME NEW m \in Memberships,
             ReconcileMembership(m) \/ JoinTeam(m) \/ RecordMembership(m)
      PROVE  x \notin remoteTeams' \cup remoteMembers'
  <2>1. x # m /\ at'[x] = at[x] /\ UNCHANGED <<object, policy, remoteTeams>>
    BY <1>9 DEF ReconcileMembership, JoinTeam, RecordMembership, cluster, remote
  <2>2. remoteMembers' \subseteq remoteMembers \cup {m}
    BY <1>9 DEF ReconcileMembership, JoinTeam, RecordMembership, remote
  <2> QED BY <1>1, <2>1, <2>2
<1>10. ASSUME NEW m \in Memberships, DeleteMembership(m)
       PROVE  x \notin remoteTeams' \cup remoteMembers'
  <2>1. x # m
    BY <1>10 DEF DeleteMembership, cluster
  <2> QED BY <1>4, <1>10, <2>1 DEF DeleteMembership, cluster, remote
<1>11. ASSUME NEW m \in Memberships, RemoveTeamMembership(m)
       PROVE  x \notin remoteTeams' \cup remoteMembers'
  <2>1. CASE x = m
    <3>1. remoteMembers' = remoteMembers \ {m} /\ UNCHANGED remoteTeams
      BY <1>11, <2>1 DEF RemoveTeamMembership
    <3> QED BY <2>1, <3>1
  <2>2. CASE x # m
    <3>1. at'[x] = at[x] /\ remoteMembers' \subseteq remoteMembers /\ UNCHANGED remoteTeams
      BY <1>11, <2>2 DEF RemoveTeamMembership
    <3> QED BY <1>1, <1>11, <3>1 DEF RemoveTeamMembership, cluster
  <2> QED BY <2>1, <2>2
<1>12. ASSUME NEW y \in Repositories \cup Rulesets \cup Actions,
              DeleteRepository(y) \/ DeleteRuleset(y)
       PROVE  x \notin remoteTeams' \cup remoteMembers'
  <2>1. UNCHANGED <<object, policy, remoteTeams, remoteMembers>>
    BY <1>12 DEF DeleteRepository, DeleteRuleset, cluster, remote
  <2>2. CASE x = y
    BY <2>1, <2>2
  <2>3. CASE x # y
    BY <1>4, <1>12, <2>1, <2>3 DEF DeleteRepository, DeleteRuleset
  <2> QED BY <2>2, <2>3
<1>13. ASSUME NEW t \in Teams, OutsiderDeletesTeam(t)
       PROVE  x \notin remoteTeams' \cup remoteMembers'
  BY <1>1, <1>13 DEF OutsiderDeletesTeam, GoneFromGitHub, cluster
<1>14. CASE Restart
  BY <1>14 DEF Restart
<1>15. CASE UNCHANGED <<object, policy, at, remoteTeams, remoteMembers>>
  BY <1>4, <1>15
<1> QED BY <1>2, <1>3, <1>5, <1>6, <1>7, <1>8, <1>9, <1>10, <1>11, <1>12, <1>13, <1>14, <1>15
       DEF Next, Reconcile, Sync, SuspendOrResume, vars, cluster, remote

-----------------------------------------------------------------------------

\* Only its own controller lets a resource go that is being deleted.
LEMMA GoesNext ==
    ASSUME Inv, [Next]_vars, NEW x \in Objects, Goes(x)
    PROVE  at[x] = "removeFinalizer"
<1>1. PICK y \in Objects : AddFinalizer(y) \/ RemoveFinalizer(y) \/ Create(y) \/ Delete(y)
  BY DEF Goes, Next, Reconcile, DeleteProvider, ListUsers, ReconcileTeam, CreateTeam,
         DeleteTeam, DeleteRemoteTeam, ReconcileMembership, JoinTeam, RecordMembership,
         DeleteMembership, RemoveTeamMembership, DeleteRepository, DeleteRuleset, Sync,
         Restart, OutsiderDeletesTeam, SuspendOrResume, vars, cluster
<1>2. RemoveFinalizer(y) /\ y = x
  BY <1>1 DEF Goes, AddFinalizer, RemoveFinalizer, Create, Delete, Inv, TypeOK
<1> QED BY <1>2 DEF RemoveFinalizer

\* The invariant holds of every behaviour.
THEOREM DeletionInvariant == Spec => []Inv
<1>1. Inv /\ [Next]_vars => Inv'
  BY TypeStep, CopiesStep, KnownStep, ProviderStep, TeamsStep, CleanedStep DEF Inv
<1> QED BY InvInit, <1>1, PTL DEF Spec

\* Types; no controller takes a live resource for one that is being deleted.
THEOREM DeletionTypeCorrect == Spec => []TypeOK
<1>1. Inv => TypeOK
  BY DEF Inv
<1> QED BY <1>1, DeletionInvariant, PTL

\* A provider, and a team with the policy Delete, is kept while something refers to
\* it that its check could have known of, although the kinds are listed one after
\* the other (reconcileDelete of the provider, findDependency of the team).
THEOREM KnownUsersProtect == Spec => UsersProtect
<1>1. Inv /\ [Next]_vars =>
        [/\ Goes(Provider) =>
              /\ known[Provider] \cap (Own \cup Teams) = {}
              /\ \A x \in known[Provider] \cap Rulesets : RepositoryOf[x] \notin Own
         /\ \A t \in Teams : Goes(t) /\ policy[t] = "Remove" =>
              \A m \in known[t] \cap Memberships : TeamOf[m] # t]_vars
  <2> SUFFICES ASSUME Inv, [Next]_vars
               PROVE  /\ Goes(Provider) =>
                           /\ known[Provider] \cap (Own \cup Teams) = {}
                           /\ \A x \in known[Provider] \cap Rulesets :
                                 RepositoryOf[x] \notin Own
                      /\ \A t \in Teams : Goes(t) /\ policy[t] = "Remove" =>
                           \A m \in known[t] \cap Memberships : TeamOf[m] # t
      OBVIOUS
  <2>1. \A x \in Objects : Goes(x) => at[x] = "removeFinalizer"
    BY GoesNext
  <2>2. Goes(Provider) => at[Provider] = "removeFinalizer"
    BY <2>1 DEF Objects
  <2>3. \A t \in Teams : Goes(t) => at[t] = "removeFinalizer" /\ object[t] = "deleting"
    BY <2>1 DEF Objects, Dependents, Goes
  <2> QED BY <2>2, <2>3 DEF Inv, ProviderChecked, TeamsChecked, Deleting
<1> QED BY <1>1, DeletionInvariant, PTL DEF Spec, UsersProtect

\* A team, a membership under the policy Delete or Revoke loses its finalizer only when
\* it is not on GitHub, with the team read from its resource or from the status
\* (reconcileDelete of both).
THEOREM CleanupFirst == Spec => CleanupPrecedesRelease
<1>1. Inv /\ [Next]_vars =>
        [\A x \in Dependents : Goes(x) /\ policy[x] = "Remove" =>
            x \notin remoteTeams \cup remoteMembers]_vars
  <2> SUFFICES ASSUME Inv, [Next]_vars, NEW x \in Dependents, Goes(x), policy[x] = "Remove"
               PROVE  x \notin remoteTeams \cup remoteMembers
      OBVIOUS
  <2>1. at[x] = "removeFinalizer" /\ object[x] = "deleting"
    BY GoesNext DEF Goes, Objects
  <2> QED BY <2>1 DEF Inv, CleanedUp
<1> QED BY <1>1, DeletionInvariant, PTL DEF Spec, CleanupPrecedesRelease

-----------------------------------------------------------------------------
(* The rate-limit gate: for any set of workers and any delays it honours   *)
(* every limit that GitHub named, and lets each worker overrun it at most  *)
(* once.                                                                   *)

\* The gate is closed until the latest time that any handled answer named; a
\* worker that has overrun it is back behind it.
GateInv ==
    /\ GateTypeOK
    /\ blockedUntil = Later(0, told)
    /\ \A w \in Workers : pc[w] = "observe" => until[w] <= blockedUntil
    /\ Closed => \A w \in overran : pc[w] # "send"

LEMMA GateStarts == GateInit => GateInv
  BY MaxLimitsAssumption DEF GateInit, GateInv, GateTypeOK, PCs, Later, Closed

\* Each step of the transport keeps the invariant.
LEMMA GateStep == GateInv /\ [GateNext]_gateVars => GateInv'
<1> SUFFICES ASSUME GateInv, [GateNext]_gateVars PROVE GateInv'
    OBVIOUS
<1> USE DelaysAssumption, MaxLimitsAssumption
<1>1. CASE Tick
  <2>1. GateTypeOK'
    BY <1>1 DEF Tick, GateInv, GateTypeOK, PCs
  <2>2. (blockedUntil = Later(0, told))'
    BY <1>1 DEF Tick, GateInv, Later
  <2>3. (\A w \in Workers : pc[w] = "observe" => until[w] <= blockedUntil)'
    BY <1>1 DEF Tick, GateInv
  <2>4. Closed' => Closed
    BY <1>1 DEF Tick, GateInv, GateTypeOK, Closed
  <2>5. (Closed => \A w \in overran : pc[w] # "send")'
    BY <1>1, <2>4 DEF Tick, GateInv, GateTypeOK
  <2> QED BY <2>1, <2>2, <2>3, <2>5 DEF GateInv
<1>2. ASSUME NEW w \in Workers, CurrentError(w) PROVE GateInv'
  <2>1. RetryAfter(blockedUntil) \in Int
    BY DEF RetryAfter, Later, GateInv, GateTypeOK
  <2>2. wakeAt' \in [Workers -> Int]
    <3>1. wakeAt \in [Workers -> Int]
      BY DEF GateInv, GateTypeOK
    <3>2. \/ wakeAt' = wakeAt
          \/ wakeAt' = [wakeAt EXCEPT ![w] = RetryAfter(blockedUntil)]
      BY <1>2 DEF CurrentError
    <3> QED BY <2>1, <3>1, <3>2
  <2>3. pc' \in [Workers -> PCs]
    BY <1>2 DEF CurrentError, At, GateInv, GateTypeOK, PCs
  <2>4. GateTypeOK'
    BY <1>2, <2>2, <2>3 DEF CurrentError, GateInv, GateTypeOK
  <2>5. (blockedUntil = Later(0, told))'
    BY <1>2 DEF CurrentError, GateInv, Later
  <2>6. (\A v \in Workers : pc[v] = "observe" => until[v] <= blockedUntil)'
    BY <1>2, <2>3 DEF CurrentError, At, GateInv, GateTypeOK
  <2>7. (Closed => \A v \in overran : pc[v] # "send")'
    BY <1>2 DEF CurrentError, GateInv, Closed
  <2> QED BY <2>4, <2>5, <2>6, <2>7 DEF GateInv
<1>3. ASSUME NEW w \in Workers, Event(w) PROVE GateInv'
  BY <1>3 DEF Event, GateInv, GateTypeOK, PCs, Later, Closed
<1>4. ASSUME NEW w \in Workers, Send(w) PROVE GateInv'
  BY <1>4 DEF Send, At, GateInv, GateTypeOK, PCs, Later, Closed
<1>5. ASSUME NEW w \in Workers, Answer(w) PROVE GateInv'
  BY <1>5 DEF Answer, At, GateInv, GateTypeOK, PCs, Later, Closed
<1>6. ASSUME NEW w \in Workers, Limit(w) PROVE GateInv'
  BY <1>6 DEF Limit, At, GateInv, GateTypeOK, PCs, Later, Closed
<1>7. ASSUME NEW w \in Workers, Block(w) PROVE GateInv'
  BY <1>7 DEF Block, At, NewLimit, GateInv, GateTypeOK, PCs, Later, Closed
<1>8. ASSUME NEW w \in Workers, Observe(w) PROVE GateInv'
  BY <1>8 DEF Observe, At, RetryAfter, GateInv, GateTypeOK, PCs, Later, Closed
<1>9. CASE UNCHANGED gateVars
  BY <1>9 DEF gateVars, GateInv, GateTypeOK, PCs, Later, Closed
<1> QED BY <1>1, <1>2, <1>3, <1>4, <1>5, <1>6, <1>7, <1>8, <1>9
       DEF GateNext, RoundTrip

\* The invariant holds of every behaviour of the transport.
THEOREM GateInvariance == GateSpec => []GateInv
BY GateStarts, GateStep, PTL DEF GateSpec

\* Types, and the gauge is never ahead of the gate (RateLimitTransport).
THEOREM GateTypeCorrect == GateSpec => []GateTypeOK
<1>1. GateInv => GateTypeOK
  BY DEF GateInv
<1> QED BY <1>1, GateInvariance, PTL

\* A request passes only after every limit that was handled has run out
\* (currentError and block).
THEOREM LimitsHonoured == GateSpec => PassesAfterLimits
<1>1. GateInv /\ [GateNext]_gateVars =>
        [\A w \in Workers : pc[w] = "idle" /\ pc'[w] = "send" => told <= now]_gateVars
  <2> SUFFICES ASSUME GateInv, [GateNext]_gateVars,
                      NEW w \in Workers, pc[w] = "idle", pc'[w] = "send",
                      gateVars' # gateVars
               PROVE told <= now
      OBVIOUS
  <2>1. CurrentError(w) => told <= now
    BY DEF CurrentError, Closed, GateInv, GateTypeOK, Later
  <2>2. PICK v \in Workers : RoundTrip(v)
    BY DEF GateNext, Tick, Event, GateInv, GateTypeOK
  <2>3. v = w
    BY <2>2 DEF RoundTrip, CurrentError, Send, Answer, Limit, Block, Observe, At,
                GateInv, GateTypeOK
  <2>4. CurrentError(w)
    BY <2>2, <2>3 DEF RoundTrip, Send, Answer, Limit, Block, Observe, At, GateInv, GateTypeOK
  <2> QED BY <2>1, <2>4
<1> QED BY <1>1, GateInvariance, PTL DEF GateSpec, PassesAfterLimits

\* While the gate stays closed each worker calls GitHub at most once, with the
\* request that had passed before (RoundTrip asks and sends without the lock).
THEOREM OverrunBounded == GateSpec => OneOverrunEach
<1>1. GateInv => [\A w \in Workers : pc[w] = "send" /\ pc'[w] = "sent" /\ Closed =>
                 w \notin overran]_gateVars
  BY DEF GateInv
<1> QED BY <1>1, GateInvariance, PTL DEF GateSpec, OneOverrunEach

-----------------------------------------------------------------------------
(* The cache of installation tokens: for any controllers, credentials,     *)
(* lifetimes and margin, tokens are never mixed up and never asked for in  *)
(* vain.                                                                   *)

\* Every entry, and every token in somebody's hands, belongs to its credentials.
Owned ==
    /\ \A c \in Credentials : cache[c].for = c
    /\ \A w \in Controllers : stage[w] \in {"answered", "using"} => token[w].for = wanted[w]

\* The cache has the token that lives longest, or that one is due; it is due
\* for certain while a request is under way.
LongestKept ==
    /\ \A c \in Credentials :
          longest[c] <= cache[c].expires \/ longest[c] <= clock + Margin
    /\ \A w \in Controllers :
          stage[w] \in {"requesting", "answered"} => longest[wanted[w]] <= clock + Margin

TokenInv == TokenTypeOK /\ Owned /\ LongestKept

LEMMA TokenStarts == TokenInit => TokenInv
  BY NobodyAssumption, TimesAssumption
  DEF TokenInit, TokenInv, TokenTypeOK, Owned, LongestKept, NoToken, Tokens, Stages

LEMMA TokenTypeStep == TokenInv /\ [TokenNext]_tokenVars => TokenTypeOK'
<1> SUFFICES ASSUME TokenInv, [TokenNext]_tokenVars PROVE TokenTypeOK'
    OBVIOUS
<1> USE NobodyAssumption, TimesAssumption
<1>1. CASE ClockTick \/ Rotate
  BY <1>1 DEF ClockTick, Rotate, TokenInv, TokenTypeOK
<1>2. ASSUME NEW w \in Controllers, ReadCredentials(w) PROVE TokenTypeOK'
  BY <1>2 DEF ReadCredentials, Moves, TokenInv, TokenTypeOK, Stages
<1>3. ASSUME NEW w \in Controllers, Lock(w) PROVE TokenTypeOK'
  <2>1. Cached(w) \in Tokens
    BY DEF Cached, InstallationTokenCacheKey, TokenInv, TokenTypeOK
  <2>2. CASE Usable(w)
    BY <1>3, <2>1, <2>2 DEF Lock, Moves, TokenInv, TokenTypeOK, Stages
  <2>3. CASE ~Usable(w)
    BY <1>3, <2>3 DEF Lock, Moves, TokenInv, TokenTypeOK, Stages
  <2> QED BY <2>2, <2>3
<1>4. ASSUME NEW w \in Controllers, Issue(w) PROVE TokenTypeOK'
  <2>1. PICK life \in Lifetimes :
           token' = [token EXCEPT ![w] = [for |-> wanted[w], expires |-> clock + life]]
    BY <1>4 DEF Issue
  <2>2. [for |-> wanted[w], expires |-> clock + life] \in Tokens
    BY DEF Tokens, TokenInv, TokenTypeOK
  <2>3. token' \in [Controllers -> Tokens]
    BY <2>1, <2>2 DEF TokenInv, TokenTypeOK
  <2> QED BY <1>4, <2>3 DEF Issue, Moves, TokenInv, TokenTypeOK, Stages
<1>5. ASSUME NEW w \in Controllers, Keep(w) PROVE TokenTypeOK'
  <2>1. token[w] \in Tokens /\ token[w].expires \in Int
    BY DEF Tokens, TokenInv, TokenTypeOK
  <2>2. cache' \in [Credentials -> Tokens]
    BY <1>5, <2>1 DEF Keep, InstallationTokenCacheKey, TokenInv, TokenTypeOK
  <2>3. longest' \in [Credentials -> Int]
    BY <1>5, <2>1 DEF Keep, TokenInv, TokenTypeOK
  <2> QED BY <1>5, <2>2, <2>3 DEF Keep, Moves, TokenInv, TokenTypeOK, Stages
<1>6. ASSUME NEW w \in Controllers, Fail(w) PROVE TokenTypeOK'
  <2>1. NoToken(wanted[w]) \in Tokens
    BY DEF NoToken, Tokens, TokenInv, TokenTypeOK
  <2> QED BY <1>6, <2>1 DEF Fail, Forget, Moves, TokenInv, TokenTypeOK, Stages
<1>7. ASSUME NEW w \in Controllers, Finish(w) PROVE TokenTypeOK'
  <2>1. NoToken(wanted[w]) \in Tokens
    BY DEF NoToken, Tokens, TokenInv, TokenTypeOK
  <2> QED BY <1>7, <2>1 DEF Finish, Forget, Moves, TokenInv, TokenTypeOK, Stages
<1>8. CASE UNCHANGED tokenVars
  BY <1>8 DEF tokenVars, TokenInv, TokenTypeOK
<1> QED BY <1>1, <1>2, <1>3, <1>4, <1>5, <1>6, <1>7, <1>8 DEF TokenNext, Request

LEMMA OwnedStep == TokenInv /\ [TokenNext]_tokenVars => Owned'
<1> SUFFICES ASSUME TokenInv, [TokenNext]_tokenVars PROVE Owned'
    OBVIOUS
<1> USE DEF TokenInv, TokenTypeOK, Owned, Moves, Stages
<1>1. CASE ClockTick \/ Rotate
  BY <1>1 DEF ClockTick, Rotate
<1>2. ASSUME NEW w \in Controllers, ReadCredentials(w) PROVE Owned'
  BY <1>2 DEF ReadCredentials
<1>3. ASSUME NEW w \in Controllers, Lock(w) PROVE Owned'
  BY <1>3 DEF Lock, Cached, InstallationTokenCacheKey
<1>4. ASSUME NEW w \in Controllers, Issue(w) PROVE Owned'
  BY <1>4 DEF Issue
<1>5. ASSUME NEW w \in Controllers, Keep(w) PROVE Owned'
  BY <1>5 DEF Keep, InstallationTokenCacheKey
<1>6. ASSUME NEW w \in Controllers, Fail(w) \/ Finish(w) PROVE Owned'
  BY <1>6 DEF Fail, Finish, Forget
<1>7. CASE UNCHANGED tokenVars
  BY <1>7 DEF tokenVars
<1> QED BY <1>1, <1>2, <1>3, <1>4, <1>5, <1>6, <1>7 DEF TokenNext, Request

LEMMA LongestStep == TokenInv /\ [TokenNext]_tokenVars => LongestKept'
<1> SUFFICES ASSUME TokenInv, [TokenNext]_tokenVars PROVE LongestKept'
    OBVIOUS
<1> USE TimesAssumption DEF TokenInv, TokenTypeOK, LongestKept, Moves, Stages
<1>1. CASE ClockTick \/ Rotate
  BY <1>1 DEF ClockTick, Rotate, Tokens
<1>2. ASSUME NEW w \in Controllers, ReadCredentials(w) PROVE LongestKept'
  BY <1>2 DEF ReadCredentials
<1>3. ASSUME NEW w \in Controllers, Lock(w) PROVE LongestKept'
  <2>1. CASE Usable(w)
    BY <1>3, <2>1 DEF Lock
  <2>2. CASE ~Usable(w)
    <3>1. cache[wanted[w]].expires <= clock + Margin
      BY <2>2 DEF Usable, Cached, InstallationTokenCacheKey, Tokens
    <3>2. longest[wanted[w]] <= clock + Margin
      BY <3>1 DEF Tokens
    <3> QED BY <1>3, <2>2, <3>2 DEF Lock
  <2> QED BY <2>1, <2>2
<1>4. ASSUME NEW w \in Controllers, Issue(w) PROVE LongestKept'
  BY <1>4 DEF Issue
<1>5. ASSUME NEW w \in Controllers, Keep(w) PROVE LongestKept'
  <2>1. longest[wanted[w]] <= clock + Margin /\ token[w].expires \in Int
    BY <1>5 DEF Keep, Tokens
  <2>2. (\A c \in Credentials :
           longest[c] <= cache[c].expires \/ longest[c] <= clock + Margin)'
    BY <1>5, <2>1 DEF Keep, InstallationTokenCacheKey, Tokens
  <2>3. \A v \in Controllers : stage'[v] \notin {"requesting", "answered"}
    BY <1>5, NobodyAssumption DEF Keep
  <2> QED BY <2>2, <2>3
<1>6. ASSUME NEW w \in Controllers, Fail(w) \/ Finish(w) PROVE LongestKept'
  BY <1>6 DEF Fail, Finish, Forget
<1>7. CASE UNCHANGED tokenVars
  BY <1>7 DEF tokenVars
<1> QED BY <1>1, <1>2, <1>3, <1>4, <1>5, <1>6, <1>7 DEF TokenNext, Request

\* The invariant holds of every behaviour of the cache.
THEOREM TokenInvariance == TokenSpec => []TokenInv
<1>1. TokenInv /\ [TokenNext]_tokenVars => TokenInv'
  BY TokenTypeStep, OwnedStep, LongestStep DEF TokenInv
<1> QED BY TokenStarts, <1>1, PTL DEF TokenSpec

\* Types, and the mutex is with the worker whose request is under way
\* (ResolveToken).
THEOREM TokenTypeCorrect == TokenSpec => []TokenTypeOK
<1>1. TokenInv => TokenTypeOK
  BY DEF TokenInv
<1> QED BY <1>1, TokenInvariance, PTL

\* No reconcile uses a token of other credentials than it has read
\* (installationTokenCacheKey).
THEOREM TokensOwned == TokenSpec => []TokenOfCredentials
<1>1. TokenInv => TokenOfCredentials
  BY DEF TokenInv, Owned, TokenOfCredentials
<1> QED BY <1>1, TokenInvariance, PTL

\* GitHub issues a token only when all that it issued and the operator received
\* for the same credentials are due (ResolveToken holds the mutex while minting).
THEOREM TokensShared == TokenSpec => NoTokenWasted
<1>1. TokenInv => [\A w \in Controllers : stage[w] = "requesting" /\ stage'[w] = "answered" =>
                 longest[wanted[w]] <= clock + Margin]_tokenVars
  BY DEF TokenInv, LongestKept
<1> QED BY <1>1, TokenInvariance, PTL DEF TokenSpec, NoTokenWasted
=============================================================================
