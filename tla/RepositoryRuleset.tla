-------------------------- MODULE RepositoryRuleset --------------------------
(***************************************************************************)
(* The GitHubRepositoryRuleset reconciler.  A ruleset on GitHub is known   *)
(* by an id that GitHub gives it and the status records; without that id   *)
(* it is looked for by its name, which the manifest may change and which   *)
(* other people's rulesets may have too.                                   *)
(*                                                                         *)
(* Of the managed fields the model keeps two: the name, which every        *)
(* comparison and every write includes as it does the target, the          *)
(* enforcement and the rules, and the bypass actors, which a manifest may  *)
(* leave to others as it may the conditions.                               *)
(***************************************************************************)
EXTENDS ManagedResource, FiniteSets

\* The manifests: a name, and the bypass actors that are left "unmanaged", listed
\* as "empty", or "listed".
Names == {spec.name : spec \in Specs}
Bypass == {"none", "listed"}

\* What a manifest may be; one with an empty list has a neighbour without any.
ASSUME SpecsAssumption ==
    /\ Specs \subseteq [name : Names, bypass : {"unmanaged", "empty", "listed"}]
    /\ \A spec \in Specs :
          spec.bypass = "empty" => [spec EXCEPT !.bypass = "unmanaged"] \in Specs

Rulesets == [id : Nat, name : Names, bypass : Bypass, ours : BOOLEAN]

Statuses == [cond : {"Unknown", "Ready", "Failed"}, obsGen : Nat, id : Nat]

VARIABLES
    repository,  \* GitHub: the repository is there
    rulesets,    \* GitHub: its own rulesets; `ours': this resource created it
    lastID,      \* GitHub: the id given last
    manifest,    \* history: the spec as a user last wrote it
    agreed,      \* history: ids of rulesets that were as cr.spec says since it does
    claimed,     \* history: ids of rulesets that were ours, or at some moment the
                 \* only ones of the name in cr.spec or in the worker's copy
    strayed      \* history: a copy of the resource was in use that had neither the
                 \* id nor the name of a ruleset of ours or of the one recorded

github == <<repository, rulesets, lastID>>
history == <<manifest, agreed, claimed, strayed>>
vars == <<managedVars, github, history>>

Named(name) == {r \in rulesets : r.name = name}

\* What normalizeRulesetUpsert makes of a manifest: nothing is said of bypass
\* actors that are not managed.
Meets(r, spec) ==
    /\ r.name = spec.name
    /\ CASE spec.bypass = "unmanaged" -> TRUE
         [] spec.bypass = "empty"     -> r.bypass = "none"
         [] spec.bypass = "listed"    -> r.bypass = "listed"

\* What a write of the manifest leaves, where there were the actors `before'.
Written(spec, before) ==
    CASE spec.bypass = "unmanaged" -> before
      [] spec.bypass = "empty"     -> "none"
      [] spec.bypass = "listed"    -> "listed"

Init ==
    /\ ManagedInit([cond |-> "Unknown", obsGen |-> 0, id |-> 0])
    /\ repository = TRUE
    /\ \/ rulesets = {} /\ lastID = 0
       \/ /\ \E name \in Names, bypass \in Bypass :
                rulesets = {[id |-> 1, name |-> name, bypass |-> bypass, ours |-> FALSE]}
          /\ lastID = 1
    /\ manifest = cr.spec
    /\ agreed = {r.id : r \in {s \in rulesets : Meets(s, cr.spec)}}
    /\ claimed = {r.id : r \in Named(cr.spec.name)}
    /\ strayed = FALSE

\* The history follows every step.
Remember ==
    /\ agreed' = (IF cr'.spec = cr.spec THEN agreed ELSE {})
                 \cup {r.id : r \in {s \in rulesets' : cr'.phase # "absent" /\ Meets(s, cr'.spec)}}
    /\ claimed' = claimed
         \cup {r.id : r \in {s \in rulesets' :
                  \/ s.ours
                  \/ \E copy \in {cr, obj}' :
                        /\ copy.phase # "absent"
                        /\ {s} = {t \in rulesets' : t.name = copy.spec.name}}}
    /\ strayed' = (strayed \/
                   \E r \in rulesets', copy \in {cr, cache, obj}' :
                      /\ copy.phase # "absent"
                      /\ r.ours \/ (cr'.phase # "absent" /\ r.id = cr'.status.id)
                      /\ r.id # copy.status.id /\ r.name # copy.spec.name)

-----------------------------------------------------------------------------
(* The reconciler *)

\* fail: without a ruleset the id in the status stays.
Failed == [obj.status EXCEPT !.cond = "Failed", !.obsGen = obj.gen]

Synchronized(id) == [cond |-> "Ready", obsGen |-> obj.gen, id |-> id]

Fails == IF obj.phase = "deleting" THEN Return(TRUE) ELSE Conclude(Failed)

LocalStep == CallsGitHub /\ UNCHANGED github

Reconcile == Fetch("resolve") /\ UNCHANGED github

\* `omitempty' drops an empty list when the resource is written back.
Serialized(spec) ==
    IF spec.bypass = "empty" THEN [spec EXCEPT !.bypass = "unmanaged"] ELSE spec

AddRulesetFinalizer ==
    /\ pc = "addFinalizer"
    /\ LET spec == Serialized(obj.spec)
       IN  Update([obj EXCEPT !.finalizer = TRUE, !.spec = spec,
                              !.gen = IF spec = obj.spec THEN @ ELSE @ + 1], FALSE)
    /\ UNCHANGED github

\* findRepositoryRuleset begins with the id in the status, if there is one.
FirstLookup == IF obj.status.id > 0 THEN "getRecorded" ELSE "list"

\* resolve; a deletion does not ask GitHub for the repository.
ResolveRepository ==
    Resolve("getRepository", FirstLookup, obj.status.id, Failed) /\ UNCHANGED github

GetRemoteRepository ==
    /\ pc = "getRepository"
    /\ \/ repository /\ Calm
          /\ Goto(IF obj.spec.bypass = "listed" THEN "actors" ELSE FirstLookup, found)
       \/ ~repository /\ Calm /\ Conclude(Failed)
       \/ Disturb /\ Conclude(Failed)
    /\ LocalStep

\* Teams and users are named in the manifest, GitHub wants their ids.
ResolveBypassActors ==
    /\ pc = "actors"
    /\ \/ Calm /\ Goto(FirstLookup, found)
       \/ Disturb /\ Conclude(Failed)
    /\ LocalStep

\* Wrong: a ruleset that is there is taken as it is.
Go_NoUpdate(r) ==
    IF obj.phase = "deleting" THEN Goto("delete", r.id)
    ELSE Conclude(Synchronized(r.id))

\* repositoryRulesetNeedsUpdate, or the deletion of what was found.
Go(r) ==
    IF obj.phase = "deleting" THEN Goto("delete", r.id)
    ELSE IF Meets(r, obj.spec) THEN Conclude(Synchronized(r.id))
    ELSE Goto("update", r.id)

\* Nothing was found.
Missing == IF obj.phase = "deleting" THEN Goto("removeFinalizer", 0)
                                     ELSE Goto("create", 0)

\* GET by the id in the status; when it is not there, by the name.
GetRecordedRuleset ==
    /\ pc = "getRecorded"
    /\ \/ Calm /\ \E r \in rulesets : r.id = found /\ Go(r)
       \/ Calm /\ found \notin {r.id : r \in rulesets} /\ Goto("list", 0)
       \/ Disturb /\ Fails
    /\ LocalStep

\* Wrong: what has no id yet is not looked for by its name.
ListRulesets_NoAdoption ==
    /\ pc = "list"
    /\ \/ Calm /\ Missing
       \/ Disturb /\ Fails
    /\ LocalStep

\* Wrong: among several of the name, any will do.
ListRulesets_TakeAny ==
    /\ pc = "list"
    /\ \/ Calm /\ Named(obj.spec.name) = {} /\ Missing
       \/ Calm /\ \E r \in Named(obj.spec.name) : Goto("getListed", r.id)
       \/ Disturb /\ Fails
    /\ LocalStep

\* LIST: one ruleset of the name is adopted, several are an error.  When the
\* repository is gone LIST answers ErrNotFound too.
ListRulesets ==
    /\ pc = "list"
    /\ \/ Calm /\ Named(obj.spec.name) = {} /\ Missing
       \/ Calm /\ \E r \in rulesets :
                     Named(obj.spec.name) = {r} /\ Goto("getListed", r.id)
       \/ Calm /\ Cardinality(Named(obj.spec.name)) > 1 /\ Fails
       \/ Disturb /\ Fails
    /\ LocalStep

\* GET of the one that was listed; ErrNotFound when it has gone since.
GetListedRuleset ==
    /\ pc = "getListed"
    /\ \/ Calm /\ \E r \in rulesets : r.id = found /\ Go(r)
       \/ Calm /\ found \notin {r.id : r \in rulesets} /\ Missing
       \/ Disturb /\ Fails
    /\ LocalStep

\* POST
Create ==
    /\ rulesets' = rulesets \cup
         {[id |-> lastID + 1, name |-> obj.spec.name,
           bypass |-> Written(obj.spec, "none"), ours |-> TRUE]}
    /\ lastID' = lastID + 1
    /\ UNCHANGED repository

CreateRepositoryRuleset ==
    /\ pc = "create"
    /\ \/ repository /\ Calm /\ Create /\ Conclude(Synchronized(lastID'))
       \/ repository /\ Disturb /\ Create /\ Conclude(Failed)  \* the answer was lost
       \/ ~repository /\ Calm /\ Conclude(Failed) /\ UNCHANGED github
       \/ Disturb /\ Conclude(Failed) /\ UNCHANGED github
    /\ CallsGitHub

\* PUT of everything managed.
Overwrite(r) ==
    /\ rulesets' = (rulesets \ {r}) \cup
         {[r EXCEPT !.name = obj.spec.name, !.bypass = Written(obj.spec, @)]}
    /\ UNCHANGED <<repository, lastID>>

UpdateRepositoryRuleset ==
    /\ pc = "update"
    /\ \/ /\ \E r \in rulesets : r.id = found /\ Overwrite(r)
          /\ \/ Calm /\ Conclude(Synchronized(found))
             \/ Disturb /\ Conclude(Failed)                 \* the answer was lost
       \/ /\ found \notin {r.id : r \in rulesets}
          /\ Calm /\ Conclude(Failed) /\ UNCHANGED github
       \/ Disturb /\ Conclude(Failed) /\ UNCHANGED github
    /\ CallsGitHub

Delete(id) ==
    /\ rulesets' = {r \in rulesets : r.id # id}
    /\ UNCHANGED <<repository, lastID>>

\* Wrong: whatever DELETE answers, the finalizer goes next.
DeleteRepositoryRuleset_IgnoreError ==
    /\ pc = "delete"
    /\ \/ Calm /\ Delete(found)
       \/ Disturb /\ UNCHANGED github
    /\ Goto("removeFinalizer", 0)
    /\ CallsGitHub

\* Wrong: a DELETE that failed is not tried again.
DeleteRepositoryRuleset_NoRetry ==
    /\ pc = "delete"
    /\ \/ Calm /\ Delete(found) /\ Goto("removeFinalizer", 0)
       \/ Disturb /\ UNCHANGED github /\ Return(FALSE)
    /\ CallsGitHub

\* DELETE: ErrNotFound means that it is gone already.
DeleteRepositoryRuleset ==
    /\ pc = "delete"
    /\ \/ Calm /\ Delete(found) /\ Goto("removeFinalizer", 0)
       \/ Disturb /\ Delete(found) /\ Return(TRUE)             \* the answer was lost
       \/ Disturb /\ UNCHANGED github /\ Return(TRUE)
    /\ CallsGitHub

SetReadyCondition == WriteStatus /\ UNCHANGED github

RemoveRulesetFinalizer == RemoveFinalizer /\ UNCHANGED github

WorkerStep ==
    \/ AddRulesetFinalizer \/ ResolveRepository \/ GetRemoteRepository
    \/ ResolveBypassActors
    \/ GetRecordedRuleset \/ ListRulesets \/ GetListedRuleset
    \/ CreateRepositoryRuleset \/ UpdateRepositoryRuleset
    \/ SetReadyCondition
    \/ DeleteRepositoryRuleset \/ RemoveRulesetFinalizer

-----------------------------------------------------------------------------
(* Everybody else *)

Manager == (SyncCache \/ SyncDependency \/ Restart) /\ UNCHANGED github

Users ==
    /\ EditSpec \/ EditPolicy \/ DeleteObject \/ ChangeDependency
    /\ manifest' = cr'.spec
    /\ UNCHANGED github

\* Administrators rename, change, remove or add a ruleset, whatever its name, or
\* delete the repository, or create it again.
Administrate ==
    /\ Disturb
    /\ \/ /\ \E r \in rulesets :
                \/ rulesets' = rulesets \ {r}
                \/ \E name \in Names \ {r.name} :
                      rulesets' = (rulesets \ {r}) \cup {[r EXCEPT !.name = name]}
                \/ \E bypass \in Bypass \ {r.bypass} :
                      rulesets' = (rulesets \ {r}) \cup {[r EXCEPT !.bypass = bypass]}
          /\ UNCHANGED <<repository, lastID>>
       \/ /\ repository
          /\ \E name \in Names :
                rulesets' = rulesets \cup {[id |-> lastID + 1, name |-> name,
                                            bypass |-> "listed", ours |-> FALSE]}
          /\ lastID' = lastID + 1
          /\ UNCHANGED repository
       \/ /\ repository' = ~repository
          /\ rulesets' = {}
          /\ UNCHANGED lastID
    /\ UNCHANGED <<clusterVars, queued, dependencyVars, pc, localVars>>

Next ==
    /\ \/ (Reconcile \/ WorkerStep \/ Manager \/ Administrate) /\ UNCHANGED manifest
       \/ Users
    /\ Remember

\* The manager keeps going; users and GitHub do as they please.
Fairness ==
    /\ WF_vars(Reconcile /\ UNCHANGED manifest /\ Remember)
    /\ WF_vars(WorkerStep /\ UNCHANGED manifest /\ Remember)
    /\ WF_vars(SyncCache /\ UNCHANGED <<github, manifest>> /\ Remember)
    /\ WF_vars(SyncDependency /\ UNCHANGED <<github, manifest>> /\ Remember)

Spec == Init /\ [][Next]_vars
FairSpec == Spec /\ Fairness

-----------------------------------------------------------------------------
(* Properties *)

\* Types, ids that are unique and were given by GitHub.
TypeOK ==
    /\ ManagedTypeOK(Statuses, {"getRepository", "actors", "getRecorded", "list",
                                "getListed", "create", "update", "delete"})
    /\ repository \in BOOLEAN /\ rulesets \subseteq Rulesets /\ lastID \in Nat
    /\ repository \/ rulesets = {}
    /\ \A r, s \in rulesets : r.id \in 1..lastID /\ (r.id = s.id => r = s)
    /\ cr.phase # "absent" => cr.status.id \in 0..lastID

\* Ready=True for the current generation: the ruleset of that id has been as in
\* the manifest at some moment since it was written.
ReadyIsEarned ==
    cr.phase # "absent" /\ cr.status.cond = "Ready" /\ cr.status.obsGen = cr.gen =>
        cr.status.id \in agreed

\* Lost answers, conflicts, stale copies and restarts between POST and the status
\* never make a second ruleset beside the first, as long as neither the name in the
\* manifest nor the ruleset's was changed before the id was recorded and had reached
\* the informer.
OneRulesetOfOurs ==
    Cardinality({r \in rulesets : r.ours}) > 1 => strayed

\* With the policy Delete none of our rulesets stays behind when the resource
\* goes, under the same condition, and none appears when it has gone.
NothingLeftBehind ==
    [][/\ cr'.phase = "absent"
       /\ cr.policy = "Remove" \/ {r \in rulesets : r.ours} = {}
       /\ \E r \in rulesets' : r.ours
       => strayed]_vars

\* docs/resources.md: of several rulesets with the name none is selected.  The
\* operator changes or deletes no ruleset but its own and those that were, at some
\* moment, the only ones with the name in the manifest, or in the version of it that
\* a reconcile works on.
NeverAmbiguous ==
    [][WorkerStep =>
         {r.id : r \in rulesets \ rulesets'} \subseteq claimed]_vars

\* Without duplicates, and with dependencies that can be used, in the end the ruleset in
\* the status is as the manifest says, whatever was lost on the way.
Unambiguous == cr.phase # "absent" => Cardinality(Named(cr.spec.name)) < 2
Recorded == {r \in rulesets : cr.phase # "absent" /\ r.id = cr.status.id}
RulesetConverges ==
    <>[](dependency /\ repository /\ cr.phase = "live" /\ Unambiguous) =>
        <>[](\E r \in Recorded : Meets(r, cr.spec))

\* A deletion gets through; one that is to delete the ruleset needs the
\* dependencies, and no duplicates.
DeletionCompletes ==
    (cr.phase = "deleting") ~>
        (~cr.finalizer \/ (cr.policy = "Remove" /\ (~dependency \/ ~Unambiguous)))

\* docs/resources.md: "`bypassActors: []` removes every managed bypass actor."
EmptyListClears ==
    <>[](/\ cr.phase = "live" /\ dependency /\ repository /\ Unambiguous
         /\ manifest.bypass = "empty") =>
        <>[](\E r \in Recorded : r.bypass = "none")
=============================================================================
