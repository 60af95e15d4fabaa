---------------------------- MODULE ActionsSecret ----------------------------
(***************************************************************************)
(* The GitHubActionsSecret reconciler.  GitHub never shows the value of a  *)
(* secret, so the reconciler decides from what its own status says it sent *)
(* and from the time of GitHub's last update whether to send it again.     *)
(***************************************************************************)
EXTENDS ActionsValue

\* Times of updates are only compared for equality: a write takes one that
\* nobody remembers.  Five can be remembered at once; 0 is no time.
Stamps == 0..6

Statuses == [cond : {"Unknown", "Ready", "Failed"}, obsGen : Nat,
             rv : 0..MaxRotations + 1, at : Stamps]

VARIABLES
    updatedAt,   \* GitHub: the time of the secret's last update
    missed       \* history: since the last time the operator sent the secret, a
                 \* reconcile failed and said so, or other people wrote to it
                 \* before the operator read the time of its own write

vars == <<managedVars, source, remote, updatedAt, missed>>

Init ==
    /\ ValueInit([cond |-> "Unknown", obsGen |-> 0, rv |-> 0, at |-> 0])
    /\ updatedAt = 1
    /\ missed = FALSE

\* The times that a copy of the status or GitHub still holds.
Remembered ==
    {updatedAt} \cup {o.status.at : o \in {c \in {cr, cache, obj} : c.phase # "absent"}}
    \cup (IF pc = "status" THEN {report.at} ELSE {})

NewStamp == CHOOSE t \in Stamps \ {0} : t \notin Remembered

Elsewhere == UNCHANGED <<source, remote, updatedAt>>

-----------------------------------------------------------------------------
(* The reconciler *)

\* fail, before and after the Kubernetes Secret was read: what was attempted is
\* recorded as observed.
FailedEarly == [obj.status EXCEPT !.cond = "Failed", !.obsGen = obj.gen]
Failed == [FailedEarly EXCEPT !.rv = found.rv]

Synchronized == [cond |-> "Ready", obsGen |-> obj.gen, rv |-> found.rv,
                 at |-> updatedAt]

\* A step that may have failed.
NoteFailure == missed' = (missed \/ (pc' = "status" /\ report'.cond = "Failed"))

Reconcile == Fetch("resolve") /\ Elsewhere /\ UNCHANGED missed

AddSecretFinalizer == AddFinalizer /\ Elsewhere /\ UNCHANGED missed

ResolveActionsTarget == ResolveTarget(FailedEarly) /\ Elsewhere /\ NoteFailure

ResolveSource == ResolveActionsValueSource(FailedEarly) /\ Elsewhere /\ NoteFailure

\* Wrong: the version of the Kubernetes Secret is not looked at.
NeedsSynchronization_NoSource ==
    \/ obj.status.obsGen # obj.gen
    \/ obj.status.at # updatedAt
    \/ obj.spec.visibility # remote.visibility

\* Wrong: the generation is not looked at.
NeedsSynchronization_NoGeneration ==
    \/ obj.status.rv # found.rv
    \/ obj.status.at # updatedAt
    \/ obj.spec.visibility # remote.visibility

\* Wrong: the time of GitHub's last update is not looked at.
NeedsSynchronization_NoTime ==
    \/ obj.status.obsGen # obj.gen
    \/ obj.status.rv # found.rv
    \/ obj.spec.visibility # remote.visibility

\* secretNeedsSynchronization
NeedsSynchronization ==
    \/ obj.status.obsGen # obj.gen
    \/ obj.status.rv # found.rv
    \/ obj.status.at # updatedAt
    \/ obj.spec.visibility # remote.visibility

GetActionsSecret ==
    /\ pc = "get"
    /\ \/ /\ ~remote.exists \/ NeedsSynchronization
          /\ Calm /\ Goto("upsert", found)
       \/ /\ remote.exists /\ ~NeedsSynchronization
          /\ Calm /\ Conclude(Synchronized)
       \/ Disturb /\ Conclude(Failed)
    /\ CallsGitHub /\ Elsewhere /\ NoteFailure

\* GetActionsPublicKey, EncryptActionsSecret and PUT.
UpsertActionsSecret ==
    /\ pc = "upsert"
    /\ \/ /\ remote' = Desired(found.value) /\ updatedAt' = NewStamp
          /\ missed' = FALSE
          /\ \/ Calm /\ Goto("reread", found)
             \/ Disturb /\ Conclude(Failed)       \* done, the answer was lost
       \/ /\ Disturb /\ Conclude(Failed)
          /\ UNCHANGED <<remote, updatedAt>> /\ NoteFailure
    /\ CallsGitHub /\ UNCHANGED source

\* The time is taken from a second GET.
ReadBack ==
    /\ pc = "reread"
    /\ \/ remote.exists /\ Calm /\ Conclude(Synchronized)
       \/ ~remote.exists /\ Calm /\ Conclude(Failed)
       \/ Disturb /\ Conclude(Failed)
    /\ CallsGitHub /\ Elsewhere /\ NoteFailure

SetReadyCondition == WriteStatus /\ Elsewhere /\ UNCHANGED missed

DeleteActionsSecret ==
    DeleteFromGitHub /\ UNCHANGED <<source, updatedAt, missed>>

RemoveSecretFinalizer == RemoveFinalizer /\ Elsewhere /\ UNCHANGED missed

WorkerStep ==
    \/ AddSecretFinalizer \/ ResolveActionsTarget \/ ResolveSource
    \/ GetActionsSecret \/ UpsertActionsSecret \/ ReadBack \/ SetReadyCondition
    \/ DeleteActionsSecret \/ RemoveSecretFinalizer

-----------------------------------------------------------------------------
(* Everybody else *)

Manager ==
    /\ SyncCache \/ SyncDependency \/ Restart
    /\ Elsewhere /\ UNCHANGED missed

Users ==
    \/ /\ EditSpec \/ EditPolicy \/ DeleteObject \/ ChangeDependency
       /\ Elsewhere /\ UNCHANGED missed
    \/ Rotate /\ UNCHANGED <<remote, updatedAt, missed>>

\* Every write of a value counts as an update of the secret.
People ==
    /\ Disturb
    /\ \/ Overwrite /\ updatedAt' = NewStamp /\ missed' = (missed \/ pc = "reread")
       \/ Reshare /\ UNCHANGED <<updatedAt, missed>>
       \/ TakeAway /\ UNCHANGED <<updatedAt, missed>>
    /\ UNCHANGED <<clusterVars, queued, dependencyVars, pc, localVars, source>>

Next == Reconcile \/ WorkerStep \/ Manager \/ Users \/ People

\* The manager keeps going; users and GitHub do as they please.
Fairness ==
    /\ WF_vars(Reconcile) /\ WF_vars(WorkerStep)
    /\ WF_vars(SyncCache /\ Elsewhere /\ UNCHANGED missed)
    /\ WF_vars(SyncDependency /\ Elsewhere /\ UNCHANGED missed)

Spec == Init /\ [][Next]_vars
FairSpec == Spec /\ Fairness

-----------------------------------------------------------------------------
(* Properties *)

\* Types; GitHub is never given the value of a key that is missing.
TypeOK ==
    /\ ManagedTypeOK(Statuses, {"source", "get", "upsert", "reread", "delete"})
    /\ source \in Sources /\ remote \in Remotes
    /\ updatedAt \in Stamps /\ missed \in BOOLEAN

\* The status vouches for what GitHub has: Ready=True, of this generation, of
\* this version of the Kubernetes Secret and of this update on GitHub.
Vouched ==
    /\ cr.phase = "live" /\ cr.status.cond = "Ready"
    /\ cr.status.obsGen = cr.gen /\ cr.status.rv = source.rv
    /\ remote.exists /\ cr.status.at = updatedAt

InSync == cr.phase = "live" /\ remote.exists /\ remote.value = source.data[cr.spec.key]

\* A status that vouches for the secret is right, except after a failure that was
\* reported as observed and never made good, or a write by others that the
\* operator took for its own.
VouchedIsRight == Vouched => InSync \/ missed

\* docs/resources.md: "Changes to the referenced Kubernetes Secret trigger
\* reconciliation and rotate the remote value automatically."  With a source and
\* dependencies that can be used, in the end GitHub has the value.
RotationArrives ==
    <>[](dependency /\ cr.phase = "live" /\ source.data[cr.spec.key] # Nothing) =>
        []<>InSync

\* When no failure is left unrepaired, the rotation does arrive, under the
\* visibility of the manifest, whatever people did to the secret on GitHub.
RotationArrivesUnlessMissed ==
    <>[](/\ dependency /\ cr.phase = "live" /\ ~missed
         /\ source.data[cr.spec.key] # Nothing) =>
        <>[](InSync /\ remote.visibility = cr.spec.visibility)

\* The finalizer contract: with the policy Revoke a secret that the operator sent
\* is gone from GitHub when the finalizer is removed.
Contract == INSTANCE FinalizerContract WITH
    Keeping <- {"Orphan"}, phase <- cr.phase, policy <- cr.policy,
    held <- cr.finalizer, footprint <- remote.mine

ImplementsContract == Contract!ContractSpec
=============================================================================
