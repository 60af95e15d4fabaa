--------------------------- MODULE ActionsVariable ---------------------------
(***************************************************************************)
(* The GitHubActionsVariable reconciler.  It does with a value that GitHub *)
(* shows what ActionsSecret does with one that it hides: here the decision *)
(* to write rests on the value itself and not on the status.               *)
(***************************************************************************)
EXTENDS ActionsValue

Statuses == [cond : {"Unknown", "Ready", "Failed"}, obsGen : Nat,
             rv : 0..MaxRotations + 1]

VARIABLE agreed   \* history: GitHub had the value and the visibility that the
                  \* manifest asks for at some moment since the last edit and the
                  \* last change of the Kubernetes Secret

vars == <<managedVars, source, remote, agreed>>

\* In the next state.
Agrees(s, r, resource) ==
    /\ resource.phase = "live" /\ r.exists
    /\ r.value = s.data[resource.spec.key]
    /\ r.visibility = resource.spec.visibility

Init ==
    /\ ValueInit([cond |-> "Unknown", obsGen |-> 0, rv |-> 0])
    /\ agreed = FALSE

\* GitHub changes to r.
SetRemote(r) ==
    /\ remote' = r
    /\ agreed' = (agreed \/ Agrees(source, r, cr))
KeepRemote == UNCHANGED <<remote, agreed>>
Elsewhere == UNCHANGED source /\ KeepRemote

-----------------------------------------------------------------------------
(* The reconciler *)

FailedEarly == [obj.status EXCEPT !.cond = "Failed", !.obsGen = obj.gen]
Failed == [FailedEarly EXCEPT !.rv = found.rv]
Synchronized == [cond |-> "Ready", obsGen |-> obj.gen, rv |-> found.rv]

Reconcile == Fetch("resolve") /\ Elsewhere

AddVariableFinalizer == AddFinalizer /\ Elsewhere

ResolveActionsTarget == ResolveTarget(FailedEarly) /\ Elsewhere

ResolveSource == ResolveActionsValueSource(FailedEarly) /\ Elsewhere

\* Wrong: who may use the variable is not looked at.
VariableNeedsUpdate_NoVisibility == remote.value # found.value

\* Wrong: as for a secret, the status decides.
VariableNeedsUpdate_ByStatus ==
    obj.status.obsGen # obj.gen \/ obj.status.rv # found.rv

VariableNeedsUpdate ==
    remote.value # found.value \/ remote.visibility # obj.spec.visibility

GetActionsVariable ==
    /\ pc = "get"
    /\ \/ ~remote.exists /\ Calm /\ Goto("create", found)
       \/ remote.exists /\ VariableNeedsUpdate /\ Calm /\ Goto("update", found)
       \/ remote.exists /\ ~VariableNeedsUpdate /\ Calm /\ Conclude(Synchronized)
       \/ Disturb /\ Conclude(Failed)
    /\ CallsGitHub /\ Elsewhere

\* POST and PATCH of a variable that may have come or gone since the GET.
WriteActionsVariable(label, possible) ==
    /\ pc = label
    /\ \/ possible /\ SetRemote(Desired(found.value)) /\ Calm /\ Goto("reread", found)
       \/ /\ possible /\ SetRemote(Desired(found.value))   \* the answer was lost
          /\ Disturb /\ Conclude(Failed)
       \/ ~possible /\ Calm /\ Conclude(Failed) /\ KeepRemote
       \/ Disturb /\ Conclude(Failed) /\ KeepRemote
    /\ CallsGitHub /\ UNCHANGED source

CreateActionsVariable == WriteActionsVariable("create", ~remote.exists)

UpdateActionsVariable == WriteActionsVariable("update", remote.exists)

ReadBack ==
    /\ pc = "reread"
    /\ \/ remote.exists /\ Calm /\ Conclude(Synchronized)
       \/ ~remote.exists /\ Calm /\ Conclude(Failed)
       \/ Disturb /\ Conclude(Failed)
    /\ CallsGitHub /\ Elsewhere

SetReadyCondition == WriteStatus /\ Elsewhere

DeleteActionsVariable == DeleteFromGitHub /\ UNCHANGED <<source, agreed>>

RemoveVariableFinalizer == RemoveFinalizer /\ Elsewhere

WorkerStep ==
    \/ AddVariableFinalizer \/ ResolveActionsTarget \/ ResolveSource
    \/ GetActionsVariable \/ CreateActionsVariable \/ UpdateActionsVariable
    \/ ReadBack \/ SetReadyCondition
    \/ DeleteActionsVariable \/ RemoveVariableFinalizer

-----------------------------------------------------------------------------
(* Everybody else *)

Manager == (SyncCache \/ SyncDependency \/ Restart) /\ Elsewhere

Users ==
    \/ (EditPolicy \/ DeleteObject \/ ChangeDependency) /\ Elsewhere
    \/ /\ EditSpec /\ UNCHANGED <<source, remote>>
       /\ agreed' = Agrees(source, remote, cr')
    \/ /\ Rotate /\ UNCHANGED remote
       /\ agreed' = Agrees(source', remote, cr)

People ==
    /\ Disturb
    /\ Overwrite \/ Reshare \/ TakeAway
    /\ agreed' = (agreed \/ Agrees(source, remote', cr))
    /\ UNCHANGED <<clusterVars, queued, dependencyVars, pc, localVars, source>>

Next == Reconcile \/ WorkerStep \/ Manager \/ Users \/ People

\* The manager keeps going; users and GitHub do as they please.
Fairness ==
    /\ WF_vars(Reconcile) /\ WF_vars(WorkerStep)
    /\ WF_vars(SyncCache /\ Elsewhere)
    /\ WF_vars(SyncDependency /\ Elsewhere)

Spec == Init /\ [][Next]_vars
FairSpec == Spec /\ Fairness

-----------------------------------------------------------------------------
(* Properties *)

\* Types; GitHub is never given the value of a key that is missing.
TypeOK ==
    /\ ManagedTypeOK(Statuses, {"source", "get", "create", "update", "reread",
                                "delete"})
    /\ source \in Sources /\ remote \in Remotes
    /\ agreed \in BOOLEAN

\* Ready=True of this generation and of this version of the Kubernetes Secret:
\* GitHub had the value and the visibility at some moment since both were
\* written.
ReadyIsEarned ==
    /\ cr.phase = "live" /\ cr.status.cond = "Ready"
    /\ cr.status.obsGen = cr.gen /\ cr.status.rv = source.rv
    => agreed

\* docs/resources.md: "Changes to the referenced Kubernetes Secret trigger
\* reconciliation and rotate the remote value automatically."  With a source and
\* dependencies that can be used, GitHub has the value in the end, whatever
\* failed on the way.
RotationArrives ==
    <>[](dependency /\ cr.phase = "live" /\ source.data[cr.spec.key] # Nothing) =>
        <>[]Agrees(source, remote, cr)
=============================================================================
