---------------------------- MODULE ActionsValue ----------------------------
(***************************************************************************)
(* What the reconcilers of GitHubActionsSecret and GitHubActionsVariable   *)
(* share: a value that lives in a key of a Kubernetes Secret, is read past *)
(* the cache, and goes to a target on GitHub under a visibility (for an    *)
(* organization: the setting together with the selected repositories).     *)
(* Changes of the Kubernetes Secret wake the reconciler up.                *)
(***************************************************************************)
EXTENDS ManagedResource

CONSTANTS
    Values,         \* what a key of the Kubernetes Secret may hold
    Foreign,        \* a value that people write on GitHub themselves
    Visibilities,   \* who may use the value
    MaxRotations    \* bound: changes of the Kubernetes Secret

ASSUME ValuesAssumption ==
    /\ MaxRotations \in Nat
    /\ \A spec \in Specs : spec.visibility \in Visibilities

Keys == {spec.key : spec \in Specs}

VARIABLES
    source,         \* the Kubernetes Secret; a key that is missing, or a whole
                    \* Secret, holds Nothing
    remote          \* the secret or variable on GitHub

Absent == [exists |-> FALSE, value |-> Nothing, visibility |-> Nothing,
           mine |-> FALSE]

Remotes ==
    {Absent} \cup [exists : {TRUE}, value : Values \cup {Foreign},
                   visibility : Visibilities, mine : BOOLEAN]

Sources == [data : [Keys -> Values \cup {Nothing}], rv : 1..MaxRotations + 1]

ValueInit(status) ==
    /\ ManagedInit(status)
    /\ source \in [data : [Keys -> Values], rv : {1}]
    /\ remote = Absent

\* What the manifest asks GitHub to hold.
Desired(value) ==
    [exists |-> TRUE, value |-> value, visibility |-> obj.spec.visibility,
     mine |-> TRUE]

-----------------------------------------------------------------------------
(* The steps that both reconcilers take alike *)

\* resolveActionsTarget: the cached resources, and for a live resource also
\* GitHub, where a call may fail.
ResolveTarget(failed) ==
    \/ Resolve("source", "delete", found, failed)
    \/ /\ pc = "resolve" /\ dependencyCache /\ obj.phase = "live"
       /\ Disturb /\ Conclude(failed)
       /\ CallsGitHub

\* Wrong: a missing key is taken for a value.
ResolveActionsValueSource_NoKey(failed) ==
    /\ pc = "source" /\ Calm
    /\ Goto("get", [value |-> source.data[obj.spec.key], rv |-> source.rv])
    /\ CallsGitHub

\* resolveActionsValueSource reads the Kubernetes Secret as it is now.
ResolveActionsValueSource(failed) ==
    /\ pc = "source"
    /\ \/ /\ source.data[obj.spec.key] # Nothing /\ Calm
          /\ Goto("get", [value |-> source.data[obj.spec.key], rv |-> source.rv])
       \/ source.data[obj.spec.key] = Nothing /\ Calm /\ Conclude(failed)
       \/ Disturb /\ Conclude(failed)
    /\ CallsGitHub

\* Wrong: whatever DELETE answers, the finalizer goes next.
DeleteFromGitHub_IgnoreError ==
    /\ pc = "delete"
    /\ \/ remote' = Absent /\ Calm
       \/ UNCHANGED remote /\ Disturb
    /\ Goto("removeFinalizer", found)
    /\ CallsGitHub

\* DELETE: ErrNotFound means that it is gone already.
DeleteFromGitHub ==
    /\ pc = "delete"
    /\ \/ remote' = Absent /\ Calm /\ Goto("removeFinalizer", found)
       \/ remote' = Absent /\ Disturb /\ Return(TRUE)   \* the answer was lost
       \/ UNCHANGED remote /\ Disturb /\ Return(TRUE)
    /\ CallsGitHub

-----------------------------------------------------------------------------
(* Everybody else *)

\* One key is changed or removed, or the whole Kubernetes Secret.
Rotated ==
    {[source.data EXCEPT ![k] = v] : k \in Keys, v \in Values \cup {Nothing}}
    \cup {[k \in Keys |-> Nothing]}

\* The watch maps a changed Kubernetes Secret to the resources that refer to it
\* (mapSourceSecret).
Rotate ==
    /\ source.rv <= MaxRotations
    /\ \E data \in Rotated \ {source.data} :
          source' = [data |-> data, rv |-> source.rv + 1]
    /\ queued' = TRUE
    /\ UNCHANGED <<clusterVars, dependencyVars, pc, localVars, disturbances>>

\* People write a value of their own on GitHub, take it away, or share it
\* differently.
Overwrite ==
    \E visibility \in Visibilities :
       remote' = [exists |-> TRUE, value |-> Foreign, mine |-> remote.mine,
                  visibility |-> IF remote.exists THEN remote.visibility
                                                  ELSE visibility]
Reshare ==
    /\ remote.exists
    /\ \E visibility \in Visibilities \ {remote.visibility} :
          remote' = [remote EXCEPT !.visibility = visibility]

TakeAway == remote.exists /\ remote' = Absent
=============================================================================
