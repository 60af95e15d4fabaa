--------------------------- MODULE MCActionsSecret ---------------------------
(* Instances of ActionsSecret for TLC. *)
EXTENDS ActionsSecret

\* Two keys under one visibility: an edit may select the other key alone.
MCSpecs == {[key |-> k, visibility |-> "all"] : k \in {"k1", "k2"}}
MCVisibility == {"all"}
\* One key.
MCSpec == {[key |-> "k1", visibility |-> "all"]}

\* The values are alike: the first key holds the first of them.
CONSTANT v1
MCInit == Init /\ source.data["k1"] = v1

\* Bound: the manifest is edited or the Kubernetes Secret changes, not both while
\* the resource lives.
Bounded == cr.phase # "absent" /\ cr.gen > 1 => source.rv = 1
MCFairSpec == MCInit /\ [][Next /\ Bounded']_vars /\ Fairness
=============================================================================
