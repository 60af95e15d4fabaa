-------------------------- MODULE MCActionsVariable --------------------------
(* Instances of ActionsVariable for TLC. *)
EXTENDS ActionsVariable

\* Two keys: an edit may select the other one.
MCSpecs == {[key |-> k, visibility |-> "all"] : k \in {"k1", "k2"}}
MCVisibilities == {"all", "private"}
\* One key.
MCSpec == {[key |-> "k1", visibility |-> "all"]}
=============================================================================
