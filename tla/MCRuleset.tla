------------------------------ MODULE MCRuleset ------------------------------
(* Instances of RepositoryRuleset for TLC. *)
EXTENDS RepositoryRuleset

\* Two names, and each way to write the bypass actors.
MCSpecs == {[name |-> "n1", bypass |-> "unmanaged"],
            [name |-> "n1", bypass |-> "empty"],
            [name |-> "n2", bypass |-> "listed"]}
=============================================================================
