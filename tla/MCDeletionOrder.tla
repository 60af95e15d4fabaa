--------------------------- MODULE MCDeletionOrder ---------------------------
(* Instances of DeletionOrder for TLC. *)
EXTENDS DeletionOrder

CONSTANTS team, repository, foreign

\* One team for all memberships; the rulesets belong to the repository of another
\* provider.
MCTeamOf == [m \in Memberships |-> team]
MCRepositoryOf == [s \in Rulesets |-> foreign]
MCOwn == (Repositories \ {foreign}) \cup Actions

\* Bound: a team and its membership beside the provider, or the repositories and the
\* ruleset, or a repository and an Actions resource; nothing disturbs the latter two,
\* and what they stand for stays on GitHub.
Alone(side) == \A x \in Dependents \ side : object[x] = "absent"
TeamSide == Alone(Teams \cup Memberships)
Bounded ==
    \/ TeamSide
    \/ /\ disturbances = 0
       /\ (Alone(Repositories \cup Rulesets) \/ Alone({repository} \cup Actions))
MCInit ==
    /\ Init /\ Bounded
    /\ \A x \in Dependents :
          object[x] = "absent" \/ x \in Repositories \cup Actions => policy[x] = "Orphan"
    /\ ~TeamSide => remoteTeams = {}

\* Less than Fairness promises, and here it will do: with one team, one membership
\* and one ruleset, and repositories that go at once, nobody waits for a turn.
MCFairness ==
    /\ \A x \in Objects : WF_vars(Reconcile(x))
    /\ \A kind \in Kinds : WF_vars(Sync(kind))
MCSpec == MCInit /\ [][Next /\ Bounded']_vars /\ MCFairness
=============================================================================
