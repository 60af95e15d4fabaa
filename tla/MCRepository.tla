---------------------------- MODULE MCRepository ----------------------------
(* Instances of RepositoryController for TLC. *)
EXTENDS RepositoryController

\* Two manifests: one manages everything, the other leaves the settings to
\* GitHub.  "v1" is what a new repository has (alerts: off).
MCValues == {"v1", "v2"}
Full == [g \in Groups |-> "v2"]
AlertsOff == [settings |-> "none", topics |-> "v2", alerts |-> "v1"]
MCSpecs == {Full, AlertsOff}

\* Bound: a resource that was created again, or that somebody else holds too, has
\* the first manifest and is not edited; nothing disturbs the second one.
Plain == cr.uid = 1 /\ ~cr.foreign
Bounded ==
    /\ cr.phase = "live" /\ ~Plain => cr.gen = 1 /\ cr.spec = Full
    /\ cr.uid = 2 => disturbances = 0
MCInit == Init /\ Bounded
MCSpec == MCInit /\ [][Next /\ Bounded']_vars /\ Fairness
=============================================================================
