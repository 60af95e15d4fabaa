----------------------------- MODULE MCSettings -----------------------------
(* Instances of Settings for TLC: two values of each kind, or, for a team, three. *)
EXTENDS Settings

MCRoles == {"admin", "member"}
MCTeamRoles == {"maintainer", "member"}
MCPermissions == {"pull", "push"}
MCDescriptions == {"", "ours", "theirs"}
MCValues == MCRoles \cup MCTeamRoles \cup MCPermissions \cup MCDescriptions \cup {There}
MCSpecs == MCValues \cup {Unmanaged}
=============================================================================
