--------------------------- MODULE MCCollaborator ---------------------------
(* Instances of RepositoryCollaborator for TLC. *)
EXTENDS RepositoryCollaborator

MCPermissions == {"pull", "push"}
=============================================================================
