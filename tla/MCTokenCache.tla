---------------------------- MODULE MCTokenCache ----------------------------
(* Instances of TokenCache for TLC. *)
EXTENDS TokenCache

\* A token that is as good as expired when it arrives, and one that is kept.
MCLifetimes == {1, 3}
=============================================================================
