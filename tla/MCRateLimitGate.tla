--------------------------- MODULE MCRateLimitGate ---------------------------
(* Instances of RateLimitGate for TLC. *)
EXTENDS RateLimitGate

\* A date that has just passed, a short and a longer delay.
MCDelays == {-2, 0, 2}
=============================================================================
