---------------------------- MODULE MCTailscale ----------------------------
(* Instance of Tailscale for TLC. *)
EXTENDS Tailscale

CONSTANTS r1, r2

MCRequests == {r1, r2}
=============================================================================
