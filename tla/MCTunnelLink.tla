---------------------------- MODULE MCTunnelLink ----------------------------
(* Instances of TunnelLink for TLC. *)
EXTENDS TunnelLink

CONSTANTS c1, c2

MCCallers == {c1, c2}
=============================================================================
