------------------------- MODULE MCTunnelLifecycle -------------------------
(* Small instances of TunnelLifecycle. *)
EXTENDS TunnelLifecycle

CONSTANTS s1, s2, c1

AllFaults == {"lost", "link", "refused", "restart"}
=============================================================================
