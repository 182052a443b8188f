----------------------------- MODULE MCUdpFlows -----------------------------
(* Small instances of UdpFlows. *)
EXTENDS UdpFlows

CONSTANTS p1, p2, f1, f2, f3
=============================================================================
