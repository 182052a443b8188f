---------------------------- MODULE MCMuxDriver ----------------------------
(* Small instances of MuxDriver. *)
EXTENDS MuxDriver

CONSTANTS r1, r2, r3, r4
=============================================================================
