--------------------------- MODULE MCCertificates ---------------------------
(* Small instances of Certificates. *)
EXTENDS Certificates

CONSTANTS t1, t2, d1

=============================================================================
