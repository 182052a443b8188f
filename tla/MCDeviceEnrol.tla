---------------------------- MODULE MCDeviceEnrol ----------------------------
(* A small instance of DeviceEnrol. *)
EXTENDS DeviceEnrol

CONSTANTS c1, c2, u1, u2, d1, d2, a1, a2

\* Users differ by name only: whoever has the first device is called u1.
NamedInOrder == (\E d \in Devices : row[d].owner = u2) => \E d \in Devices : row[d].owner = u1

MCNext == Next /\ NamedInOrder'

MCSpec == Init /\ [][MCNext]_vars /\ Fairness
=============================================================================
