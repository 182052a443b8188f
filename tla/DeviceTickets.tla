---------------------------- MODULE DeviceTickets ----------------------------
(***************************************************************************)
(* What enrolment promises: a code is a ticket that is redeemed at most    *)
(* once and attaches at most one device, at most once.  A device has one   *)
(* bearer, the code whose token it accepts, and a bearer that is gone does *)
(* not come back.                                                          *)
(***************************************************************************)
CONSTANTS
    Codes, Devices,
    None  \* not a code

VARIABLES
    ticket,  \* of each code
    bearer   \* the code whose token a device accepts

vars == <<ticket, bearer>>

Init ==
    /\ ticket = [c \in Codes |-> "unused"]
    /\ bearer = [d \in Devices |-> None]

Turns(c, from, to) == ticket[c] = from /\ ticket' = [ticket EXCEPT ![c] = to]

Issue(c) == Turns(c, "unused", "issued") /\ UNCHANGED bearer

\* A poll wins the code.
Redeem(c) == Turns(c, "issued", "redeemed") /\ UNCHANGED bearer

\* The token of the winner is stored in a device's row.
Attach(c, d) == Turns(c, "redeemed", "spent") /\ bearer' = [bearer EXCEPT ![d] = c]

\* The code expires, or its winner stores no token.
Void(c) == (Turns(c, "issued", "spent") \/ Turns(c, "redeemed", "spent")) /\ UNCHANGED bearer

\* Disconnecting or deleting the device.
Detach(d) ==
    /\ bearer[d] # None
    /\ bearer' = [bearer EXCEPT ![d] = None]
    /\ UNCHANGED ticket

Next ==
    \/ \E c \in Codes : Issue(c) \/ Redeem(c) \/ Void(c)
    \/ \E c \in Codes, d \in Devices : Attach(c, d)
    \/ \E d \in Devices : Detach(d)

Spec == Init /\ [][Next]_vars
=============================================================================
