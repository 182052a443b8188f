------------------------------- MODULE UdpFlows -------------------------------
(***************************************************************************)
(* A udp route of a node: the task that owns the public socket and the     *)
(* table of flows (udp_listener_loop), and one task per flow (udp_flow,    *)
(* both in natforge-node/src/tunnel/mod.rs).                               *)
(*                                                                         *)
(* A flow is a slot, used again when its task has returned and its entry   *)
(* is gone.  The listener shares no memory with the flows: it sends them   *)
(* datagrams over bounded channels, and they send it the address of their  *)
(* peer when they end.  The answer to a request for a stream is that of    *)
(* MuxDriver.  Left out: the datagrams' contents and what the agent sends  *)
(* back, which no state depends on; country blocks, which drop a datagram  *)
(* before a flow is opened.                                                *)
(***************************************************************************)
EXTENDS Naturals, Sequences, FiniteSets

CONSTANTS
    Peers,      \* source addresses
    Flows,
    MaxFlows,   \* UDP_MAX_FLOWS
    Mailbox,    \* capacity of a flow's channel
    Notices,    \* capacity of the channel of closed flows
    None

ASSUME CapacityAssumption ==
    MaxFlows \in Nat \ {0} /\ Mailbox \in Nat \ {0} /\ Notices \in Nat \ {0}
ASSUME NoneAssumption == None \notin Flows /\ None \notin Peers

VARIABLES
    flows,    \* peer -> flow whose sender the table holds
    closed,   \* addresses of ended flows, in their channel
    opening,  \* peer whose stream the listener waits for
    running,  \* the listener
    pc, peer, \* of each flow
    mail      \* datagrams in each flow's channel

listenerVars == <<flows, opening, running>>
vars == <<flows, closed, opening, running, pc, peer, mail>>

TypeOK ==
    /\ flows \in [Peers -> Flows \cup {None}]
    /\ closed \in Seq(Peers) /\ Len(closed) <= Notices
    /\ opening \in Peers \cup {None}
    /\ running \in BOOLEAN
    /\ pc \in [Flows -> {"free", "preamble", "give_up", "relay", "report", "notify"}]
    /\ peer \in [Flows -> Peers \cup {None}]
    /\ mail \in [Flows -> 0..Mailbox]

Init ==
    /\ flows = [p \in Peers |-> None]
    /\ closed = <<>> /\ opening = None /\ running = TRUE
    /\ pc = [f \in Flows |-> "free"]
    /\ peer = [f \in Flows |-> None]
    /\ mail = [f \in Flows |-> 0]

Size == Cardinality({p \in Peers : flows[p] # None})
Selecting == running /\ opening = None
In(p, s) == \E i \in 1..Len(s) : s[i] = p

\* The receiving end of its channel is gone.  A flow that could not write its
\* preamble keeps it until it returns.
Deaf(f) == pc[f] \in {"free", "report", "notify"}

\* The entry is that of a flow that still takes datagrams.
Rides(p) == flows[p] # None /\ ~Deaf(flows[p])

-----------------------------------------------------------------------------
(* The listener.                                                           *)

\* A notice names a peer, and whatever entry the peer has is removed.
Forget ==
    /\ Selecting /\ closed # <<>>
    /\ flows' = [flows EXCEPT ![Head(closed)] = None]
    /\ closed' = Tail(closed)
    /\ UNCHANGED <<opening, running, pc, peer, mail>>

\* A datagram of a known peer goes to its flow; a full channel drops it.
Ride(p) ==
    /\ Selecting /\ Rides(p)
    /\ mail[flows[p]] < Mailbox
    /\ mail' = [mail EXCEPT ![flows[p]] = @ + 1]
    /\ UNCHANGED <<listenerVars, closed, pc, peer>>

\* Fault: the table has no limit.
NewPeerUncapped(p) ==
    /\ Selecting /\ ~Rides(p)
    /\ flows' = [flows EXCEPT ![p] = None]
    /\ opening' = p
    /\ UNCHANGED <<closed, running, pc, peer, mail>>

\* Any other datagram removes an entry whose flow has ended and, unless the
\* table is full, opens a flow; the listener waits for its stream.
NewPeer(p) ==
    /\ Selecting /\ ~Rides(p)
    /\ flows' = [flows EXCEPT ![p] = None]
    /\ opening' = IF Cardinality({q \in Peers : flows'[q] # None}) < MaxFlows
                  THEN p ELSE None
    /\ UNCHANGED <<closed, running, pc, peer, mail>>

\* The stream is there: the flow starts with the datagram that opened it.
OpenFlow(f) ==
    /\ opening # None
    /\ pc[f] = "free" /\ \A p \in Peers : flows[p] # f
    /\ flows' = [flows EXCEPT ![opening] = f]
    /\ pc' = [pc EXCEPT ![f] = "preamble"]
    /\ peer' = [peer EXCEPT ![f] = opening]
    /\ mail' = [mail EXCEPT ![f] = 1]
    /\ opening' = None
    /\ UNCHANGED <<closed, running>>

\* The request was answered with an error: the datagram is lost.
OpenFails ==
    /\ opening # None
    /\ opening' = None
    /\ UNCHANGED <<flows, closed, running, pc, peer, mail>>

\* The driver is gone, or the session's teardown aborts the listener.
ListenerEnds ==
    /\ running
    /\ running' = FALSE
    /\ opening' = None
    /\ flows' = [p \in Peers |-> None]
    /\ closed' = <<>>
    /\ UNCHANGED <<pc, peer, mail>>

-----------------------------------------------------------------------------
(* A flow.                                                                 *)

Goto(f, where) == pc' = [pc EXCEPT ![f] = where]

WritePreamble(f) ==
    /\ pc[f] = "preamble"
    /\ Goto(f, "relay")
    /\ UNCHANGED <<listenerVars, closed, peer, mail>>

\* Fault: the flow returns without a notice.
PreambleFailsSilently(f) ==
    /\ pc[f] = "preamble"
    /\ Goto(f, "free")
    /\ peer' = [peer EXCEPT ![f] = None]
    /\ mail' = [mail EXCEPT ![f] = 0]
    /\ UNCHANGED <<listenerVars, closed>>

PreambleFails(f) ==
    /\ pc[f] = "preamble"
    /\ Goto(f, "give_up")
    /\ UNCHANGED <<listenerVars, closed, peer, mail>>

Forward(f) ==
    /\ pc[f] = "relay" /\ mail[f] > 0
    /\ mail' = [mail EXCEPT ![f] = @ - 1]
    /\ UNCHANGED <<listenerVars, closed, pc, peer>>

\* The stream ends, or a write to it fails; with its channel empty the flow is
\* idle or finds the sender gone.  What is in the channel is lost.
RelayEnds(f) ==
    /\ pc[f] = "relay"
    /\ Goto(f, "report")
    /\ mail' = [mail EXCEPT ![f] = 0]
    /\ UNCHANGED <<listenerVars, closed, peer>>

\* The connection log is posted and its answer awaited.
Report(f) ==
    /\ pc[f] = "report"
    /\ Goto(f, "notify")
    /\ UNCHANGED <<listenerVars, closed, peer, mail>>

\* Fault: a notice that finds the channel full is dropped.
NotifyIfRoom(f) ==
    /\ pc[f] \in {"notify", "give_up"}
    /\ closed' = IF running /\ Len(closed) < Notices THEN Append(closed, peer[f]) ELSE closed
    /\ Goto(f, "free")
    /\ peer' = [peer EXCEPT ![f] = None]
    /\ mail' = [mail EXCEPT ![f] = 0]
    /\ UNCHANGED listenerVars

\* Fault: the channel of notices outlives the listener.
NotifyNobody(f) ==
    /\ pc[f] \in {"notify", "give_up"}
    /\ Len(closed) < Notices
    /\ closed' = Append(closed, peer[f])
    /\ Goto(f, "free")
    /\ peer' = [peer EXCEPT ![f] = None]
    /\ mail' = [mail EXCEPT ![f] = 0]
    /\ UNCHANGED listenerVars

\* The notice waits for room; without a listener it fails at once.  The flow
\* returns.
Notify(f) ==
    /\ pc[f] \in {"notify", "give_up"}
    /\ \/ running /\ Len(closed) < Notices /\ closed' = Append(closed, peer[f])
       \/ ~running /\ UNCHANGED closed
    /\ Goto(f, "free")
    /\ peer' = [peer EXCEPT ![f] = None]
    /\ mail' = [mail EXCEPT ![f] = 0]
    /\ UNCHANGED listenerVars

-----------------------------------------------------------------------------
FlowStep(f) ==
    \/ WritePreamble(f) \/ PreambleFails(f) \/ Forward(f) \/ RelayEnds(f)
    \/ Report(f) \/ Notify(f)

\* A relay whose sender is gone.
Abandoned(f) == pc[f] = "relay" /\ flows[peer[f]] # f

StreamAnswered == OpenFails \/ \E f \in Flows : OpenFlow(f)

Next ==
    \/ Forget \/ StreamAnswered \/ ListenerEnds
    \/ \E p \in Peers : Ride(p) \/ NewPeer(p)
    \/ \E f \in Flows : FlowStep(f)

Spec == Init /\ [][Next]_vars

\* Requests for streams are answered (MuxDriver).  select! takes a ready branch
\* at random, and a channel serves its waiting senders in turn: hence strong
\* fairness.  A relay without a sender forwards what is left and ends, or ends
\* with its stream.
FairSpec ==
    /\ Spec
    /\ WF_vars(StreamAnswered) /\ SF_vars(Forget)
    /\ \A f \in Flows :
          /\ WF_vars(WritePreamble(f) \/ PreambleFails(f))
          /\ WF_vars(Abandoned(f) /\ RelayEnds(f))
          /\ WF_vars(Report(f))
          /\ SF_vars(Notify(f))

-----------------------------------------------------------------------------
(* Properties.                                                             *)

\* No dead entry: an entry is of a flow of its peer, and one whose task has
\* returned has a notice on its way.
NoDeadEntry ==
    \A p \in Peers : flows[p] # None =>
        IF pc[flows[p]] = "free" THEN In(p, closed) ELSE peer[flows[p]] = p

\* UDP_MAX_FLOWS bounds the table, though the size is read before the stream is
\* awaited.
TableBounded == Size + (IF opening # None THEN 1 ELSE 0) <= MaxFlows

\* "Each flow task signals its close so the table stays bounded" (mod.rs): the
\* entry of a flow that has ended goes, without a datagram of its peer, although
\* notices wait for room and the listener waits for streams.
EndedForgotten ==
    \A p \in Peers, f \in Flows :
        flows[p] = f /\ pc[f] \in {"give_up", "report", "notify"} ~> flows[p] # f

\* Flow tasks are nobody's to abort: they end with their listener.
FlowsEnd == ~running ~> \A f \in Flows : pc[f] = "free"
=============================================================================
