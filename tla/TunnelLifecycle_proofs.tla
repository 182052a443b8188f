------------------------ MODULE TunnelLifecycle_proofs ------------------------
(***************************************************************************)
(* Theorems about TunnelLifecycle for any number of sessions, calls, edits *)
(* and faults.                                                             *)
(***************************************************************************)
EXTENDS TunnelLifecycle, TLAPS

\* The sessions' part of the type: a session that steps, dies or is spawned keeps
\* its fields in their ranges.
SessionsOK ==
    /\ pc \in [Sessions -> {"free", "connect", "hello", "up", "late", "serving", "down"}]
    /\ ver \in [Sessions -> Versions]
    /\ link \in [Sessions -> BOOLEAN]

\* Version 0, the routes the tunnel was created with, is a version.
LEMMA ZeroVersion == 0 \in Versions
BY BoundsAssumption DEF Versions

\* The signal to the node (tunnels.rs stop_tunnel, delete_tunnel, set_tunnel_routes)
\* leaves links Boolean, the map's entry a session and the faults in bounds.
LEMMA SignalType ==
    ASSUME TypeOK, SignalNodeStop
    PROVE  /\ link' \in [Sessions -> BOOLEAN]
           /\ reg' \in Sessions \cup {None}
           /\ faults' \in 0..MaxFaults
<1>1. CASE link' = [s \in Sessions |-> link[s] /\ s # reg] /\ reg' = None /\ UNCHANGED faults
    BY <1>1 DEF TypeOK
<1>2. CASE Fault("lost") /\ UNCHANGED <<link, reg>>
    BY <1>2, BoundsAssumption DEF TypeOK, Fault
<1> QED BY <1>1, <1>2 DEF SignalNodeStop

\* Every call of the dashboard (tunnels.rs) keeps the types.
LEMMA CallType ==
    ASSUME TypeOK, NEW c \in Calls, CallStep(c)
    PROVE  TypeOK'
<1> USE DEF Then, Statuses
<1>1. CASE Stop(c)
    BY <1>1, SignalType DEF TypeOK, Stop, agentVars
<1>2. CASE Edit(c)
    BY <1>2, BoundsAssumption DEF TypeOK, Edit, agentVars, sessionVars, Versions
<1>3. CASE Delete(c)
    BY <1>3, SignalType DEF TypeOK, Delete, agentVars
<1>4. CASE Pause(c)
    BY <1>4 DEF TypeOK, Pause, agentVars, sessionVars
<1>5. CASE ReadStatus(c)
    BY <1>5 DEF TypeOK, ReadStatus, agentVars, sessionVars
<1>6. CASE SignalEdit(c)
    BY <1>6, SignalType DEF TypeOK, SignalEdit, agentVars
<1>7. CASE Remove(c)
    BY <1>7 DEF TypeOK, Remove, agentVars, sessionVars
<1> QED BY <1>1, <1>2, <1>3, <1>4, <1>5, <1>6, <1>7 DEF CallStep, CallEnds

\* Every step of the agent (service_host.rs run_device, run) keeps the types.
LEMMA AgentType ==
    ASSUME TypeOK, AgentStep \/ KeepReservation \/ AgentRestart
    PROVE  TypeOK'
<1>1. CASE Fetch
    BY <1>1 DEF TypeOK, Fetch, sessionVars
<1>2. CASE Apply
    <2>1. /\ offer' \in Versions \cup {Withheld, None}
          /\ UNCHANGED <<status, version, call, loop, reg, faults>>
        BY <1>2 DEF Apply
    <2>2. SessionsOK' /\ task' \in Sessions \cup {None}
        <3>1. CASE offer = Withheld
            BY <1>2, <3>1 DEF TypeOK, Apply, SessionsOK
        <3>2. CASE offer # Withheld /\ Running
            BY <1>2, <3>2 DEF TypeOK, Apply, SessionsOK, sessionVars
        <3>3. CASE offer # Withheld /\ ~Running
            <4>1. PICK s \in Sessions : Spawn(s)
                BY <1>2, <3>3 DEF Apply
            <4>2. offer \in Versions
                BY <1>2, <3>3 DEF TypeOK, Apply
            <4> QED BY <4>1, <4>2 DEF TypeOK, Spawn, SessionsOK
        <3> QED BY <3>1, <3>2, <3>3
    <2> QED BY <2>1, <2>2 DEF TypeOK, SessionsOK
<1>3. CASE KeepReservation
    BY <1>3, ZeroVersion, BoundsAssumption DEF TypeOK, KeepReservation, Fault, sessionVars
<1>4. CASE AgentRestart
    BY <1>4, BoundsAssumption DEF TypeOK, AgentRestart, Fault
<1> QED BY <1>1, <1>2, <1>3, <1>4 DEF AgentStep

\* Every step of a session (tunnel/mod.rs handle_agent) keeps the types.
LEMMA SessionType ==
    ASSUME TypeOK, NEW s \in Sessions, SessionStep(s) \/ Refuse(s) \/ LinkBreaks(s)
    PROVE  TypeOK'
<1> USE DEF agentVars, Step
<1>1. CASE Accept(s)
    BY <1>1 DEF TypeOK, Accept
<1>2. CASE Register(s)
    BY <1>2 DEF TypeOK, Register
<1>3. CASE ReportUp(s)
    BY <1>3, BoundsAssumption DEF TypeOK, ReportUp, Fault, Statuses
<1>4. CASE End(s)
    BY <1>4 DEF TypeOK, End
<1>5. CASE ReportDown(s)
    BY <1>5, ZeroVersion, BoundsAssumption DEF TypeOK, ReportDown, Dies, Fault, Statuses
<1>6. CASE Refuse(s)
    <2>1. faults' \in 0..MaxFaults /\ UNCHANGED <<status, version, call, agentVars, reg>>
        BY <1>6, BoundsAssumption DEF TypeOK, Refuse, Fault
    <2>2. ASSUME Dies(s, "connect") \/ Dies(s, "hello") PROVE SessionsOK'
        BY <2>2, ZeroVersion DEF TypeOK, SessionsOK, Dies
    <2> QED BY <1>6, <2>1, <2>2 DEF TypeOK, SessionsOK, Refuse
<1>7. CASE LinkBreaks(s)
    BY <1>7, BoundsAssumption DEF TypeOK, LinkBreaks, Fault
<1> QED BY <1>1, <1>2, <1>3, <1>4, <1>5, <1>6, <1>7 DEF SessionStep

\* Type correctness: whatever calls, polls, sessions and faults interleave, the
\* status is one the schema allows and every session is at one place of its life.
THEOREM TypeCorrect == Spec => []TypeOK
<1>1. Init => TypeOK
    BY ZeroVersion, BoundsAssumption DEF Init, TypeOK, Statuses
<1>2. TypeOK /\ [Next]_vars => TypeOK'
    <2> SUFFICES ASSUME TypeOK, [Next]_vars PROVE TypeOK'
        OBVIOUS
    <2>1. CASE Start
        BY <2>1 DEF TypeOK, Start, Statuses, agentVars, sessionVars
    <2>2. CASE AgentStep \/ KeepReservation \/ AgentRestart
        BY <2>2, AgentType
    <2>3. CASE NodeRestart
        BY <2>3, ZeroVersion, BoundsAssumption DEF TypeOK, NodeRestart, Fault, agentVars
    <2>4. ASSUME NEW c \in Calls, CallStep(c) PROVE TypeOK'
        BY <2>4, CallType
    <2>5. ASSUME NEW s \in Sessions, SessionStep(s) \/ Refuse(s) \/ LinkBreaks(s)
          PROVE  TypeOK'
        BY <2>5, SessionType
    <2>6. CASE UNCHANGED vars
        BY <2>6 DEF TypeOK, vars
    <2> QED BY <2>1, <2>2, <2>3, <2>4, <2>5, <2>6 DEF Next, Misfortune
<1> QED BY <1>1, <1>2, PTL DEF Spec

-----------------------------------------------------------------------------
\* Stopping, editing, deleting or reporting: a call of the dashboard leaves a
\* service that is paused and at rest at rest, or deletes it.
LEMMA CallAtRest ==
    ASSUME TypeOK, AtRest, NEW c \in Calls, CallStep(c)
    PROVE  AtRest' \/ status' \in {"awaiting_agent", "deleted"}
<1> USE DEF Device
<1>1. ASSUME SignalNodeStop, UNCHANGED <<status, loop, offer, pc>> PROVE AtRest'
    BY <1>1 DEF TypeOK, AtRest, SignalNodeStop
<1>2. CASE Stop(c) \/ Delete(c) \/ SignalEdit(c)
    BY <1>1, <1>2 DEF Stop, Delete, SignalEdit, agentVars
<1>3. CASE Edit(c) \/ ReadStatus(c)
    BY <1>3 DEF AtRest, Edit, ReadStatus, agentVars, sessionVars
<1>4. CASE Pause(c)
    BY <1>4 DEF AtRest, Pause, agentVars, sessionVars
<1>5. CASE Remove(c)
    BY <1>5 DEF Remove
<1> QED BY <1>2, <1>3, <1>4, <1>5 DEF CallStep, CallEnds

\* Polls and restarts of the agent: a poll of a paused service is answered with
\* nothing to serve, and acting on that answer begins no session.
LEMMA AgentAtRest ==
    ASSUME TypeOK, AtRest, AgentStep \/ KeepReservation \/ AgentRestart
    PROVE  AtRest'
<1> USE DEF Device
<1>1. CASE Fetch
    <2>1. offer' = Withheld
        BY <1>1 DEF AtRest, Fetch, Wanted
    <2> QED BY <1>1, <2>1 DEF AtRest, Fetch, sessionVars
<1>2. CASE Apply
    <2>1. offer = Withheld
        BY <1>2 DEF AtRest, Apply
    <2> QED BY <1>2, <2>1 DEF TypeOK, AtRest, Apply
<1>3. CASE KeepReservation
    BY <1>3 DEF AtRest, KeepReservation
<1>4. CASE AgentRestart
    BY <1>4 DEF TypeOK, AtRest, AgentRestart
<1> QED BY <1>1, <1>2, <1>3, <1>4 DEF AgentStep

\* Sessions: only teardown is left to the sessions of a service at rest, and the
\* late tunnel_down it sends leaves the pause alone.
LEMMA SessionAtRest ==
    ASSUME TypeOK, AtRest, NEW s \in Sessions,
           SessionStep(s) \/ Refuse(s) \/ LinkBreaks(s)
    PROVE  AtRest'
<1> USE DEF Device, agentVars, Step
<1>1. CASE Accept(s) \/ Register(s) \/ ReportUp(s)
    BY <1>1 DEF AtRest, Accept, Register, ReportUp
<1>2. CASE End(s)
    BY <1>2 DEF TypeOK, AtRest, End
<1>3. CASE ReportDown(s)
    BY <1>3 DEF TypeOK, AtRest, ReportDown, Dies
<1>4. CASE Refuse(s)
    BY <1>4 DEF AtRest, Refuse, Dies
<1>5. CASE LinkBreaks(s)
    BY <1>5 DEF AtRest, LinkBreaks
<1> QED BY <1>1, <1>2, <1>3, <1>4, <1>5 DEF SessionStep

\* A paused service at rest stays paused and at rest until it is started or
\* deleted: no late tunnel_down, poll, edit or restart brings it back.
THEOREM PausedHolds == Spec => PauseHolds
<1>1. TypeOK /\ [Next]_vars
        => (AtRest => AtRest' \/ status' \in {"awaiting_agent", "deleted"})
    <2> SUFFICES ASSUME TypeOK, [Next]_vars, AtRest
                 PROVE  AtRest' \/ status' \in {"awaiting_agent", "deleted"}
        OBVIOUS
    <2> USE DEF Device
    <2>1. CASE Start
        BY <2>1 DEF Start
    <2>2. CASE AgentStep \/ KeepReservation \/ AgentRestart
        BY <2>2, AgentAtRest
    <2>3. CASE NodeRestart
        BY <2>3 DEF AtRest, NodeRestart, agentVars
    <2>4. ASSUME NEW c \in Calls, CallStep(c)
          PROVE  AtRest' \/ status' \in {"awaiting_agent", "deleted"}
        BY <2>4, CallAtRest
    <2>5. ASSUME NEW s \in Sessions, SessionStep(s) \/ Refuse(s) \/ LinkBreaks(s)
          PROVE  AtRest'
        BY <2>5, SessionAtRest
    <2>6. CASE UNCHANGED vars
        BY <2>6 DEF AtRest, vars
    <2> QED BY <2>1, <2>2, <2>3, <2>4, <2>5, <2>6 DEF Next, Misfortune
<1> QED BY <1>1, TypeCorrect, PTL DEF Spec, PauseHolds

-----------------------------------------------------------------------------
\* The only session whose connection lives is the one of the task the agent knows
\* of (service_host.rs run_device: what leaves tasks was aborted or has finished).
Known == \A s \in Sessions : link[s] => s = task

\* Links that only break, with the task left alone, stay known.
LEMMA KnownShrinks ==
    ASSUME Known, task' = task, \A s \in Sessions : link'[s] => link[s]
    PROVE  Known'
BY DEF Known

\* Every call of the dashboard (tunnels.rs) at most cuts the connection of the
\* session in the node's map.
LEMMA CallKnown ==
    ASSUME Known, NEW c \in Calls, CallStep(c)
    PROVE  Known'
<1>1. \A s \in Sessions : SignalNodeStop => (link'[s] => link[s])
    BY DEF SignalNodeStop
<1>2. task' = task
    BY DEF CallStep, CallEnds, Stop, Edit, Delete, Pause, ReadStatus, SignalEdit, Remove, agentVars
<1>3. \A s \in Sessions : link'[s] => link[s]
    BY <1>1 DEF CallStep, CallEnds, Stop, Edit, Delete, Pause, ReadStatus, SignalEdit,
        Remove, sessionVars
<1> QED BY <1>2, <1>3, KnownShrinks

\* The agent (service_host.rs): it forgets a task only with its connection, and
\* begins one only when the connection of the last is gone.
LEMMA AgentKnown ==
    ASSUME TypeOK, Known, AgentStep \/ KeepReservation \/ AgentRestart
    PROVE  Known'
<1>1. CASE Fetch \/ KeepReservation
    BY <1>1 DEF Known, Fetch, KeepReservation, sessionVars
<1>2. CASE AgentRestart
    BY <1>2 DEF Known, AgentRestart
<1>3. CASE Apply
    <2>1. CASE offer = Withheld
        BY <1>3, <2>1 DEF Known, Apply
    <2>2. CASE offer # Withheld /\ Running
        BY <1>3, <2>2 DEF Known, Apply, sessionVars
    <2>3. CASE offer # Withheld /\ ~Running
        <3>1. \A s \in Sessions : ~link[s]
            BY <2>3, MarksAssumption DEF TypeOK, Known, Running
        <3>2. PICK s \in Sessions : Spawn(s)
            BY <1>3, <2>3 DEF Apply
        <3> QED BY <3>1, <3>2 DEF TypeOK, Known, Spawn
    <2> QED BY <2>1, <2>2, <2>3
<1> QED BY <1>1, <1>2, <1>3 DEF AgentStep

\* A session on the node (tunnel/mod.rs handle_agent) never makes a connection: it
\* leaves it alone or ends it.
LEMMA SessionKnown ==
    ASSUME TypeOK, Known, NEW s \in Sessions,
           SessionStep(s) \/ Refuse(s) \/ LinkBreaks(s)
    PROVE  Known'
<1>1. task' = task
    BY DEF SessionStep, Accept, Register, ReportUp, End, ReportDown, Refuse, LinkBreaks, agentVars
<1>2. \A u \in Sessions : link'[u] => link[u]
    BY DEF TypeOK, SessionStep, Accept, Register, ReportUp, End, ReportDown, Refuse,
        LinkBreaks, Dies
<1> QED BY <1>1, <1>2, KnownShrinks

\* At most one connection of the agent for a service lives, through any pauses,
\* edits, broken links and restarts of either end.
THEOREM OneConnectionAlways == Spec => []OneConnection
<1>1. Init => Known
    BY DEF Init, Known
<1>2. TypeOK /\ Known /\ [Next]_vars => Known'
    <2> SUFFICES ASSUME TypeOK, Known, [Next]_vars PROVE Known'
        OBVIOUS
    <2>1. CASE Start
        BY <2>1 DEF Known, Start, agentVars, sessionVars
    <2>2. CASE AgentStep \/ KeepReservation \/ AgentRestart
        BY <2>2, AgentKnown
    <2>3. CASE NodeRestart
        BY <2>3 DEF Known, NodeRestart
    <2>4. ASSUME NEW c \in Calls, CallStep(c) PROVE Known'
        BY <2>4, CallKnown
    <2>5. ASSUME NEW s \in Sessions, SessionStep(s) \/ Refuse(s) \/ LinkBreaks(s)
          PROVE  Known'
        BY <2>5, SessionKnown
    <2>6. CASE UNCHANGED vars
        BY <2>6 DEF Known, vars
    <2> QED BY <2>1, <2>2, <2>3, <2>4, <2>5, <2>6 DEF Next, Misfortune
<1>3. Known => OneConnection
    BY DEF Known, OneConnection
<1> QED BY <1>1, <1>2, <1>3, TypeCorrect, PTL DEF Spec
=============================================================================
