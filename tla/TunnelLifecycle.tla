--------------------------- MODULE TunnelLifecycle ---------------------------
(***************************************************************************)
(* One tunnel across the three programs that share it: its row in the      *)
(* control plane (tunnels.status and the routes behind a version number),  *)
(* the agent that serves it (natforge-agent/src/service_host.rs) and the   *)
(* sessions on its node (natforge-node/src/tunnel/mod.rs), which report    *)
(* back with tunnel_up and tunnel_down.                                    *)
(*                                                                         *)
(* A session is a slot: it is used again once its task has ended.  An      *)
(* agent and a node each notice a dead link in their own time.  The steps  *)
(* of a session's start and of its teardown are those of NodeSessions,     *)
(* taken together; ports are those of PortPool.                            *)
(*                                                                         *)
(* An agent runs one of two loops: run_device, which polls the             *)
(* configuration of its device, or run, which re-reserves the routes it    *)
(* was started with.  MaxFaults bounds failed connections, lost calls,     *)
(* broken links and restarts; what must happen happens after the last one. *)
(***************************************************************************)
EXTENDS Naturals

CONSTANTS
    Sessions,    \* session slots on the node
    Calls,       \* calls of the dashboard in progress
    MaxVersion,  \* edits of the route set
    Faults,      \* the kinds of faults that happen
    MaxFaults,
    Loops,       \* the loops an agent may run
    None, Withheld

Versions == 0..MaxVersion

ASSUME BoundsAssumption == MaxVersion \in Nat /\ MaxFaults \in Nat /\ Loops \subseteq {"run_device", "run"}
ASSUME FaultsAssumption == Faults \subseteq {"lost", "link", "refused", "restart"}
ASSUME MarksAssumption ==
    /\ None \notin Sessions \cup Versions
    /\ Withheld \notin Versions /\ Withheld # None

VARIABLES
    status,   \* tunnels.status
    version,  \* of the routes stored for the tunnel
    call,     \* what each dashboard call does next
    loop,     \* the agent's loop
    offer,    \* the agent's last answer: a version to serve or Withheld
    task,     \* session of the agent's serve task
    pc, ver, link,  \* of each session: progress, routes it serves, connection
    reg,      \* session in the node's tunnels map
    faults

agentVars == <<loop, offer, task>>
sessionVars == <<pc, ver, link>>
vars == <<status, version, call, loop, offer, task, pc, ver, link, reg, faults>>

Statuses == {"awaiting_agent", "online", "offline", "stopped", "deleted"}

TypeOK ==
    /\ status \in Statuses
    /\ version \in Versions
    /\ call \in [Calls -> {"idle", "pausing", "edited", "signal", "deleting", "removing"}]
    /\ loop \in Loops
    /\ offer \in Versions \cup {Withheld, None}
    /\ task \in Sessions \cup {None}
    /\ pc \in [Sessions -> {"free", "connect", "hello", "up", "late", "serving", "down"}]
    /\ ver \in [Sessions -> Versions]
    /\ link \in [Sessions -> BOOLEAN]
    /\ reg \in Sessions \cup {None}
    /\ faults \in 0..MaxFaults

Init ==
    /\ status = "awaiting_agent" /\ version = 0
    /\ call = [c \in Calls |-> "idle"]
    /\ loop \in Loops /\ offer = None /\ task = None
    /\ pc = [s \in Sessions |-> "free"]
    /\ ver = [s \in Sessions |-> 0]
    /\ link = [s \in Sessions |-> FALSE]
    /\ reg = None
    /\ faults = 0

Fault(kind) == kind \in Faults /\ faults < MaxFaults /\ faults' = faults + 1

-----------------------------------------------------------------------------
(* The dashboard.                                                          *)

Then(c, what) == call' = [call EXCEPT ![c] = what]

\* A call of the node's stop endpoint: the session in the tunnels map loses its
\* link and its entry.  Best effort: without an entry, or when the call is
\* lost, nothing happens.
SignalNodeStop ==
    \/ /\ link' = [s \in Sessions |-> link[s] /\ s # reg]
       /\ reg' = None
       /\ UNCHANGED faults
    \/ Fault("lost") /\ UNCHANGED <<link, reg>>

\* POST stop: signal the node, then store the status.
Stop(c) ==
    /\ call[c] = "idle" /\ status # "deleted"
    /\ Then(c, "pausing")
    /\ SignalNodeStop
    /\ UNCHANGED <<status, version, agentVars, pc, ver>>

Pause(c) ==
    /\ call[c] = "pausing"
    /\ Then(c, "idle")
    /\ status' = IF status = "deleted" THEN status ELSE "stopped"
    /\ UNCHANGED <<version, agentVars, sessionVars, reg, faults>>

Start ==
    /\ status = "stopped"
    /\ status' = "awaiting_agent"
    /\ UNCHANGED <<version, call, agentVars, sessionVars, reg, faults>>

\* PUT routes: store the new set, read the status, and signal the node if the
\* tunnel was online.
Edit(c) ==
    /\ call[c] = "idle" /\ status # "deleted" /\ version < MaxVersion
    /\ Then(c, "edited")
    /\ version' = version + 1
    /\ UNCHANGED <<status, agentVars, sessionVars, reg, faults>>

ReadStatus(c) ==
    /\ call[c] = "edited"
    /\ Then(c, IF status = "online" THEN "signal" ELSE "idle")
    /\ UNCHANGED <<status, version, agentVars, sessionVars, reg, faults>>

SignalEdit(c) ==
    /\ call[c] = "signal"
    /\ Then(c, "idle")
    /\ SignalNodeStop
    /\ UNCHANGED <<status, version, agentVars, pc, ver>>

\* DELETE: signal the node, then delete the row.
Delete(c) ==
    /\ call[c] = "idle" /\ status # "deleted"
    /\ Then(c, "removing")
    /\ SignalNodeStop
    /\ UNCHANGED <<status, version, agentVars, pc, ver>>

Remove(c) ==
    /\ call[c] = "removing"
    /\ Then(c, "idle")
    /\ status' = "deleted"
    /\ UNCHANGED <<version, agentVars, sessionVars, reg, faults>>

-----------------------------------------------------------------------------
(* The agent.                                                              *)

Device == loop = "run_device"
Running == task # None /\ link[task]

\* device_config withholds a stopped tunnel.  Re-reserving finds a tunnel by its
\* route signature, whatever its status: an edited one is not found, and the
\* agent goes on with a new tunnel.
Wanted ==
    /\ status # "deleted"
    /\ IF Device THEN status # "stopped" ELSE version = 0

\* run_device asks on every round; run when its session has ended.
Fetch ==
    /\ offer = None
    /\ Device \/ ~Running
    /\ offer' = IF Wanted THEN version ELSE Withheld
    /\ UNCHANGED <<status, version, call, loop, task, sessionVars, reg, faults>>

\* When re-reserving fails, run goes on with the reservation it has.
KeepReservation ==
    /\ ~Device /\ offer = None /\ task # None /\ ~Running
    /\ Fault("lost")
    /\ offer' = 0
    /\ UNCHANGED <<status, version, call, loop, task, sessionVars, reg>>

Spawn(s) ==
    /\ pc[s] = "free"
    /\ task' = s
    /\ pc' = [pc EXCEPT ![s] = "connect"]
    /\ ver' = [ver EXCEPT ![s] = offer]
    /\ link' = [link EXCEPT ![s] = TRUE]

\* Fault: tasks of services that are gone are forgotten but not aborted.
ApplyKeepingTasks ==
    /\ offer # None
    /\ offer' = None
    /\ \/ offer = Withheld /\ task' = None /\ UNCHANGED sessionVars
       \/ offer # Withheld /\ Running /\ UNCHANGED <<task, sessionVars>>
       \/ offer # Withheld /\ ~Running /\ \E s \in Sessions : Spawn(s)
    /\ UNCHANGED <<status, version, call, loop, reg, faults>>

\* Fault: only a service without a task gets one, a finished task counts.
ApplyKeepingFinished ==
    /\ offer # None
    /\ offer' = None
    /\ \/ offer = Withheld /\ task' = None
          /\ link' = [s \in Sessions |-> link[s] /\ s # task] /\ UNCHANGED <<pc, ver>>
       \/ offer # Withheld /\ task # None /\ UNCHANGED <<task, sessionVars>>
       \/ offer # Withheld /\ task = None /\ \E s \in Sessions : Spawn(s)
    /\ UNCHANGED <<status, version, call, loop, reg, faults>>

\* The answer is acted on: a task that is not wanted is aborted, a live one is
\* left alone whatever it serves, a finished one is replaced by one that serves
\* what was fetched before the task was found to be finished.
Apply ==
    /\ offer # None
    /\ offer' = None
    /\ \/ /\ offer = Withheld
          /\ task' = None
          /\ link' = [s \in Sessions |-> link[s] /\ s # task]
          /\ UNCHANGED <<pc, ver>>
       \/ offer # Withheld /\ Running /\ UNCHANGED <<task, sessionVars>>
       \/ offer # Withheld /\ ~Running /\ \E s \in Sessions : Spawn(s)
    /\ UNCHANGED <<status, version, call, loop, reg, faults>>

AgentRestart ==
    /\ Fault("restart")
    /\ offer' = None /\ task' = None
    /\ link' = [s \in Sessions |-> link[s] /\ s # task]
    /\ UNCHANGED <<status, version, call, loop, pc, ver, reg>>

-----------------------------------------------------------------------------
(* Sessions on the node.                                                   *)

Step(s, from, to) == pc[s] = from /\ pc' = [pc EXCEPT ![s] = to]
Dies(s, from) ==
    /\ Step(s, from, "free")
    /\ link' = [link EXCEPT ![s] = FALSE]
    /\ ver' = [ver EXCEPT ![s] = 0]

Accept(s) ==
    /\ Step(s, "connect", "hello")
    /\ UNCHANGED <<status, version, call, agentVars, ver, link, reg, faults>>

\* The connection fails, or the node refuses the token or cannot bind a port.
Refuse(s) ==
    /\ Fault("refused")
    /\ Dies(s, "connect") \/ Dies(s, "hello")
    /\ UNCHANGED <<status, version, call, agentVars, reg>>

Register(s) ==
    /\ Step(s, "hello", "up")
    /\ reg' = s
    /\ UNCHANGED <<status, version, call, agentVars, ver, link, faults>>

\* tunnel_up is awaited; it overwrites the status of a row that is there.  It may
\* come late, from a node that is gone.
ReportUp(s) ==
    /\ Step(s, "up", "serving") \/ Step(s, "late", "free")
    /\ \/ status' = (IF status = "deleted" THEN status ELSE "online") /\ UNCHANGED faults
       \/ Fault("lost") /\ UNCHANGED status
    /\ UNCHANGED <<version, call, agentVars, ver, link, reg>>

LinkBreaks(s) ==
    /\ link[s] /\ Fault("link")
    /\ link' = [link EXCEPT ![s] = FALSE]
    /\ UNCHANGED <<status, version, call, agentVars, pc, ver, reg>>

\* The node finds the link dead and tears down: the entry of the subdomain goes,
\* whichever session's it is.
End(s) ==
    /\ ~link[s]
    /\ Step(s, "serving", "down")
    /\ reg' = None
    /\ UNCHANGED <<status, version, call, agentVars, ver, link, faults>>

\* Fault: tunnel_down writes its status whatever is there.
ReportDownClobbering(s) ==
    /\ Dies(s, "down")
    /\ \/ status' = (IF status = "deleted" THEN status ELSE "offline") /\ UNCHANGED faults
       \/ Fault("lost") /\ UNCHANGED status
    /\ UNCHANGED <<version, call, agentVars, reg>>

\* tunnel_down leaves a stopped tunnel alone.
ReportDown(s) ==
    /\ Dies(s, "down")
    /\ \/ /\ status' = IF status \in {"deleted", "stopped"} THEN status ELSE "offline"
          /\ UNCHANGED faults
       \/ Fault("lost") /\ UNCHANGED status
    /\ UNCHANGED <<version, call, agentVars, reg>>

\* Sessions of a node that restarts end without a report, but reports that have been
\* sent may still arrive.
NodeRestart ==
    /\ Fault("restart")
    /\ \E sent \in SUBSET {s \in Sessions : pc[s] \in {"up", "late", "down"}} :
          pc' = [s \in Sessions |-> IF s \notin sent THEN "free"
                                   ELSE IF pc[s] = "down" THEN "down" ELSE "late"]
    /\ ver' = [s \in Sessions |-> 0]
    /\ link' = [s \in Sessions |-> FALSE]
    /\ reg' = None
    /\ UNCHANGED <<status, version, call, agentVars>>

-----------------------------------------------------------------------------
CallEnds(c) == Pause(c) \/ ReadStatus(c) \/ SignalEdit(c) \/ Remove(c)
CallStep(c) == Stop(c) \/ Edit(c) \/ Delete(c) \/ CallEnds(c)
AgentStep == Fetch \/ Apply
SessionStep(s) ==
    Accept(s) \/ Register(s) \/ ReportUp(s) \/ End(s) \/ ReportDown(s)
Misfortune ==
    \/ KeepReservation \/ AgentRestart \/ NodeRestart
    \/ \E s \in Sessions : Refuse(s) \/ LinkBreaks(s)

Next ==
    \/ Start \/ AgentStep \/ Misfortune
    \/ \E c \in Calls : CallStep(c)
    \/ \E s \in Sessions : SessionStep(s)

Spec == Init /\ [][Next]_vars

\* The loop of the agent goes round, tasks are scheduled, links that are dead
\* are noticed (keepalive) and calls are answered.  Nobody has to press a
\* button.
FairSpec ==
    /\ Spec
    /\ WF_vars(AgentStep)
    /\ \A s \in Sessions : WF_vars(SessionStep(s))
    /\ \A c \in Calls : WF_vars(CallEnds(c))

-----------------------------------------------------------------------------
(* Properties.                                                             *)

Serves(s) == pc[s] = "serving" /\ link[s]

\* Paused and at rest: no session lives or is about to, and the agent holds no
\* answer that would begin one.
AtRest ==
    /\ Device /\ status = "stopped"
    /\ offer \in {None, Withheld}
    /\ \A s \in Sessions : pc[s] \in {"free", "serving", "down"} /\ ~link[s]

\* Once a paused service is at rest it stays so until it is started or deleted,
\* whatever late tunnel_down calls, polls, faults and edits come
\* (queries.rs, set_tunnel_offline: "it would race the pause back").
PauseHolds == [][AtRest => AtRest' \/ status' \in {"awaiting_agent", "deleted"}]_vars

\* An agent holds at most one connection for a service, whatever it was told in
\* between and however often it or the node restarted: a task that is forgotten
\* has been aborted or has ended (service_host.rs, run_device's tasks).
OneConnection == \A s, u \in Sessions : link[s] /\ link[u] => s = u

\* A service that stays paused or deleted is eventually served by nobody: the
\* agent drops it even when the signal to the node was lost.
PausedDrops ==
    Device /\ <>[](status \in {"stopped", "deleted"})
        => <>[](\A s \in Sessions : pc[s] = "free")

\* A service its agent is to serve, and that nobody keeps pausing, is served again
\* and again, however its links, its node and its agent failed.
Resumes == []<>(~Wanted \/ status = "stopped" \/ \E s \in Sessions : Serves(s))

-----------------------------------------------------------------------------
(* Claims of the repository's documentation and comments.                  *)

\* "Never clobber a deliberately-paused ('stopped') tunnel" (queries.rs): only
\* starting or deleting it ends a pause.
StoppedStays ==
    [][status = "stopped" => status' \in {"stopped", "awaiting_agent", "deleted"}]_status
=============================================================================
