---------------------------- MODULE NodeSessions ----------------------------
(***************************************************************************)
(* The life of an agent's session on a core node: handle_agent and         *)
(* teardown (natforge-node/src/tunnel/mod.rs), the stop endpoint           *)
(* (natforge-node/src/api.rs) and the in-memory registries they share      *)
(* (CoreState in natforge-node/src/state.rs).                              *)
(*                                                                         *)
(* Every session is a task.  Each registry sits behind a lock of its own,  *)
(* held for one insertion or one removal, so an action here is what one    *)
(* task does between two awaits.  Agents may reconnect before the node has *)
(* noticed that their previous connection is dead, so several sessions of  *)
(* one tunnel overlap.                                                     *)
(*                                                                         *)
(* Left out: the bytes on the wire, SRV records, the reports to the        *)
(* control plane (TunnelLifecycle), per-connection relaying.               *)
(***************************************************************************)
EXTENDS Naturals, Sequences, FiniteSets

CONSTANTS
    Sessions,     \* connections agents make to the control port
    Stops,        \* calls of POST /internal/tunnels/{subdomain}/stop
    Subdomains,
    Ports,        \* public ports the node dedicates to tcp and udp routes
    Domains,      \* custom host names
    TunnelIds,
    Claims,       \* the tokens in circulation: what TunnelClaims grants
    None

HostModes == {"http", "https"}
PortModes == {"tcp", "udp"}
CustomKind == [http |-> "custom_http", https |-> "custom_https"]

RouteClaim == [mode : HostModes, port : {None}] \cup [mode : PortModes, port : Ports]
TunnelClaims == [tid : TunnelIds, sub : Subdomains, custom : Domains \cup {None},
                 routes : Seq(RouteClaim)]

ASSUME ClaimsAssumption == Claims \subseteq TunnelClaims
ASSUME NoneAssumption ==
    /\ None \notin Sessions \cup Domains \cup Ports
    /\ Sessions \cap Stops = {}

\* The six registries of CoreState as one map: a key names the registry and
\* the entry in it.
HostKeys   == HostModes \X Subdomains
PortKeys   == PortModes \X Ports
CustomKeys == {"custom_http", "custom_https"} \X Domains
Keys == HostKeys \cup PortKeys \cup CustomKeys

Actors == Sessions \cup Stops

VARIABLES
    pc,        \* where each session or stop call stands
    claims,    \* the verified token of each session
    at,        \* the route the session's bind or register loop has reached
    hosted,    \* that route's custom host name is already registered
    driver,    \* the session's yamux driver task
    registry,  \* entry -> session whose handle it holds
    tunnels,   \* subdomain -> session whose ActiveTunnel it holds
    sockets,   \* dedicated port -> session whose listener has it bound
    aborted,   \* sessions whose listener tasks were told to stop
    target,    \* session whose ActiveTunnel a stop call copied
    step       \* the next of teardown's locks, per actor

taskVars == <<pc, claims, at, hosted, target, step>>
vars == <<pc, claims, at, hosted, driver, registry, tunnels, sockets, aborted, target, step>>

SessionStates == {"hello", "check", "bind", "refused", "rejected", "register",
                  "report", "serve", "teardown", "done"}
StopStates == {"hello", "teardown", "done"}

TypeOK ==
    /\ pc \in [Actors -> SessionStates]
    /\ claims \in [Sessions -> Claims]
    /\ at \in [Sessions -> Nat \ {0}]
    /\ hosted \in [Sessions -> BOOLEAN]
    /\ driver \in [Sessions -> {"none", "running", "ended"}]
    /\ registry \in [Keys -> Sessions \cup {None}]
    /\ tunnels \in [Subdomains -> Sessions \cup {None}]
    /\ sockets \in [PortKeys -> Sessions \cup {None}]
    /\ aborted \subseteq Sessions
    /\ target \in [Stops -> Sessions \cup {None}]
    /\ step \in [Actors -> 0..6]

Init ==
    /\ pc = [a \in Actors |-> "hello"]
    /\ claims \in [Sessions -> Claims]
    /\ at = [s \in Sessions |-> 1]
    /\ hosted = [s \in Sessions |-> FALSE]
    /\ driver = [s \in Sessions |-> "none"]
    /\ registry = [k \in Keys |-> None]
    /\ tunnels = [d \in Subdomains |-> None]
    /\ sockets = [k \in PortKeys |-> None]
    /\ aborted = {}
    /\ target = [o \in Stops |-> None]
    /\ step = [a \in Actors |-> 0]

-----------------------------------------------------------------------------
(* The routes of a token and the entries they are registered under.        *)

Route(s) == claims[s].routes[at[s]]
HasRoute(s) == at[s] <= Len(claims[s].routes)

RouteKey(c, r) == <<r.mode, IF r.mode \in HostModes THEN c.sub ELSE r.port>>
PortKeysOf(c, mode) ==
    {<<mode, c.routes[i].port>> : i \in {j \in 1..Len(c.routes) : c.routes[j].mode = mode}}
CustomKey(c, mode) == <<CustomKind[mode], c.custom>>

\* Fault: teardown forgets the custom http registry.
TeardownKeysNoCustomHttp(c) ==
    << {<<"http", c.sub>>}, {<<"https", c.sub>>},
       PortKeysOf(c, "tcp"), PortKeysOf(c, "udp"),
       {}, {CustomKey(c, "https")} \cap Keys >>

\* The entries each of teardown's locks covers, in the order it takes them.
TeardownKeys(c) ==
    << {<<"http", c.sub>>}, {<<"https", c.sub>>},
       PortKeysOf(c, "tcp"), PortKeysOf(c, "udp"),
       {CustomKey(c, "http")} \cap Keys, {CustomKey(c, "https")} \cap Keys >>

Goto(a, where) == pc' = [pc EXCEPT ![a] = where]
DropSockets(s) ==
    sockets' = [k \in PortKeys |-> IF sockets[k] = s THEN None ELSE sockets[k]]

-----------------------------------------------------------------------------
(* Handshake.                                                              *)

\* The hello frame is read and the token verified; a wrong role, a bad token
\* or a binding the token does not grant is refused.
Hello(s) ==
    /\ pc[s] = "hello"
    /\ \E where \in {"check", "rejected"} : Goto(s, where)
    /\ UNCHANGED <<claims, at, hosted, driver, registry, tunnels, sockets, aborted, target, step>>

FreeOrOurs(k, tid) == registry[k] # None => claims[registry[k]].tid = tid

\* Ownership pre-check, under both read locks, which are released afterwards.
PreCheck(s) ==
    /\ pc[s] = "check"
    /\ Goto(s, IF \A m \in HostModes : FreeOrOurs(<<m, claims[s].sub>>, claims[s].tid)
               THEN "bind" ELSE "rejected")
    /\ UNCHANGED <<claims, at, hosted, driver, registry, tunnels, sockets, aborted, target, step>>

\* One round of the bind loop.  The first port that is taken refuses the agent.
Bind(s) ==
    /\ pc[s] = "bind" /\ HasRoute(s)
    /\ LET r == Route(s)
           k == RouteKey(claims[s], r)
       IN  \/ /\ r.mode \in HostModes
              /\ at' = [at EXCEPT ![s] = @ + 1]
              /\ UNCHANGED <<pc, sockets>>
           \/ /\ r.mode \in PortModes /\ sockets[k] = None
              /\ sockets' = [sockets EXCEPT ![k] = s]
              /\ at' = [at EXCEPT ![s] = @ + 1]
              /\ UNCHANGED pc
           \/ /\ r.mode \in PortModes /\ sockets[k] # None
              /\ Goto(s, "refused")
              /\ UNCHANGED <<at, sockets>>
    /\ UNCHANGED <<claims, hosted, driver, registry, tunnels, aborted, target, step>>

\* The error reply is sent while the ports bound so far are still held; they
\* are closed when handle_agent returns.
Refuse(s) ==
    /\ pc[s] = "refused"
    /\ Goto(s, "rejected")
    /\ DropSockets(s)
    /\ UNCHANGED <<claims, at, hosted, driver, registry, tunnels, aborted, target, step>>

\* All ports are bound: the Ok reply is written, which may fail, and the yamux
\* driver is spawned.
Acknowledge(s) ==
    /\ pc[s] = "bind" /\ ~HasRoute(s)
    /\ \/ /\ Goto(s, "register")
          /\ at' = [at EXCEPT ![s] = 1]
          /\ driver' = [driver EXCEPT ![s] = "running"]
          /\ UNCHANGED sockets
       \/ /\ Goto(s, "rejected")
          /\ DropSockets(s)
          /\ UNCHANGED <<at, driver>>
    /\ UNCHANGED <<claims, hosted, registry, tunnels, aborted, target, step>>

-----------------------------------------------------------------------------
(* Registration.                                                           *)

\* An http or https route of a tunnel with a custom host name enters the
\* custom registry first.
RegisterCustom(s) ==
    /\ pc[s] = "register" /\ HasRoute(s)
    /\ Route(s).mode \in HostModes /\ claims[s].custom # None /\ ~hosted[s]
    /\ registry' = [registry EXCEPT ![CustomKey(claims[s], Route(s).mode)] = s]
    /\ hosted' = [hosted EXCEPT ![s] = TRUE]
    /\ UNCHANGED <<pc, claims, at, driver, tunnels, sockets, aborted, target, step>>

RegisterRoute(s) ==
    /\ pc[s] = "register" /\ HasRoute(s)
    /\ Route(s).mode \in HostModes /\ claims[s].custom # None => hosted[s]
    /\ registry' = [registry EXCEPT ![RouteKey(claims[s], Route(s))] = s]
    /\ at' = [at EXCEPT ![s] = @ + 1]
    /\ hosted' = [hosted EXCEPT ![s] = FALSE]
    /\ UNCHANGED <<pc, claims, driver, tunnels, sockets, aborted, target, step>>

\* The ActiveTunnel goes in last, replacing one already there: the listener
\* tasks of the replaced one are detached, not aborted.
InsertTunnel(s) ==
    /\ pc[s] = "register" /\ ~HasRoute(s)
    /\ tunnels' = [tunnels EXCEPT ![claims[s].sub] = s]
    /\ Goto(s, "report")
    /\ UNCHANGED <<claims, at, hosted, driver, registry, sockets, aborted, target, step>>

\* The tunnel_up call and the mirror write are awaited before the driver is.
Report(s) ==
    /\ pc[s] = "report"
    /\ Goto(s, "serve")
    /\ UNCHANGED <<claims, at, hosted, driver, registry, tunnels, sockets, aborted, target, step>>

\* The agent leaves, or keepalive finds its connection dead.
DriverEnds(s) ==
    /\ driver[s] = "running"
    /\ driver' = [driver EXCEPT ![s] = "ended"]
    /\ UNCHANGED <<taskVars, registry, tunnels, sockets, aborted>>

AwaitDriver(s) ==
    /\ pc[s] = "serve" /\ driver[s] = "ended"
    /\ Goto(s, "teardown")
    /\ UNCHANGED <<claims, at, hosted, driver, registry, tunnels, sockets, aborted, target, step>>

-----------------------------------------------------------------------------
(* Teardown, run by the session's own task and by the stop endpoint.       *)

\* The session whose subdomain, ports and custom name this teardown works on.
Subject(a) == IF a \in Sessions THEN a ELSE target[a]

\* Fault: the removed ActiveTunnel's listener tasks are detached.
RemoveTunnelOnly(a) ==
    /\ pc[a] = "teardown" /\ step[a] = 0
    /\ tunnels' = [tunnels EXCEPT ![claims[Subject(a)].sub] = None]
    /\ step' = [step EXCEPT ![a] = 1]
    /\ UNCHANGED <<pc, claims, at, hosted, driver, registry, sockets, aborted, target>>

\* Whatever ActiveTunnel is under the subdomain is removed and its listener
\* tasks are aborted: there is no test of the tunnel id here.
RemoveTunnel(a) ==
    /\ pc[a] = "teardown" /\ step[a] = 0
    /\ LET d == claims[Subject(a)].sub
       IN  /\ aborted' = aborted \cup ({tunnels[d]} \ {None})
           /\ tunnels' = [tunnels EXCEPT ![d] = None]
    /\ step' = [step EXCEPT ![a] = 1]
    /\ UNCHANGED <<pc, claims, at, hosted, driver, registry, sockets, target>>

\* The entries a lock covers go if their handle has this tunnel's id.
Owned(k, tid) == registry[k] # None /\ claims[registry[k]].tid = tid

\* Fault: an entry goes only if it is the caller's own session's.
RemoveOwnRoutes(a) ==
    /\ pc[a] = "teardown" /\ step[a] \in 1..6
    /\ registry' = [k \in Keys |->
                       IF k \in TeardownKeys(claims[Subject(a)])[step[a]] /\ registry[k] = a
                       THEN None ELSE registry[k]]
    /\ IF step[a] < 6
       THEN step' = [step EXCEPT ![a] = @ + 1] /\ UNCHANGED pc
       ELSE Goto(a, "done") /\ UNCHANGED step
    /\ UNCHANGED <<claims, at, hosted, driver, tunnels, sockets, aborted, target>>

RemoveRoutes(a) ==
    /\ pc[a] = "teardown" /\ step[a] \in 1..6
    /\ LET c == claims[Subject(a)]
           covered == TeardownKeys(c)[step[a]]
       IN  registry' = [k \in Keys |->
                           IF k \in covered /\ Owned(k, c.tid) THEN None ELSE registry[k]]
    /\ IF step[a] < 6
       THEN step' = [step EXCEPT ![a] = @ + 1] /\ UNCHANGED pc
       ELSE Goto(a, "done") /\ UNCHANGED step
    /\ UNCHANGED <<claims, at, hosted, driver, tunnels, sockets, aborted, target>>

\* An aborted listener task is dropped some time after the abort, and with it
\* the socket.
CloseSocket(k) ==
    /\ sockets[k] \in aborted
    /\ sockets' = [sockets EXCEPT ![k] = None]
    /\ UNCHANGED <<taskVars, driver, registry, tunnels, aborted>>

\* The stop endpoint finds the ActiveTunnel, aborts its driver and listeners
\* and copies what teardown needs; without one it answers "not_found".
StopLookup(o, d) ==
    /\ pc[o] = "hello"
    /\ IF tunnels[d] = None
       THEN /\ Goto(o, "done")
            /\ UNCHANGED <<driver, aborted, target>>
       ELSE /\ Goto(o, "teardown")
            /\ driver' = [driver EXCEPT ![tunnels[d]] = "ended"]
            /\ aborted' = aborted \cup {tunnels[d]}
            /\ target' = [target EXCEPT ![o] = tunnels[d]]
    /\ UNCHANGED <<claims, at, hosted, registry, tunnels, sockets, step>>

-----------------------------------------------------------------------------
SessionStep(s) ==
    \/ Hello(s) \/ PreCheck(s) \/ Bind(s) \/ Refuse(s) \/ Acknowledge(s)
    \/ RegisterCustom(s) \/ RegisterRoute(s) \/ InsertTunnel(s) \/ Report(s)
    \/ AwaitDriver(s)

Teardown(a) == RemoveTunnel(a) \/ RemoveRoutes(a)

Next ==
    \/ \E s \in Sessions : SessionStep(s) \/ DriverEnds(s)
    \/ \E a \in Actors : Teardown(a)
    \/ \E o \in Stops, d \in Subdomains : StopLookup(o, d)
    \/ \E k \in PortKeys : CloseSocket(k)

Spec == Init /\ [][Next]_vars

\* The runtime keeps scheduling the tasks: every session and stop call that
\* can go on does, and dropped listener tasks are reclaimed.  Nobody is
\* obliged to connect, to stop a tunnel or to leave.
Fairness ==
    /\ \A s \in Sessions : WF_vars(pc[s] # "hello" /\ SessionStep(s))
    /\ \A a \in Actors : WF_vars(Teardown(a))
    /\ \A k \in PortKeys : WF_vars(CloseSocket(k))

FairSpec == Spec /\ Fairness

-----------------------------------------------------------------------------
(* Properties the code guarantees.                                         *)

\* No dangling route: a registry never holds the handle of a session whose
\* handle_agent was refused or has returned, whatever other sessions of the
\* tunnel and stop calls did in between.  (Routers look handles up without
\* asking whether the session is alive: shared.rs.)
NoDanglingRoute ==
    \A k \in Keys : registry[k] # None => pc[registry[k]] \notin {"rejected", "done"}

\* Why it holds: the owner of an entry has registered it and its own teardown
\* has not yet passed the lock that covers it.
RouteInv ==
    \A k \in Keys : registry[k] # None =>
        LET s == registry[k]
        IN  \/ pc[s] \in {"register", "report", "serve"}
            \/ pc[s] = "teardown" /\ \E n \in 1..6 :
                  n >= step[s] /\ k \in TeardownKeys(claims[s])[n]

\* Once a stop call that found a session has answered, no registry routes to
\* that session and its driver and listeners were told to stop, although the
\* session's own task may still be anywhere after its registration (api.rs:
\* "closing the window where new connections could be routed to a dead session").
StopDrains ==
    \A o \in Stops : pc[o] = "done" /\ target[o] # None =>
        /\ \A k \in Keys : registry[k] # target[o]
        /\ driver[target[o]] = "ended"
        /\ target[o] \in aborted

-----------------------------------------------------------------------------
(* Properties that hold only when the tokens of a subdomain share a tcp     *)
(* port: the bound port then works as the lock the registries do not have. *)

PortLock ==
    \A s, u \in Sessions : claims[s].sub = claims[u].sub =>
        PortKeysOf(claims[s], "tcp") \cap PortKeysOf(claims[u], "tcp") # {}

\* A session that was refused holds no port, and the listener tasks of one that
\* has returned are stopped: its ports are free or about to be (mod.rs: "letting
\* the tunnel tear down and free its public ports").
ListenersFreed ==
    \A k \in PortKeys : sockets[k] # None =>
        /\ pc[sockets[k]] # "rejected"
        /\ PortLock /\ pc[sockets[k]] = "done" => sockets[k] \in aborted

\* The ports of a session that lost its agent become bindable again.
PortsFreed ==
    \A s \in Sessions :
        PortLock /\ driver[s] = "ended" ~> \A k \in PortKeys : sockets[k] # s

-----------------------------------------------------------------------------
(* Claims of the repository's documentation and comments.                  *)

\* README, "resilient reconnect": a tunnel whose agent is connected and whose
\* driver runs is reachable on its host names.
ServingIsRoutable ==
    \A s \in Sessions : pc[s] = "serve" /\ driver[s] = "running" =>
        \A i \in 1..Len(claims[s].routes) :
            Owned(RouteKey(claims[s], claims[s].routes[i]), claims[s].tid)
=============================================================================
