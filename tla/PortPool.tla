------------------------------ MODULE PortPool ------------------------------
(***************************************************************************)
(* The control plane's allocator of public ports: the tables tunnels,      *)
(* routes and port_pool and the transactions that write them               *)
(* (natforge-backend/src/db/queries.rs).                                   *)
(*                                                                         *)
(* Each action is one committed transaction; one that fails (pool empty,   *)
(* route set taken, cap reached) is rolled back and is not a step.  What a *)
(* handler read before its transaction may be stale when it is used: the   *)
(* node of set_service_routes, the current node of a migration, the        *)
(* tunnels a sweep selected, the node that reports a session.              *)
(*                                                                         *)
(* A claim takes any free row of the node's pool: SKIP LOCKED makes the    *)
(* lowest one, which the statement asks for, a matter of timing.  Routes   *)
(* are known by (kind, local port), which is unique in a tunnel, in place  *)
(* of their dense ids.  Time is not modelled: a tunnel may be found silent *)
(* or idle, and a node stale, at any moment.  Left out: names, subdomains, *)
(* custom domains, labels, and the checks of handlers (policy, clashes     *)
(* between the services of a device) that can only refuse a request.       *)
(***************************************************************************)
EXTENDS Integers, FiniteSets, Functions

CONSTANTS
    Tunnels,      \* ids the database hands out; each is used once
    Machines,     \* [owner, device] pairs, device None for an agent without one
    Nodes,
    Ports,        \* the port range every node registers
    RouteKeys,    \* [kind, local]: the routes users ask for
    Requests,     \* sets of them that pass check_route_policy
    max_tunnels,  \* per-user cap
    Targets,      \* nodes that tunnels are moved to
    Removable,    \* nodes that an admin deletes
    None, Free, NoRoute, Shared

DedicatedKinds == {"tcp", "udp", "both"}

ASSUME RequestsAssumption == Requests \subseteq SUBSET RouteKeys
ASSUME MarksAssumption ==
    /\ Free \notin Tunnels \X RouteKeys
    /\ NoRoute \notin Ports /\ Shared \notin Ports /\ NoRoute # Shared
    /\ None \notin Nodes

Claims == Tunnels \X RouteKeys     \* a row of routes
Rows == Nodes \X Ports             \* a row of port_pool

VARIABLES
    status,   \* tunnels.status, "new" before the id is used
    machine,  \* tunnels.owner_id and device_id
    node,     \* tunnels.node_id
    sig,      \* tunnels.route_sig
    homes,    \* nodes for which agents hold a token of the tunnel
    routes,   \* a route's public_port; Shared for http and https
    holder,   \* port_pool: the route that holds a row
    seeded    \* nodes whose rows are in the pool

vars == <<status, machine, node, sig, homes, routes, holder, seeded>>

Statuses == {"awaiting_agent", "online", "offline", "stopped"}

TypeOK ==
    /\ status \in [Tunnels -> Statuses \cup {"new", "deleted"}]
    /\ machine \in [Tunnels -> Machines \cup {None}]
    /\ node \in [Tunnels -> Nodes \cup {None}]
    /\ sig \in [Tunnels -> SUBSET RouteKeys]
    /\ homes \in [Tunnels -> SUBSET Nodes]
    /\ routes \in [Claims -> Ports \cup {NoRoute, Shared}]
    /\ holder \in [Rows -> Claims \cup {Free}]
    /\ seeded \subseteq Nodes

Init ==
    /\ status = [t \in Tunnels |-> "new"]
    /\ machine = [t \in Tunnels |-> None]
    /\ node = [t \in Tunnels |-> None]
    /\ sig = [t \in Tunnels |-> {}]
    /\ homes = [t \in Tunnels |-> {}]
    /\ routes = [c \in Claims |-> NoRoute]
    /\ holder = [x \in Rows |-> Free]
    /\ seeded = {}

-----------------------------------------------------------------------------
Live(t) == status[t] \in Statuses

ClaimsOf(t, keys) == {t} \X keys
RoutesOf(t) == {k \in RouteKeys : routes[<<t, k>>] # NoRoute}
Dedicated(keys) == {k \in keys : k.kind \in DedicatedKinds}

\* The unique index on (owner, device, route_sig), which ignores empty ones.
SigTaken(m, keys, t) ==
    keys # {} /\ \E u \in Tunnels \ {t} : Live(u) /\ machine[u] = m /\ sig[u] = keys

Count(owner) == Cardinality({t \in Tunnels : Live(t) /\ machine[t].owner = owner})

\* Fault: a claim does not ask for a row without an owner.
AnyPorts(n, S) == {p \in Ports : n \in seeded}

\* Ports of node n that are free once the rows of the routes in S are.
FreePorts(n, S) == {p \in Ports : n \in seeded /\ holder[<<n, p>>] \in S \cup {Free}}

\* The rows of port_pool once those of the routes in S are free and f[c] on
\* node n is claimed for each route c.
Claimed(f, n, S) ==
    [x \in Rows |->
        IF \E c \in DOMAIN f : x = <<n, f[c]>> THEN CHOOSE c \in DOMAIN f : x = <<n, f[c]>>
        ELSE IF holder[x] \in S THEN Free ELSE holder[x]]

\* The rows of routes once f is stored, the routes in shared are added and
\* those in dropped deleted.
Stored(f, shared, dropped) ==
    [c \in Claims |-> IF c \in DOMAIN f THEN f[c]
                      ELSE IF c \in shared THEN Shared
                      ELSE IF c \in dropped THEN NoRoute ELSE routes[c]]

-----------------------------------------------------------------------------
(* Reservation and edits.                                                  *)

\* A tunnel with the same owner, device and route set is reused as it is,
\* which changes nothing; this is the other path.
Reserve(t, m, n, req) ==
    /\ status[t] = "new" /\ n \in seeded
    /\ ~SigTaken(m, req, t) /\ Count(m.owner) < max_tunnels
    /\ \E f \in Injection(ClaimsOf(t, Dedicated(req)), FreePorts(n, {})) :
          /\ holder' = Claimed(f, n, {})
          /\ routes' = Stored(f, ClaimsOf(t, req), {})
    /\ status' = [status EXCEPT ![t] = "awaiting_agent"]
    /\ machine' = [machine EXCEPT ![t] = m]
    /\ node' = [node EXCEPT ![t] = n]
    /\ sig' = [sig EXCEPT ![t] = req]
    /\ homes' = [homes EXCEPT ![t] = {n}]
    /\ UNCHANGED seeded

\* Fault: the signature is left as it was.
SetRoutesKeepingSig(t, n, req) ==
    /\ Live(t) /\ n \in homes[t] /\ ~SigTaken(machine[t], req, t)
    /\ LET added == ClaimsOf(t, req \ RoutesOf(t))
           dropped == ClaimsOf(t, RoutesOf(t) \ req)
       IN  \E f \in Injection(added \cap ClaimsOf(t, Dedicated(req)), FreePorts(n, dropped)) :
              /\ holder' = Claimed(f, n, dropped)
              /\ routes' = Stored(f, added, dropped)
    /\ UNCHANGED <<status, machine, node, sig, homes, seeded>>

\* Fault: an edit replaces every route, the kept ones included.
SetAllRoutes(t, n, req) ==
    /\ Live(t) /\ n \in homes[t] /\ ~SigTaken(machine[t], req, t)
    /\ LET held == ClaimsOf(t, RouteKeys)
       IN  \E f \in Injection(ClaimsOf(t, Dedicated(req)), FreePorts(n, held)) :
              /\ holder' = Claimed(f, n, held)
              /\ routes' = Stored(f, ClaimsOf(t, req), held)
    /\ sig' = [sig EXCEPT ![t] = req]
    /\ UNCHANGED <<status, machine, node, homes, seeded>>

\* Fault: dropping a route frees all rows of its tunnel.
SetRoutesFreeingAll(t, n, req) ==
    /\ Live(t) /\ n \in homes[t] /\ ~SigTaken(machine[t], req, t)
    /\ LET added == ClaimsOf(t, req \ RoutesOf(t))
           held == IF RoutesOf(t) \subseteq req THEN {} ELSE ClaimsOf(t, RouteKeys)
       IN  \E f \in Injection(added \cap ClaimsOf(t, Dedicated(req)), FreePorts(n, held)) :
              /\ holder' = Claimed(f, n, held)
              /\ routes' = Stored(f, added, ClaimsOf(t, RoutesOf(t) \ req))
    /\ sig' = [sig EXCEPT ![t] = req]
    /\ UNCHANGED <<status, machine, node, homes, seeded>>

\* Routes no longer requested are dropped and their rows freed, then the new
\* ones claim from the node the handler read, a former one of the tunnel perhaps.
SetServiceRoutes(t, n, req) ==
    /\ Live(t) /\ n \in homes[t] /\ ~SigTaken(machine[t], req, t)
    /\ LET added == ClaimsOf(t, req \ RoutesOf(t))
           dropped == ClaimsOf(t, RoutesOf(t) \ req)
       IN  \E f \in Injection(added \cap ClaimsOf(t, Dedicated(req)), FreePorts(n, dropped)) :
              /\ holder' = Claimed(f, n, dropped)
              /\ routes' = Stored(f, added, dropped)
    /\ sig' = [sig EXCEPT ![t] = req]
    /\ UNCHANGED <<status, machine, node, homes, seeded>>

\* Fault: the rows on the node that is left are not freed.
MigrateKeepingRows(t, n) ==
    /\ Live(t) /\ n \in seeded \cap Targets /\ homes[t] # {n}
    /\ LET moved == ClaimsOf(t, {k \in RoutesOf(t) : k.kind \in {"tcp", "udp"}})
       IN  \E f \in Injection(moved, FreePorts(n, {})) :
              /\ holder' = Claimed(f, n, {})
              /\ routes' = Stored(f, {}, {})
    /\ node' = [node EXCEPT ![t] = n]
    /\ homes' = [homes EXCEPT ![t] = @ \cup {n}]
    /\ UNCHANGED <<status, machine, sig, seeded>>

\* By its owner, or by the failover sweep, to another node than the one that
\* was read: a tunnel that has only been on n is not moved there.  Every row of
\* the tunnel is freed; tcp and udp routes claim one, a both route does not.
Migrate(t, n) ==
    /\ Live(t) /\ n \in seeded \cap Targets /\ homes[t] # {n}
    /\ LET moved == ClaimsOf(t, {k \in RoutesOf(t) : k.kind \in {"tcp", "udp"}})
           held == ClaimsOf(t, RouteKeys)
       IN  \E f \in Injection(moved, FreePorts(n, held)) :
              /\ holder' = Claimed(f, n, held)
              /\ routes' = Stored(f, {}, {})
    /\ node' = [node EXCEPT ![t] = n]
    /\ homes' = [homes EXCEPT ![t] = @ \cup {n}]
    /\ UNCHANGED <<status, machine, sig, seeded>>

-----------------------------------------------------------------------------
(* Removal.                                                                *)

\* Fault: a parked tunnel keeps its signature.
ReleaseKeepingSig(S) ==
    /\ holder' = [x \in Rows |-> IF holder[x] \in S \X RouteKeys THEN Free ELSE holder[x]]
    /\ routes' = [c \in Claims |-> IF c[1] \in S THEN NoRoute ELSE routes[c]]
    /\ UNCHANGED sig

\* The rows held by the tunnels in S are freed and their routes deleted.
Release(S) ==
    /\ holder' = [x \in Rows |-> IF holder[x] \in S \X RouteKeys THEN Free ELSE holder[x]]
    /\ routes' = [c \in Claims |-> IF c[1] \in S THEN NoRoute ELSE routes[c]]
    /\ sig' = [t \in Tunnels |-> IF t \in S THEN {} ELSE sig[t]]

\* Deleting tunnels cascades to their routes.
Delete(S) ==
    /\ S # {}
    /\ Release(S)
    /\ status' = [t \in Tunnels |-> IF t \in S THEN "deleted" ELSE status[t]]
    /\ machine' = [t \in Tunnels |-> IF t \in S THEN None ELSE machine[t]]
    /\ node' = [t \in Tunnels |-> IF t \in S THEN None ELSE node[t]]
    /\ homes' = [t \in Tunnels |-> IF t \in S THEN {} ELSE homes[t]]
    /\ UNCHANGED seeded

DeleteTunnel(t) == Live(t) /\ Delete({t})

\* Deleting a user or a device cascades to its tunnels; the foreign key of
\* port_pool is set to null.
DeleteUser(owner) == Delete({t \in Tunnels : Live(t) /\ machine[t].owner = owner})
DeleteDevice(m) ==
    m.device # None /\ Delete({t \in Tunnels : Live(t) /\ machine[t].device = m.device})

\* The sweep over tunnels without a device that have been silent too long.
Reconcile(S) ==
    /\ \A t \in S : status[t] \in {"online", "offline"} /\ machine[t].device = None
    /\ Delete(S)

\* The sweep over services of a device that carried no traffic: the tunnel
\* stays, parked without routes.
ExpireIdle(S) ==
    /\ S # {} /\ \A t \in S : Live(t) /\ machine[t].device # None /\ sig[t] # {}
    /\ Release(S)
    /\ UNCHANGED <<status, machine, node, homes, seeded>>

-----------------------------------------------------------------------------
(* Sessions and nodes.                                                     *)

\* A node reports a session, whose agent may hold a token from before the
\* tunnel was moved: status and node are overwritten.
TunnelUp(t, n) ==
    /\ Live(t) /\ n \in homes[t]
    /\ status' = [status EXCEPT ![t] = "online"]
    /\ node' = [node EXCEPT ![t] = n]
    /\ UNCHANGED <<machine, sig, homes, routes, holder, seeded>>

SetStatus(t, new) ==
    /\ status' = [status EXCEPT ![t] = new]
    /\ UNCHANGED <<machine, node, sig, homes, routes, holder, seeded>>

TunnelDown(t) == Live(t) /\ status[t] # "stopped" /\ SetStatus(t, "offline")
StopTunnel(t) == Live(t) /\ SetStatus(t, "stopped")
StartTunnel(t) == status[t] = "stopped" /\ SetStatus(t, "awaiting_agent")

\* A node seeds its port range whenever it registers; rows there already stay.
RegisterNode(n) ==
    /\ n \notin seeded
    /\ seeded' = seeded \cup {n}
    /\ UNCHANGED <<status, machine, node, sig, homes, routes, holder>>

\* An admin deletes a node and its rows.  Tunnels keep their node and ports.
DeleteNode(n) ==
    /\ n \in seeded \cap Removable
    /\ seeded' = seeded \ {n}
    /\ holder' = [x \in Rows |-> IF x[1] = n THEN Free ELSE holder[x]]
    /\ UNCHANGED <<status, machine, node, sig, homes, routes>>

-----------------------------------------------------------------------------
TunnelStep(t) ==
    \/ \E m \in Machines, n \in Nodes, req \in Requests \ {{}} : Reserve(t, m, n, req)
    \/ \E n \in Nodes, req \in Requests : SetServiceRoutes(t, n, req)
    \/ \E n \in Nodes : Migrate(t, n) \/ TunnelUp(t, n)
    \/ DeleteTunnel(t) \/ TunnelDown(t) \/ StopTunnel(t) \/ StartTunnel(t)

AdminStep ==
    \/ \E m \in Machines : DeleteUser(m.owner) \/ DeleteDevice(m)
    \/ \E S \in SUBSET Tunnels : Reconcile(S) \/ ExpireIdle(S)
    \/ \E n \in Nodes : RegisterNode(n) \/ DeleteNode(n)

Next == AdminStep \/ \E t \in Tunnels : TunnelStep(t)

Spec == Init /\ [][Next]_vars

-----------------------------------------------------------------------------
(* Properties.                                                             *)

\* No leak: a row of the pool is held only by a route that exists and is
\* served on that port, and no route holds two rows, whichever transactions
\* ran: what is dropped, moved or deleted gives its rows back.
NoLeakedPort ==
    /\ \A x \in Rows : holder[x] # Free => routes[holder[x]] = x[2] /\ x[1] \in seeded
    /\ \A x \in Rows, y \in Rows : holder[x] # Free /\ holder[x] = holder[y] => x = y

HoldsRow(c) == \E n \in Nodes : holder[<<n, routes[c]>>] = c

\* The pool is the allocator of record (migrations/0001_init.sql): the port of a
\* tcp or udp route is that of a row it holds, whatever is moved; one that has a
\* port without a row has had it since its row was removed with its node.
BackedUntilRemoved ==
    [][\A c \in Claims :
          c[2].kind \in {"tcp", "udp"} /\ routes'[c] \in Ports /\ ~HoldsRow(c)'
          => /\ routes'[c] = routes[c]
             /\ HoldsRow(c) => \E n \in Nodes : DeleteNode(n)]_vars

\* A tunnel that was never moved, on a node that no admin deletes.
Settled(t) == \E n \in Nodes \ Removable : homes[t] = {n}

\* README: each raw TCP/UDP route has "its own dedicated public port".  No two
\* routes of settled tunnels share a port of a node, whatever was moved onto
\* their node or off it, or lost its node, in the meantime.
ExclusivePorts ==
    \A c, d \in Claims :
        /\ c # d /\ Settled(c[1]) /\ Settled(d[1])
        /\ routes[c] \in Ports /\ routes[c] = routes[d]
        => node[c[1]] # node[d[1]]

\* A reconnecting agent that finds its tunnel by route_sig gets the routes it
\* asked for: the signature is that of the stored routes after every edit.
SigMatchesRoutes == \A t \in Tunnels : sig[t] = RoutesOf(t)

\* "The same subdomain and ports across drops" (README): a route that is kept
\* keeps its public port, whatever is added to or dropped from its tunnel and
\* wherever its sessions are; only moving the tunnel changes it.
PortsKept ==
    [][\A c \in Claims :
          routes[c] # NoRoute /\ routes'[c] \notin {NoRoute, routes[c]}
          => \E n \in Nodes : Migrate(c[1], n)]_vars
=============================================================================
