--------------------------- MODULE PortPool_proofs ---------------------------
(***************************************************************************)
(* For any tunnels, nodes, port ranges, requests and connections.  With    *)
(* transactions of one step: the pool never leaks a port; a tunnel's       *)
(* routes are those of its signature; a route's port changes with a move   *)
(* only, and its row goes with its node only; no two routes share a port   *)
(* of a node if their tunnels were never moved and the node is none that   *)
(* an admin deletes; and no account owns more tunnels than its cap.        *)
(*                                                                         *)
(* With transactions of many statements, whose rows are locked as they     *)
(* are written: no row is written by two of them, no two of the routes     *)
(* above share a port, and one that no other came in between does what it  *)
(* does in one step.  Only overlaps bring an owner above the cap, or two   *)
(* services of a device to one endpoint.                                   *)
(***************************************************************************)
EXTENDS PoolTransactions, TLAPS, FiniteSetTheorems

-----------------------------------------------------------------------------
(* What a transaction writes.                                              *)

\* f gives each route in C a row of node n's pool that is free once the rows of
\* the routes in S are.
Assigns(f, C, n, S) ==
    C \in SUBSET Claims /\ n \in Nodes /\ f \in Injection(C, FreePorts(n, S))

\* A transaction that frees S, claims f and writes the routes.
Commit(f, C, n, S, shared, dropped) ==
    /\ Assigns(f, C, n, S)
    /\ holder' = Claimed(f, n, S)
    /\ routes' = Stored(f, shared, dropped)

\* The row that the claim of c takes.
Row(f, n, c) == <<n, f[c]>>

\* The claimed rows are free ones, all different.
LEMMA AssignsFacts ==
    ASSUME NEW C, NEW S, NEW n, NEW f, Assigns(f, C, n, S)
    PROVE  /\ C \in SUBSET Claims /\ n \in Nodes /\ f \in [C -> Ports] /\ DOMAIN f = C
           /\ \A c \in C : /\ f[c] \in Ports /\ n \in seeded /\ Row(f, n, c) \in Rows
                           /\ holder[<<n, f[c]>>] \in S \cup {Free}
           /\ \A c, d \in C : f[c] = f[d] => c = d
  BY DEF Assigns, Injection, IsInjective, FreePorts, Row, Rows

\* A row afterwards: held by the route that claimed it, else as before or freed.
LEMMA ClaimedValue ==
    ASSUME NEW C, NEW S, NEW n, NEW f, Assigns(f, C, n, S), NEW x \in Rows
    PROVE  /\ \A c \in C : x = Row(f, n, c) => Claimed(f, n, S)[x] = c
           /\ (\A c \in C : x # Row(f, n, c)) =>
                 Claimed(f, n, S)[x] = IF holder[x] \in S THEN Free ELSE holder[x]
           /\ holder[x] # Free /\ holder[x] \notin S => Claimed(f, n, S)[x] = holder[x]
  <1> DEFINE New == \E c \in C : x = <<n, f[c]>>
             Taker == CHOOSE c \in C : x = <<n, f[c]>>
  <1>1. /\ DOMAIN f = C /\ C \in SUBSET Claims
        /\ \A c \in C : f[c] \in Ports /\ holder[<<n, f[c]>>] \in S \cup {Free}
        /\ \A c, d \in C : f[c] = f[d] => c = d
    BY AssignsFacts
  <1>2. Claimed(f, n, S)[x] = IF New THEN Taker ELSE IF holder[x] \in S THEN Free ELSE holder[x]
    BY <1>1 DEF Claimed
  <1>3. ASSUME NEW c \in C, x = <<n, f[c]>> PROVE Taker = c
    <2>1. Taker \in C /\ x = <<n, f[Taker]>>
      BY <1>3
    <2>2. f[Taker] = f[c]
      BY <1>3, <2>1
    <2>. QED  BY <1>1, <2>1, <2>2
  <1>4. \A c \in C : x = Row(f, n, c) => Claimed(f, n, S)[x] = c
    BY <1>2, <1>3 DEF Row
  <1>5. (\A c \in C : x # Row(f, n, c)) =>
           Claimed(f, n, S)[x] = IF holder[x] \in S THEN Free ELSE holder[x]
    BY <1>2 DEF Row
  <1>6. holder[x] # Free /\ holder[x] \notin S => Claimed(f, n, S)[x] = holder[x]
    BY <1>1, <1>2
  <1>. QED  BY <1>4, <1>5, <1>6

\* A route afterwards.
LEMMA StoredValue ==
    ASSUME TypeOK, NEW C, NEW S, NEW n, NEW f, Assigns(f, C, n, S), NEW shared, NEW dropped
    PROVE  /\ Stored(f, shared, dropped) \in [Claims -> Ports \cup {NoRoute, Shared}]
           /\ \A c \in Claims :
                 Stored(f, shared, dropped)[c] =
                    IF c \in C THEN f[c]
                    ELSE IF c \in shared THEN Shared
                    ELSE IF c \in dropped THEN NoRoute ELSE routes[c]
  <1>1. DOMAIN f = C /\ \A c \in C : f[c] \in Ports
    BY AssignsFacts
  <1>. QED  BY <1>1 DEF Stored, TypeOK

\* Both tables keep their types.
LEMMA CommitType ==
    ASSUME TypeOK, NEW C, NEW S, NEW n, NEW f, NEW shared, NEW dropped,
           Commit(f, C, n, S, shared, dropped)
    PROVE  /\ holder' \in [Rows -> Claims \cup {Free}]
           /\ routes' \in [Claims -> Ports \cup {NoRoute, Shared}]
  <1>1. Assigns(f, C, n, S)
    BY DEF Commit
  <1>2. ASSUME NEW x \in Rows PROVE Claimed(f, n, S)[x] \in Claims \cup {Free}
    <2>1. CASE \E c \in C : x = Row(f, n, c)
      BY <1>1, <2>1, ClaimedValue, AssignsFacts
    <2>2. CASE \A c \in C : x # Row(f, n, c)
      BY <1>1, <2>2, ClaimedValue DEF TypeOK
    <2>. QED  BY <2>1, <2>2
  <1>3. holder' \in [Rows -> Claims \cup {Free}]
    BY <1>2 DEF Claimed, Commit
  <1>. QED  BY <1>1, <1>3, StoredValue DEF Commit

-----------------------------------------------------------------------------
(* The transactions of the three operations that claim ports.              *)

ReserveClaims(t, req) == ClaimsOf(t, Dedicated(req))

\* A reservation claims for a tunnel that has no routes.
LEMMA ReserveCommits ==
    ASSUME NEW t \in Tunnels, NEW m \in Machines, NEW n \in Nodes, NEW req \in Requests,
           Reserve(t, m, n, req)
    PROVE  /\ \E f : Commit(f, ReserveClaims(t, req), n, {}, ClaimsOf(t, req), {})
           /\ ReserveClaims(t, req) \subseteq ClaimsOf(t, req)
           /\ ClaimsOf(t, req) \in SUBSET Claims /\ \A c \in ClaimsOf(t, req) : c[1] = t
  <1>1. /\ ReserveClaims(t, req) \in SUBSET Claims
        /\ ReserveClaims(t, req) \subseteq ClaimsOf(t, req)
        /\ ClaimsOf(t, req) \in SUBSET Claims /\ \A c \in ClaimsOf(t, req) : c[1] = t
    BY RequestsAssumption DEF ReserveClaims, ClaimsOf, Claims, Dedicated
  <1>. QED  BY <1>1 DEF Reserve, Commit, Assigns, ReserveClaims

Added(t, req) == ClaimsOf(t, req \ RoutesOf(t))
Dropped(t, req) == ClaimsOf(t, RoutesOf(t) \ req)
AddedClaims(t, req) == Added(t, req) \cap ClaimsOf(t, Dedicated(req))

\* An edit claims for the routes it adds and frees those it drops.
LEMMA SetServiceRoutesCommits ==
    ASSUME NEW t \in Tunnels, NEW n \in Nodes, NEW req \in Requests, SetServiceRoutes(t, n, req)
    PROVE  /\ \E f : Commit(f, AddedClaims(t, req), n, Dropped(t, req), Added(t, req), Dropped(t, req))
           /\ AddedClaims(t, req) \subseteq Added(t, req)
           /\ Added(t, req) \in SUBSET Claims
           /\ \A c \in Added(t, req) : routes[c] = NoRoute /\ c[1] = t
           /\ \A c \in Dropped(t, req) : c[1] = t
  <1>1. /\ AddedClaims(t, req) \in SUBSET Claims
        /\ AddedClaims(t, req) \subseteq Added(t, req)
        /\ Added(t, req) \in SUBSET Claims
    BY RequestsAssumption DEF AddedClaims, Added, ClaimsOf, Claims
  <1>2. /\ \A c \in Added(t, req) : routes[c] = NoRoute /\ c[1] = t
        /\ \A c \in Dropped(t, req) : c[1] = t
    BY RequestsAssumption DEF Added, Dropped, ClaimsOf, RoutesOf
  <1>. QED  BY <1>1, <1>2 DEF SetServiceRoutes, Commit, Assigns, AddedClaims, Added, Dropped

Moved(t) == ClaimsOf(t, {k \in RoutesOf(t) : k.kind \in {"tcp", "udp"}})
Held(t) == ClaimsOf(t, RouteKeys)

\* A move frees every row of the tunnel and claims for tcp and udp routes.
LEMMA MigrateCommits ==
    ASSUME NEW t \in Tunnels, NEW n \in Nodes, Migrate(t, n)
    PROVE  /\ \E f : Commit(f, Moved(t), n, Held(t), {}, {})
           /\ Moved(t) \subseteq Held(t) /\ \A c \in Moved(t) : c[1] = t
  <1>1. /\ Moved(t) \in SUBSET Claims
        /\ Moved(t) \subseteq Held(t) /\ \A c \in Moved(t) : c[1] = t
    BY DEF Moved, Held, ClaimsOf, Claims, RoutesOf
  <1>. QED  BY <1>1 DEF Migrate, Commit, Assigns, Moved, Held

-----------------------------------------------------------------------------
(* Types.                                                                  *)

\* Every transaction stores values of the columns' types.
LEMMA TypeStep == TypeOK /\ [Next]_vars => TypeOK'
  <1> SUFFICES ASSUME TypeOK, [Next]_vars PROVE TypeOK'
    OBVIOUS
  <1> USE DEF Statuses
  <1>1. ASSUME NEW t \in Tunnels, NEW m \in Machines, NEW n \in Nodes,
               NEW req \in Requests \ {{}}, Reserve(t, m, n, req)
        PROVE  TypeOK'
    <2>1. /\ holder' \in [Rows -> Claims \cup {Free}]
          /\ routes' \in [Claims -> Ports \cup {NoRoute, Shared}]
      BY <1>1, ReserveCommits, CommitType
    <2>2. /\ status' = [status EXCEPT ![t] = "awaiting_agent"]
          /\ machine' = [machine EXCEPT ![t] = m]
          /\ node' = [node EXCEPT ![t] = n]
          /\ sig' = [sig EXCEPT ![t] = req]
          /\ homes' = [homes EXCEPT ![t] = {n}]
          /\ UNCHANGED seeded
      BY <1>1 DEF Reserve
    <2>. QED  BY <2>1, <2>2, RequestsAssumption DEF TypeOK
  <1>2. ASSUME NEW t \in Tunnels, NEW n \in Nodes, NEW req \in Requests, SetServiceRoutes(t, n, req)
        PROVE  TypeOK'
    <2>1. /\ holder' \in [Rows -> Claims \cup {Free}]
          /\ routes' \in [Claims -> Ports \cup {NoRoute, Shared}]
      BY <1>2, SetServiceRoutesCommits, CommitType
    <2>2. sig' = [sig EXCEPT ![t] = req] /\ UNCHANGED <<status, machine, node, homes, seeded>>
      BY <1>2 DEF SetServiceRoutes
    <2>. QED  BY <2>1, <2>2, RequestsAssumption DEF TypeOK
  <1>3. ASSUME NEW t \in Tunnels, NEW n \in Nodes, Migrate(t, n) PROVE TypeOK'
    <2>1. /\ holder' \in [Rows -> Claims \cup {Free}]
          /\ routes' \in [Claims -> Ports \cup {NoRoute, Shared}]
      BY <1>3, MigrateCommits, CommitType
    <2>2. /\ node' = [node EXCEPT ![t] = n]
          /\ homes' = [homes EXCEPT ![t] = @ \cup {n}]
          /\ UNCHANGED <<status, machine, sig, seeded>>
      BY <1>3 DEF Migrate
    <2>. QED  BY <2>1, <2>2 DEF TypeOK
  <1>4. ASSUME NEW t \in Tunnels, NEW n \in Nodes, TunnelUp(t, n) PROVE TypeOK'
    BY <1>4 DEF TunnelUp, TypeOK
  <1>5. ASSUME NEW t \in Tunnels, TunnelDown(t) \/ StopTunnel(t) \/ StartTunnel(t) PROVE TypeOK'
    BY <1>5 DEF TunnelDown, StopTunnel, StartTunnel, SetStatus, TypeOK
  <1>6. ASSUME NEW S \in SUBSET Tunnels, Delete(S) PROVE TypeOK'
    BY <1>6 DEF Delete, Release, TypeOK
  <1>7. ASSUME NEW S \in SUBSET Tunnels, ExpireIdle(S) PROVE TypeOK'
    BY <1>7 DEF ExpireIdle, Release, TypeOK
  <1>8. ASSUME NEW n \in Nodes, RegisterNode(n) \/ DeleteNode(n) PROVE TypeOK'
    BY <1>8 DEF RegisterNode, DeleteNode, TypeOK
  <1>9. CASE UNCHANGED vars
    BY <1>9 DEF vars, TypeOK
  <1>10. ASSUME AdminStep PROVE TypeOK'
    BY <1>10, <1>6, <1>7, <1>8 DEF AdminStep, DeleteUser, DeleteDevice, Reconcile
  <1>11. ASSUME NEW t \in Tunnels, TunnelStep(t) PROVE TypeOK'
    BY <1>11, <1>1, <1>2, <1>3, <1>4, <1>5, <1>6 DEF TunnelStep, DeleteTunnel
  <1>. QED  BY <1>9, <1>10, <1>11 DEF Next

\* Every column keeps its type, for any tunnels, nodes, ports and requests.
THEOREM TypeCorrect == Spec => []TypeOK
  <1>1. Init => TypeOK
    BY DEF Init, TypeOK
  <1>. QED  BY <1>1, TypeStep, PTL DEF Spec

-----------------------------------------------------------------------------
(* No leaked port.                                                         *)

\* Only live tunnels have routes.
Unrouted == \A t \in Tunnels, k \in RouteKeys : ~Live(t) => routes[<<t, k>>] = NoRoute

LeakInv == TypeOK /\ Unrouted /\ NoLeakedPort

\* A transaction that only claims for and writes routes which are new, or
\* whose rows it frees, leaves no row with a route that is not on its port.
LEMMA TxNoLeak ==
    ASSUME TypeOK, NoLeakedPort, UNCHANGED seeded,
           NEW C, NEW S, NEW n, NEW f, NEW shared, NEW dropped,
           Commit(f, C, n, S, shared, dropped),
           \A c \in Claims : c \in C \/ c \in shared \/ c \in dropped => c \in S \/ routes[c] = NoRoute
    PROVE  NoLeakedPort'
  <1>0. Assigns(f, C, n, S)
    BY DEF Commit
  <1>1. C \in SUBSET Claims /\ \A c \in C : f[c] \in Ports /\ n \in seeded
    BY <1>0, AssignsFacts
  <1>2. \A x \in Rows : holder'[x] # Free =>
           \/ holder'[x] \in C /\ x = Row(f, n, holder'[x])
           \/ holder'[x] = holder[x] /\ holder[x] \notin S
    BY <1>0, ClaimedValue DEF Commit
  <1>3. \A x \in Rows : holder[x] # Free =>
           holder[x] \in Claims /\ routes[holder[x]] = x[2] /\ x[1] \in seeded /\ x[2] \in Ports
    BY DEF TypeOK, NoLeakedPort, Rows
  <1>4. \A x \in Rows : holder[x] # Free /\ holder[x] \notin S =>
           holder[x] \notin C /\ holder[x] \notin shared /\ holder[x] \notin dropped
    BY <1>3, MarksAssumption
  <1>5. \A c \in Claims : /\ c \in C => routes'[c] = f[c]
                          /\ c \notin C /\ c \notin shared /\ c \notin dropped => routes'[c] = routes[c]
    BY <1>0, StoredValue DEF Commit
  <1>6. ASSUME NEW x \in Rows, holder'[x] # Free
        PROVE  routes'[holder'[x]] = x[2] /\ x[1] \in seeded'
    <2>1. CASE holder'[x] \in C /\ x = Row(f, n, holder'[x])
      BY <1>1, <1>5, <2>1 DEF Row
    <2>2. CASE holder'[x] = holder[x] /\ holder[x] \notin S
      BY <1>3, <1>4, <1>5, <1>6, <2>2
    <2>. QED  BY <1>2, <1>6, <2>1, <2>2
  <1>7. ASSUME NEW x \in Rows, NEW y \in Rows, holder'[x] # Free, holder'[x] = holder'[y]
        PROVE  x = y
    <2>1. CASE holder'[x] \in C
      <3>1. x = Row(f, n, holder'[x])
        BY <1>2, <1>4, <1>7, <2>1
      <3>2. y = Row(f, n, holder'[y])
        BY <1>2, <1>4, <1>7, <2>1
      <3>. QED  BY <1>7, <3>1, <3>2
    <2>2. CASE holder'[x] \notin C
      <3>1. holder'[x] = holder[x] /\ holder'[y] = holder[y]
        BY <1>2, <1>7, <2>2
      <3>. QED  BY <1>7, <3>1 DEF NoLeakedPort
    <2>. QED  BY <2>1, <2>2
  <1>. QED  BY <1>6, <1>7 DEF NoLeakedPort

\* Freeing the rows of the tunnels that lose their routes leaves none behind.
LEMMA ReleaseNoLeak ==
    ASSUME TypeOK, NoLeakedPort, UNCHANGED seeded, NEW S \in SUBSET Tunnels, Release(S)
    PROVE  NoLeakedPort'
  <1>1. \A x \in Rows : holder'[x] # Free =>
           holder'[x] = holder[x] /\ holder[x] \in Claims /\ holder[x] \notin S \X RouteKeys
    BY DEF Release, TypeOK
  <1>2. \A c \in Claims : c \notin S \X RouteKeys => routes'[c] = routes[c]
    BY DEF Release, Claims
  <1>. QED  BY <1>1, <1>2 DEF NoLeakedPort

\* Every transaction keeps the rows of port_pool and of routes in step.
LEMMA LeakStep == LeakInv /\ [Next]_vars => LeakInv'
  <1> SUFFICES ASSUME LeakInv, [Next]_vars PROVE LeakInv'
    OBVIOUS
  <1>0. TypeOK /\ TypeOK' /\ Unrouted /\ NoLeakedPort
    BY TypeStep DEF LeakInv
  <1> USE DEF Live, Statuses
  <1>1. ASSUME NEW t \in Tunnels, NEW m \in Machines, NEW n \in Nodes,
               NEW req \in Requests \ {{}}, Reserve(t, m, n, req)
        PROVE  Unrouted' /\ NoLeakedPort'
    <2> DEFINE C == ReserveClaims(t, req)
               shared == ClaimsOf(t, req)
    <2>1. C \subseteq shared /\ shared \in SUBSET Claims /\ \A c \in shared : c[1] = t
      BY <1>1, ReserveCommits
    <2>2. PICK f : Commit(f, C, n, {}, shared, {})
      BY <1>1, ReserveCommits
    <2>3. /\ ~Live(t) /\ UNCHANGED seeded
          /\ \A u \in Tunnels : u # t => status'[u] = status[u]
          /\ status'[t] \in Statuses
      BY <1>0, <1>1 DEF Reserve, TypeOK
    <2> HIDE DEF C, shared
    <2>4. \A c \in Claims : c \in shared => routes[c] = NoRoute
      BY <1>0, <2>1, <2>3 DEF Unrouted, Claims
    <2>5. NoLeakedPort'
      BY <1>0, <2>1, <2>2, <2>3, <2>4, TxNoLeak
    <2>6. \A c \in Claims : c[1] # t => routes'[c] = routes[c]
      BY <1>0, <2>1, <2>2, StoredValue DEF Commit
    <2>7. Unrouted'
      BY <1>0, <2>3, <2>6 DEF Unrouted, Claims
    <2>. QED  BY <2>5, <2>7
  <1>2. ASSUME NEW t \in Tunnels, NEW n \in Nodes, NEW req \in Requests, SetServiceRoutes(t, n, req)
        PROVE  Unrouted' /\ NoLeakedPort'
    <2> DEFINE C == AddedClaims(t, req)
               added == Added(t, req)
               dropped == Dropped(t, req)
    <2>1. /\ C \subseteq added /\ added \in SUBSET Claims
          /\ \A c \in added : routes[c] = NoRoute /\ c[1] = t
          /\ \A c \in dropped : c[1] = t
      BY <1>2, SetServiceRoutesCommits
    <2>2. PICK f : Commit(f, C, n, dropped, added, dropped)
      BY <1>2, SetServiceRoutesCommits
    <2>3. Live(t) /\ UNCHANGED <<status, seeded>>
      BY <1>2 DEF SetServiceRoutes
    <2> HIDE DEF C, added, dropped
    <2>4. NoLeakedPort'
      BY <1>0, <2>1, <2>2, <2>3, TxNoLeak
    <2>5. \A c \in Claims : c[1] # t => routes'[c] = routes[c]
      BY <1>0, <2>1, <2>2, StoredValue DEF Commit
    <2>6. Unrouted'
      BY <1>0, <2>3, <2>5 DEF Unrouted, Claims
    <2>. QED  BY <2>4, <2>6
  <1>3. ASSUME NEW t \in Tunnels, NEW n \in Nodes, Migrate(t, n)
        PROVE  Unrouted' /\ NoLeakedPort'
    <2> DEFINE C == Moved(t)
               held == Held(t)
    <2>1. C \subseteq held /\ \A c \in C : c[1] = t
      BY <1>3, MigrateCommits
    <2>2. PICK f : Commit(f, C, n, held, {}, {})
      BY <1>3, MigrateCommits
    <2>3. Live(t) /\ UNCHANGED <<status, seeded>>
      BY <1>3 DEF Migrate
    <2> HIDE DEF C, held
    <2>4. NoLeakedPort'
      BY <1>0, <2>1, <2>2, <2>3, TxNoLeak
    <2>5. \A c \in Claims : c[1] # t => routes'[c] = routes[c]
      BY <1>0, <2>1, <2>2, StoredValue DEF Commit
    <2>6. Unrouted'
      BY <1>0, <2>3, <2>5 DEF Unrouted, Claims
    <2>. QED  BY <2>4, <2>6
  <1>4. ASSUME NEW t \in Tunnels, NEW n \in Nodes, TunnelUp(t, n) PROVE Unrouted' /\ NoLeakedPort'
    BY <1>0, <1>4 DEF TunnelUp, TypeOK, Unrouted, NoLeakedPort
  <1>5. ASSUME NEW t \in Tunnels, TunnelDown(t) \/ StopTunnel(t) \/ StartTunnel(t)
        PROVE  Unrouted' /\ NoLeakedPort'
    BY <1>0, <1>5 DEF TunnelDown, StopTunnel, StartTunnel, SetStatus, TypeOK, Unrouted, NoLeakedPort
  <1>6. ASSUME NEW S \in SUBSET Tunnels, Delete(S) PROVE Unrouted' /\ NoLeakedPort'
    <2>1. NoLeakedPort'
      BY <1>0, <1>6, ReleaseNoLeak DEF Delete
    <2>2. Unrouted'
      BY <1>0, <1>6 DEF Delete, Release, Unrouted, Claims
    <2>. QED  BY <2>1, <2>2
  <1>7. ASSUME NEW S \in SUBSET Tunnels, ExpireIdle(S) PROVE Unrouted' /\ NoLeakedPort'
    <2>1. NoLeakedPort'
      BY <1>0, <1>7, ReleaseNoLeak DEF ExpireIdle
    <2>2. Unrouted'
      BY <1>0, <1>7 DEF ExpireIdle, Release, Unrouted, Claims
    <2>. QED  BY <2>1, <2>2
  <1>8. ASSUME NEW n \in Nodes, RegisterNode(n) PROVE Unrouted' /\ NoLeakedPort'
    BY <1>0, <1>8 DEF RegisterNode, Unrouted, NoLeakedPort
  <1>9. ASSUME NEW n \in Nodes, DeleteNode(n) PROVE Unrouted' /\ NoLeakedPort'
    <2>1. Unrouted'
      BY <1>0, <1>9 DEF DeleteNode, Unrouted
    <2>2. \A x \in Rows : holder'[x] # Free => holder'[x] = holder[x] /\ x[1] # n
      BY <1>9 DEF DeleteNode
    <2>3. UNCHANGED routes /\ seeded' = seeded \ {n}
      BY <1>9 DEF DeleteNode
    <2>4. \A x \in Rows : holder'[x] # Free => routes'[holder'[x]] = x[2] /\ x[1] \in seeded'
      BY <1>0, <2>2, <2>3 DEF NoLeakedPort
    <2>5. \A x \in Rows, y \in Rows : holder'[x] # Free /\ holder'[x] = holder'[y] => x = y
      BY <1>0, <2>2 DEF NoLeakedPort
    <2>. QED  BY <2>1, <2>4, <2>5 DEF NoLeakedPort
  <1>10. ASSUME UNCHANGED vars PROVE Unrouted' /\ NoLeakedPort'
    BY <1>0, <1>10 DEF vars, Unrouted, NoLeakedPort
  <1>11. ASSUME AdminStep PROVE Unrouted' /\ NoLeakedPort'
    BY <1>11, <1>6, <1>7, <1>8, <1>9 DEF AdminStep, DeleteUser, DeleteDevice, Reconcile
  <1>12. ASSUME NEW t \in Tunnels, TunnelStep(t) PROVE Unrouted' /\ NoLeakedPort'
    BY <1>12, <1>1, <1>2, <1>3, <1>4, <1>5, <1>6 DEF TunnelStep, DeleteTunnel
  <1>. QED  BY <1>0, <1>10, <1>11, <1>12 DEF Next, LeakInv

\* Hence they always are.
LEMMA LeakInvariant == Spec => []LeakInv
  <1>1. Init => LeakInv
    BY DEF Init, LeakInv, TypeOK, Unrouted, NoLeakedPort, Claims
  <1>. QED  BY <1>1, LeakStep, PTL DEF Spec

\* A held row of the pool is always one that its route is served on, whatever
\* reservations, edits, moves, deletions and sweeps ran before.
THEOREM NoPortLeaks == Spec => []NoLeakedPort
  <1>1. LeakInv => NoLeakedPort
    BY DEF LeakInv
  <1>. QED  BY <1>1, LeakInvariant, PTL

-----------------------------------------------------------------------------
(* Exclusive ports of settled tunnels.                                     *)

\* A tunnel is served by a node for which its agents hold a token.
Homed == \A t \in Tunnels : Live(t) => node[t] \in homes[t]

\* A route of a settled tunnel that has a dedicated port holds the row of that
\* port on the tunnel's only node.
OwnRow ==
    \A c \in Claims, n \in Nodes \ Removable :
        homes[c[1]] = {n} /\ routes[c] \in Ports => holder[<<n, routes[c]>>] = c

SettledInv == TypeOK /\ Unrouted /\ Homed /\ OwnRow

\* After a transaction that frees only what it drops, a route has its row: a
\* new one on the node it claimed from, a kept one where it was.
LEMMA TxOwnRow ==
    ASSUME TypeOK, NEW C, NEW n, NEW f, NEW shared, NEW dropped,
           Commit(f, C, n, dropped, shared, dropped),
           NEW c \in Claims, routes'[c] \in Ports
    PROVE  \/ c \in C /\ holder'[<<n, routes'[c]>>] = c
           \/ /\ c \notin C /\ routes'[c] = routes[c]
              /\ \A m \in Nodes : holder[<<m, routes[c]>>] = c => holder'[<<m, routes[c]>>] = c
  <1>0. Assigns(f, C, n, dropped)
    BY DEF Commit
  <1>1. /\ c \in C => routes'[c] = f[c]
        /\ c \notin C => c \notin dropped /\ routes'[c] = routes[c]
    BY <1>0, StoredValue, MarksAssumption DEF Commit
  <1>2. CASE c \in C
    <2>1. Row(f, n, c) \in Rows
      BY <1>0, <1>2, AssignsFacts
    <2>2. holder'[Row(f, n, c)] = c
      BY <1>0, <1>2, <2>1, ClaimedValue DEF Commit
    <2>. QED  BY <1>1, <1>2, <2>2 DEF Row
  <1>3. CASE c \notin C
    <2>1. c \notin dropped /\ routes'[c] = routes[c] /\ c # Free
      BY <1>1, <1>3, MarksAssumption DEF Claims
    <2>2. \A x \in Rows : holder[x] # Free /\ holder[x] \notin dropped => holder'[x] = holder[x]
      BY <1>0, ClaimedValue DEF Commit
    <2>3. \A m \in Nodes : <<m, routes[c]>> \in Rows
      BY <2>1 DEF Rows
    <2>. QED  BY <1>3, <2>1, <2>2, <2>3
  <1>. QED  BY <1>2, <1>3

\* Deleting and parking tunnels leaves the rows of the others alone.
LEMMA ReleaseOwnRow ==
    ASSUME TypeOK, OwnRow, NEW S \in SUBSET Tunnels, Release(S),
           \A t \in Tunnels \ S : homes'[t] = homes[t]
    PROVE  OwnRow'
  <1> SUFFICES ASSUME NEW c \in Claims, NEW n \in Nodes \ Removable,
                      homes'[c[1]] = {n}, routes'[c] \in Ports
               PROVE  holder'[<<n, routes'[c]>>] = c
    BY DEF OwnRow
  <1>1. c[1] \in Tunnels \ S /\ routes'[c] = routes[c] /\ c \notin S \X RouteKeys
    BY MarksAssumption DEF Release, Claims
  <1>2. holder[<<n, routes[c]>>] = c
    BY <1>1 DEF OwnRow
  <1>3. <<n, routes[c]>> \in Rows
    BY <1>1 DEF Rows
  <1>. QED  BY <1>1, <1>2, <1>3 DEF Release

\* Every step leaves live tunnels on one of their nodes.
LEMMA HomedStep == TypeOK /\ Homed /\ [Next]_vars => Homed'
  <1> SUFFICES ASSUME TypeOK, Homed, [Next]_vars PROVE Homed'
    OBVIOUS
  <1>1. ASSUME NEW t \in Tunnels, NEW m \in Machines, NEW n \in Nodes,
               NEW req \in Requests, Reserve(t, m, n, req)
        PROVE  Homed'
    BY <1>1 DEF Reserve, Homed, TypeOK, Live
  <1>2. ASSUME NEW t \in Tunnels, NEW n \in Nodes, Migrate(t, n) PROVE Homed'
    BY <1>2 DEF Migrate, Homed, TypeOK, Live
  <1>3. ASSUME NEW t \in Tunnels, NEW n \in Nodes, TunnelUp(t, n) PROVE Homed'
    BY <1>3 DEF TunnelUp, Homed, TypeOK, Live
  <1>4. ASSUME NEW t \in Tunnels, TunnelDown(t) \/ StopTunnel(t) \/ StartTunnel(t) PROVE Homed'
    BY <1>4 DEF TunnelDown, StopTunnel, StartTunnel, SetStatus, Homed, TypeOK, Live, Statuses
  <1>5. ASSUME NEW S \in SUBSET Tunnels, Delete(S) PROVE Homed'
    BY <1>5 DEF Delete, Homed, TypeOK, Live, Statuses
  <1>6. ASSUME UNCHANGED <<status, node, homes>> PROVE Homed'
    BY <1>6 DEF Homed, Live
  <1>7. ASSUME AdminStep PROVE Homed'
    BY <1>5, <1>6, <1>7
    DEF AdminStep, DeleteUser, DeleteDevice, Reconcile, ExpireIdle, RegisterNode, DeleteNode
  <1>8. ASSUME NEW t \in Tunnels, TunnelStep(t) PROVE Homed'
    BY <1>1, <1>2, <1>3, <1>4, <1>5, <1>6, <1>8 DEF TunnelStep, DeleteTunnel, SetServiceRoutes
  <1>. QED  BY <1>6, <1>7, <1>8 DEF Next, vars

\* A tunnel that was moved is on two nodes from then on, and every transaction
\* leaves each dedicated route of a settled tunnel with its own row.
LEMMA OwnRowStep ==
    ASSUME SettledInv, [Next]_vars
    PROVE  OwnRow'
  <1>0. TypeOK /\ Unrouted /\ Homed /\ OwnRow
    BY DEF SettledInv
  <1>1. ASSUME NEW t \in Tunnels, NEW m \in Machines, NEW n \in Nodes,
               NEW req \in Requests \ {{}}, Reserve(t, m, n, req)
        PROVE  OwnRow'
    <2> DEFINE C == ReserveClaims(t, req)
               shared == ClaimsOf(t, req)
    <2>1. \A c \in C : c[1] = t
      BY <1>1, ReserveCommits
    <2>2. PICK f : Commit(f, C, n, {}, shared, {})
      BY <1>1, ReserveCommits
    <2> HIDE DEF C, shared
    <2>3. homes' = [homes EXCEPT ![t] = {n}] /\ ~Live(t)
      BY <1>1 DEF Reserve, Live, Statuses
    <2> SUFFICES ASSUME NEW c \in Claims, NEW l \in Nodes \ Removable,
                        homes'[c[1]] = {l}, routes'[c] \in Ports
                 PROVE  holder'[<<l, routes'[c]>>] = c
      BY DEF OwnRow
    <2>4. c[1] \in Tunnels /\ c = <<c[1], c[2]>> /\ c[2] \in RouteKeys
      BY DEF Claims
    <2>5. CASE c \in C /\ holder'[<<n, routes'[c]>>] = c
      BY <1>0, <2>1, <2>3, <2>5 DEF TypeOK
    <2>6. CASE /\ routes'[c] = routes[c]
               /\ \A k \in Nodes : holder[<<k, routes[c]>>] = c => holder'[<<k, routes[c]>>] = c
      <3>1. c[1] # t
        BY <1>0, <2>3, <2>4, <2>6, MarksAssumption DEF Unrouted
      <3>2. homes'[c[1]] = homes[c[1]]
        BY <1>0, <2>3, <2>4, <3>1 DEF TypeOK
      <3>. QED  BY <1>0, <2>6, <3>2 DEF OwnRow
    <2>. QED  BY <1>0, <2>1, <2>2, <2>5, <2>6, TxOwnRow
  <1>2. ASSUME NEW t \in Tunnels, NEW n \in Nodes, NEW req \in Requests, SetServiceRoutes(t, n, req)
        PROVE  OwnRow'
    <2> DEFINE C == AddedClaims(t, req)
               added == Added(t, req)
               dropped == Dropped(t, req)
    <2>1. \A c \in C : c[1] = t
      BY <1>2, SetServiceRoutesCommits
    <2>2. PICK f : Commit(f, C, n, dropped, added, dropped)
      BY <1>2, SetServiceRoutesCommits
    <2> HIDE DEF C, added, dropped
    <2>3. n \in homes[t] /\ UNCHANGED homes
      BY <1>2 DEF SetServiceRoutes
    <2> SUFFICES ASSUME NEW c \in Claims, NEW l \in Nodes \ Removable,
                        homes[c[1]] = {l}, routes'[c] \in Ports
                 PROVE  holder'[<<l, routes'[c]>>] = c
      BY <2>3 DEF OwnRow
    <2>4. CASE c \in C /\ holder'[<<n, routes'[c]>>] = c
      BY <2>1, <2>3, <2>4
    <2>5. CASE /\ routes'[c] = routes[c]
               /\ \A k \in Nodes : holder[<<k, routes[c]>>] = c => holder'[<<k, routes[c]>>] = c
      BY <1>0, <2>5 DEF OwnRow
    <2>. QED  BY <1>0, <2>1, <2>2, <2>4, <2>5, TxOwnRow
  <1>3. ASSUME NEW t \in Tunnels, NEW n \in Nodes, Migrate(t, n) PROVE OwnRow'
    <2> DEFINE C == Moved(t)
               held == Held(t)
    <2>1. C \subseteq held /\ \A c \in C : c[1] = t
      BY <1>3, MigrateCommits
    <2>2. PICK f : Commit(f, C, n, held, {}, {})
      BY <1>3, MigrateCommits
    <2>3. \A c \in Claims : c \in held => c[1] = t
      BY DEF Held, ClaimsOf
    <2>4. Assigns(f, C, n, held)
      BY <2>2 DEF Commit
    <2> HIDE DEF C, held
    <2>5. homes' = [homes EXCEPT ![t] = @ \cup {n}] /\ homes[t] # {n} /\ homes[t] # {}
      BY <1>0, <1>3 DEF Migrate, Homed
    <2> SUFFICES ASSUME NEW c \in Claims, NEW l \in Nodes \ Removable,
                        homes'[c[1]] = {l}, routes'[c] \in Ports
                 PROVE  holder'[<<l, routes'[c]>>] = c
      BY DEF OwnRow
    <2>6. c[1] \in Tunnels
      BY DEF Claims
    <2>7. c[1] # t
      BY <1>0, <2>5, <2>6 DEF TypeOK
    <2>8. homes[c[1]] = {l} /\ routes'[c] = routes[c]
      BY <1>0, <2>1, <2>2, <2>4, <2>5, <2>6, <2>7, StoredValue DEF TypeOK, Commit
    <2>9. holder[<<l, routes[c]>>] = c /\ <<l, routes[c]>> \in Rows
      BY <1>0, <2>8 DEF OwnRow, Rows
    <2>10. c \notin held /\ c # Free
      BY <2>3, <2>7, MarksAssumption DEF Claims
    <2>. QED  BY <2>2, <2>4, <2>8, <2>9, <2>10, ClaimedValue DEF Commit
  <1>4. ASSUME NEW S \in SUBSET Tunnels, Delete(S) PROVE OwnRow'
    <2>1. \A t \in Tunnels \ S : homes'[t] = homes[t]
      BY <1>0, <1>4 DEF Delete, TypeOK
    <2>. QED  BY <1>0, <1>4, <2>1, ReleaseOwnRow DEF Delete
  <1>5. ASSUME NEW S \in SUBSET Tunnels, ExpireIdle(S) PROVE OwnRow'
    BY <1>0, <1>5, ReleaseOwnRow DEF ExpireIdle
  <1>6. ASSUME NEW n \in Nodes, DeleteNode(n) PROVE OwnRow'
    <2> SUFFICES ASSUME NEW c \in Claims, NEW l \in Nodes \ Removable,
                        homes[c[1]] = {l}, routes[c] \in Ports
                 PROVE  holder'[<<l, routes[c]>>] = c
      BY <1>6 DEF OwnRow, DeleteNode
    <2>1. holder[<<l, routes[c]>>] = c /\ <<l, routes[c]>> \in Rows /\ l # n
      BY <1>0, <1>6 DEF OwnRow, Rows, DeleteNode
    <2>. QED  BY <1>6, <2>1 DEF DeleteNode
  <1>7. ASSUME UNCHANGED <<homes, routes, holder>> PROVE OwnRow'
    BY <1>0, <1>7 DEF OwnRow
  <1>8. ASSUME AdminStep PROVE OwnRow'
    BY <1>8, <1>4, <1>5, <1>6, <1>7 DEF AdminStep, DeleteUser, DeleteDevice, Reconcile, RegisterNode
  <1>9. ASSUME NEW t \in Tunnels, TunnelStep(t) PROVE OwnRow'
    BY <1>9, <1>1, <1>2, <1>3, <1>4, <1>7
    DEF TunnelStep, DeleteTunnel, TunnelUp, TunnelDown, StopTunnel, StartTunnel, SetStatus
  <1>. QED  BY <1>7, <1>8, <1>9 DEF Next, vars

\* Each of two such routes holds its row, and a row has one holder.
LEMMA SettledExclusive ==
    ASSUME SettledInv
    PROVE  ExclusivePorts
  <1> SUFFICES ASSUME NEW c \in Claims, NEW d \in Claims, c # d,
                      Settled(c[1]), Settled(d[1]), routes[c] \in Ports,
                      routes[c] = routes[d], node[c[1]] = node[d[1]]
               PROVE  FALSE
    BY DEF ExclusivePorts
  <1>1. /\ c[1] \in Tunnels /\ c = <<c[1], c[2]>> /\ c[2] \in RouteKeys
        /\ d[1] \in Tunnels /\ d = <<d[1], d[2]>> /\ d[2] \in RouteKeys
    BY DEF Claims
  <1>2. Live(c[1]) /\ Live(d[1])
    BY <1>1, MarksAssumption DEF SettledInv, Unrouted
  <1>3. PICK n \in Nodes \ Removable : homes[c[1]] = {n}
    BY DEF Settled
  <1>4. homes[d[1]] = {n}
    BY <1>1, <1>2, <1>3 DEF Settled, SettledInv, Homed
  <1>5. holder[<<n, routes[c]>>] = c /\ holder[<<n, routes[d]>>] = d
    BY <1>3, <1>4 DEF SettledInv, OwnRow
  <1>. QED  BY <1>5

\* Two routes of tunnels that were never moved never have the same public port
\* of a node, whatever happens to other tunnels and nodes.
THEOREM Exclusive == Spec => []ExclusivePorts
  <1>1. Init /\ LeakInv => SettledInv
    <2>1. ASSUME Init PROVE Homed
      BY <2>1 DEF Init, Homed, Live, Statuses
    <2>2. ASSUME Init PROVE OwnRow
      BY <2>2 DEF Init, OwnRow, Claims
    <2>. QED  BY <2>1, <2>2 DEF SettledInv, LeakInv
  <1>2. SettledInv /\ LeakInv' /\ [Next]_vars => SettledInv'
    BY HomedStep, OwnRowStep DEF SettledInv, LeakInv
  <1>3. SettledInv => ExclusivePorts
    BY SettledExclusive
  <1>. QED  BY <1>1, <1>2, <1>3, LeakInvariant, PTL DEF Spec

-----------------------------------------------------------------------------
(* Signatures and kept ports.                                              *)

\* Which routes there are after a transaction.
LEMMA TxRoutes ==
    ASSUME TypeOK, NEW C, NEW S, NEW n, NEW f, NEW shared, NEW dropped,
           Commit(f, C, n, S, shared, dropped), NEW c \in Claims
    PROVE  routes'[c] # NoRoute <=>
              c \in C \/ c \in shared \/ (c \notin dropped /\ routes[c] # NoRoute)
  <1>1. Assigns(f, C, n, S)
    BY DEF Commit
  <1>2. \A d \in C : f[d] \in Ports
    BY <1>1, AssignsFacts
  <1>. QED  BY <1>1, <1>2, StoredValue, MarksAssumption DEF Commit

\* A tunnel's routes follow its signature, one tunnel at a time.
LEMMA SigOf ==
    ASSUME TypeOK, SigMatchesRoutes, NEW t \in Tunnels, NEW req \in SUBSET RouteKeys,
           sig' = [sig EXCEPT ![t] = req],
           \A c \in Claims : c[1] # t => routes'[c] = routes[c],
           \A k \in RouteKeys : routes'[<<t, k>>] # NoRoute <=> k \in req
    PROVE  SigMatchesRoutes'
  <1> SUFFICES ASSUME NEW u \in Tunnels PROVE sig'[u] = RoutesOf(u)'
    BY DEF SigMatchesRoutes
  <1>1. CASE u = t
    BY <1>1 DEF TypeOK, RoutesOf
  <1>2. CASE u # t
    <2>1. \A k \in RouteKeys : routes'[<<u, k>>] = routes[<<u, k>>]
      BY <1>2 DEF Claims
    <2>. QED  BY <1>2, <2>1 DEF TypeOK, RoutesOf, SigMatchesRoutes
  <1>. QED  BY <1>1, <1>2

\* Parked and deleted tunnels have neither.
LEMMA ReleaseSig ==
    ASSUME TypeOK, SigMatchesRoutes, NEW S \in SUBSET Tunnels, Release(S)
    PROVE  SigMatchesRoutes'
  <1> SUFFICES ASSUME NEW u \in Tunnels PROVE sig'[u] = RoutesOf(u)'
    BY DEF SigMatchesRoutes
  <1>1. \A k \in RouteKeys : <<u, k>> \in Claims /\ <<u, k>>[1] = u
    BY DEF Claims
  <1>2. CASE u \in S
    BY <1>1, <1>2 DEF Release, RoutesOf
  <1>3. CASE u \notin S
    BY <1>1, <1>3 DEF Release, RoutesOf, SigMatchesRoutes
  <1>. QED  BY <1>2, <1>3

\* Every transaction writes both, or neither.
LEMMA SigStep ==
    ASSUME LeakInv, SigMatchesRoutes, [Next]_vars
    PROVE  SigMatchesRoutes'
  <1>0. TypeOK /\ Unrouted
    BY DEF LeakInv
  <1>1. ASSUME NEW t \in Tunnels, NEW m \in Machines, NEW n \in Nodes,
               NEW req \in Requests \ {{}}, Reserve(t, m, n, req)
        PROVE  SigMatchesRoutes'
    <2> DEFINE C == ReserveClaims(t, req)
               shared == ClaimsOf(t, req)
    <2>1. C \subseteq shared /\ \A c \in shared : c[1] = t
      BY <1>1, ReserveCommits
    <2>2. PICK f : Commit(f, C, n, {}, shared, {})
      BY <1>1, ReserveCommits
    <2>3. \A k \in RouteKeys : /\ <<t, k>> \in Claims /\ routes[<<t, k>>] = NoRoute
                               /\ <<t, k>> \in shared <=> k \in req
      BY <1>0, <1>1 DEF Unrouted, Reserve, Live, Statuses, Claims, ClaimsOf
    <2> HIDE DEF C, shared
    <2>4. \A k \in RouteKeys : routes'[<<t, k>>] # NoRoute <=> k \in req
      BY <1>0, <2>1, <2>2, <2>3, TxRoutes
    <2>5. \A c \in Claims : c[1] # t => routes'[c] = routes[c]
      BY <1>0, <2>1, <2>2, StoredValue DEF Commit
    <2>. QED  BY <1>0, <1>1, <2>4, <2>5, SigOf, RequestsAssumption DEF Reserve
  <1>2. ASSUME NEW t \in Tunnels, NEW n \in Nodes, NEW req \in Requests, SetServiceRoutes(t, n, req)
        PROVE  SigMatchesRoutes'
    <2> DEFINE C == AddedClaims(t, req)
               added == Added(t, req)
               dropped == Dropped(t, req)
    <2>1. /\ C \subseteq added /\ \A c \in added : c[1] = t
          /\ \A c \in dropped : c[1] = t
      BY <1>2, SetServiceRoutesCommits
    <2>2. PICK f : Commit(f, C, n, dropped, added, dropped)
      BY <1>2, SetServiceRoutesCommits
    <2>3. \A k \in RouteKeys : /\ <<t, k>> \in Claims
                               /\ <<t, k>> \in added <=> k \in req /\ routes[<<t, k>>] = NoRoute
                               /\ <<t, k>> \in dropped <=> k \notin req /\ routes[<<t, k>>] # NoRoute
      BY DEF Claims, ClaimsOf, Added, Dropped, RoutesOf
    <2> HIDE DEF C, added, dropped
    <2>4. \A k \in RouteKeys : routes'[<<t, k>>] # NoRoute <=> k \in req
      BY <1>0, <2>1, <2>2, <2>3, TxRoutes
    <2>5. \A c \in Claims : c[1] # t => routes'[c] = routes[c]
      BY <1>0, <2>1, <2>2, StoredValue DEF Commit
    <2>. QED  BY <1>0, <1>2, <2>4, <2>5, SigOf, RequestsAssumption DEF SetServiceRoutes
  <1>3. ASSUME NEW t \in Tunnels, NEW n \in Nodes, Migrate(t, n) PROVE SigMatchesRoutes'
    <2> DEFINE C == Moved(t)
               held == Held(t)
    <2>1. PICK f : Commit(f, C, n, held, {}, {})
      BY <1>3, MigrateCommits
    <2>2. \A c \in C : routes[c] # NoRoute
      BY DEF Moved, ClaimsOf, RoutesOf
    <2> HIDE DEF C, held
    <2>3. \A c \in Claims : routes'[c] # NoRoute <=> routes[c] # NoRoute
      BY <1>0, <2>1, <2>2, TxRoutes
    <2>4. UNCHANGED sig /\ \A u \in Tunnels, k \in RouteKeys : <<u, k>> \in Claims
      BY <1>3 DEF Migrate, Claims
    <2>. QED  BY <2>3, <2>4 DEF SigMatchesRoutes, RoutesOf
  <1>4. ASSUME NEW S \in SUBSET Tunnels, Delete(S) \/ ExpireIdle(S) PROVE SigMatchesRoutes'
    BY <1>0, <1>4, ReleaseSig DEF Delete, ExpireIdle
  <1>5. ASSUME UNCHANGED <<sig, routes>> PROVE SigMatchesRoutes'
    BY <1>5 DEF SigMatchesRoutes, RoutesOf
  <1>6. ASSUME AdminStep PROVE SigMatchesRoutes'
    BY <1>6, <1>4, <1>5
    DEF AdminStep, DeleteUser, DeleteDevice, Reconcile, RegisterNode, DeleteNode
  <1>7. ASSUME NEW t \in Tunnels, TunnelStep(t) PROVE SigMatchesRoutes'
    BY <1>7, <1>1, <1>2, <1>3, <1>4, <1>5
    DEF TunnelStep, DeleteTunnel, TunnelUp, TunnelDown, StopTunnel, StartTunnel, SetStatus
  <1>. QED  BY <1>5, <1>6, <1>7 DEF Next, vars

\* Whatever runs, a tunnel that is found by its signature has those routes.
THEOREM SigTrue == Spec => []SigMatchesRoutes
  <1>1. Init => SigMatchesRoutes
    BY DEF Init, SigMatchesRoutes, RoutesOf, Claims
  <1>. QED  BY <1>1, SigStep, LeakInvariant, PTL DEF Spec

\* What a step does to the port of a route that it does not add.
PortStep(c) ==
    routes[c] # NoRoute /\ routes'[c] \notin {NoRoute, routes[c]} =>
        \E n \in Nodes : Migrate(c[1], n)

\* A route keeps its port.
THEOREM PortsKeptAlways == Spec => PortsKept
  <1>1. ASSUME LeakInv, [Next]_vars, NEW c \in Claims PROVE PortStep(c)
    <2>0. TypeOK /\ Unrouted /\ c[1] \in Tunnels /\ c[2] \in RouteKeys /\ c = <<c[1], c[2]>>
      BY <1>1 DEF LeakInv, Claims
    <2>1. ASSUME NEW t \in Tunnels, NEW m \in Machines, NEW n \in Nodes,
                 NEW req \in Requests \ {{}}, Reserve(t, m, n, req)
          PROVE  PortStep(c)
      <3>1. c[1] = t => routes[c] = NoRoute
        BY <2>0, <2>1 DEF Unrouted, Reserve, Live, Statuses
      <3>2. c[1] # t => routes'[c] = routes[c]
        BY <2>0, <2>1, ReserveCommits, StoredValue DEF Commit
      <3>. QED  BY <3>1, <3>2 DEF PortStep
    <2>2. ASSUME NEW t \in Tunnels, NEW n \in Nodes, NEW req \in Requests,
                 SetServiceRoutes(t, n, req)
          PROVE  PortStep(c)
      <3> DEFINE C == AddedClaims(t, req)
                 added == Added(t, req)
                 dropped == Dropped(t, req)
      <3>1. C \subseteq added /\ \A d \in added : routes[d] = NoRoute
        BY <2>2, SetServiceRoutesCommits
      <3>2. PICK f : Commit(f, C, n, dropped, added, dropped)
        BY <2>2, SetServiceRoutesCommits
      <3> HIDE DEF C, added, dropped
      <3>. QED  BY <2>0, <3>1, <3>2, StoredValue DEF Commit, PortStep
    <2>3. ASSUME NEW t \in Tunnels, NEW n \in Nodes, Migrate(t, n) PROVE PortStep(c)
      <3> DEFINE C == Moved(t)
      <3>1. \A d \in C : d[1] = t
        BY <2>3, MigrateCommits
      <3>2. PICK f : Commit(f, C, n, Held(t), {}, {})
        BY <2>3, MigrateCommits
      <3> HIDE DEF C
      <3>3. c[1] # t => routes'[c] = routes[c]
        BY <2>0, <3>1, <3>2, StoredValue DEF Commit
      <3>. QED  BY <2>3, <3>3 DEF PortStep
    <2>4. ASSUME NEW S \in SUBSET Tunnels, Delete(S) \/ ExpireIdle(S) PROVE PortStep(c)
      BY <2>4 DEF Delete, ExpireIdle, Release, PortStep
    <2>5. ASSUME UNCHANGED routes PROVE PortStep(c)
      BY <2>5 DEF PortStep
    <2>6. ASSUME AdminStep PROVE PortStep(c)
      BY <2>6, <2>4, <2>5
      DEF AdminStep, DeleteUser, DeleteDevice, Reconcile, RegisterNode, DeleteNode
    <2>7. ASSUME NEW t \in Tunnels, TunnelStep(t) PROVE PortStep(c)
      BY <2>7, <2>1, <2>2, <2>3, <2>4, <2>5
      DEF TunnelStep, DeleteTunnel, TunnelUp, TunnelDown, StopTunnel, StartTunnel, SetStatus
    <2>. QED  BY <1>1, <2>5, <2>6, <2>7 DEF Next, vars
  <1>2. LeakInv /\ [Next]_vars => [\A c \in Claims : PortStep(c)]_vars
    BY <1>1
  <1>3. [\A c \in Claims : PortStep(c)]_vars <=>
           [\A c \in Claims :
              routes[c] # NoRoute /\ routes'[c] \notin {NoRoute, routes[c]}
              => \E n \in Nodes : Migrate(c[1], n)]_vars
    BY DEF PortStep
  <1>. QED  BY <1>2, <1>3, LeakInvariant, PTL DEF Spec, PortsKept

\* The part of BackedUntilRemoved for one route.
KeepsRow(c) ==
    c[2].kind \in {"tcp", "udp"} /\ routes'[c] \in Ports /\ ~HoldsRow(c)'
    => /\ routes'[c] = routes[c]
       /\ HoldsRow(c) => \E n \in Nodes : DeleteNode(n)

\* A route that claims has its row, and one whose row is not freed keeps it.
LEMMA TxHolds ==
    ASSUME TypeOK, NEW C, NEW S, NEW n, NEW f, NEW shared, NEW dropped,
           Commit(f, C, n, S, shared, dropped),
           NEW c \in Claims, routes'[c] \in Ports, c \in C \/ c \notin S
    PROVE  HoldsRow(c)' \/ (routes'[c] = routes[c] /\ ~HoldsRow(c))
  <1>1. Assigns(f, C, n, S) /\ n \in Nodes /\ holder' = Claimed(f, n, S)
    BY AssignsFacts DEF Commit
  <1>2. CASE c \in C
    <2>1. Row(f, n, c) \in Rows
      BY <1>1, <1>2, AssignsFacts
    <2>2. routes'[c] = f[c]
      BY <1>1, <1>2, StoredValue DEF Commit
    <2>3. holder'[<<n, routes'[c]>>] = c
      BY <1>1, <1>2, <2>1, <2>2, ClaimedValue DEF Row
    <2>. QED  BY <1>1, <2>3 DEF HoldsRow
  <1>3. CASE c \notin C
    <2>1. routes'[c] = routes[c]
      BY <1>1, <1>3, StoredValue, MarksAssumption DEF Commit
    <2>2. ASSUME NEW m \in Nodes, holder[<<m, routes[c]>>] = c PROVE HoldsRow(c)'
      <3>1. <<m, routes[c]>> \in Rows /\ c # Free
        BY <2>1, MarksAssumption DEF Rows, Claims
      <3>2. holder'[<<m, routes'[c]>>] = c
        BY <1>1, <1>3, <2>1, <2>2, <3>1, ClaimedValue
      <3>. QED  BY <3>2 DEF HoldsRow
    <2>. QED  BY <2>1, <2>2 DEF HoldsRow
  <1>. QED  BY <1>2, <1>3

\* Only the removal of a node takes its row from a tcp or udp route that has one.
THEOREM BackedAlways == Spec => BackedUntilRemoved
  <1>1. ASSUME LeakInv, [Next]_vars, NEW c \in Claims PROVE KeepsRow(c)
    <2>0. TypeOK /\ Unrouted /\ c[1] \in Tunnels /\ c[2] \in RouteKeys /\ c = <<c[1], c[2]>>
      BY <1>1 DEF LeakInv, Claims
    <2>1. ASSUME NEW t \in Tunnels, NEW m \in Machines, NEW n \in Nodes,
                 NEW req \in Requests \ {{}}, Reserve(t, m, n, req)
          PROVE  KeepsRow(c)
      <3>1. PICK f : Commit(f, ReserveClaims(t, req), n, {}, ClaimsOf(t, req), {})
        BY <2>1, ReserveCommits
      <3>. QED  BY <2>0, <3>1, TxHolds DEF KeepsRow
    <2>2. ASSUME NEW t \in Tunnels, NEW n \in Nodes, NEW req \in Requests,
                 SetServiceRoutes(t, n, req)
          PROVE  KeepsRow(c)
      <3> DEFINE C == AddedClaims(t, req)
                 added == Added(t, req)
                 dropped == Dropped(t, req)
      <3>1. PICK f : Commit(f, C, n, dropped, added, dropped)
        BY <2>2, SetServiceRoutesCommits
      <3> HIDE DEF C, added, dropped
      <3>2. c \in C \/ c \notin dropped \/ routes'[c] \in {Shared, NoRoute}
        BY <2>0, <3>1, StoredValue DEF Commit
      <3>. QED  BY <2>0, <3>1, <3>2, TxHolds, MarksAssumption DEF KeepsRow
    <2>3. ASSUME NEW t \in Tunnels, NEW n \in Nodes, Migrate(t, n) PROVE KeepsRow(c)
      <3> DEFINE C == Moved(t)
                 held == Held(t)
      <3>1. PICK f : Commit(f, C, n, held, {}, {})
        BY <2>3, MigrateCommits
      <3>2. c[1] = t /\ routes[c] # NoRoute /\ c[2].kind \in {"tcp", "udp"} => c \in C
        BY <2>0 DEF Moved, ClaimsOf, RoutesOf
      <3>3. c[1] # t => c \notin held
        BY DEF Held, ClaimsOf
      <3> HIDE DEF C, held
      <3>4. c \in C \/ routes'[c] = routes[c]
        BY <2>0, <3>1, StoredValue DEF Commit
      <3>. QED  BY <2>0, <3>1, <3>2, <3>3, <3>4, TxHolds, MarksAssumption DEF KeepsRow
    <2>4. ASSUME NEW S \in SUBSET Tunnels, Delete(S) \/ ExpireIdle(S) PROVE KeepsRow(c)
      <3>1. /\ routes' = [d \in Claims |-> IF d[1] \in S THEN NoRoute ELSE routes[d]]
            /\ holder' = [x \in Rows |-> IF holder[x] \in S \X RouteKeys THEN Free ELSE holder[x]]
        BY <2>4 DEF Delete, ExpireIdle, Release
      <3>2. ASSUME routes'[c] \in Ports
            PROVE  /\ routes'[c] = routes[c]
                   /\ \A m \in Nodes : holder[<<m, routes[c]>>] = c => holder'[<<m, routes[c]>>] = c
        <4>1. c[1] \notin S /\ routes'[c] = routes[c]
          BY <3>1, <3>2, MarksAssumption
        <4>2. c \notin S \X RouteKeys /\ \A m \in Nodes : <<m, routes[c]>> \in Rows
          BY <2>0, <3>2, <4>1 DEF Rows
        <4>. QED  BY <3>1, <4>1, <4>2
      <3>. QED  BY <3>2 DEF KeepsRow, HoldsRow
    <2>5. ASSUME UNCHANGED <<routes, holder>> PROVE KeepsRow(c)
      BY <2>5 DEF KeepsRow, HoldsRow
    <2>6. ASSUME NEW n \in Nodes, DeleteNode(n) PROVE KeepsRow(c)
      <3>1. UNCHANGED routes
        BY <2>6 DEF DeleteNode
      <3>. QED  BY <2>6, <3>1 DEF KeepsRow
    <2>7. ASSUME AdminStep PROVE KeepsRow(c)
      BY <2>7, <2>4, <2>5, <2>6
      DEF AdminStep, DeleteUser, DeleteDevice, Reconcile, RegisterNode
    <2>8. ASSUME NEW t \in Tunnels, TunnelStep(t) PROVE KeepsRow(c)
      BY <2>8, <2>1, <2>2, <2>3, <2>4, <2>5
      DEF TunnelStep, DeleteTunnel, TunnelUp, TunnelDown, StopTunnel, StartTunnel, SetStatus
    <2>. QED  BY <1>1, <2>5, <2>7, <2>8 DEF Next, vars
  <1>2. LeakInv /\ [Next]_vars => [\A c \in Claims : KeepsRow(c)]_vars
    BY <1>1
  <1>3. [\A c \in Claims : KeepsRow(c)]_vars <=>
           [\A c \in Claims :
              c[2].kind \in {"tcp", "udp"} /\ routes'[c] \in Ports /\ ~HoldsRow(c)'
              => /\ routes'[c] = routes[c]
                 /\ HoldsRow(c) => \E n \in Nodes : DeleteNode(n)]_vars
    BY DEF KeepsRow
  <1>. QED  BY <1>2, <1>3, LeakInvariant, PTL DEF Spec, BackedUntilRemoved

-----------------------------------------------------------------------------
(* The statements of a transaction.                                        *)

\* What a transaction is about; it is settled when it begins.
Task(r) == <<r.kind, r.tun, r.mach, r.to, r.req, r.seen>>

\* The transaction of x becomes r and the others stay as they were.
LEMMA BecomesFacts ==
    ASSUME TxTypeOK, NEW x \in Txs, NEW r \in Records, Becomes(x, r)
    PROVE  /\ tx'[x] = r /\ tx[x] \in Records /\ tx' \in [Txs -> Records]
           /\ \A y \in Txs : y # x => tx'[y] = tx[y]
  BY DEF TxTypeOK, Becomes

LEMMA IdleType == Idle \in Records
  BY DEF Idle, Records

LEMMA StartFreeFacts ==
    ASSUME TxTypeOK, NEW x \in Txs, NEW keys \in SUBSET RouteKeys, StartFree(x, keys)
    PROVE  /\ tx' \in [Txs -> Records] /\ UNCHANGED vars
           /\ \A y \in Txs : y # x => tx'[y] = tx[y]
           /\ tx'[x].at = "freeing" /\ tx'[x].keys = keys
           /\ tx'[x].look = {row \in Rows : holder[row] \in ClaimsOf(tx[x].tun, keys)}
           /\ Task(tx'[x]) = Task(tx[x]) /\ tx'[x].alone = tx[x].alone /\ tx'[x].apart = tx[x].apart
           /\ tx'[x].done = tx[x].done /\ tx'[x].freed = tx[x].freed
           /\ tx'[x].got = tx[x].got /\ tx'[x].put = tx[x].put
  <1> DEFINE rows == {row \in Rows : holder[row] \in ClaimsOf(tx[x].tun, keys)}
             r == [tx[x] EXCEPT !.at = "freeing", !.keys = keys, !.look = rows]
  <1>1. tx[x] \in Records /\ rows \in SUBSET Rows
    BY DEF TxTypeOK
  <1>2. Becomes(x, r) /\ UNCHANGED vars
    BY DEF StartFree
  <1> HIDE DEF rows
  <1>3. /\ r \in Records /\ r.at = "freeing" /\ r.keys = keys /\ r.look = rows
        /\ Task(r) = Task(tx[x]) /\ r.alone = tx[x].alone /\ r.apart = tx[x].apart
        /\ r.done = tx[x].done /\ r.freed = tx[x].freed /\ r.got = tx[x].got /\ r.put = tx[x].put
    BY <1>1 DEF Records, Task
  <1> HIDE DEF r
  <1>. QED  BY <1>2, <1>3, BecomesFacts DEF rows

LEMMA EndFreeFacts ==
    ASSUME TxTypeOK, NEW x \in Txs, EndFree(x)
    PROVE  /\ tx' \in [Txs -> Records] /\ UNCHANGED vars
           /\ \A y \in Txs : y # x => tx'[y] = tx[y]
           /\ tx'[x].at = "ready" /\ tx'[x].keys = {} /\ tx'[x].look = {}
           /\ Task(tx'[x]) = Task(tx[x]) /\ tx'[x].alone = tx[x].alone /\ tx'[x].apart = tx[x].apart
           /\ tx'[x].done = tx[x].done \cup tx[x].keys
           /\ tx'[x].freed = tx[x].freed \cup
                {row \in tx[x].look : holder[row] \in ClaimsOf(tx[x].tun, tx[x].keys)}
           /\ tx'[x].got = tx[x].got /\ tx'[x].put = tx[x].put
  <1> DEFINE rows == {row \in tx[x].look : holder[row] \in ClaimsOf(tx[x].tun, tx[x].keys)}
             r == [tx[x] EXCEPT !.at = "ready", !.keys = {}, !.look = {},
                                !.done = @ \cup tx[x].keys, !.freed = @ \cup rows]
  <1>1. tx[x] \in Records
    BY DEF TxTypeOK
  <1>2. rows \in SUBSET Rows
    BY <1>1 DEF Records
  <1>3. Becomes(x, r) /\ UNCHANGED vars
    BY DEF EndFree
  <1> HIDE DEF rows
  <1>4. /\ r \in Records /\ r.at = "ready" /\ r.keys = {} /\ r.look = {}
        /\ Task(r) = Task(tx[x]) /\ r.alone = tx[x].alone /\ r.apart = tx[x].apart
        /\ r.done = tx[x].done \cup tx[x].keys /\ r.freed = tx[x].freed \cup rows
        /\ r.got = tx[x].got /\ r.put = tx[x].put
    BY <1>1, <1>2 DEF Records, Task
  <1> HIDE DEF r
  <1>. QED  BY <1>3, <1>4, BecomesFacts DEF rows

LEMMA AddFacts ==
    ASSUME TxTypeOK, NEW x \in Txs, NEW k \in RouteKeys, NEW p \in Ports \cup {Shared}, Add(x, k, p)
    PROVE  /\ tx' \in [Txs -> Records] /\ UNCHANGED vars
           /\ \A y \in Txs : y # x => tx'[y] = tx[y]
           /\ tx'[x].at = tx[x].at /\ tx'[x].keys = tx[x].keys /\ tx'[x].look = tx[x].look
           /\ Task(tx'[x]) = Task(tx[x]) /\ tx'[x].alone = tx[x].alone /\ tx'[x].apart = tx[x].apart
           /\ tx'[x].done = tx[x].done /\ tx'[x].freed = tx[x].freed
           /\ tx'[x].got[k] = p
           /\ \A j \in RouteKeys : j # k => tx'[x].got[j] = tx[x].got[j]
           /\ tx'[x].put = IF tx[x].kind = "move" /\ k \notin RoutesOf(tx[x].tun)
                             THEN tx[x].put ELSE tx[x].put \cup {k}
  <1> DEFINE got == [tx[x].got EXCEPT ![k] = p]
             put == IF tx[x].kind = "move" /\ k \notin RoutesOf(tx[x].tun)
                      THEN tx[x].put ELSE tx[x].put \cup {k}
             r == [tx[x] EXCEPT !.got = got, !.put = put]
  <1>1. tx[x] \in Records
    BY DEF TxTypeOK
  <1>2. /\ got \in [RouteKeys -> Ports \cup {NoRoute, Shared}] /\ put \in SUBSET RouteKeys
        /\ got[k] = p /\ \A j \in RouteKeys : j # k => got[j] = tx[x].got[j]
    BY <1>1 DEF Records
  <1>3. Becomes(x, r) /\ UNCHANGED vars
    BY DEF Add
  <1> HIDE DEF got, put
  <1>4. /\ r \in Records /\ r.at = tx[x].at /\ r.keys = tx[x].keys /\ r.look = tx[x].look
        /\ Task(r) = Task(tx[x]) /\ r.alone = tx[x].alone /\ r.apart = tx[x].apart
        /\ r.done = tx[x].done /\ r.freed = tx[x].freed /\ r.got = got /\ r.put = put
    BY <1>1, <1>2 DEF Records, Task
  <1> HIDE DEF r
  <1>. QED  BY <1>2, <1>3, <1>4, BecomesFacts DEF put

\* A step of the others takes at most the marks from a transaction.
Keeps(y) ==
    /\ tx'[y].at = tx[y].at /\ tx'[y].keys = tx[y].keys /\ tx'[y].look = tx[y].look
    /\ Task(tx'[y]) = Task(tx[y])
    /\ (tx'[y].alone => tx[y].alone) /\ (tx'[y].apart => tx[y].apart)
    /\ tx'[y].done = tx[y].done /\ tx'[y].freed = tx[y].freed
    /\ tx'[y].got = tx[y].got /\ tx'[y].put = tx[y].put
    /\ ~Open(y) => tx'[y] = tx[y]

Undisturbed(x) == \A y \in Txs : y # x => Keeps(y)

LEMMA MarkedAsBefore ==
    ASSUME NEW r \in Records
    PROVE  /\ [r EXCEPT !.alone = r.alone, !.apart = r.apart] = r
           /\ [r EXCEPT !.alone = FALSE] = [r EXCEPT !.alone = FALSE, !.apart = r.apart]
           /\ r.alone \in BOOLEAN /\ r.apart \in BOOLEAN
  BY DEF Records

LEMMA MachineOf ==
    ASSUME TxTypeOK, NEW t \in Tunnels
    PROVE  machine[t] \in Machines \cup {None} /\ RoutesOf(t) \in SUBSET RouteKeys
  BY DEF TxTypeOK, TypeOK, RoutesOf

\* What x is after it began.
Begun(x, kind, t, m, n, req, seen) ==
    /\ tx' \in [Txs -> Records] /\ UNCHANGED vars
    /\ tx'[x].at = "ready" /\ tx'[x].keys = {} /\ tx'[x].look = {}
    /\ tx'[x].kind = kind /\ tx'[x].tun = t /\ tx'[x].mach = m /\ tx'[x].to = n
    /\ tx'[x].req = req /\ tx'[x].seen = seen
    /\ tx'[x].alone = (Rivals(kind, t, m) = {})
    /\ tx'[x].apart = (Neighbours(kind, m) = {})
    /\ tx'[x].done = {} /\ tx'[x].freed = {} /\ tx'[x].put = {}
    /\ tx'[x].got = [k \in RouteKeys |-> NoRoute]
    /\ Undisturbed(x)
    /\ \A y \in Txs : y # x /\ y \in Rivals(kind, t, m) => ~tx'[y].alone
    /\ \A y \in Txs : y # x /\ y \in Neighbours(kind, m) => ~tx'[y].apart

LEMMA BeginFacts ==
    ASSUME TxTypeOK, NEW x \in Txs, NEW t \in Tunnels, NEW kind \in {"reserve", "edit", "move"},
           NEW m \in Machines \cup {None}, NEW n \in Nodes, NEW req \in SUBSET RouteKeys,
           NEW seen \in SUBSET RouteKeys, Begin(x, kind, t, m, n, req, seen)
    PROVE  Begun(x, kind, t, m, n, req, seen)
  <1> DEFINE rivals == Rivals(kind, t, m)
             neighbours == Neighbours(kind, m)
             r == [Idle EXCEPT !.at = "ready", !.kind = kind, !.tun = t, !.mach = m, !.to = n,
                               !.req = req, !.seen = seen, !.alone = (rivals = {}),
                               !.apart = (neighbours = {})]
             a(y) == tx[y].alone /\ y \notin rivals
             b(y) == tx[y].apart /\ y \notin neighbours
             s(y) == [tx[y] EXCEPT !.alone = a(y), !.apart = b(y)]
  <1>1. tx \in [Txs -> Records]
    BY DEF TxTypeOK
  <1>2. tx' = [y \in Txs |-> IF y = x THEN r ELSE s(y)] /\ UNCHANGED vars
    BY DEF Begin
  <1>3. \A y \in Txs : y \in rivals \cup neighbours => Open(y)
    BY DEF Rivals, Neighbours
  <1> HIDE DEF rivals, neighbours
  <1>4. /\ r \in Records /\ r.at = "ready" /\ r.keys = {} /\ r.look = {}
        /\ r.kind = kind /\ r.tun = t /\ r.mach = m /\ r.to = n /\ r.req = req /\ r.seen = seen
        /\ r.alone = (rivals = {}) /\ r.apart = (neighbours = {})
        /\ r.done = {} /\ r.freed = {} /\ r.put = {} /\ r.got = [k \in RouteKeys |-> NoRoute]
    BY DEF Idle, Records
  <1> HIDE DEF r
  <1>5. ASSUME NEW y \in Txs, y # x
        PROVE  /\ tx'[y] \in Records /\ Keeps(y)
               /\ y \in rivals => ~tx'[y].alone
               /\ y \in neighbours => ~tx'[y].apart
    <2>1. tx'[y] = s(y) /\ tx[y] \in Records /\ tx[y].alone \in BOOLEAN /\ tx[y].apart \in BOOLEAN
      BY <1>1, <1>2, <1>5 DEF Records
    <2>4. a(y) \in BOOLEAN /\ b(y) \in BOOLEAN
      OBVIOUS
    <2>5. /\ a(y) => tx[y].alone /\ y \notin rivals
          /\ b(y) => tx[y].apart /\ y \notin neighbours
      OBVIOUS
    <2>6. y \notin rivals /\ y \notin neighbours => a(y) = tx[y].alone /\ b(y) = tx[y].apart
      BY <2>1
    <2>7. s(y) = [tx[y] EXCEPT !.alone = a(y), !.apart = b(y)]
      OBVIOUS
    <2> HIDE DEF a, b, s
    <2>2. /\ s(y) \in Records /\ s(y).at = tx[y].at /\ s(y).keys = tx[y].keys
          /\ s(y).look = tx[y].look /\ Task(s(y)) = Task(tx[y])
          /\ s(y).alone = a(y) /\ s(y).apart = b(y)
          /\ s(y).done = tx[y].done /\ s(y).freed = tx[y].freed
          /\ s(y).got = tx[y].got /\ s(y).put = tx[y].put
      BY <2>1, <2>4, <2>7 DEF Records, Task
    <2>3. ~Open(y) => s(y) = tx[y]
      <3>1. ASSUME ~Open(y) PROVE s(y) = tx[y]
        <4>1. y \notin rivals /\ y \notin neighbours
          BY <1>3, <3>1
        <4>. QED  BY <2>1, <2>6, <2>7, <4>1, MarkedAsBefore
      <3>. QED  BY <3>1
    <2>. QED  BY <2>1, <2>2, <2>3, <2>5 DEF Keeps
  <1>6. tx'[x] = r /\ tx' \in [Txs -> Records]
    BY <1>2, <1>4, <1>5
  <1>7. Undisturbed(x)
    BY <1>5 DEF Undisturbed
  <1>. QED  BY <1>2, <1>4, <1>5, <1>6, <1>7 DEF rivals, neighbours, Begun

LEMMA DirectFacts ==
    ASSUME TxTypeOK,
           tx' = [x \in Txs |-> IF Open(x) /\ Disturbs(x) THEN [tx[x] EXCEPT !.alone = FALSE] ELSE tx[x]]
    PROVE  /\ tx' \in [Txs -> Records]
           /\ \A y \in Txs : Keeps(y) /\ (Open(y) /\ Disturbs(y) => ~tx'[y].alone)
  <1>1. tx \in [Txs -> Records]
    BY DEF TxTypeOK
  <1>2. ASSUME NEW y \in Txs
        PROVE  tx'[y] \in Records /\ Keeps(y) /\ (Open(y) /\ Disturbs(y) => ~tx'[y].alone)
    <2>1. CASE Open(y) /\ Disturbs(y)
      <3>1. tx'[y] = [tx[y] EXCEPT !.alone = FALSE] /\ tx[y] \in Records
        BY <1>1, <2>1
      <3>2. tx'[y] = [tx[y] EXCEPT !.alone = FALSE, !.apart = tx[y].apart]
            /\ tx[y].apart \in BOOLEAN
        BY <3>1, MarkedAsBefore
      <3>3. /\ tx'[y] \in Records /\ tx'[y].at = tx[y].at /\ tx'[y].keys = tx[y].keys
            /\ tx'[y].look = tx[y].look /\ Task(tx'[y]) = Task(tx[y])
            /\ ~tx'[y].alone /\ tx'[y].apart = tx[y].apart
            /\ tx'[y].done = tx[y].done /\ tx'[y].freed = tx[y].freed
            /\ tx'[y].got = tx[y].got /\ tx'[y].put = tx[y].put
        BY <3>1, <3>2 DEF Records, Task
      <3>. QED  BY <2>1, <3>3 DEF Keeps
    <2>2. CASE ~(Open(y) /\ Disturbs(y))
      BY <1>1, <2>2 DEF Keeps
    <2>. QED  BY <2>1, <2>2
  <1>. QED  BY <1>2
-----------------------------------------------------------------------------
(* The record of a transaction, and what a commit does.                    *)

\* A transaction claims ports only for routes it has to add, and only when it
\* has freed all rows it has to free.
Shape(x) ==
    /\ ~Open(x) => tx[x] = Idle
    /\ Open(x) => /\ tx[x].tun \in Tunnels /\ tx[x].to \in Nodes
                  /\ tx[x].kind \in {"reserve", "edit", "move"}
    /\ tx[x].kind = "reserve" => tx[x].seen = {}
    /\ tx[x].done \cup tx[x].keys \subseteq Drops(tx[x])
    /\ tx[x].at = "ready" => tx[x].keys = {} /\ tx[x].look = {}
    /\ tx[x].put \subseteq {k \in RouteKeys : tx[x].got[k] # NoRoute}
    /\ \A k \in RouteKeys : tx[x].got[k] # NoRoute =>
          /\ k \in Adds(tx[x]) /\ Drops(tx[x]) \subseteq tx[x].done
          /\ IF k.kind \in DedicatedKinds THEN tx[x].got[k] \in Ports ELSE tx[x].got[k] = Shared

\* A claimed row is there and free, or freed by the transaction itself; a freed
\* one is still held by a route whose rows it was to free.
LockInv(x) ==
    /\ \A row \in Taken(x) : row[1] \in seeded /\ (holder[row] = Free \/ row \in tx[x].freed)
    /\ \A row \in tx[x].freed : holder[row] \in ClaimsOf(tx[x].tun, tx[x].done)
    /\ \A j, k \in Claiming(x) : tx[x].got[j] = tx[x].got[k] => j = k

Shaped == TxTypeOK /\ \A x \in Txs : Shape(x)

\* The drops and the additions depend on the task alone.
LEMMA TaskFacts ==
    ASSUME NEW r, NEW s, Task(s) = Task(r)
    PROVE  /\ s.kind = r.kind /\ s.tun = r.tun /\ s.mach = r.mach /\ s.to = r.to
           /\ s.req = r.req /\ s.seen = r.seen /\ Drops(s) = Drops(r) /\ Adds(s) = Adds(r)
  <1>1. /\ s.kind = r.kind /\ s.tun = r.tun /\ s.mach = r.mach /\ s.to = r.to
        /\ s.req = r.req /\ s.seen = r.seen
    BY DEF Task
  <1>. QED  BY <1>1 DEF Drops, Adds

LEMMA KeepsShape ==
    ASSUME NEW y \in Txs, Shape(y), Keeps(y)
    PROVE  Shape(y)'
  <1>1. /\ tx'[y].kind = tx[y].kind /\ tx'[y].tun = tx[y].tun /\ tx'[y].mach = tx[y].mach
        /\ tx'[y].to = tx[y].to /\ tx'[y].req = tx[y].req /\ tx'[y].seen = tx[y].seen
        /\ Drops(tx'[y]) = Drops(tx[y]) /\ Adds(tx'[y]) = Adds(tx[y])
    BY TaskFacts DEF Keeps
  <1>. QED  BY <1>1 DEF Keeps, Shape, Open

LEMMA IdleShape ==
    ASSUME NEW x \in Txs, tx[x] = Idle
    PROVE  Shape(x)
  BY DEF Shape, Idle, Open, Drops, Adds

LEMMA BeginShape ==
    ASSUME NEW x \in Txs, tx'[x].tun \in Tunnels, tx'[x].to \in Nodes,
           tx'[x].kind \in {"reserve", "edit", "move"}, tx'[x].kind = "reserve" => tx'[x].seen = {},
           tx'[x].at = "ready", tx'[x].keys = {}, tx'[x].look = {},
           tx'[x].done = {}, tx'[x].put = {}, tx'[x].got = [k \in RouteKeys |-> NoRoute]
    PROVE  Shape(x)'
  BY DEF Shape, Open

LEMMA StartFreeShape ==
    ASSUME Shaped, NEW x \in Txs, NEW keys \in SUBSET RouteKeys, StartFree(x, keys)
    PROVE  Shape(x)'
  <1>1. TxTypeOK /\ Shape(x)
    BY DEF Shaped
  <1>2. /\ tx'[x].kind = tx[x].kind /\ tx'[x].tun = tx[x].tun /\ tx'[x].to = tx[x].to
        /\ tx'[x].seen = tx[x].seen
        /\ Drops(tx'[x]) = Drops(tx[x]) /\ Adds(tx'[x]) = Adds(tx[x])
    BY <1>1, StartFreeFacts, TaskFacts
  <1>3. /\ tx'[x].at = "freeing" /\ tx'[x].keys = keys /\ keys \subseteq Drops(tx[x]) /\ Open(x)
        /\ tx'[x].done = tx[x].done /\ tx'[x].got = tx[x].got /\ tx'[x].put = tx[x].put
    BY <1>1, StartFreeFacts DEF StartFree, Open
  <1>. QED  BY <1>1, <1>2, <1>3 DEF Shape, Open

LEMMA EndFreeShape ==
    ASSUME Shaped, NEW x \in Txs, EndFree(x)
    PROVE  Shape(x)'
  <1>1. TxTypeOK /\ Shape(x)
    BY DEF Shaped
  <1>2. /\ tx'[x].kind = tx[x].kind /\ tx'[x].tun = tx[x].tun /\ tx'[x].to = tx[x].to
        /\ tx'[x].seen = tx[x].seen
        /\ Drops(tx'[x]) = Drops(tx[x]) /\ Adds(tx'[x]) = Adds(tx[x])
    BY <1>1, EndFreeFacts, TaskFacts
  <1>3. /\ tx'[x].at = "ready" /\ tx'[x].keys = {} /\ tx'[x].look = {} /\ Open(x)
        /\ tx'[x].done = tx[x].done \cup tx[x].keys
        /\ tx'[x].got = tx[x].got /\ tx'[x].put = tx[x].put
    BY <1>1, EndFreeFacts DEF EndFree, Open
  <1>. QED  BY <1>1, <1>2, <1>3 DEF Shape, Open

LEMMA AddShape ==
    ASSUME Shaped, NEW x \in Txs, NEW k \in RouteKeys, NEW p \in Ports \cup {Shared}, Add(x, k, p)
    PROVE  Shape(x)'
  <1>1. TxTypeOK /\ Shape(x) /\ tx[x].got \in [RouteKeys -> Ports \cup {NoRoute, Shared}]
    BY DEF Shaped, TxTypeOK, Records
  <1>2. /\ tx'[x].kind = tx[x].kind /\ tx'[x].tun = tx[x].tun /\ tx'[x].to = tx[x].to
        /\ tx'[x].seen = tx[x].seen
        /\ Drops(tx'[x]) = Drops(tx[x]) /\ Adds(tx'[x]) = Adds(tx[x])
    <2>1. Task(tx'[x]) = Task(tx[x])
      BY <1>1, AddFacts
    <2>. QED  BY <2>1, TaskFacts
  <1>3. /\ tx'[x].at = tx[x].at /\ tx'[x].keys = tx[x].keys /\ tx'[x].look = tx[x].look
        /\ Open(x) /\ tx'[x].done = tx[x].done
    BY <1>1, AddFacts DEF Add, Open
  <1>4. /\ Drops(tx[x]) \subseteq tx[x].done /\ k \in Adds(tx[x])
        /\ IF k.kind \in DedicatedKinds THEN p \in Ports ELSE p = Shared
    BY DEF Add
  <1>5. tx'[x].got[k] = p /\ \A j \in RouteKeys : j # k => tx'[x].got[j] = tx[x].got[j]
    BY <1>1, AddFacts
  <1>7. tx'[x].put \subseteq tx[x].put \cup {k}
    <2>1. tx'[x].put = IF tx[x].kind = "move" /\ k \notin RoutesOf(tx[x].tun)
                         THEN tx[x].put ELSE tx[x].put \cup {k}
      BY <1>1, AddFacts
    <2>. QED  BY <2>1
  <1>6. p # NoRoute
    BY MarksAssumption
  <1>. QED  BY <1>1, <1>2, <1>3, <1>4, <1>5, <1>6, <1>7 DEF Shape, Open

\* What x writes when it commits.
LEMMA WriteFacts ==
    ASSUME Shaped, NEW x \in Txs, Open(x), LockInv(x), Write(x)
    PROVE  /\ tx' \in [Txs -> Records] /\ tx'[x] = Idle
           /\ \A y \in Txs : y # x => tx'[y] = tx[y]
           /\ holder' \in [Rows -> Claims \cup {Free}]
           /\ routes' \in [Claims -> Ports \cup {NoRoute, Shared}]
           /\ \A row \in Rows : row \notin Locks(x) => holder'[row] = holder[row]
           /\ \A row \in Rows : row \in tx[x].freed /\ row \notin Taken(x) => holder'[row] = Free
           /\ \A k \in Claiming(x) : /\ <<tx[x].to, tx[x].got[k]>> \in Rows
                                     /\ holder'[<<tx[x].to, tx[x].got[k]>>] = Claim(x, k)
           /\ \A c \in Claims : c[1] # tx[x].tun => routes'[c] = routes[c]
           /\ \A k \in RouteKeys : routes'[Claim(x, k)] =
                 IF k \in tx[x].put THEN tx[x].got[k]
                 ELSE IF k \in Written(x) THEN NoRoute ELSE routes[Claim(x, k)]
  <1>1. TxTypeOK /\ Shape(x) /\ tx[x] \in Records /\ tx[x].tun \in Tunnels /\ tx[x].to \in Nodes
    BY DEF Shaped, TxTypeOK, Shape
  <1>2. /\ tx' \in [Txs -> Records] /\ tx'[x] = Idle
        /\ \A y \in Txs : y # x => tx'[y] = tx[y]
    BY <1>1, IdleType, BecomesFacts DEF Write
  <1>3. ASSUME NEW row \in Rows
        PROVE  /\ holder'[row] \in Claims \cup {Free}
               /\ row \notin Locks(x) => holder'[row] = holder[row]
               /\ row \in tx[x].freed /\ row \notin Taken(x) => holder'[row] = Free
               /\ \A k \in Claiming(x) : row = <<tx[x].to, tx[x].got[k]>> => holder'[row] = Claim(x, k)
    <2> DEFINE j == CHOOSE k \in RouteKeys : row = <<tx[x].to, tx[x].got[k]>>
    <2>1. holder'[row] = IF row \in Taken(x) THEN Claim(x, j)
                         ELSE IF row \in tx[x].freed THEN Free ELSE holder[row]
      BY DEF Write
    <2>2. holder[row] \in Claims \cup {Free}
      BY <1>1 DEF TxTypeOK, TypeOK
    <2>3. CASE row \in Taken(x)
      <3>1. PICK i \in Claiming(x) : row = <<tx[x].to, tx[x].got[i]>>
        BY <2>3 DEF Taken
      <3>2. i \in RouteKeys
        BY DEF Claiming
      <3>3. j \in RouteKeys /\ row = <<tx[x].to, tx[x].got[j]>>
        BY <3>1, <3>2
      <3> HIDE DEF j
      <3>4. tx[x].got[j] = tx[x].got[i]
        BY <3>1, <3>3
      <3>5. j \in Claiming(x)
        BY <3>3, <3>4 DEF Claiming
      <3>6. \A k \in Claiming(x) : row = <<tx[x].to, tx[x].got[k]>> => k = j
        <4> SUFFICES ASSUME NEW k \in Claiming(x), row = <<tx[x].to, tx[x].got[k]>> PROVE k = j
          OBVIOUS
        <4>1. tx[x].got[j] = tx[x].got[k]
          BY <3>3
        <4>. QED  BY <3>5, <4>1 DEF LockInv
      <3>7. Claim(x, j) \in Claims
        BY <1>1, <3>3 DEF Claim, Claims
      <3>. QED  BY <2>1, <2>3, <3>6, <3>7 DEF Locks
    <2>4. CASE row \notin Taken(x)
      BY <2>1, <2>2, <2>4 DEF Locks, Taken
    <2>. QED  BY <2>3, <2>4
  <1>4. holder' \in [Rows -> Claims \cup {Free}]
    BY <1>3 DEF Write
  <1>5. \A k \in Claiming(x) : <<tx[x].to, tx[x].got[k]>> \in Rows
    BY <1>1 DEF Claiming, Rows
  <1>6. ASSUME NEW c \in Claims
        PROVE  /\ routes'[c] \in Ports \cup {NoRoute, Shared}
               /\ routes'[c] = IF c[1] = tx[x].tun /\ c[2] \in tx[x].put THEN tx[x].got[c[2]]
                    ELSE IF c[1] = tx[x].tun /\ c[2] \in Written(x) THEN NoRoute ELSE routes[c]
    <2>1. routes'[c] = IF c[1] = tx[x].tun /\ c[2] \in tx[x].put THEN tx[x].got[c[2]]
                    ELSE IF c[1] = tx[x].tun /\ c[2] \in Written(x) THEN NoRoute ELSE routes[c]
      BY DEF Write
    <2>2. tx[x].got[c[2]] \in Ports \cup {NoRoute, Shared} /\ routes[c] \in Ports \cup {NoRoute, Shared}
      BY <1>1 DEF Records, Claims, TxTypeOK, TypeOK
    <2>. QED  BY <2>1, <2>2
  <1>7. routes' \in [Claims -> Ports \cup {NoRoute, Shared}]
    BY <1>6 DEF Write
  <1>8. \A c \in Claims : c[1] # tx[x].tun => routes'[c] = routes[c]
    BY <1>6
  <1>9. ASSUME NEW k \in RouteKeys
        PROVE  routes'[Claim(x, k)] = IF k \in tx[x].put THEN tx[x].got[k]
                 ELSE IF k \in Written(x) THEN NoRoute ELSE routes[Claim(x, k)]
    <2>1. Claim(x, k) \in Claims /\ Claim(x, k)[1] = tx[x].tun /\ Claim(x, k)[2] = k
      BY <1>1 DEF Claim, Claims
    <2>. QED  BY <1>6, <2>1
  <1>. QED  BY <1>2, <1>3, <1>4, <1>5, <1>7, <1>8, <1>9

-----------------------------------------------------------------------------
(* The locks.                                                              *)

Locked == Shaped /\ LocksExclusive /\ \A x \in Txs : LockInv(x)

\* A transaction that only loses its mark holds the locks it held.
LEMMA KeepsLocks ==
    ASSUME NEW y \in Txs, Keeps(y)
    PROVE  /\ Claiming(y)' = Claiming(y) /\ Taken(y)' = Taken(y) /\ Locks(y)' = Locks(y)
           /\ Written(y)' = Written(y) /\ Open(y)' = Open(y)
           /\ tx'[y].kind = tx[y].kind /\ tx'[y].tun = tx[y].tun /\ tx'[y].mach = tx[y].mach
           /\ tx'[y].to = tx[y].to /\ tx'[y].req = tx[y].req /\ tx'[y].seen = tx[y].seen
           /\ Drops(tx'[y]) = Drops(tx[y]) /\ Adds(tx'[y]) = Adds(tx[y])
           /\ \A k : Claim(y, k)' = Claim(y, k)
  <1>1. /\ tx'[y].kind = tx[y].kind /\ tx'[y].tun = tx[y].tun /\ tx'[y].mach = tx[y].mach
        /\ tx'[y].to = tx[y].to /\ tx'[y].req = tx[y].req /\ tx'[y].seen = tx[y].seen
        /\ Drops(tx'[y]) = Drops(tx[y]) /\ Adds(tx'[y]) = Adds(tx[y])
    BY TaskFacts DEF Keeps
  <1>2. Claiming(y)' = Claiming(y) /\ Written(y)' = Written(y) /\ Open(y)' = Open(y)
    BY <1>1 DEF Keeps, Claiming, Written, Open
  <1>3. Taken(y)' = Taken(y)
    BY <1>1, <1>2 DEF Keeps, Taken
  <1>4. Locks(y)' = Locks(y)
    BY <1>3 DEF Keeps, Locks
  <1>. QED  BY <1>1, <1>2, <1>3, <1>4 DEF Claim

LEMMA SameKeeps ==
    ASSUME NEW y \in Txs, tx'[y] = tx[y]
    PROVE  Keeps(y)
  BY DEF Keeps

\* One that has not written anything holds none.
LEMMA NoLocks ==
    ASSUME NEW x \in Txs, tx[x].freed = {}, \A k \in RouteKeys : tx[x].got[k] = NoRoute
    PROVE  Claiming(x) = {} /\ Taken(x) = {} /\ Locks(x) = {} /\ LockInv(x)
  <1>1. Claiming(x) = {}
    BY MarksAssumption DEF Claiming
  <1>2. Taken(x) = {}
    BY <1>1 DEF Taken
  <1>. QED  BY <1>1, <1>2 DEF Locks, LockInv

LEMMA NoLocksAfter ==
    ASSUME NEW x \in Txs, tx'[x].freed = {}, \A k \in RouteKeys : tx'[x].got[k] = NoRoute
    PROVE  Locks(x)' = {} /\ LockInv(x)'
  <1>1. Claiming(x)' = {}
    BY MarksAssumption DEF Claiming
  <1>2. Taken(x)' = {}
    BY <1>1 DEF Taken
  <1>. QED  BY <1>1, <1>2 DEF Locks, LockInv

LEMMA IdleLocks ==
    ASSUME NEW x \in Txs, tx[x] = Idle
    PROVE  /\ Claiming(x) = {} /\ Taken(x) = {} /\ Locks(x) = {} /\ LockInv(x)
           /\ Written(x) = {} /\ ~Open(x)
  <1>1. /\ tx[x].freed = {} /\ tx[x].put = {} /\ tx[x].kind = "none" /\ tx[x].at = "idle"
        /\ \A k \in RouteKeys : tx[x].got[k] = NoRoute
    BY DEF Idle
  <1>. QED  BY <1>1, NoLocks DEF Written, Open

LEMMA LockedRows ==
    ASSUME Shaped, NEW x \in Txs
    PROVE  Locks(x) \in SUBSET Rows
  <1>1. Shape(x) /\ tx[x] \in Records
    BY DEF Shaped, TxTypeOK
  <1>2. CASE Open(x)
    <2>1. tx[x].to \in Nodes /\ tx[x].freed \in SUBSET Rows
      BY <1>1, <1>2 DEF Shape, Records
    <2>2. Taken(x) \in SUBSET Rows
      BY <2>1 DEF Taken, Claiming, Rows
    <2>. QED  BY <2>1, <2>2 DEF Locks
  <1>3. CASE ~Open(x)
    BY <1>1, <1>3, IdleLocks DEF Shape
  <1>. QED  BY <1>2, <1>3

\* What a step must leave to the transactions that do not take it.
LEMMA KeepsLockInv ==
    ASSUME NEW y \in Txs, LockInv(y), Keeps(y),
           \A row \in Locks(y) : holder'[row] = holder[row],
           \A row \in Taken(y) : row[1] \in seeded'
    PROVE  LockInv(y)'
  <1>1. /\ Claiming(y)' = Claiming(y) /\ Taken(y)' = Taken(y) /\ tx'[y].tun = tx[y].tun
        /\ tx'[y].freed = tx[y].freed /\ tx'[y].done = tx[y].done /\ tx'[y].got = tx[y].got
    BY KeepsLocks DEF Keeps
  <1>. QED  BY <1>1 DEF LockInv, Locks

\* If only x gains locks, and no other one has them, they stay exclusive.
LEMMA ExclusiveStep ==
    ASSUME LocksExclusive, NEW x \in Txs, NEW new,
           Locks(x)' \subseteq Locks(x) \cup new,
           \A y \in Txs : y # x => Locks(y)' = Locks(y) /\ Locks(y) \cap new = {}
    PROVE  LocksExclusive'
  <1> SUFFICES ASSUME NEW y \in Txs, NEW z \in Txs, y # z PROVE Locks(y)' \cap Locks(z)' = {}
    BY DEF LocksExclusive
  <1>1. \A u, v \in Txs : u # v => Locks(u) \cap Locks(v) = {}
    BY DEF LocksExclusive
  <1>2. CASE y = x
    BY <1>1, <1>2
  <1>3. CASE z = x
    BY <1>1, <1>3
  <1>4. CASE y # x /\ z # x
    BY <1>1, <1>4
  <1>. QED  BY <1>2, <1>3, <1>4

\* A transaction begins in one of three ways.
Begins(x) ==
    \E t \in Tunnels, n \in Nodes :
        \/ \E m \in Machines, req \in Requests \ {{}} : BeginReserve(x, t, m, n, req)
        \/ \E req \in Requests : BeginEdit(x, t, n, req)
        \/ BeginMove(x, t, n)

LEMMA BeginsFacts ==
    ASSUME TxTypeOK, NEW x \in Txs, Begins(x)
    PROVE  \E kind \in {"reserve", "edit", "move"}, t \in Tunnels, m \in Machines \cup {None},
              n \in Nodes, req \in SUBSET RouteKeys, seen \in SUBSET RouteKeys :
                 /\ Begin(x, kind, t, m, n, req, seen)
                 /\ kind = "reserve" => seen = {}
  <1>1. PICK t \in Tunnels, n \in Nodes :
           \/ \E m \in Machines, req \in Requests \ {{}} : BeginReserve(x, t, m, n, req)
           \/ \E req \in Requests : BeginEdit(x, t, n, req)
           \/ BeginMove(x, t, n)
    BY DEF Begins
  <1>2. RoutesOf(t) \in SUBSET RouteKeys /\ machine[t] \in Machines \cup {None}
    BY MachineOf
  <1>3. ASSUME NEW m \in Machines, NEW req \in Requests \ {{}}, BeginReserve(x, t, m, n, req)
        PROVE  Begin(x, "reserve", t, m, n, req, {}) /\ req \in SUBSET RouteKeys
    BY <1>3, RequestsAssumption DEF BeginReserve
  <1>4. ASSUME NEW req \in Requests, BeginEdit(x, t, n, req)
        PROVE  Begin(x, "edit", t, machine[t], n, req, RoutesOf(t)) /\ req \in SUBSET RouteKeys
    BY <1>4, RequestsAssumption DEF BeginEdit
  <1>5. ASSUME BeginMove(x, t, n) PROVE Begin(x, "move", t, None, n, {}, RoutesOf(t))
    BY <1>5 DEF BeginMove
  <1>6. ASSUME NEW m \in Machines, NEW req \in Requests \ {{}}, BeginReserve(x, t, m, n, req)
        PROVE  \E seen \in SUBSET RouteKeys :
                  Begin(x, "reserve", t, m, n, req, seen) /\ seen = {}
    BY <1>3, <1>6
  <1>. QED  BY <1>1, <1>2, <1>3, <1>4, <1>5, <1>6

\* One that begins is not open yet.
LEMMA BeginsIdle ==
    ASSUME NEW x \in Txs, Begins(x)
    PROVE  ~Open(x)
  <1>1. \E kind, t, m, n, req, seen : Begin(x, kind, t, m, n, req, seen)
    BY DEF Begins, BeginReserve, BeginEdit, BeginMove
  <1>. QED  BY <1>1 DEF Begin

LEMMA CommitFacts ==
    ASSUME Shaped, NEW x \in Txs, CommitTx(x)
    PROVE  /\ Write(x) /\ Open(x) /\ UNCHANGED seeded /\ tx[x].at = "ready"
           /\ AllAdded(x) /\ tx[x].tun \in Tunnels
  BY DEF CommitTx, CommitReserve, CommitEdit, CommitMove, Open, Shaped, Shape

\* What the other transactions see of a step of x.
LEMMA OthersKeep ==
    ASSUME Shaped, NEW x \in Txs, LockInv(x), TxStep(x)
    PROVE  /\ tx' \in [Txs -> Records] /\ Undisturbed(x)
           /\ ~CommitTx(x) => UNCHANGED vars
  <1>0. TxTypeOK
    BY DEF Shaped
  <1>1. ASSUME Begins(x)
        PROVE  tx' \in [Txs -> Records] /\ UNCHANGED vars /\ Undisturbed(x)
    <2>1. PICK kind \in {"reserve", "edit", "move"}, t \in Tunnels, m \in Machines \cup {None},
              n \in Nodes, req \in SUBSET RouteKeys, seen \in SUBSET RouteKeys :
              Begin(x, kind, t, m, n, req, seen)
      BY <1>0, <1>1, BeginsFacts
    <2>2. Begun(x, kind, t, m, n, req, seen)
      BY <1>0, <2>1, BeginFacts
    <2>. QED  BY <2>2 DEF Begun
  <1>2. ASSUME \/ \E keys \in SUBSET RouteKeys : StartFree(x, keys)
               \/ EndFree(x)
               \/ \E k \in RouteKeys, p \in Ports \cup {Shared} : Add(x, k, p)
        PROVE  /\ tx' \in [Txs -> Records] /\ UNCHANGED vars
               /\ \A y \in Txs : y # x => tx'[y] = tx[y]
    <2>1. ASSUME NEW keys \in SUBSET RouteKeys, StartFree(x, keys)
          PROVE  /\ tx' \in [Txs -> Records] /\ UNCHANGED vars
                 /\ \A y \in Txs : y # x => tx'[y] = tx[y]
      BY <1>0, <2>1, StartFreeFacts
    <2>2. ASSUME EndFree(x)
          PROVE  /\ tx' \in [Txs -> Records] /\ UNCHANGED vars
                 /\ \A y \in Txs : y # x => tx'[y] = tx[y]
      BY <1>0, <2>2, EndFreeFacts
    <2>3. ASSUME NEW k \in RouteKeys, NEW p \in Ports \cup {Shared}, Add(x, k, p)
          PROVE  /\ tx' \in [Txs -> Records] /\ UNCHANGED vars
                 /\ \A y \in Txs : y # x => tx'[y] = tx[y]
      BY <1>0, <2>3, AddFacts
    <2>. QED  BY <1>2, <2>1, <2>2, <2>3
  <1>3. ASSUME Abort(x)
        PROVE  /\ tx' \in [Txs -> Records] /\ UNCHANGED vars
               /\ \A y \in Txs : y # x => tx'[y] = tx[y]
    BY <1>0, <1>3, IdleType, BecomesFacts DEF Abort
  <1>4. ASSUME CommitTx(x)
        PROVE  tx' \in [Txs -> Records] /\ \A y \in Txs : y # x => tx'[y] = tx[y]
    BY <1>0, <1>4, CommitFacts, IdleType, BecomesFacts DEF Write
  <1>. QED  BY <1>1, <1>2, <1>3, <1>4, SameKeeps DEF TxStep, Begins, Undisturbed

\* A statement keeps a transaction's record in shape.
LEMMA ShapeTx ==
    ASSUME Shaped, NEW x \in Txs, TxStep(x)
    PROVE  Shape(x)'
  <1>0. TxTypeOK
    BY DEF Shaped
  <1>1. ASSUME Begins(x) PROVE Shape(x)'
    <2>1. PICK kind \in {"reserve", "edit", "move"}, t \in Tunnels, m \in Machines \cup {None},
              n \in Nodes, req \in SUBSET RouteKeys, seen \in SUBSET RouteKeys :
              Begin(x, kind, t, m, n, req, seen) /\ (kind = "reserve" => seen = {})
      BY <1>0, <1>1, BeginsFacts
    <2>2. Begun(x, kind, t, m, n, req, seen)
      BY <1>0, <2>1, BeginFacts
    <2>. QED  BY <2>1, <2>2, BeginShape DEF Begun
  <1>2. ASSUME Abort(x) \/ CommitTx(x) PROVE Shape(x)'
    <2>1. Becomes(x, Idle)
      BY <1>2, CommitFacts DEF Abort, Write
    <2>2. tx'[x] = Idle
      BY <1>0, <2>1, IdleType, BecomesFacts
    <2>. QED  BY <2>2, IdleShape DEF Shape, Idle, Open, Drops, Adds
  <1>. QED  BY <1>1, <1>2, StartFreeShape, EndFreeShape, AddShape DEF TxStep, Begins

\* The locks that the statements of x but its commit take, and what they rest on.
LEMMA StatementLocks ==
    ASSUME Locked, NEW x \in Txs, TxStep(x), ~CommitTx(x)
    PROVE  LockInv(x)' /\ LocksExclusive'
  <1>0. Shaped /\ TxTypeOK /\ Shape(x) /\ LockInv(x) /\ LocksExclusive
    BY DEF Locked, Shaped
  <1>1. UNCHANGED vars /\ Undisturbed(x)
    BY <1>0, OthersKeep
  <1>2. \A y \in Txs : y # x => Locks(y)' = Locks(y)
    BY <1>1, KeepsLocks DEF Undisturbed
  <1>3. ASSUME NEW new, Locks(x)' \subseteq Locks(x) \cup new,
               \A row \in new : Unlocked(row, x)
        PROVE  LocksExclusive'
    BY <1>0, <1>2, <1>3, ExclusiveStep DEF Unlocked
  <1>9. ASSUME Locks(x)' \subseteq Locks(x) PROVE LocksExclusive'
    <2> DEFINE new == {}
    <2>1. Locks(x)' \subseteq Locks(x) \cup new /\ \A row \in new : Unlocked(row, x)
      BY <1>9
    <2> HIDE DEF new
    <2>. QED  BY <1>3, <2>1
  <1>4. ASSUME Begins(x) PROVE LockInv(x)' /\ LocksExclusive'
    <2>1. PICK kind \in {"reserve", "edit", "move"}, t \in Tunnels, m \in Machines \cup {None},
              n \in Nodes, req \in SUBSET RouteKeys, seen \in SUBSET RouteKeys :
              Begin(x, kind, t, m, n, req, seen)
      BY <1>0, <1>4, BeginsFacts
    <2>4. Begun(x, kind, t, m, n, req, seen)
      BY <1>0, <2>1, BeginFacts
    <2>2. tx'[x].freed = {} /\ \A k \in RouteKeys : tx'[x].got[k] = NoRoute
      BY <2>4 DEF Begun
    <2>3. LockInv(x)' /\ Locks(x)' = {}
      BY <2>2, NoLocksAfter
    <2>. QED  BY <1>9, <2>3
  <1>5. ASSUME NEW keys \in SUBSET RouteKeys, StartFree(x, keys)
        PROVE  LockInv(x)' /\ LocksExclusive'
    <2>1. /\ Task(tx'[x]) = Task(tx[x]) /\ tx'[x].got = tx[x].got
          /\ tx'[x].freed = tx[x].freed /\ tx'[x].done = tx[x].done
      BY <1>0, <1>5, StartFreeFacts
    <2>2. tx'[x].to = tx[x].to /\ tx'[x].tun = tx[x].tun
      BY <2>1, TaskFacts
    <2>3. Claiming(x)' = Claiming(x)
      BY <2>1 DEF Claiming
    <2>4. Taken(x)' = Taken(x)
      BY <2>1, <2>2, <2>3 DEF Taken
    <2>5. LockInv(x)' /\ Locks(x)' = Locks(x)
      BY <1>0, <1>1, <2>1, <2>2, <2>3, <2>4 DEF LockInv, Locks, vars
    <2>. QED  BY <1>9, <2>5
  <1>6. ASSUME EndFree(x) PROVE LockInv(x)' /\ LocksExclusive'
    <2> DEFINE rows == {row \in tx[x].look : holder[row] \in ClaimsOf(tx[x].tun, tx[x].keys)}
    <2>1. /\ Task(tx'[x]) = Task(tx[x]) /\ tx'[x].got = tx[x].got
          /\ tx'[x].freed = tx[x].freed \cup rows /\ tx'[x].done = tx[x].done \cup tx[x].keys
      BY <1>0, <1>6, EndFreeFacts
    <2>2. tx'[x].to = tx[x].to /\ tx'[x].tun = tx[x].tun
      BY <2>1, TaskFacts
    <2>3. Claiming(x)' = Claiming(x)
      BY <2>1 DEF Claiming
    <2>4. Taken(x)' = Taken(x)
      BY <2>1, <2>2, <2>3 DEF Taken
    <2>5. \A row \in rows : Unlocked(row, x)
      BY <1>6 DEF EndFree
    <2>6. \A row \in rows : holder[row] \in ClaimsOf(tx[x].tun, tx[x].done \cup tx[x].keys)
      BY DEF ClaimsOf
    <2>7. \A row \in tx[x].freed : holder[row] \in ClaimsOf(tx[x].tun, tx[x].done \cup tx[x].keys)
      BY <1>0 DEF ClaimsOf, LockInv
    <2> HIDE DEF rows
    <2>8. LockInv(x)' /\ Locks(x)' \subseteq Locks(x) \cup rows
      BY <1>0, <1>1, <2>1, <2>2, <2>3, <2>4, <2>6, <2>7 DEF LockInv, Locks, vars
    <2>. QED  BY <1>3, <2>5, <2>8
  <1>7. ASSUME NEW k \in RouteKeys, NEW p \in Ports \cup {Shared}, Add(x, k, p)
        PROVE  LockInv(x)' /\ LocksExclusive'
    <2>1. /\ Task(tx'[x]) = Task(tx[x])
          /\ tx'[x].freed = tx[x].freed /\ tx'[x].done = tx[x].done
      BY <1>0, <1>7, AddFacts
    <2>2. tx'[x].to = tx[x].to /\ tx'[x].tun = tx[x].tun
      BY <2>1, TaskFacts
    <2>3. tx'[x].got[k] = p /\ \A j \in RouteKeys : j # k => tx'[x].got[j] = tx[x].got[j]
      BY <1>0, <1>7, AddFacts
    <2>4. /\ tx[x].got[k] = NoRoute
          /\ p \in Ports => /\ tx[x].to \in seeded /\ Unlocked(<<tx[x].to, p>>, x)
                            /\ holder[<<tx[x].to, p>>] = Free \/ <<tx[x].to, p>> \in tx[x].freed
                            /\ <<tx[x].to, p>> \notin Taken(x)
      BY <1>7, MarksAssumption DEF Add
    <2>5. CASE p \in Ports
      <3> DEFINE row == <<tx[x].to, p>>
      <3>1. Claiming(x)' = Claiming(x) \cup {k}
        BY <2>3, <2>5 DEF Claiming
      <3>2. k \notin Claiming(x)
        BY <2>4, MarksAssumption DEF Claiming
      <3>3. Taken(x)' = Taken(x) \cup {row}
        BY <2>2, <2>3, <3>1, <3>2 DEF Taken, Claiming
      <3>4. Locks(x)' \subseteq Locks(x) \cup {row}
        BY <2>1, <3>3 DEF Locks
      <3>5. \A r \in Taken(x)' : r[1] \in seeded' /\ (holder'[r] = Free \/ r \in tx'[x].freed)
        BY <1>0, <1>1, <2>1, <2>4, <2>5, <3>3 DEF LockInv, vars
      <3>6. \A j \in Claiming(x) : tx[x].got[j] # p
        BY <2>4, <2>5 DEF Taken
      <3>7. \A i, j \in Claiming(x)' : tx'[x].got[i] = tx'[x].got[j] => i = j
        BY <1>0, <2>3, <3>1, <3>2, <3>6 DEF LockInv, Claiming
      <3>8. LockInv(x)'
        BY <1>0, <1>1, <2>1, <2>2, <3>5, <3>7 DEF LockInv, vars
      <3>. QED  BY <1>3, <2>4, <2>5, <3>4, <3>8
    <2>6. CASE p \notin Ports
      <3>1. Claiming(x)' = Claiming(x)
        BY <2>3, <2>4, <2>6, MarksAssumption DEF Claiming
      <3>2. \A j \in Claiming(x) : tx'[x].got[j] = tx[x].got[j]
        BY <2>3, <2>4, MarksAssumption DEF Claiming
      <3>3. Taken(x)' = Taken(x)
        BY <2>2, <3>1, <3>2 DEF Taken
      <3>4. LockInv(x)' /\ Locks(x)' = Locks(x)
        BY <1>0, <1>1, <2>1, <2>2, <3>1, <3>2, <3>3 DEF LockInv, Locks, vars
      <3>. QED  BY <1>9, <3>4
    <2>. QED  BY <2>5, <2>6
  <1>8. ASSUME Abort(x) PROVE LockInv(x)' /\ LocksExclusive'
    <2>1. tx'[x] = Idle
      BY <1>0, <1>8, IdleType, BecomesFacts DEF Abort
    <2>2. tx'[x].freed = {} /\ \A k \in RouteKeys : tx'[x].got[k] = NoRoute
      BY <2>1 DEF Idle
    <2>3. LockInv(x)' /\ Locks(x)' = {}
      BY <2>2, NoLocksAfter
    <2>. QED  BY <1>9, <2>3
  <1>. QED  BY <1>4, <1>5, <1>6, <1>7, <1>8 DEF TxStep, Begins

\* A commit writes rows that no other transaction has locked.
LEMMA CommitLocks ==
    ASSUME Locked, NEW x \in Txs, CommitTx(x)
    PROVE  LocksExclusive' /\ \A y \in Txs : LockInv(y)'
  <1>0. Shaped /\ LocksExclusive /\ \A y \in Txs : LockInv(y)
    BY DEF Locked
  <1>1. Write(x) /\ Open(x) /\ UNCHANGED seeded
    BY <1>0, CommitFacts
  <1>2. tx'[x] = Idle
    BY <1>0, <1>1, WriteFacts
  <1>3. \A y \in Txs : y # x => tx'[y] = tx[y]
    BY <1>0, <1>1, WriteFacts
  <1>4. \A row \in Rows : row \notin Locks(x) => holder'[row] = holder[row]
    BY <1>0, <1>1, WriteFacts
  <1>5. Locks(x)' = {} /\ LockInv(x)'
    <2>1. tx'[x].freed = {} /\ \A k \in RouteKeys : tx'[x].got[k] = NoRoute
      BY <1>2 DEF Idle
    <2>. QED  BY <2>1, NoLocksAfter
  <1>6. ASSUME NEW y \in Txs, y # x PROVE LockInv(y)' /\ Locks(y)' = Locks(y)
    <2>1. Keeps(y)
      BY <1>3, <1>6, SameKeeps
    <2>2. Locks(y) \subseteq Rows
      BY <1>0, LockedRows
    <2>3. \A row \in Locks(y) : holder'[row] = holder[row]
      BY <1>0, <1>4, <1>6, <2>2 DEF LocksExclusive
    <2>4. \A row \in Taken(y) : row[1] \in seeded'
      BY <1>0, <1>1 DEF LockInv
    <2>. QED  BY <1>0, <2>1, <2>3, <2>4, KeepsLockInv, KeepsLocks
  <1>7. LocksExclusive'
    BY <1>0, <1>5, <1>6 DEF LocksExclusive
  <1>. QED  BY <1>5, <1>6, <1>7

\* A direct step waits for the locks.
LEMMA DirectLocks ==
    ASSUME Locked, WaitForLocks, \A y \in Txs : Keeps(y)
    PROVE  LocksExclusive' /\ \A y \in Txs : LockInv(y)'
  <1>0. Shaped /\ LocksExclusive /\ \A y \in Txs : LockInv(y) /\ Shape(y)
    BY DEF Locked, Shaped
  <1>1. ASSUME NEW y \in Txs PROVE LockInv(y)' /\ Locks(y)' = Locks(y)
    <2>1. CASE Open(y)
      <3>1. \A row \in Locks(y) : holder'[row] = holder[row] /\ row[1] \in seeded'
        BY <2>1 DEF WaitForLocks
      <3>2. \A row \in Taken(y) : row[1] \in seeded'
        BY <3>1 DEF Locks
      <3>. QED  BY <1>0, <3>1, <3>2, KeepsLockInv, KeepsLocks
    <2>2. CASE ~Open(y)
      <3>1. Locks(y) = {} /\ Taken(y) = {}
        BY <1>0, <2>2, IdleLocks DEF Shape
      <3>. QED  BY <1>0, <3>1, KeepsLockInv, KeepsLocks
    <2>. QED  BY <2>1, <2>2
  <1>2. LocksExclusive'
    BY <1>0, <1>1 DEF LocksExclusive
  <1>. QED  BY <1>1, <1>2

\* A commit stores values of the columns' types.
LEMMA CommitTypes ==
    ASSUME Locked, NEW x \in Txs, CommitTx(x)
    PROVE  TypeOK'
  <1>0. Shaped /\ TypeOK /\ LockInv(x) /\ tx[x] \in Records
    BY DEF Locked, Shaped, TxTypeOK
  <1>1. Write(x) /\ Open(x)
    BY <1>0, CommitFacts
  <1>2. tx[x].to \in Nodes /\ tx[x].tun \in Tunnels
    BY <1>0, <1>1 DEF Shaped, Shape
  <1>3. tx[x].mach \in Machines \cup {None} /\ tx[x].req \in SUBSET RouteKeys
    BY <1>0 DEF Records
  <1>4. /\ holder' \in [Rows -> Claims \cup {Free}]
        /\ routes' \in [Claims -> Ports \cup {NoRoute, Shared}]
    BY <1>0, <1>1, WriteFacts
  <1>5. CASE CommitReserve(x)
    BY <1>0, <1>2, <1>3, <1>4, <1>5 DEF CommitReserve, TypeOK, Statuses
  <1>6. CASE CommitEdit(x)
    BY <1>0, <1>2, <1>3, <1>4, <1>6 DEF CommitEdit, TypeOK
  <1>7. CASE CommitMove(x)
    BY <1>0, <1>2, <1>4, <1>7 DEF CommitMove, TypeOK
  <1>. QED  BY <1>5, <1>6, <1>7 DEF CommitTx

\* The steps that are single ones of PortPool.
SingleStep == AdminStep \/ \E t \in Tunnels : DeleteTunnel(t) \/ StatusStep(t)
Single == Direct(AdminStep) \/ \E t \in Tunnels : Direct(DeleteTunnel(t)) \/ Direct(StatusStep(t))

LEMMA SingleFacts ==
    ASSUME TxTypeOK, Single
    PROVE  /\ SingleStep /\ Next /\ WaitForLocks
           /\ tx' \in [Txs -> Records] /\ \A y \in Txs : Keeps(y)
           /\ \A y \in Txs : Open(y) /\ Disturbs(y) => ~tx'[y].alone
  <1>1. /\ WaitForLocks /\ SingleStep
        /\ tx' = [x \in Txs |-> IF Open(x) /\ Disturbs(x) THEN [tx[x] EXCEPT !.alone = FALSE] ELSE tx[x]]
    BY DEF Single, Direct, SingleStep
  <1>2. Next
    BY <1>1 DEF SingleStep, Next, TunnelStep, StatusStep
  <1>3. tx' \in [Txs -> Records]
    BY <1>1, DirectFacts
  <1>4. \A y \in Txs : Keeps(y)
    BY <1>1, DirectFacts
  <1>5. \A y \in Txs : Open(y) /\ Disturbs(y) => ~tx'[y].alone
    BY <1>1, DirectFacts
  <1>. QED  BY <1>1, <1>2, <1>3, <1>4, <1>5

LEMMA LockedStep ==
    ASSUME Locked, [TxNext]_txvars
    PROVE  Locked'
  <1>0. /\ Shaped /\ TxTypeOK /\ TypeOK /\ LocksExclusive
        /\ \A y \in Txs : Shape(y) /\ LockInv(y)
    BY DEF Locked, Shaped, TxTypeOK
  <1>1. ASSUME NEW x \in Txs, TxStep(x) PROVE Locked'
    <2>1. tx' \in [Txs -> Records] /\ Undisturbed(x) /\ (~CommitTx(x) => UNCHANGED vars)
      BY <1>0, <1>1, OthersKeep
    <2>2. TypeOK'
      <3>1. CASE CommitTx(x)
        BY <3>1, CommitTypes
      <3>2. CASE ~CommitTx(x)
        BY <1>0, <2>1, <3>2, TypeStep
      <3>. QED  BY <3>1, <3>2
    <2>3. Shape(x)'
      BY <1>0, <1>1, ShapeTx
    <2>4. \A y \in Txs : y # x => Shape(y)'
      BY <1>0, <2>1, KeepsShape DEF Undisturbed
    <2>5. Shaped'
      BY <2>1, <2>2, <2>3, <2>4 DEF Shaped, TxTypeOK
    <2>6. LocksExclusive' /\ \A y \in Txs : LockInv(y)'
      <3>1. CASE CommitTx(x)
        BY <3>1, CommitLocks
      <3>2. CASE ~CommitTx(x)
        <4>1. LockInv(x)' /\ LocksExclusive'
          BY <1>1, <3>2, StatementLocks
        <4>2. ASSUME NEW y \in Txs, y # x PROVE LockInv(y)'
          <5>1. Keeps(y) /\ UNCHANGED <<holder, seeded>>
            BY <2>1, <3>2, <4>2 DEF Undisturbed, vars
          <5>. QED  BY <1>0, <5>1, KeepsLockInv DEF LockInv
        <4>. QED  BY <4>1, <4>2
      <3>. QED  BY <3>1, <3>2
    <2>. QED  BY <2>5, <2>6 DEF Locked
  <1>2. ASSUME Single PROVE Locked'
    <2>1. Next /\ WaitForLocks /\ tx' \in [Txs -> Records]
      BY <1>0, <1>2, SingleFacts
    <2>2. \A y \in Txs : Keeps(y)
      BY <1>0, <1>2, SingleFacts
    <2>3. TypeOK'
      BY <1>0, <2>1, TypeStep
    <2>4. \A y \in Txs : Shape(y)'
      BY <1>0, <2>2, KeepsShape
    <2>5. Shaped'
      BY <2>1, <2>3, <2>4 DEF Shaped, TxTypeOK
    <2>6. LocksExclusive' /\ \A y \in Txs : LockInv(y)'
      BY <2>1, <2>2, DirectLocks
    <2>. QED  BY <2>5, <2>6 DEF Locked
  <1>3. CASE UNCHANGED txvars
    <2>1. tx' = tx /\ UNCHANGED vars
      BY <1>3 DEF txvars
    <2>2. TypeOK' /\ tx' \in [Txs -> Records]
      BY <1>0, <2>1, TypeStep DEF TxTypeOK
    <2>3. ASSUME NEW y \in Txs PROVE Shape(y)' /\ LockInv(y)' /\ Locks(y)' = Locks(y)
      <3>1. Keeps(y) /\ UNCHANGED <<holder, seeded>>
        BY <2>1, SameKeeps DEF vars
      <3>. QED  BY <1>0, <3>1, KeepsShape, KeepsLockInv, KeepsLocks DEF LockInv
    <2>. QED  BY <1>0, <2>2, <2>3 DEF Locked, Shaped, TxTypeOK, LocksExclusive
  <1>. QED  BY <1>1, <1>2, <1>3 DEF TxNext, Single

LEMMA LockedInit ==
    ASSUME TxInit
    PROVE  Locked
  <1>1. Init /\ tx = [x \in Txs |-> Idle]
    BY DEF TxInit
  <1>2. TxTypeOK
    BY <1>1, IdleType DEF TxTypeOK, Init, TypeOK
  <1>3. \A x \in Txs : tx[x] = Idle
    BY <1>1
  <1>4. \A x \in Txs : Shape(x) /\ LockInv(x) /\ Locks(x) = {}
    BY <1>3, IdleShape, IdleLocks
  <1>. QED  BY <1>2, <1>4 DEF Locked, Shaped, LocksExclusive

\* A row of port_pool that one open transaction has claimed or freed is none that
\* another one has: SKIP LOCKED and the row locks of UPDATE keep them apart,
\* whatever edits, moves and sweeps overlap.
THEOREM LocksHeld == TxSpec => [](TxTypeOK /\ LocksExclusive)
  <1>1. TxInit => Locked
    BY LockedInit
  <1>2. Locked /\ [TxNext]_txvars => Locked'
    BY LockedStep
  <1>3. Locked => TxTypeOK /\ LocksExclusive
    BY DEF Locked, Shaped
  <1>. QED  BY <1>1, <1>2, <1>3, PTL DEF TxSpec

-----------------------------------------------------------------------------
(* Exclusive ports, transaction by transaction.                            *)

\* A reservation inserts the tunnel, so nobody else can be at it.
OwnId(x) ==
    Open(x) /\ tx[x].kind = "reserve" => status[tx[x].tun] = "new" /\ Siblings(x) = {}

\* While it is there, a tunnel keeps the nodes that a transaction found.
HomeInv(x) ==
    Open(x) /\ tx[x].kind # "reserve" =>
        /\ status[tx[x].tun] # "new"
        /\ Live(tx[x].tun) => /\ tx[x].kind = "edit" => tx[x].to \in homes[tx[x].tun]
                              /\ tx[x].kind = "move" => homes[tx[x].tun] \ {tx[x].to} # {}

\* A tunnel's id is not used before it is reserved, and its nodes only grow.
Lasts(t) ==
    /\ status'[t] = "new" <=> status[t] = "new"
    /\ Live(t)' => Live(t) /\ homes[t] \subseteq homes'[t]

\* A statement other than the first leaves open what it was, or closes it.
LEMMA SameTask ==
    ASSUME Shaped, NEW x \in Txs, TxStep(x), ~Begins(x), Open(x)'
    PROVE  Open(x) /\ Task(tx'[x]) = Task(tx[x]) /\ tx'[x].alone = tx[x].alone /\ tx'[x].apart = tx[x].apart
  <1>0. TxTypeOK
    BY DEF Shaped
  <1>1. ASSUME NEW keys \in SUBSET RouteKeys, StartFree(x, keys)
        PROVE  Open(x) /\ Task(tx'[x]) = Task(tx[x]) /\ tx'[x].alone = tx[x].alone /\ tx'[x].apart = tx[x].apart
    BY <1>0, <1>1, StartFreeFacts DEF StartFree, Open
  <1>2. ASSUME EndFree(x)
        PROVE  Open(x) /\ Task(tx'[x]) = Task(tx[x]) /\ tx'[x].alone = tx[x].alone /\ tx'[x].apart = tx[x].apart
    BY <1>0, <1>2, EndFreeFacts DEF EndFree, Open
  <1>3. ASSUME NEW k \in RouteKeys, NEW p \in Ports \cup {Shared}, Add(x, k, p)
        PROVE  Open(x) /\ Task(tx'[x]) = Task(tx[x]) /\ tx'[x].alone = tx[x].alone /\ tx'[x].apart = tx[x].apart
    <2>1. Open(x)
      BY <1>3 DEF Add, Open
    <2>2. Task(tx'[x]) = Task(tx[x])
      BY <1>0, <1>3, AddFacts
    <2>3. tx'[x].alone = tx[x].alone /\ tx'[x].apart = tx[x].apart
      BY <1>0, <1>3, AddFacts
    <2>. QED  BY <2>1, <2>2, <2>3
  <1>4. ASSUME Abort(x) \/ CommitTx(x) PROVE FALSE
    <2>1. Becomes(x, Idle)
      BY <1>4, CommitFacts DEF Abort, Write
    <2>2. tx'[x] = Idle
      BY <1>0, <2>1, IdleType, BecomesFacts
    <2>. QED  BY <2>2 DEF Open, Idle
  <1>. QED  BY <1>1, <1>2, <1>3, <1>4 DEF TxStep, Begins

\* What the single steps leave of a tunnel's row.
LEMMA SingleLasts ==
    ASSUME TypeOK, SingleStep, NEW t \in Tunnels
    PROVE  Lasts(t)
  <1> USE DEF Lasts, Live, Statuses
  <1>1. ASSUME NEW S \in SUBSET {u \in Tunnels : status[u] # "new"}, Delete(S) PROVE Lasts(t)
    BY <1>1 DEF Delete, TypeOK
  <1>2. ASSUME UNCHANGED <<status, homes>> PROVE Lasts(t)
    BY <1>2
  <1>3. CASE AdminStep
    BY <1>1, <1>2, <1>3
    DEF AdminStep, DeleteUser, DeleteDevice, Reconcile, ExpireIdle, RegisterNode, DeleteNode
  <1>4. ASSUME NEW u \in Tunnels, DeleteTunnel(u) PROVE Lasts(t)
    BY <1>1, <1>4 DEF DeleteTunnel
  <1>5. ASSUME NEW u \in Tunnels, StatusStep(u) PROVE Lasts(t)
    BY <1>5 DEF StatusStep, TunnelUp, TunnelDown, StopTunnel, StartTunnel, SetStatus, TypeOK
  <1>. QED  BY <1>3, <1>4, <1>5 DEF SingleStep

LEMMA KeepsHomes ==
    ASSUME NEW y \in Txs, HomeInv(y), Keeps(y), Open(y) => Lasts(tx[y].tun)
    PROVE  HomeInv(y)'
  <1>1. /\ Open(y)' = Open(y) /\ tx'[y].kind = tx[y].kind /\ tx'[y].tun = tx[y].tun
        /\ tx'[y].to = tx[y].to
    BY KeepsLocks
  <1>. QED  BY <1>1 DEF HomeInv, Lasts

\* If nothing begins, nobody gets a sibling.
LEMMA SiblingsShrink ==
    ASSUME \A u \in Txs : Open(u)' => Open(u) /\ tx'[u].tun = tx[u].tun,
           NEW y \in Txs, Open(y)'
    PROVE  Siblings(y)' \subseteq Siblings(y)
  BY DEF Siblings

LEMMA KeepsOwnId ==
    ASSUME NEW y \in Txs, OwnId(y), Keeps(y), Open(y) => Lasts(tx[y].tun),
           Siblings(y)' \subseteq Siblings(y)
    PROVE  OwnId(y)'
  <1>1. Open(y)' = Open(y) /\ tx'[y].kind = tx[y].kind /\ tx'[y].tun = tx[y].tun
    BY KeepsLocks
  <1>. QED  BY <1>1 DEF OwnId, Lasts

Owned == \A y \in Txs : OwnId(y) /\ HomeInv(y)

\* A transaction begins at a tunnel that is there, a reservation at an id that
\* nobody else is at.
LEMMA BeginOwned ==
    ASSUME Shaped, Owned, NEW x \in Txs, Begins(x)
    PROVE  Owned'
  <1>0. TxTypeOK /\ ~Open(x) /\ \A y \in Txs : OwnId(y) /\ HomeInv(y)
    BY BeginsIdle DEF Shaped, Owned
  <1>1. PICK t \in Tunnels, n \in Nodes :
           \/ \E m \in Machines, req \in Requests \ {{}} : BeginReserve(x, t, m, n, req)
           \/ \E req \in Requests : BeginEdit(x, t, n, req)
           \/ BeginMove(x, t, n)
    BY DEF Begins
  <1>2. /\ tx'[x].tun = t /\ tx'[x].to = n /\ Undisturbed(x) /\ UNCHANGED vars
        /\ \/ /\ tx'[x].kind = "reserve" /\ status[t] = "new" /\ \A y \in Txs : tx[y].tun # t
           \/ tx'[x].kind = "edit" /\ Live(t) /\ n \in homes[t]
           \/ tx'[x].kind = "move" /\ Live(t) /\ homes[t] \ {n} # {}
    <2>1. ASSUME NEW m \in Machines, NEW req \in Requests \ {{}}, BeginReserve(x, t, m, n, req)
          PROVE  Begun(x, "reserve", t, m, n, req, {})
      BY <1>0, <2>1, BeginFacts, RequestsAssumption DEF BeginReserve
    <2>2. ASSUME NEW req \in Requests, BeginEdit(x, t, n, req)
          PROVE  Begun(x, "edit", t, machine[t], n, req, RoutesOf(t))
      <3>1. RoutesOf(t) \in SUBSET RouteKeys /\ machine[t] \in Machines \cup {None}
        BY <1>0, MachineOf
      <3>. QED  BY <1>0, <2>2, <3>1, BeginFacts, RequestsAssumption DEF BeginEdit
    <2>3. ASSUME BeginMove(x, t, n) PROVE Begun(x, "move", t, None, n, {}, RoutesOf(t))
      <3>1. RoutesOf(t) \in SUBSET RouteKeys
        BY DEF RoutesOf
      <3>. QED  BY <1>0, <2>3, <3>1, BeginFacts DEF BeginMove
    <2>. QED  BY <1>1, <2>1, <2>2, <2>3 DEF Begun, BeginReserve, BeginEdit, BeginMove
  <1>3. UNCHANGED <<status, homes>> /\ \A u \in Tunnels : Live(u)' = Live(u) /\ Lasts(u)
    BY <1>2 DEF vars, Live, Lasts
  <1>4. \A y \in Txs : y # x => Open(y)' = Open(y) /\ tx'[y].tun = tx[y].tun
                                /\ tx'[y].kind = tx[y].kind /\ Keeps(y)
    BY <1>2, KeepsLocks DEF Undisturbed
  <1>5. \A y \in Txs : Open(y) => tx[y].tun \in Tunnels
    BY DEF Shaped, Shape
  <1>6. OwnId(x)'
    BY <1>2, <1>3, <1>4 DEF OwnId, Siblings, Live, Statuses
  <1>7. HomeInv(x)'
    BY <1>2, <1>3 DEF HomeInv, Live, Statuses
  <1>8. ASSUME NEW y \in Txs, y # x PROVE OwnId(y)' /\ HomeInv(y)'
    <2>1. HomeInv(y)'
      BY <1>0, <1>3, <1>4, <1>5, <1>8, KeepsHomes
    <2>2. ASSUME Open(y), tx[y].kind = "reserve" PROVE Siblings(y)' \subseteq Siblings(y)
      <3>1. tx[y].tun # t
        BY <1>0, <1>2, <1>8, <2>2 DEF OwnId, Live, Statuses
      <3>. QED  BY <1>2, <1>4, <1>8, <3>1 DEF Siblings
    <2>3. OwnId(y)'
      BY <1>0, <1>3, <1>4, <1>5, <1>8, <2>2 DEF OwnId, Lasts
    <2>. QED  BY <2>1, <2>3
  <1>. QED  BY <1>6, <1>7, <1>8 DEF Owned

\* A commit changes the row of its own tunnel only.
LEMMA CommitLasts ==
    ASSUME Shaped, NEW x \in Txs, CommitTx(x), NEW t \in Tunnels,
           t # tx[x].tun \/ tx[x].kind # "reserve"
    PROVE  Lasts(t)
  <1>1. TypeOK /\ tx[x].tun \in Tunnels
    BY CommitFacts DEF Shaped, TxTypeOK
  <1>2. CASE CommitReserve(x)
    BY <1>1, <1>2 DEF CommitReserve, Lasts, Live, TypeOK
  <1>3. CASE CommitEdit(x)
    BY <1>3 DEF CommitEdit, Lasts, Live
  <1>4. CASE CommitMove(x)
    BY <1>1, <1>4 DEF CommitMove, Lasts, Live, TypeOK
  <1>. QED  BY <1>2, <1>3, <1>4 DEF CommitTx

LEMMA OwnedStep ==
    ASSUME Locked, Owned, [TxNext]_txvars
    PROVE  Owned'
  <1>0. /\ Shaped /\ TxTypeOK /\ TypeOK
        /\ \A y \in Txs : LockInv(y) /\ Shape(y) /\ OwnId(y) /\ HomeInv(y)
        /\ \A y \in Txs : Open(y) => tx[y].tun \in Tunnels
    BY DEF Locked, Shaped, TxTypeOK, Owned, Shape
  <1>1. ASSUME NEW x \in Txs, TxStep(x), ~Begins(x) PROVE Owned'
    <2>1. Undisturbed(x) /\ (~CommitTx(x) => UNCHANGED vars)
      BY <1>0, <1>1, OthersKeep
    <2>2. \A y \in Txs : Open(y)' => Open(y) /\ tx'[y].tun = tx[y].tun
      <3>1. Open(x)' => Open(x) /\ tx'[x].tun = tx[x].tun
        BY <1>0, <1>1, SameTask, TaskFacts
      <3>. QED  BY <2>1, <3>1, KeepsLocks DEF Undisturbed
    <2>3. \A y \in Txs : Open(y)' => Siblings(y)' \subseteq Siblings(y)
      BY <2>2, SiblingsShrink
    <2>4. \A t \in Tunnels : t # tx[x].tun \/ tx[x].kind # "reserve" => Lasts(t)
      <3>1. CASE CommitTx(x)
        BY <1>0, <3>1, CommitLasts
      <3>2. CASE ~CommitTx(x)
        BY <2>1, <3>2 DEF vars, Lasts, Live
      <3>. QED  BY <3>1, <3>2
    <2>5. ASSUME NEW y \in Txs, y # x PROVE OwnId(y)' /\ HomeInv(y)'
      <3>1. Keeps(y)
        BY <2>1, <2>5 DEF Undisturbed
      <3>2. Open(x)
        BY <1>0, <1>1, CommitFacts DEF TxStep, Begins, StartFree, EndFree, Add, Abort, Open
      <3>3. Open(y) => Lasts(tx[y].tun)
        <4>1. ASSUME Open(y), tx[x].kind = "reserve" PROVE tx[y].tun # tx[x].tun
          BY <1>0, <2>5, <3>2, <4>1 DEF OwnId, Siblings
        <4>. QED  BY <1>0, <2>4, <4>1
      <3>4. HomeInv(y)'
        BY <1>0, <3>1, <3>3, KeepsHomes
      <3>5. OwnId(y)'
        BY <1>0, <2>3, <3>1, <3>3, KeepsOwnId DEF OwnId
      <3>. QED  BY <3>4, <3>5
    <2>6. OwnId(x)' /\ HomeInv(x)'
      <3>1. CASE CommitTx(x)
        <4>1. Becomes(x, Idle)
          BY <1>0, <3>1, CommitFacts DEF Write
        <4>2. tx'[x] = Idle
          BY <1>0, <4>1, IdleType, BecomesFacts
        <4>. QED  BY <4>2 DEF OwnId, HomeInv, Open, Idle
      <3>2. CASE ~CommitTx(x)
        <4>1. UNCHANGED <<status, homes>>
          BY <2>1, <3>2 DEF vars
        <4>2. Open(x)' => Open(x) /\ Task(tx'[x]) = Task(tx[x])
          BY <1>0, <1>1, SameTask
        <4>3. Open(x)' => /\ tx'[x].kind = tx[x].kind /\ tx'[x].tun = tx[x].tun
                          /\ tx'[x].to = tx[x].to
          BY <4>2, TaskFacts
        <4>. QED  BY <1>0, <2>3, <4>1, <4>2, <4>3 DEF OwnId, HomeInv, Live
      <3>. QED  BY <3>1, <3>2
    <2>. QED  BY <2>5, <2>6 DEF Owned
  <1>2. ASSUME \/ Single
               \/ UNCHANGED txvars
        PROVE  Owned'
    <2>1. \A y \in Txs : Keeps(y)
      <3>1. CASE Single
        BY <1>0, <3>1, SingleFacts
      <3>2. CASE UNCHANGED txvars
        BY <3>2, SameKeeps DEF txvars
      <3>. QED  BY <1>2, <3>1, <3>2
    <2>2. \A t \in Tunnels : Lasts(t)
      <3>1. CASE Single
        BY <1>0, <3>1, SingleFacts, SingleLasts
      <3>2. CASE UNCHANGED txvars
        BY <3>2 DEF txvars, vars, Lasts, Live
      <3>. QED  BY <1>2, <3>1, <3>2
    <2>3. \A y \in Txs : Open(y)' => Open(y) /\ tx'[y].tun = tx[y].tun
      BY <2>1, KeepsLocks
    <2>4. \A y \in Txs : Open(y)' => Siblings(y)' \subseteq Siblings(y)
      BY <2>3, SiblingsShrink
    <2>. QED  BY <1>0, <2>1, <2>2, <2>4, KeepsHomes, KeepsOwnId DEF Owned, OwnId
  <1>. QED  BY <1>0, <1>1, <1>2, BeginOwned DEF TxNext, Single

\* A direct step that writes no routes leaves tunnels without any.
LEMMA SingleUnrouted ==
    ASSUME TypeOK, Unrouted, SingleStep
    PROVE  Unrouted'
  <1>1. ASSUME NEW S \in SUBSET Tunnels, Delete(S) PROVE Unrouted'
    BY <1>1 DEF Delete, Release, Unrouted, Claims, TypeOK, Live
  <1>2. ASSUME NEW S \in SUBSET Tunnels, ExpireIdle(S) PROVE Unrouted'
    BY <1>2 DEF ExpireIdle, Release, Unrouted, Claims, Live
  <1>3. ASSUME UNCHANGED <<routes, status>> PROVE Unrouted'
    BY <1>3 DEF Unrouted, Live
  <1>4. ASSUME NEW t \in Tunnels, StatusStep(t) PROVE Unrouted'
    BY <1>4 DEF StatusStep, TunnelUp, TunnelDown, StopTunnel, StartTunnel, SetStatus, TypeOK,
                Unrouted, Live, Statuses
  <1>5. CASE AdminStep
    BY <1>1, <1>2, <1>3, <1>5
    DEF AdminStep, DeleteUser, DeleteDevice, Reconcile, RegisterNode, DeleteNode
  <1>. QED  BY <1>1, <1>4, <1>5 DEF SingleStep, DeleteTunnel

\* The commit of a transaction gives a settled tunnel's new routes rows of its
\* only node, and takes no row from a route that it did not drop.
LEMMA CommitSettled ==
    ASSUME Locked, Owned, SettledInv, NEW x \in Txs, CommitTx(x)
    PROVE  SettledInv'
  <1> DEFINE t == tx[x].tun
  <1>0. /\ Shaped /\ TypeOK /\ Shape(x) /\ LockInv(x) /\ OwnId(x) /\ HomeInv(x) /\ tx[x] \in Records
        /\ Unrouted /\ Homed /\ OwnRow
    BY DEF Locked, Shaped, TxTypeOK, Owned, SettledInv
  <1>1. Write(x) /\ Open(x) /\ t \in Tunnels /\ tx[x].to \in Nodes
    BY <1>0, CommitFacts DEF Shape
  <1>2. TypeOK'
    BY CommitTypes
  <1>3. \A c \in Claims : c[1] # t => routes'[c] = routes[c]
    BY <1>0, <1>1, WriteFacts
  <1>4. ASSUME NEW k \in RouteKeys
        PROVE  /\ k \in tx[x].put => routes'[Claim(x, k)] = tx[x].got[k]
               /\ k \notin tx[x].put /\ k \in Written(x) => routes'[Claim(x, k)] = NoRoute
               /\ k \notin Written(x) => routes'[Claim(x, k)] = routes[Claim(x, k)]
    <2>1. routes'[Claim(x, k)] = IF k \in tx[x].put THEN tx[x].got[k]
                 ELSE IF k \in Written(x) THEN NoRoute ELSE routes[Claim(x, k)]
      BY <1>0, <1>1, WriteFacts
    <2>. QED  BY <2>1 DEF Written
  <1>5. \A k \in Claiming(x) : holder'[<<tx[x].to, tx[x].got[k]>>] = Claim(x, k)
    BY <1>0, <1>1, WriteFacts
  <1>6. ASSUME NEW c \in Claims, NEW n \in Nodes, holder[<<n, routes[c]>>] = c,
               routes[c] \in Ports, c \notin ClaimsOf(t, tx[x].done)
        PROVE  holder'[<<n, routes[c]>>] = c
    <2> DEFINE row == <<n, routes[c]>>
    <2>1. row \in Rows /\ c # Free
      BY <1>6, MarksAssumption DEF Rows, Claims
    <2>2. row \notin tx[x].freed
      BY <1>0, <1>6 DEF LockInv
    <2>3. row \notin Taken(x)
      BY <1>0, <1>6, <2>1, <2>2 DEF LockInv
    <2>4. row \notin Locks(x)
      BY <2>2, <2>3 DEF Locks
    <2>5. holder'[row] = holder[row]
      <3>1. \A r \in Rows : r \notin Locks(x) => holder'[r] = holder[r]
        BY <1>0, <1>1, WriteFacts
      <3>. QED  BY <2>1, <2>4, <3>1
    <2>. QED  BY <1>6, <2>5
  <1>7. \A c \in Claims : c[1] \in Tunnels /\ c = <<c[1], c[2]>> /\ c[2] \in RouteKeys
    BY DEF Claims
  <1>8. Unrouted' /\ Homed'
    <2>1. CASE CommitReserve(x)
      BY <1>0, <1>1, <1>3, <2>1 DEF CommitReserve, TypeOK, Unrouted, Homed, Claims, Live, Statuses
    <2>2. CASE CommitEdit(x)
      BY <1>0, <1>1, <1>3, <2>2 DEF CommitEdit, Unrouted, Homed, Claims, Live
    <2>3. CASE CommitMove(x)
      BY <1>0, <1>1, <1>3, <2>3 DEF CommitMove, TypeOK, Unrouted, Homed, Claims, Live
    <2>. QED  BY <2>1, <2>2, <2>3 DEF CommitTx
  <1>9. OwnRow'
    <2> SUFFICES ASSUME NEW c \in Claims, NEW n \in Nodes \ Removable,
                        homes'[c[1]] = {n}, routes'[c] \in Ports
                 PROVE  holder'[<<n, routes'[c]>>] = c
      BY DEF OwnRow
    <2>1. CASE c[1] # t
      <3>1. homes'[c[1]] = homes[c[1]]
        BY <1>0, <1>7, <2>1 DEF CommitTx, CommitReserve, CommitEdit, CommitMove, TypeOK
      <3>2. routes'[c] = routes[c] /\ c \notin ClaimsOf(t, tx[x].done)
        BY <1>3, <2>1 DEF ClaimsOf
      <3>. QED  BY <1>0, <1>6, <3>1, <3>2 DEF OwnRow
    <2>2. CASE c[1] = t
      <3> DEFINE k == c[2]
      <3>1. c = Claim(x, k) /\ k \in RouteKeys
        BY <1>7, <2>2 DEF Claim
      <3>2. n = tx[x].to /\ tx[x].kind # "move"
        <4>1. CASE CommitReserve(x)
          BY <1>0, <1>1, <2>2, <4>1 DEF CommitReserve, TypeOK
        <4>2. CASE CommitEdit(x)
          BY <1>0, <1>1, <2>2, <4>2 DEF CommitEdit, HomeInv
        <4>3. CASE CommitMove(x)
          <5>1. homes'[t] = homes[t] \cup {tx[x].to} /\ homes[t] \ {tx[x].to} # {}
            BY <1>0, <1>1, <4>3 DEF CommitMove, TypeOK, HomeInv
          <5>. QED  BY <2>2, <5>1
        <4>. QED  BY <4>1, <4>2, <4>3 DEF CommitTx
      <3>3. CASE k \in tx[x].put
        <4>1. routes'[c] = tx[x].got[k] /\ k \in Claiming(x)
          BY <1>4, <3>1, <3>3 DEF Claiming
        <4>. QED  BY <1>5, <3>1, <3>2, <4>1
      <3>4. CASE k \notin tx[x].put
        <4>1. k \notin Written(x) /\ routes'[c] = routes[c]
          BY <1>4, <3>1, <3>4, MarksAssumption
        <4>2. tx[x].kind = "edit" /\ k \notin tx[x].done
          <5>1. tx[x].kind = "reserve" => routes[c] = NoRoute
            BY <1>0, <1>1, <3>1 DEF OwnId, Unrouted, Live, Statuses, Claim
          <5>2. tx[x].kind \in {"reserve", "edit", "move"}
            BY <1>0, <1>1 DEF Shape
          <5>. QED  BY <3>2, <4>1, <5>1, <5>2, MarksAssumption DEF Written
        <4>3. homes[t] = {n} /\ Live(t)
          <5>1. CommitEdit(x)
            BY <4>2 DEF CommitTx, CommitReserve, CommitMove
          <5>. QED  BY <2>2, <5>1 DEF CommitEdit
        <4>4. c \notin ClaimsOf(t, tx[x].done)
          BY <4>2 DEF ClaimsOf
        <4>. QED  BY <1>0, <1>6, <2>2, <4>1, <4>3, <4>4 DEF OwnRow
      <3>. QED  BY <3>3, <3>4
    <2>. QED  BY <2>1, <2>2
  <1>. QED  BY <1>2, <1>8, <1>9 DEF SettledInv

LEMMA TxSettledStep ==
    ASSUME Locked, Owned, SettledInv, [TxNext]_txvars
    PROVE  SettledInv'
  <1>0. Shaped /\ TxTypeOK /\ TypeOK /\ Unrouted /\ Homed /\ OwnRow
        /\ \A y \in Txs : LockInv(y)
    BY DEF Locked, Shaped, TxTypeOK, SettledInv
  <1>1. ASSUME UNCHANGED vars PROVE SettledInv'
    BY <1>0, <1>1, TypeStep, HomedStep, OwnRowStep DEF SettledInv, vars, Unrouted, Live
  <1>2. ASSUME NEW x \in Txs, TxStep(x) PROVE SettledInv'
    <2>1. ~CommitTx(x) => UNCHANGED vars
      BY <1>0, <1>2, OthersKeep
    <2>. QED  BY <1>1, <2>1, CommitSettled
  <1>3. ASSUME Single PROVE SettledInv'
    <2>1. SingleStep /\ Next
      BY <1>0, <1>3, SingleFacts
    <2>. QED  BY <1>0, <2>1, SingleUnrouted, TypeStep, HomedStep, OwnRowStep DEF SettledInv
  <1>. QED  BY <1>1, <1>2, <1>3 DEF TxNext, Single, txvars

LEMMA SettledInit ==
    ASSUME TxInit
    PROVE  Locked /\ Owned /\ SettledInv
  <1>1. Locked /\ Init /\ \A x \in Txs : tx[x] = Idle
    BY LockedInit DEF TxInit
  <1>2. Owned
    BY <1>1, IdleLocks DEF Owned, OwnId, HomeInv
  <1>3. SettledInv
    BY <1>1 DEF Init, SettledInv, TypeOK, Unrouted, Homed, OwnRow, Live, Statuses, Claims
  <1>. QED  BY <1>1, <1>2, <1>3

\* Exclusive needs no transaction to be alone: the ports of settled tunnels stay
\* apart however the statements of reservations, edits and moves interleave.
THEOREM TxExclusive == TxSpec => []ExclusivePorts
  <1> DEFINE IInv == Locked /\ Owned /\ SettledInv
  <1>1. TxInit => IInv
    BY SettledInit
  <1>2. IInv /\ [TxNext]_txvars => IInv'
    BY LockedStep, OwnedStep, TxSettledStep
  <1>3. IInv => ExclusivePorts
    BY SettledExclusive
  <1>. QED  BY <1>1, <1>2, <1>3, PTL DEF TxSpec

-----------------------------------------------------------------------------
(* A transaction that is alone does what PortPool's does in one step.      *)

\* What one that nobody came in between found when it began still holds.
AloneTask(x) ==
    Open(x) /\ tx[x].alone =>
        /\ tx[x].kind # "edit" => tx[x].to \in seeded
        /\ tx[x].kind = "move" => tx[x].to \in Targets
        /\ tx[x].kind # "move" => tx[x].req \in Requests
        /\ tx[x].kind = "reserve" =>
              /\ tx[x].mach \in Machines /\ tx[x].req # {}
              /\ Count(tx[x].mach.owner) < max_tunnels
              /\ \A y \in Txs \ {x} : Open(y) /\ tx[y].kind = "reserve" =>
                    tx[y].mach.owner # tx[x].mach.owner
        /\ Siblings(x) = {}

\* It loaded the routes there are, frees every row it means to free, and writes
\* every route it means to write.
AloneRows(x) ==
    Open(x) /\ tx[x].alone /\ (tx[x].kind = "reserve" \/ Live(tx[x].tun)) =>
        /\ tx[x].kind # "reserve" => RoutesOf(tx[x].tun) = tx[x].seen
        /\ \A row \in Rows :
              /\ holder[row] \in ClaimsOf(tx[x].tun, tx[x].keys) => row \in tx[x].look
              /\ holder[row] \in ClaimsOf(tx[x].tun, tx[x].done) => row \in tx[x].freed
        /\ tx[x].put = {k \in RouteKeys : tx[x].got[k] # NoRoute}

\* What a step must leave to a transaction that stays alone.
Spares(y) ==
    Open(y) /\ tx'[y].alone =>
        /\ tx[y].to \in seeded => tx[y].to \in seeded'
        /\ tx[y].kind = "reserve" =>
              /\ \A t \in Tunnels : Live(t)' /\ machine'[t].owner = tx[y].mach.owner =>
                    Live(t) /\ machine[t].owner = tx[y].mach.owner
              /\ \A u \in Txs \ {y} : Open(u)' /\ tx'[u].kind = "reserve" =>
                    tx'[u].mach.owner # tx[y].mach.owner
        /\ Siblings(y)' = {}
        /\ tx[y].kind # "reserve" /\ Live(tx[y].tun)' =>
              Live(tx[y].tun) /\ RoutesOf(tx[y].tun)' = RoutesOf(tx[y].tun)
        /\ \A row \in Rows : holder'[row] \in ClaimsOf(tx[y].tun, RouteKeys) => holder'[row] = holder[row]

LEMMA CountShrinks ==
    ASSUME NEW S \in SUBSET Tunnels, NEW T \in SUBSET S
    PROVE  Cardinality(T) \in Nat /\ Cardinality(S) \in Nat /\ Cardinality(T) <= Cardinality(S)
  <1>1. IsFiniteSet(S)
    BY QuotaAssumption, FS_Subset
  <1>2. IsFiniteSet(T) /\ Cardinality(T) <= Cardinality(S)
    BY <1>1, FS_Subset
  <1>. QED  BY <1>1, <1>2, FS_CardinalityType

LEMMA KeepsAlone ==
    ASSUME Shaped, NEW y \in Txs, AloneTask(y), AloneRows(y), Keeps(y), Spares(y)
    PROVE  AloneTask(y)' /\ AloneRows(y)'
  <1>1. /\ Open(y)' = Open(y) /\ tx'[y].kind = tx[y].kind /\ tx'[y].tun = tx[y].tun
        /\ tx'[y].mach = tx[y].mach /\ tx'[y].to = tx[y].to /\ tx'[y].req = tx[y].req
        /\ tx'[y].seen = tx[y].seen
    BY KeepsLocks
  <1>2. /\ tx'[y].alone => tx[y].alone
        /\ tx'[y].keys = tx[y].keys /\ tx'[y].look = tx[y].look /\ tx'[y].done = tx[y].done
        /\ tx'[y].freed = tx[y].freed /\ tx'[y].put = tx[y].put /\ tx'[y].got = tx[y].got
    BY DEF Keeps
  <1> SUFFICES ASSUME Open(y), tx'[y].alone PROVE AloneTask(y)' /\ AloneRows(y)'
    BY <1>1 DEF AloneTask, AloneRows
  <1>3. tx[y].alone
    BY <1>2
  <1>4. AloneTask(y)'
    <2>1. ASSUME tx[y].kind = "reserve"
          PROVE  /\ Count(tx[y].mach.owner)' < max_tunnels
                 /\ \A u \in Txs \ {y} : Open(u)' /\ tx'[u].kind = "reserve" =>
                       tx'[u].mach.owner # tx'[y].mach.owner
      <3> DEFINE o == tx[y].mach.owner
                 S == {t \in Tunnels : Live(t) /\ machine[t].owner = o}
                 T == {t \in Tunnels : Live(t)' /\ machine'[t].owner = o}
      <3>1. S \in SUBSET Tunnels /\ T \in SUBSET S
        BY <2>1 DEF Spares
      <3>2. Count(tx[y].mach.owner) < max_tunnels
        BY <1>3, <2>1 DEF AloneTask
      <3>3. Count(tx[y].mach.owner) = Cardinality(S) /\ Count(tx[y].mach.owner)' = Cardinality(T)
        BY <1>1 DEF Count
      <3> HIDE DEF S, T
      <3>4. Cardinality(T) \in Nat /\ Cardinality(S) \in Nat /\ Cardinality(T) <= Cardinality(S)
        BY <3>1, CountShrinks
      <3>5. Count(tx[y].mach.owner)' < max_tunnels
        BY <3>2, <3>3, <3>4, QuotaAssumption
      <3>. QED  BY <1>1, <2>1, <3>5 DEF Spares
    <2>. QED  BY <1>1, <1>3, <2>1 DEF AloneTask, Spares
  <1>5. AloneRows(y)'
    <2>1. tx[y].done \cup tx[y].keys \subseteq RouteKeys
      BY DEF Shaped, TxTypeOK, Records
    <2>2. SUFFICES ASSUME tx[y].kind = "reserve" \/ Live(tx[y].tun)'
                   PROVE  /\ tx[y].kind # "reserve" => RoutesOf(tx[y].tun)' = tx[y].seen
                          /\ \A row \in Rows :
                               /\ holder'[row] \in ClaimsOf(tx[y].tun, tx[y].keys) => row \in tx[y].look
                               /\ holder'[row] \in ClaimsOf(tx[y].tun, tx[y].done) => row \in tx[y].freed
                          /\ tx[y].put = {k \in RouteKeys : tx[y].got[k] # NoRoute}
      BY <1>1, <1>2 DEF AloneRows, Live, RoutesOf
    <2>3. tx[y].kind = "reserve" \/ Live(tx[y].tun)
      BY <2>2 DEF Spares
    <2>4. ASSUME NEW row \in Rows
          PROVE  /\ holder'[row] \in ClaimsOf(tx[y].tun, tx[y].keys) => row \in tx[y].look
                 /\ holder'[row] \in ClaimsOf(tx[y].tun, tx[y].done) => row \in tx[y].freed
      <3>1. holder'[row] \in ClaimsOf(tx[y].tun, tx[y].keys \cup tx[y].done) => holder'[row] = holder[row]
        BY <2>1 DEF Spares, ClaimsOf
      <3>2. /\ holder[row] \in ClaimsOf(tx[y].tun, tx[y].keys) => row \in tx[y].look
            /\ holder[row] \in ClaimsOf(tx[y].tun, tx[y].done) => row \in tx[y].freed
        BY <1>3, <2>3 DEF AloneRows
      <3>. QED  BY <3>1, <3>2 DEF ClaimsOf
    <2>5. /\ tx[y].kind # "reserve" => RoutesOf(tx[y].tun) = tx[y].seen
          /\ tx[y].put = {k \in RouteKeys : tx[y].got[k] # NoRoute}
      BY <1>3, <2>3 DEF AloneRows
    <2>. QED  BY <2>2, <2>4, <2>5 DEF Spares
  <1>. QED  BY <1>4, <1>5

Lone == \A y \in Txs : AloneTask(y) /\ AloneRows(y)

\* One that begins is alone if it has no rivals, and those are alone no longer.
LEMMA BeginLone ==
    ASSUME Shaped, Lone, NEW x \in Txs, Begins(x)
    PROVE  Lone'
  <1>0. TxTypeOK /\ \A y \in Txs : AloneTask(y) /\ AloneRows(y)
    BY DEF Shaped, Lone
  <1>1. PICK kind \in {"reserve", "edit", "move"}, t \in Tunnels, m \in Machines \cup {None},
             n \in Nodes, req \in SUBSET RouteKeys, seen \in SUBSET RouteKeys :
           /\ Begun(x, kind, t, m, n, req, seen)
           /\ kind # "edit" => n \in seeded
           /\ kind = "move" => n \in Targets
           /\ kind # "move" => req \in Requests
           /\ kind = "reserve" => m \in Machines /\ req # {} /\ Count(m.owner) < max_tunnels
           /\ kind # "reserve" => seen = RoutesOf(t)
    <2>1. PICK t \in Tunnels, n \in Nodes :
             \/ \E m \in Machines, req \in Requests \ {{}} : BeginReserve(x, t, m, n, req)
             \/ \E req \in Requests : BeginEdit(x, t, n, req)
             \/ BeginMove(x, t, n)
      BY DEF Begins
    <2>2. RoutesOf(t) \in SUBSET RouteKeys /\ machine[t] \in Machines \cup {None}
      BY <1>0, MachineOf
    <2>3. ASSUME NEW m \in Machines, NEW req \in Requests \ {{}}, BeginReserve(x, t, m, n, req)
          PROVE  /\ Begun(x, "reserve", t, m, n, req, {}) /\ req \in SUBSET RouteKeys
                 /\ n \in seeded /\ Count(m.owner) < max_tunnels
      BY <1>0, <2>3, BeginFacts, RequestsAssumption DEF BeginReserve
    <2>4. ASSUME NEW req \in Requests, BeginEdit(x, t, n, req)
          PROVE  Begun(x, "edit", t, machine[t], n, req, RoutesOf(t)) /\ req \in SUBSET RouteKeys
      BY <1>0, <2>2, <2>4, BeginFacts, RequestsAssumption DEF BeginEdit
    <2>5. ASSUME BeginMove(x, t, n)
          PROVE  Begun(x, "move", t, None, n, {}, RoutesOf(t)) /\ n \in seeded \cap Targets
      BY <1>0, <2>2, <2>5, BeginFacts DEF BeginMove
    <2>6. ASSUME NEW m \in Machines, NEW req \in Requests \ {{}}, BeginReserve(x, t, m, n, req)
          PROVE  \E seen \in SUBSET RouteKeys : Begun(x, "reserve", t, m, n, req, seen)
      BY <2>3, <2>6
    <2>. QED  BY <2>1, <2>2, <2>3, <2>4, <2>5, <2>6
  <1> DEFINE rivals == Rivals(kind, t, m)
  <1>2. /\ UNCHANGED vars /\ Undisturbed(x)
        /\ tx'[x].kind = kind /\ tx'[x].tun = t /\ tx'[x].mach = m /\ tx'[x].to = n
        /\ tx'[x].req = req /\ tx'[x].seen = seen /\ tx'[x].alone = (rivals = {})
        /\ tx'[x].done = {} /\ tx'[x].keys = {} /\ tx'[x].put = {}
        /\ tx'[x].got = [k \in RouteKeys |-> NoRoute]
    BY <1>1 DEF Begun
  <1>9. \A y \in Txs : y # x /\ y \in rivals => ~tx'[y].alone
    BY <1>1 DEF Begun
  <1>3. \A y \in Txs : Open(y) /\ y \notin rivals =>
           /\ tx[y].tun # t
           /\ kind = "reserve" /\ tx[y].kind = "reserve" => tx[y].mach.owner # m.owner
    BY DEF Rivals
  <1> HIDE DEF rivals
  <1>4. /\ UNCHANGED <<status, machine, seeded, holder>>
        /\ \A u \in Tunnels : Live(u)' = Live(u) /\ RoutesOf(u)' = RoutesOf(u)
        /\ Count(m.owner)' = Count(m.owner)
    BY <1>2 DEF vars, Live, RoutesOf, Count
  <1>5. \A y \in Txs : y # x => /\ Keeps(y) /\ Open(y)' = Open(y) /\ tx'[y].tun = tx[y].tun
                                /\ tx'[y].kind = tx[y].kind /\ tx'[y].mach = tx[y].mach
    BY <1>2, KeepsLocks DEF Undisturbed
  <1>6. ASSUME NEW y \in Txs, y # x PROVE AloneTask(y)' /\ AloneRows(y)'
    <2>1. Spares(y)
      <3> SUFFICES ASSUME Open(y), tx'[y].alone PROVE Spares(y)
        BY DEF Spares
      <3>1. y \notin rivals /\ tx[y].alone
        BY <1>5, <1>6, <1>9 DEF Keeps
      <3>2. tx[y].tun \in Tunnels
        BY DEF Shaped, Shape
      <3>3. tx[y].kind = "reserve" => \A u \in Txs \ {y} : Open(u)' /\ tx'[u].kind = "reserve" =>
                    tx'[u].mach.owner # tx[y].mach.owner
        BY <1>0, <1>2, <1>3, <1>5, <1>6, <3>1 DEF AloneTask
      <3>4. Siblings(y)' = {}
        BY <1>0, <1>2, <1>3, <1>5, <1>6, <3>1 DEF AloneTask, Siblings
      <3>. QED  BY <1>4, <1>5, <1>6, <3>2, <3>3, <3>4 DEF Spares
    <2>. QED  BY <1>0, <1>5, <1>6, <2>1, KeepsAlone
  <1>7. AloneTask(x)'
    <2> SUFFICES ASSUME rivals = {} PROVE AloneTask(x)'
      BY <1>2 DEF AloneTask
    <2>1. Siblings(x)' = {}
      BY <1>2, <1>3, <1>5 DEF Siblings
    <2>2. kind = "reserve" => \A y \in Txs \ {x} : Open(y)' /\ tx'[y].kind = "reserve" =>
             tx'[y].mach.owner # m.owner
      BY <1>3, <1>5
    <2>3. kind = "reserve" => Count(tx[x].mach.owner)' < max_tunnels
      <3>1. Count(tx[x].mach.owner)' = Cardinality({u \in Tunnels : Live(u)' /\ machine'[u].owner = m.owner})
        BY <1>2 DEF Count
      <3>2. Count(m.owner) = Cardinality({u \in Tunnels : Live(u)' /\ machine'[u].owner = m.owner})
        BY <1>4 DEF Count
      <3>. QED  BY <1>1, <3>1, <3>2
    <2>. QED  BY <1>1, <1>2, <1>4, <2>1, <2>2, <2>3 DEF AloneTask
  <1>8. AloneRows(x)'
    <2>1. ClaimsOf(tx[x].tun, tx[x].keys)' = {} /\ ClaimsOf(tx[x].tun, tx[x].done)' = {}
      BY <1>2 DEF ClaimsOf
    <2>2. tx'[x].put = {k \in RouteKeys : tx'[x].got[k] # NoRoute}
      BY <1>2
    <2>. QED  BY <1>1, <1>2, <1>4, <2>1, <2>2 DEF AloneRows
  <1>. QED  BY <1>6, <1>7, <1>8 DEF Lone

\* The statements of x leave its own part of Lone true.
LEMMA StatementAlone ==
    ASSUME Shaped, NEW x \in Txs, AloneTask(x), AloneRows(x), TxStep(x), ~Begins(x), UNCHANGED vars,
           Open(x)', Siblings(x)' \subseteq Siblings(x),
           \A u \in Txs : Open(u)' => Open(u) /\ tx'[u].kind = tx[u].kind /\ tx'[u].mach = tx[u].mach
    PROVE  AloneTask(x)' /\ AloneRows(x)'
  <1>0. TxTypeOK
    BY DEF Shaped
  <1>1. Open(x) /\ Task(tx'[x]) = Task(tx[x]) /\ tx'[x].alone = tx[x].alone /\ tx'[x].apart = tx[x].apart
    BY SameTask
  <1>2. /\ tx'[x].kind = tx[x].kind /\ tx'[x].tun = tx[x].tun /\ tx'[x].mach = tx[x].mach
        /\ tx'[x].to = tx[x].to /\ tx'[x].req = tx[x].req /\ tx'[x].seen = tx[x].seen
    BY <1>1, TaskFacts
  <1>3. UNCHANGED <<status, machine, routes, seeded, holder>>
    BY DEF vars
  <1>4. AloneTask(x)'
    <2>1. Count(tx[x].mach.owner)' = Count(tx[x].mach.owner)
      BY <1>2, <1>3 DEF Count, Live
    <2>. QED  BY <1>1, <1>2, <1>3, <2>1 DEF AloneTask
  <1>5. AloneRows(x)'
    <2>1. SUFFICES ASSUME tx[x].alone, tx[x].kind = "reserve" \/ Live(tx[x].tun)
                   PROVE  /\ tx[x].kind # "reserve" => RoutesOf(tx[x].tun) = tx[x].seen
                          /\ \A row \in Rows :
                               /\ holder[row] \in ClaimsOf(tx[x].tun, tx'[x].keys) => row \in tx'[x].look
                               /\ holder[row] \in ClaimsOf(tx[x].tun, tx'[x].done) => row \in tx'[x].freed
                          /\ tx'[x].put = {k \in RouteKeys : tx'[x].got[k] # NoRoute}
      BY <1>1, <1>2, <1>3 DEF AloneRows, Live, RoutesOf
    <2>2. /\ tx[x].kind # "reserve" => RoutesOf(tx[x].tun) = tx[x].seen
          /\ \A row \in Rows :
                /\ holder[row] \in ClaimsOf(tx[x].tun, tx[x].keys) => row \in tx[x].look
                /\ holder[row] \in ClaimsOf(tx[x].tun, tx[x].done) => row \in tx[x].freed
          /\ tx[x].put = {k \in RouteKeys : tx[x].got[k] # NoRoute}
      BY <1>1, <2>1 DEF AloneRows
    <2>3. ASSUME NEW keys \in SUBSET RouteKeys, StartFree(x, keys)
          PROVE  /\ \A row \in Rows :
                      /\ holder[row] \in ClaimsOf(tx[x].tun, tx'[x].keys) => row \in tx'[x].look
                      /\ holder[row] \in ClaimsOf(tx[x].tun, tx'[x].done) => row \in tx'[x].freed
                 /\ tx'[x].put = {k \in RouteKeys : tx'[x].got[k] # NoRoute}
      <3>1. /\ tx'[x].keys = keys
            /\ tx'[x].look = {row \in Rows : holder[row] \in ClaimsOf(tx[x].tun, keys)}
            /\ tx'[x].done = tx[x].done /\ tx'[x].freed = tx[x].freed
            /\ tx'[x].got = tx[x].got /\ tx'[x].put = tx[x].put
        BY <1>0, <2>3, StartFreeFacts
      <3>. QED  BY <2>2, <3>1
    <2>4. ASSUME EndFree(x)
          PROVE  /\ \A row \in Rows :
                      /\ holder[row] \in ClaimsOf(tx[x].tun, tx'[x].keys) => row \in tx'[x].look
                      /\ holder[row] \in ClaimsOf(tx[x].tun, tx'[x].done) => row \in tx'[x].freed
                 /\ tx'[x].put = {k \in RouteKeys : tx'[x].got[k] # NoRoute}
      <3>1. /\ tx'[x].keys = {} /\ tx'[x].done = tx[x].done \cup tx[x].keys
            /\ tx'[x].freed = tx[x].freed \cup
                  {row \in tx[x].look : holder[row] \in ClaimsOf(tx[x].tun, tx[x].keys)}
            /\ tx'[x].got = tx[x].got /\ tx'[x].put = tx[x].put
        BY <1>0, <2>4, EndFreeFacts
      <3>2. ClaimsOf(tx[x].tun, tx'[x].keys) = {}
        BY <3>1 DEF ClaimsOf
      <3>3. ClaimsOf(tx[x].tun, tx'[x].done) =
               ClaimsOf(tx[x].tun, tx[x].done) \cup ClaimsOf(tx[x].tun, tx[x].keys)
        BY <3>1 DEF ClaimsOf
      <3>. QED  BY <2>2, <3>1, <3>2, <3>3
    <2>5. ASSUME NEW k \in RouteKeys, NEW p \in Ports \cup {Shared}, Add(x, k, p)
          PROVE  /\ \A row \in Rows :
                      /\ holder[row] \in ClaimsOf(tx[x].tun, tx'[x].keys) => row \in tx'[x].look
                      /\ holder[row] \in ClaimsOf(tx[x].tun, tx'[x].done) => row \in tx'[x].freed
                 /\ tx'[x].put = {j \in RouteKeys : tx'[x].got[j] # NoRoute}
      <3>1. /\ tx'[x].keys = tx[x].keys /\ tx'[x].look = tx[x].look
            /\ tx'[x].done = tx[x].done /\ tx'[x].freed = tx[x].freed
        BY <1>0, <2>5, AddFacts
      <3>2. tx'[x].got[k] = p /\ \A j \in RouteKeys : j # k => tx'[x].got[j] = tx[x].got[j]
        BY <1>0, <2>5, AddFacts
      <3>3. tx'[x].put = IF tx[x].kind = "move" /\ k \notin RoutesOf(tx[x].tun)
                           THEN tx[x].put ELSE tx[x].put \cup {k}
        BY <1>0, <2>5, AddFacts
      <3>4. tx[x].kind = "move" => k \in RoutesOf(tx[x].tun)
        <4>1. tx[x].kind = "move" => k \in tx[x].seen
          BY <2>5 DEF Add, Adds
        <4>. QED  BY <2>2, <4>1
      <3>5. tx'[x].put = tx[x].put \cup {k} /\ p # NoRoute
        BY <3>3, <3>4, MarksAssumption
      <3>6. tx'[x].put = {j \in RouteKeys : tx'[x].got[j] # NoRoute}
        BY <2>2, <3>2, <3>5
      <3>. QED  BY <2>2, <3>1, <3>6
    <2>6. ~(Abort(x) \/ CommitTx(x))
      <3>1. ASSUME Abort(x) \/ CommitTx(x) PROVE FALSE
        <4>1. Becomes(x, Idle)
          BY <3>1, CommitFacts DEF Abort, Write
        <4>2. tx'[x] = Idle
          BY <1>0, <4>1, IdleType, BecomesFacts
        <4>. QED  BY <4>2 DEF Open, Idle
      <3>. QED  BY <3>1
    <2>. QED  BY <2>2, <2>3, <2>4, <2>5, <2>6 DEF TxStep, Begins
  <1>. QED  BY <1>4, <1>5

LEMMA CommitSpares ==
    ASSUME Locked, NEW x \in Txs, CommitTx(x), NEW y \in Txs, y # x, AloneTask(y)
    PROVE  Spares(y)
  <1> SUFFICES ASSUME Open(y), tx'[y].alone PROVE Spares(y)
    BY DEF Spares
  <1>0. Shaped /\ TypeOK /\ LockInv(x)
    BY DEF Locked, Shaped, TxTypeOK
  <1>1. Write(x) /\ Open(x) /\ UNCHANGED seeded /\ tx[x].tun \in Tunnels /\ tx[y].tun \in Tunnels
    BY <1>0, CommitFacts DEF Shaped, Shape
  <1>2. /\ tx'[x] = Idle /\ \A u \in Txs : u # x => tx'[u] = tx[u]
        /\ \A row \in Rows : row \notin Locks(x) => holder'[row] = holder[row]
    BY <1>0, <1>1, WriteFacts
  <1>3. /\ \A row \in Rows : row \in tx[x].freed /\ row \notin Taken(x) => holder'[row] = Free
        /\ \A k \in Claiming(x) : holder'[<<tx[x].to, tx[x].got[k]>>] = Claim(x, k)
    BY <1>0, <1>1, WriteFacts
  <1>4. ~Open(x)' /\ tx[y].alone /\ tx'[y] = tx[y]
    BY <1>2 DEF Open, Idle
  <1>5. tx[y].tun # tx[x].tun
    BY <1>1, <1>4 DEF AloneTask, Siblings
  <1>6. \A t \in Tunnels : t # tx[x].tun \/ tx[x].kind # "reserve" =>
           Live(t)' = Live(t) /\ machine'[t] = machine[t]
    <2>1. CASE CommitReserve(x)
      BY <1>0, <2>1 DEF CommitReserve, Live, TypeOK
    <2>2. CASE CommitEdit(x) \/ CommitMove(x)
      BY <2>2 DEF CommitEdit, CommitMove, Live
    <2>. QED  BY <2>1, <2>2 DEF CommitTx
  <1>7. tx[y].kind = "reserve" =>
          /\ \A t \in Tunnels : Live(t)' /\ machine'[t].owner = tx[y].mach.owner =>
                Live(t) /\ machine[t].owner = tx[y].mach.owner
          /\ \A u \in Txs \ {y} : Open(u)' /\ tx'[u].kind = "reserve" =>
                tx'[u].mach.owner # tx[y].mach.owner
    <2>1. ASSUME tx[y].kind = "reserve", tx[x].kind = "reserve"
          PROVE  machine'[tx[x].tun].owner # tx[y].mach.owner
      <3>1. CommitReserve(x)
        BY <2>1 DEF CommitTx, CommitEdit, CommitMove
      <3>2. machine'[tx[x].tun] = tx[x].mach
        BY <1>0, <1>1, <3>1 DEF CommitReserve, TypeOK
      <3>. QED  BY <1>1, <1>4, <2>1, <3>2 DEF AloneTask
    <2>2. \A u \in Txs \ {y} : Open(u)' => u # x /\ tx'[u] = tx[u] /\ Open(u)
      BY <1>2, <1>4 DEF Open
    <2>. QED  BY <1>4, <1>6, <2>1, <2>2 DEF AloneTask
  <1>8. Siblings(y)' = {}
    BY <1>2, <1>4 DEF AloneTask, Siblings, Open
  <1>9. Live(tx[y].tun)' = Live(tx[y].tun) /\ RoutesOf(tx[y].tun)' = RoutesOf(tx[y].tun)
    <2>1. \A c \in Claims : c[1] # tx[x].tun => routes'[c] = routes[c]
      BY <1>0, <1>1, WriteFacts
    <2>2. \A k \in RouteKeys : routes'[<<tx[y].tun, k>>] = routes[<<tx[y].tun, k>>]
      BY <1>1, <1>5, <2>1 DEF Claims
    <2>. QED  BY <1>1, <1>4, <1>5, <1>6, <2>2 DEF RoutesOf, Live
  <1>10. ASSUME NEW row \in Rows, holder'[row] \in ClaimsOf(tx[y].tun, RouteKeys)
         PROVE  holder'[row] = holder[row]
    <2>1. holder'[row][1] = tx[y].tun /\ holder'[row] # Free
      BY <1>1, <1>10, MarksAssumption DEF ClaimsOf
    <2>2. row \notin Taken(x)
      BY <1>3, <1>5, <2>1 DEF Taken, Claim
    <2>. QED  BY <1>2, <1>3, <2>1, <2>2 DEF Locks
  <1>. QED  BY <1>1, <1>4, <1>7, <1>8, <1>9, <1>10 DEF Spares

\* What the single steps take away, and never give.
LEMMA SingleShrinks ==
    ASSUME TypeOK, SingleStep
    PROVE  /\ \A c \in Claims : routes'[c] \in {routes[c], NoRoute}
           /\ \A row \in Rows : holder'[row] \in {holder[row], Free}
           /\ \A t \in Tunnels : Live(t)' => Live(t) /\ machine'[t] = machine[t]
  <1> DEFINE P == /\ \A c \in Claims : routes'[c] \in {routes[c], NoRoute}
                  /\ \A row \in Rows : holder'[row] \in {holder[row], Free}
                  /\ \A t \in Tunnels : Live(t)' => Live(t) /\ machine'[t] = machine[t]
  <1>1. ASSUME NEW S \in SUBSET Tunnels, Delete(S) PROVE P
    BY <1>1 DEF Delete, Release, Live, Statuses, TypeOK
  <1>2. ASSUME NEW S \in SUBSET Tunnels, ExpireIdle(S) PROVE P
    BY <1>2 DEF ExpireIdle, Release, Live, Statuses
  <1>3. ASSUME NEW n \in Nodes, RegisterNode(n) \/ DeleteNode(n) PROVE P
    BY <1>3 DEF RegisterNode, DeleteNode, Live
  <1>4. ASSUME NEW t \in Tunnels, StatusStep(t) PROVE P
    BY <1>4 DEF StatusStep, TunnelUp, TunnelDown, StopTunnel, StartTunnel, SetStatus, Live, Statuses, TypeOK
  <1> HIDE DEF P
  <1>5. ASSUME AdminStep PROVE P
    BY <1>1, <1>2, <1>3, <1>5 DEF AdminStep, DeleteUser, DeleteDevice, Reconcile
  <1>6. P
    BY <1>1, <1>4, <1>5 DEF SingleStep, DeleteTunnel
  <1>. QED  BY <1>6 DEF P

LEMMA SingleSpares ==
    ASSUME Shaped, Single, NEW y \in Txs, AloneTask(y), AloneRows(y)
    PROVE  Spares(y)
  <1>0. TxTypeOK /\ TypeOK
    BY DEF Shaped, TxTypeOK
  <1>1. SingleStep
    BY <1>0, SingleFacts
  <1>2. \A u \in Txs : Keeps(u)
    BY <1>0, SingleFacts
  <1>3. \A u \in Txs : /\ Open(u)' = Open(u) /\ tx'[u].kind = tx[u].kind
                       /\ tx'[u].tun = tx[u].tun /\ tx'[u].mach = tx[u].mach
    BY <1>2, KeepsLocks
  <1> SUFFICES ASSUME Open(y), tx'[y].alone PROVE Spares(y)
    BY DEF Spares
  <1>4. ~Disturbs(y) /\ tx[y].alone /\ tx[y].tun \in Tunnels
    <2>1. ~Disturbs(y)
      BY <1>0, SingleFacts
    <2>. QED  BY <1>2, <2>1 DEF Keeps, Shaped, Shape
  <1>5. /\ \A c \in Claims : routes'[c] \in {routes[c], NoRoute}
        /\ \A row \in Rows : holder'[row] \in {holder[row], Free}
        /\ \A t \in Tunnels : Live(t)' => Live(t) /\ machine'[t] = machine[t]
    BY <1>0, <1>1, SingleShrinks
  <1>6. ASSUME tx[y].kind # "reserve", Live(tx[y].tun)'
        PROVE  Live(tx[y].tun) /\ RoutesOf(tx[y].tun)' = RoutesOf(tx[y].tun)
    <2>1. Live(tx[y].tun)
      BY <1>3, <1>4, <1>5, <1>6 DEF Live
    <2>2. RoutesOf(tx[y].tun) = tx[y].seen
      BY <1>4, <1>6, <2>1 DEF AloneRows
    <2>3. \A k \in RouteKeys : routes'[<<tx[y].tun, k>>] # NoRoute <=> routes[<<tx[y].tun, k>>] # NoRoute
      BY <1>4, <1>5, <2>2 DEF RoutesOf, Disturbs, Claim, Claims
    <2>. QED  BY <1>3, <2>1, <2>3 DEF RoutesOf
  <1>7. ASSUME NEW row \in Rows, holder'[row] \in ClaimsOf(tx[y].tun, RouteKeys)
        PROVE  holder'[row] = holder[row]
    BY <1>4, <1>5, <1>7, MarksAssumption DEF ClaimsOf
  <1>8. Siblings(y)' = {}
    BY <1>3, <1>4 DEF AloneTask, Siblings
  <1>9. tx[y].to \in seeded => tx[y].to \in seeded'
    BY <1>4 DEF Disturbs
  <1>. QED  BY <1>3, <1>4, <1>5, <1>6, <1>7, <1>8, <1>9 DEF Spares, AloneTask

LEMMA LoneStep ==
    ASSUME Locked, Lone, [TxNext]_txvars
    PROVE  Lone'
  <1>0. Shaped /\ TxTypeOK /\ \A y \in Txs : LockInv(y) /\ AloneTask(y) /\ AloneRows(y)
    BY DEF Locked, Shaped, Lone
  <1>1. ASSUME NEW x \in Txs, TxStep(x), ~Begins(x) PROVE Lone'
    <2>1. Undisturbed(x) /\ (~CommitTx(x) => UNCHANGED vars)
      BY <1>0, <1>1, OthersKeep
    <2>2. \A u \in Txs : Open(u)' =>
             /\ Open(u) /\ tx'[u].tun = tx[u].tun
             /\ tx'[u].kind = tx[u].kind /\ tx'[u].mach = tx[u].mach
      <3>1. Open(x)' => /\ Open(x) /\ tx'[x].tun = tx[x].tun
                        /\ tx'[x].kind = tx[x].kind /\ tx'[x].mach = tx[x].mach
        BY <1>0, <1>1, SameTask, TaskFacts
      <3>. QED  BY <2>1, <3>1, KeepsLocks DEF Undisturbed
    <2>3. \A y \in Txs : Open(y)' => Siblings(y)' \subseteq Siblings(y)
      BY <2>2, SiblingsShrink
    <2>4. ASSUME NEW y \in Txs, y # x PROVE AloneTask(y)' /\ AloneRows(y)'
      <3>1. Keeps(y)
        BY <2>1, <2>4 DEF Undisturbed
      <3>2. Spares(y)
        <4>1. CASE CommitTx(x)
          BY <1>0, <2>4, <4>1, CommitSpares
        <4>2. CASE ~CommitTx(x)
          <5>1. UNCHANGED <<status, machine, routes, holder, seeded>>
            BY <2>1, <4>2 DEF vars
          <5>2. Open(y) => Open(y)' /\ tx'[y].tun = tx[y].tun /\ (tx'[y].alone => tx[y].alone)
            BY <3>1, KeepsLocks DEF Keeps
          <5>. QED  BY <1>0, <2>2, <2>3, <5>1, <5>2 DEF Spares, AloneTask, Live, RoutesOf
        <4>. QED  BY <4>1, <4>2
      <3>. QED  BY <1>0, <3>1, <3>2, KeepsAlone
    <2>5. AloneTask(x)' /\ AloneRows(x)'
      <3>1. CASE Open(x)'
        <4>1. ~CommitTx(x)
          <5>1. ASSUME CommitTx(x) PROVE FALSE
            <6>1. Becomes(x, Idle)
              BY <1>0, <5>1, CommitFacts DEF Write
            <6>2. tx'[x] = Idle
              BY <1>0, <6>1, IdleType, BecomesFacts
            <6>. QED  BY <3>1, <6>2 DEF Open, Idle
          <5>. QED  BY <5>1
        <4>. QED  BY <1>0, <1>1, <2>1, <2>2, <2>3, <3>1, <4>1, StatementAlone
      <3>2. CASE ~Open(x)'
        BY <3>2 DEF AloneTask, AloneRows
      <3>. QED  BY <3>1, <3>2
    <2>. QED  BY <2>4, <2>5 DEF Lone
  <1>2. ASSUME Single PROVE Lone'
    <2>1. \A y \in Txs : Keeps(y)
      BY <1>0, <1>2, SingleFacts
    <2>2. \A y \in Txs : Spares(y)
      BY <1>0, <1>2, SingleSpares
    <2>. QED  BY <1>0, <2>1, <2>2, KeepsAlone DEF Lone
  <1>3. CASE UNCHANGED txvars
    <2>1. UNCHANGED <<tx, status, machine, routes, holder, seeded>>
      BY <1>3 DEF txvars, vars
    <2>2. \A y \in Txs : Keeps(y)
      BY <2>1, SameKeeps
    <2>3. ASSUME NEW y \in Txs PROVE Spares(y)
      <3>1. Siblings(y)' = Siblings(y)
        BY <2>1 DEF Siblings, Open
      <3>. QED  BY <1>0, <2>1, <3>1 DEF Spares, AloneTask, Live, RoutesOf, Open
    <2>. QED  BY <1>0, <2>2, <2>3, KeepsAlone DEF Lone
  <1>. QED  BY <1>0, <1>1, <1>2, <1>3, BeginLone DEF TxNext, Single

\* The ports that x has claimed, route by route.
ClaimedBy(x) == ClaimsOf(tx[x].tun, Claiming(x))
PortOf(x) == [c \in ClaimedBy(x) |-> tx[x].got[c[2]]]

\* The rows that the commit of x writes are those that PortPool writes for the
\* same claims, if x has freed all rows of the routes whose rows it frees.
LEMMA WritesClaimed ==
    ASSUME Locked, NEW x \in Txs, Open(x), Write(x), NEW S,
           \A row \in Rows : holder[row] \in S <=> row \in tx[x].freed
    PROVE  /\ PortOf(x) \in Injection(ClaimedBy(x), FreePorts(tx[x].to, S))
           /\ holder' = Claimed(PortOf(x), tx[x].to, S)
           /\ ClaimedBy(x) \in SUBSET Claims
  <1> DEFINE C == ClaimedBy(x)
             f == PortOf(x)
             n == tx[x].to
  <1>0. Shaped /\ LockInv(x) /\ TypeOK
    BY DEF Locked, Shaped, TxTypeOK
  <1>1. tx[x].tun \in Tunnels /\ n \in Nodes
    BY <1>0 DEF Shaped, Shape
  <1>2. C \in SUBSET Claims
    BY <1>1 DEF ClaimedBy, ClaimsOf, Claims, Claiming
  <1>3. \A k \in Claiming(x) : /\ Claim(x, k) \in C /\ f[Claim(x, k)] = tx[x].got[k]
                               /\ tx[x].got[k] \in Ports /\ <<n, tx[x].got[k]>> \in Rows
    BY <1>1 DEF PortOf, ClaimedBy, ClaimsOf, Claim, Claiming, Rows
  <1>4. \A c \in C : c[2] \in Claiming(x) /\ c = Claim(x, c[2])
    BY DEF ClaimedBy, ClaimsOf, Claim
  <1>5. \A c \in C : f[c] \in FreePorts(n, S)
    <2> SUFFICES ASSUME NEW k \in Claiming(x) PROVE tx[x].got[k] \in FreePorts(n, S)
      BY <1>3, <1>4
    <2>1. <<n, tx[x].got[k]>> \in Taken(x)
      BY DEF Taken
    <2>2. n \in seeded /\ (holder[<<n, tx[x].got[k]>>] = Free \/ <<n, tx[x].got[k]>> \in tx[x].freed)
      BY <1>0, <2>1 DEF LockInv
    <2>. QED  BY <1>3, <2>2 DEF FreePorts
  <1>6. \A c, d \in C : f[c] = f[d] => c = d
    <2> SUFFICES ASSUME NEW c \in C, NEW d \in C, f[c] = f[d] PROVE c = d
      OBVIOUS
    <2>1. /\ c[2] \in Claiming(x) /\ c = Claim(x, c[2])
          /\ d[2] \in Claiming(x) /\ d = Claim(x, d[2])
      BY <1>4
    <2> HIDE DEF f, C
    <2>2. tx[x].got[c[2]] = tx[x].got[d[2]]
      BY <1>3, <2>1
    <2>3. c[2] = d[2]
      BY <1>0, <2>1, <2>2 DEF LockInv
    <2>. QED  BY <2>1, <2>3
  <1>7. f \in [C -> FreePorts(n, S)] /\ DOMAIN f = C
    BY <1>5 DEF PortOf
  <1>8. f \in Injection(C, FreePorts(n, S))
    BY <1>6, <1>7 DEF Injection, IsInjective
  <1>9. Assigns(f, C, n, S)
    BY <1>1, <1>2, <1>8 DEF Assigns
  <1>10. ASSUME NEW row \in Rows PROVE holder'[row] = Claimed(f, n, S)[row]
    <2>1. CASE row \in Taken(x)
      <3>1. PICK k \in Claiming(x) : row = <<n, tx[x].got[k]>>
        BY <2>1 DEF Taken
      <3>2. holder'[row] = Claim(x, k)
        BY <1>0, <3>1, WriteFacts
      <3>3. row = Row(f, n, Claim(x, k)) /\ Claim(x, k) \in C
        BY <1>3, <3>1 DEF Row
      <3>. QED  BY <1>9, <3>2, <3>3, ClaimedValue
    <2>2. CASE row \notin Taken(x)
      <3>1. \A c \in C : row # Row(f, n, c)
        <4> SUFFICES ASSUME NEW c \in C, row = Row(f, n, c) PROVE FALSE
          OBVIOUS
        <4>1. c[2] \in Claiming(x) /\ c = Claim(x, c[2])
          BY <1>4
        <4>2. row = <<n, f[c]>>
          BY DEF Row
        <4> HIDE DEF f, C
        <4>3. row = <<n, tx[x].got[c[2]]>>
          BY <1>3, <4>1, <4>2
        <4>. QED  BY <2>2, <4>1, <4>3 DEF Taken
      <3>2. Claimed(f, n, S)[row] = IF holder[row] \in S THEN Free ELSE holder[row]
        BY <1>9, <3>1, ClaimedValue
      <3>3. row \in tx[x].freed => holder'[row] = Free
        BY <1>0, <2>2, WriteFacts
      <3>4. row \notin tx[x].freed => holder'[row] = holder[row]
        <4>1. row \notin tx[x].freed => row \notin Locks(x)
          BY <2>2 DEF Locks
        <4>. QED  BY <1>0, <4>1, WriteFacts
      <3>. QED  BY <3>2, <3>3, <3>4
    <2>. QED  BY <2>1, <2>2
  <1>11. holder' = Claimed(f, n, S)
    BY <1>10 DEF Write, Claimed
  <1>. QED  BY <1>2, <1>8, <1>11

\* The same for the routes.
LEMMA WritesStored ==
    ASSUME Locked, NEW x \in Txs, Open(x), Write(x), NEW shared, NEW dropped,
           \A k \in RouteKeys :
              IF k \in tx[x].put
                THEN Claim(x, k) \in ClaimedBy(x) \/ (Claim(x, k) \in shared /\ tx[x].got[k] = Shared)
                ELSE /\ Claim(x, k) \notin ClaimedBy(x) /\ Claim(x, k) \notin shared
                     /\ k \in Written(x) <=> Claim(x, k) \in dropped,
           \A c \in Claims : c \in shared \/ c \in dropped => c[1] = tx[x].tun
    PROVE  routes' = Stored(PortOf(x), shared, dropped)
  <1>0. Shaped /\ LockInv(x) /\ TypeOK
    BY DEF Locked, Shaped, TxTypeOK
  <1>1. DOMAIN PortOf(x) = ClaimedBy(x)
        /\ \A c \in ClaimedBy(x) : PortOf(x)[c] = tx[x].got[c[2]] /\ c[1] = tx[x].tun
    BY DEF PortOf, ClaimedBy, ClaimsOf
  <1>2. ASSUME NEW c \in Claims PROVE routes'[c] = Stored(PortOf(x), shared, dropped)[c]
    <2>1. Stored(PortOf(x), shared, dropped)[c] =
             IF c \in ClaimedBy(x) THEN tx[x].got[c[2]]
             ELSE IF c \in shared THEN Shared
             ELSE IF c \in dropped THEN NoRoute ELSE routes[c]
      BY <1>1 DEF Stored
    <2>2. CASE c[1] # tx[x].tun
      <3>1. routes'[c] = routes[c]
        BY <1>0, <2>2, WriteFacts
      <3>. QED  BY <1>1, <2>1, <2>2, <3>1
    <2>3. CASE c[1] = tx[x].tun
      <3>1. c = Claim(x, c[2]) /\ c[2] \in RouteKeys
        BY <2>3 DEF Claim, Claims
      <3>2. routes'[Claim(x, c[2])] = IF c[2] \in tx[x].put THEN tx[x].got[c[2]]
                 ELSE IF c[2] \in Written(x) THEN NoRoute ELSE routes[Claim(x, c[2])]
        BY <1>0, <3>1, WriteFacts
      <3>. QED  BY <2>1, <3>1, <3>2
    <2>. QED  BY <2>2, <2>3
  <1>. QED  BY <1>2 DEF Write, Stored

\* What a transaction that is alone has done when it commits.
LEMMA AloneCommit ==
    ASSUME Locked, Lone, NEW x \in Txs, CommitTx(x), tx[x].alone,
           tx[x].kind = "reserve" \/ Live(tx[x].tun)
    PROVE  /\ tx[x].tun \in Tunnels /\ tx[x].to \in Nodes /\ Open(x) /\ Write(x)
           /\ tx[x].done = Drops(tx[x]) /\ tx[x].put = Adds(tx[x])
           /\ Claiming(x) = {k \in Adds(tx[x]) : k.kind \in DedicatedKinds}
           /\ \A k \in Adds(tx[x]) : k.kind \notin DedicatedKinds => tx[x].got[k] = Shared
           /\ \A row \in Rows : holder[row] \in ClaimsOf(tx[x].tun, tx[x].done) <=> row \in tx[x].freed
           /\ tx[x].kind # "reserve" => RoutesOf(tx[x].tun) = tx[x].seen
  <1>0. Shaped /\ LockInv(x) /\ Shape(x) /\ tx[x] \in Records /\ AloneRows(x)
    BY DEF Locked, Shaped, Lone, TxTypeOK
  <1>1. /\ Open(x) /\ Write(x) /\ AllAdded(x) /\ tx[x].tun \in Tunnels /\ tx[x].to \in Nodes
    BY <1>0, CommitFacts DEF Shape
  <1>2. tx[x].done = Drops(tx[x])
    BY <1>0, <1>1 DEF Shape, AllAdded
  <1>3. Adds(tx[x]) \in SUBSET RouteKeys
    BY <1>0 DEF Adds, Records
  <1>4. Adds(tx[x]) = {k \in RouteKeys : tx[x].got[k] # NoRoute}
    BY <1>0, <1>1, <1>3 DEF Shape, AllAdded
  <1>5. tx[x].put = Adds(tx[x])
    BY <1>0, <1>1, <1>4 DEF AloneRows
  <1>6. \A k \in Adds(tx[x]) :
           IF k.kind \in DedicatedKinds THEN tx[x].got[k] \in Ports ELSE tx[x].got[k] = Shared
    BY <1>0, <1>3, <1>4 DEF Shape
  <1>7. Claiming(x) = {k \in Adds(tx[x]) : k.kind \in DedicatedKinds}
    BY <1>3, <1>4, <1>6, MarksAssumption DEF Claiming
  <1>8. \A row \in Rows : holder[row] \in ClaimsOf(tx[x].tun, tx[x].done) <=> row \in tx[x].freed
    BY <1>0, <1>1 DEF AloneRows, LockInv
  <1>. QED  BY <1>0, <1>1, <1>2, <1>5, <1>6, <1>7, <1>8 DEF AloneRows

\* A reservation that is alone reserves.
LEMMA AloneReserves ==
    ASSUME Locked, Owned, Lone, NEW x \in Txs, CommitReserve(x), tx[x].alone
    PROVE  \E m \in Machines, n \in Nodes, req \in Requests \ {{}} : Reserve(tx[x].tun, m, n, req)
  <1> DEFINE t == tx[x].tun
             m == tx[x].mach
             n == tx[x].to
             req == tx[x].req
             f == PortOf(x)
  <1>0. Shaped /\ Shape(x) /\ tx[x].kind = "reserve" /\ CommitTx(x) /\ AloneTask(x) /\ OwnId(x)
    BY DEF Locked, Shaped, CommitReserve, CommitTx, Lone, Owned
  <1>1. /\ t \in Tunnels /\ n \in Nodes /\ Open(x) /\ Write(x)
        /\ tx[x].done = Drops(tx[x]) /\ tx[x].put = Adds(tx[x])
        /\ Claiming(x) = {k \in Adds(tx[x]) : k.kind \in DedicatedKinds}
        /\ \A k \in Adds(tx[x]) : k.kind \notin DedicatedKinds => tx[x].got[k] = Shared
        /\ \A row \in Rows : holder[row] \in ClaimsOf(t, tx[x].done) <=> row \in tx[x].freed
    BY <1>0, AloneCommit
  <1>2. /\ m \in Machines /\ n \in seeded /\ req \in Requests \ {{}}
        /\ Count(m.owner) < max_tunnels /\ status[t] = "new"
    BY <1>0, <1>1 DEF AloneTask, OwnId
  <1>3. Adds(tx[x]) = req /\ ClaimsOf(t, tx[x].done) = {} /\ req \in SUBSET RouteKeys
    BY <1>0, <1>1, <1>2, RequestsAssumption DEF Adds, Drops, Shape, ClaimsOf
  <1>4. ClaimedBy(x) = ClaimsOf(t, Dedicated(req))
    BY <1>1, <1>3 DEF ClaimedBy, Dedicated
  <1>5. \A row \in Rows : holder[row] \in {} <=> row \in tx[x].freed
    BY <1>1, <1>3
  <1>6. f \in Injection(ClaimedBy(x), FreePorts(n, {})) /\ holder' = Claimed(f, n, {})
    BY <1>1, <1>5, WritesClaimed
  <1>7. routes' = Stored(f, ClaimsOf(t, req), {})
    <2>1. \A k \in RouteKeys :
             IF k \in tx[x].put
               THEN Claim(x, k) \in ClaimedBy(x) \/ (Claim(x, k) \in ClaimsOf(t, req) /\ tx[x].got[k] = Shared)
               ELSE /\ Claim(x, k) \notin ClaimedBy(x) /\ Claim(x, k) \notin ClaimsOf(t, req)
                    /\ k \in Written(x) <=> Claim(x, k) \in {}
      BY <1>0, <1>1, <1>3, <1>4 DEF Claim, ClaimsOf, Dedicated, Written
    <2>2. \A c \in Claims : c \in ClaimsOf(t, req) \/ c \in {} => c[1] = t
      BY DEF ClaimsOf
    <2>. QED  BY <1>1, <2>1, <2>2, WritesStored
  <1>8. /\ ~SigTaken(m, req, t) /\ UNCHANGED seeded
        /\ status' = [status EXCEPT ![t] = "awaiting_agent"]
        /\ machine' = [machine EXCEPT ![t] = m]
        /\ node' = [node EXCEPT ![t] = n]
        /\ sig' = [sig EXCEPT ![t] = req]
        /\ homes' = [homes EXCEPT ![t] = {n}]
    BY DEF CommitReserve
  <1>9. \E g \in Injection(ClaimsOf(t, Dedicated(req)), FreePorts(n, {})) :
           holder' = Claimed(g, n, {}) /\ routes' = Stored(g, ClaimsOf(t, req), {})
    BY <1>4, <1>6, <1>7
  <1>10. Reserve(t, m, n, req)
    BY <1>2, <1>8, <1>9 DEF Reserve
  <1>. QED  BY <1>1, <1>2, <1>10

\* An edit that is alone stores the routes in place of those it loaded.
LEMMA AloneEdits ==
    ASSUME Locked, Owned, Lone, NEW x \in Txs, CommitEdit(x), tx[x].alone
    PROVE  \E n \in Nodes, req \in Requests : SetServiceRoutes(tx[x].tun, n, req)
  <1> DEFINE t == tx[x].tun
             n == tx[x].to
             req == tx[x].req
             f == PortOf(x)
             added == ClaimsOf(t, req \ RoutesOf(t))
             dropped == ClaimsOf(t, RoutesOf(t) \ req)
  <1>0. /\ Shaped /\ tx[x].kind = "edit" /\ CommitTx(x) /\ AloneTask(x) /\ HomeInv(x) /\ Live(t)
    BY DEF Locked, CommitEdit, CommitTx, Lone, Owned
  <1>1. /\ t \in Tunnels /\ n \in Nodes /\ Open(x) /\ Write(x)
        /\ tx[x].done = Drops(tx[x]) /\ tx[x].put = Adds(tx[x])
        /\ Claiming(x) = {k \in Adds(tx[x]) : k.kind \in DedicatedKinds}
        /\ \A k \in Adds(tx[x]) : k.kind \notin DedicatedKinds => tx[x].got[k] = Shared
        /\ \A row \in Rows : holder[row] \in ClaimsOf(t, tx[x].done) <=> row \in tx[x].freed
        /\ RoutesOf(t) = tx[x].seen
    BY <1>0, AloneCommit
  <1>2. req \in Requests /\ n \in homes[t]
    BY <1>0, <1>1 DEF AloneTask, HomeInv
  <1>3. Adds(tx[x]) = req \ RoutesOf(t) /\ tx[x].done = RoutesOf(t) \ req
    BY <1>0, <1>1 DEF Adds, Drops
  <1>4. ClaimedBy(x) = added \cap ClaimsOf(t, Dedicated(req))
    BY <1>1, <1>3 DEF ClaimedBy, Dedicated, ClaimsOf
  <1>5. f \in Injection(ClaimedBy(x), FreePorts(n, dropped)) /\ holder' = Claimed(f, n, dropped)
    BY <1>1, <1>3, WritesClaimed
  <1>6. routes' = Stored(f, added, dropped)
    <2>1. \A k \in RouteKeys :
             IF k \in tx[x].put
               THEN Claim(x, k) \in ClaimedBy(x) \/ (Claim(x, k) \in added /\ tx[x].got[k] = Shared)
               ELSE /\ Claim(x, k) \notin ClaimedBy(x) /\ Claim(x, k) \notin added
                    /\ k \in Written(x) <=> Claim(x, k) \in dropped
      BY <1>0, <1>1, <1>3, <1>4 DEF Claim, ClaimsOf, Dedicated, Written
    <2>2. \A c \in Claims : c \in added \/ c \in dropped => c[1] = t
      BY DEF ClaimsOf
    <2> HIDE DEF added, dropped
    <2>. QED  BY <1>1, <2>1, <2>2, WritesStored
  <1>7. /\ ~SigTaken(machine[t], req, t)
        /\ sig' = [sig EXCEPT ![t] = req] /\ UNCHANGED <<status, machine, node, homes, seeded>>
    BY DEF CommitEdit
  <1>8. \E g \in Injection(added \cap ClaimsOf(t, Dedicated(req)), FreePorts(n, dropped)) :
           holder' = Claimed(g, n, dropped) /\ routes' = Stored(g, added, dropped)
    BY <1>4, <1>5, <1>6
  <1>9. SetServiceRoutes(t, n, req)
    BY <1>0, <1>2, <1>7, <1>8 DEF SetServiceRoutes
  <1>. QED  BY <1>1, <1>2, <1>9

\* A move that is alone frees every row of the tunnel and claims on the new node.
LEMMA AloneMoves ==
    ASSUME Locked, Owned, Lone, NEW x \in Txs, CommitMove(x), tx[x].alone
    PROVE  \E n \in Nodes : Migrate(tx[x].tun, n)
  <1> DEFINE t == tx[x].tun
             n == tx[x].to
             f == PortOf(x)
             moved == ClaimsOf(t, {k \in RoutesOf(t) : k.kind \in {"tcp", "udp"}})
             held == ClaimsOf(t, RouteKeys)
  <1>0. /\ Shaped /\ tx[x].kind = "move" /\ CommitTx(x) /\ AloneTask(x) /\ HomeInv(x) /\ Live(t)
    BY DEF Locked, CommitMove, CommitTx, Lone, Owned
  <1>1. /\ t \in Tunnels /\ n \in Nodes /\ Open(x) /\ Write(x)
        /\ tx[x].done = Drops(tx[x]) /\ tx[x].put = Adds(tx[x])
        /\ Claiming(x) = {k \in Adds(tx[x]) : k.kind \in DedicatedKinds}
        /\ \A row \in Rows : holder[row] \in ClaimsOf(t, tx[x].done) <=> row \in tx[x].freed
        /\ RoutesOf(t) = tx[x].seen
    BY <1>0, AloneCommit
  <1>2. n \in seeded \cap Targets /\ homes[t] # {n}
    BY <1>0, <1>1 DEF AloneTask, HomeInv
  <1>3. Adds(tx[x]) = {k \in RoutesOf(t) : k.kind \in {"tcp", "udp"}} /\ tx[x].done = RouteKeys
    BY <1>0, <1>1 DEF Adds, Drops
  <1>4. ClaimedBy(x) = moved
    BY <1>1, <1>3 DEF ClaimedBy, DedicatedKinds
  <1>5. f \in Injection(ClaimedBy(x), FreePorts(n, held)) /\ holder' = Claimed(f, n, held)
    BY <1>1, <1>3, WritesClaimed
  <1>6. routes' = Stored(f, {}, {})
    <2>1. \A k \in RouteKeys :
             IF k \in tx[x].put
               THEN Claim(x, k) \in ClaimedBy(x) \/ (Claim(x, k) \in {} /\ tx[x].got[k] = Shared)
               ELSE /\ Claim(x, k) \notin ClaimedBy(x) /\ Claim(x, k) \notin {}
                    /\ k \in Written(x) <=> Claim(x, k) \in {}
      BY <1>0, <1>1, <1>3, <1>4 DEF Claim, ClaimsOf, Written
    <2>2. \A c \in Claims : c \in {} \/ c \in {} => c[1] = t
      OBVIOUS
    <2>. QED  BY <1>1, <2>1, <2>2, WritesStored
  <1>7. /\ node' = [node EXCEPT ![t] = n] /\ homes' = [homes EXCEPT ![t] = @ \cup {n}]
        /\ UNCHANGED <<status, machine, sig, seeded>>
    BY DEF CommitMove
  <1>8. \E g \in Injection(moved, FreePorts(n, held)) :
           holder' = Claimed(g, n, held) /\ routes' = Stored(g, {}, {})
    BY <1>4, <1>5, <1>6
  <1>9. Migrate(t, n)
    BY <1>0, <1>2, <1>7, <1>8 DEF Migrate
  <1>. QED  BY <1>1, <1>9

LEMMA LoneInit ==
    ASSUME TxInit
    PROVE  Lone
  <1>1. \A x \in Txs : tx[x] = Idle
    BY DEF TxInit
  <1>. QED  BY <1>1, IdleLocks DEF Lone, AloneTask, AloneRows

\* A step of the transactions is one of PortPool, or none of it, or the commit of
\* one that others came in between.
LEMMA AloneStep ==
    ASSUME Locked, Owned, Lone, [TxNext]_txvars
    PROVE  [Next]_vars \/ \E x \in Txs : ~tx[x].alone /\ CommitTx(x)
  <1>0. Shaped /\ TxTypeOK /\ \A y \in Txs : LockInv(y)
    BY DEF Locked, Shaped
  <1>1. ASSUME NEW x \in Txs, CommitTx(x), tx[x].alone PROVE Next
    <2>1. tx[x].tun \in Tunnels
      BY <1>0, <1>1, CommitFacts
    <2>2. TunnelStep(tx[x].tun)
      BY <1>1, AloneReserves, AloneEdits, AloneMoves DEF CommitTx, TunnelStep
    <2>. QED  BY <2>1, <2>2 DEF Next
  <1>2. ASSUME NEW x \in Txs, TxStep(x), ~CommitTx(x) PROVE UNCHANGED vars
    BY <1>0, <1>2, OthersKeep
  <1>3. Single => Next
    BY <1>0, SingleFacts
  <1>. QED  BY <1>1, <1>2, <1>3 DEF TxNext, Single, txvars

\* What the theorems about overlaps rest on.
TxInv == Locked /\ Owned /\ Lone

LEMMA TxInvariant == TxSpec => []TxInv
  <1>1. TxInit => TxInv
    BY SettledInit, LoneInit DEF TxInv
  <1>2. TxInv /\ [TxNext]_txvars => TxInv'
    BY LockedStep, OwnedStep, LoneStep DEF TxInv
  <1>. QED  BY <1>1, <1>2, PTL DEF TxSpec

\* A reservation, an edit or a move that nobody came in between is the single
\* step that PortPool takes it for, whatever it waited for.
THEOREM Atomic == TxSpec => AtomicAlone
  <1>1. TxInv /\ [TxNext]_txvars =>
           [UNCHANGED vars \/ Next \/ \E x \in Txs : ~tx[x].alone /\ CommitTx(x)]_txvars
    BY AloneStep DEF TxInv
  <1>. QED  BY <1>1, TxInvariant, PTL DEF TxSpec, AtomicAlone

\* Where no two transactions of a tunnel overlap, nor two reservations of an
\* owner, and none deletes what another has read, PortPool is what happens, and
\* all that is proved of it holds.
THEOREM AloneImplements == TxSpec /\ [](\A x \in Txs : tx[x].alone) => Spec
  <1> DEFINE A == \A x \in Txs : tx[x].alone
             C == \E x \in Txs : ~tx[x].alone /\ CommitTx(x)
  <1>1. A /\ [UNCHANGED vars \/ Next \/ C]_txvars => [Next]_vars
    BY DEF txvars
  <1>2. TxInit => Init
    BY DEF TxInit
  <1>3. AtomicAlone <=> [][UNCHANGED vars \/ Next \/ C]_txvars
    BY DEF AtomicAlone
  <1> HIDE DEF A, C
  <1>4. TxSpec /\ []A => [][Next]_vars
    BY <1>1, <1>3, Atomic, PTL
  <1>. QED  BY <1>2, <1>4 DEF TxSpec, Spec, A

\* A number of tunnels is a number.
LEMMA CountType ==
    /\ \A S \in SUBSET Tunnels : IsFiniteSet(S) /\ Cardinality(S) \in Nat
    /\ \A o : Count(o) \in Nat
  <1>1. \A S \in SUBSET Tunnels : IsFiniteSet(S) /\ Cardinality(S) \in Nat
    BY QuotaAssumption, FS_Subset, FS_CardinalityType
  <1>. QED  BY <1>1 DEF Count

\* A step that adds no tunnel adds none to an owner.
LEMMA CountLess ==
    ASSUME NEW o, \A t \in Tunnels : Live(t)' /\ machine'[t].owner = o => Live(t) /\ machine[t].owner = o
    PROVE  Count(o)' <= Count(o) /\ Count(o)' \in Nat
  <1> DEFINE Before == {t \in Tunnels : Live(t) /\ machine[t].owner = o}
             After == {t \in Tunnels : Live(t)' /\ machine'[t].owner = o}
  <1>1. Count(o) = Cardinality(Before) /\ Count(o)' = Cardinality(After)
    BY DEF Count
  <1>2. After \in SUBSET Before /\ Before \in SUBSET Tunnels
    OBVIOUS
  <1> HIDE DEF Before, After
  <1>. QED  BY <1>1, <1>2, CountType, CountShrinks

\* A reservation adds one tunnel to its owner.
LEMMA CountOneMore ==
    ASSUME NEW o, NEW t \in Tunnels,
           \A u \in Tunnels \ {t} : Live(u)' /\ machine'[u].owner = o => Live(u) /\ machine[u].owner = o
    PROVE  Count(o)' <= Count(o) + 1 /\ Count(o)' \in Nat
  <1> DEFINE Before == {u \in Tunnels : Live(u) /\ machine[u].owner = o}
             After == {u \in Tunnels : Live(u)' /\ machine'[u].owner = o}
  <1>1. Count(o) = Cardinality(Before) /\ Count(o)' = Cardinality(After)
    BY DEF Count
  <1>2. After \in SUBSET (Before \cup {t}) /\ Before \cup {t} \in SUBSET Tunnels /\ Before \in SUBSET Tunnels
    OBVIOUS
  <1> HIDE DEF Before, After
  <1>3. IsFiniteSet(Before) /\ Cardinality(Before) \in Nat /\ Cardinality(Before \cup {t}) \in Nat
    BY <1>2, CountType
  <1>4. Cardinality(Before \cup {t}) <= Cardinality(Before) + 1
    <2>1. Cardinality(Before \cup {t}) = IF t \in Before THEN Cardinality(Before) ELSE Cardinality(Before) + 1
      BY <1>3, FS_AddElement
    <2>. QED  BY <1>3, <2>1
  <1>5. Cardinality(After) <= Cardinality(Before \cup {t}) /\ Cardinality(After) \in Nat
    BY <1>2, CountShrinks
  <1>. QED  BY <1>1, <1>3, <1>4, <1>5

\* Within the cap, or no more than there were.
Capped(o) == Count(o)' <= max_tunnels \/ Count(o)' <= Count(o)

\* Of the steps of PortPool only a reservation adds to the tunnels of an owner.
LEMMA CapStep ==
    ASSUME TypeOK, [Next]_vars, NEW o
    PROVE  Capped(o)
  <1>1. ASSUME \A t \in Tunnels : Live(t)' => Live(t) /\ machine'[t] = machine[t] PROVE Capped(o)
    BY <1>1, CountLess DEF Capped
  <1>2. ASSUME NEW t \in Tunnels, NEW m \in Machines, NEW n \in Nodes,
               NEW req \in Requests, Reserve(t, m, n, req)
        PROVE  Capped(o)
    <2>1. /\ Count(m.owner) < max_tunnels /\ t \in Tunnels
          /\ status' = [status EXCEPT ![t] = "awaiting_agent"]
          /\ machine' = [machine EXCEPT ![t] = m]
      BY <1>2 DEF Reserve
    <2>2. \A u \in Tunnels \ {t} : Live(u)' /\ machine'[u].owner = o => Live(u) /\ machine[u].owner = o
      BY <2>1 DEF TypeOK, Live
    <2>3. CASE o = m.owner
      <3>1. Count(o)' <= Count(o) + 1 /\ Count(o)' \in Nat /\ Count(o) \in Nat
        BY <2>2, CountOneMore, CountType
      <3>. QED  BY <2>1, <2>3, <3>1, QuotaAssumption DEF Capped
    <2>4. CASE o # m.owner
      <3>1. machine'[t].owner # o
        BY <2>1, <2>4 DEF TypeOK
      <3>. QED  BY <2>2, <3>1, CountLess DEF Capped
    <2>. QED  BY <2>3, <2>4
  <1>3. ASSUME SingleStep PROVE Capped(o)
    BY <1>1, <1>3, SingleShrinks
  <1>4. ASSUME UNCHANGED <<status, machine>> PROVE Capped(o)
    BY <1>1, <1>4 DEF Live
  <1>5. ASSUME NEW t \in Tunnels, TunnelStep(t) PROVE Capped(o)
    BY <1>2, <1>3, <1>4, <1>5 DEF TunnelStep, SingleStep, StatusStep, SetServiceRoutes, Migrate
  <1>. QED  BY <1>3, <1>4, <1>5 DEF Next, SingleStep, vars

\* An owner has more tunnels than max_tunnels only if two of his reservations
\* overlap: were each a single step, the cap would hold.
THEOREM CapKept == Spec => []CapHeld
  <1>1. Init => TypeOK /\ CapHeld
    <2> SUFFICES ASSUME Init PROVE TypeOK /\ CapHeld
      OBVIOUS
    <2>1. TypeOK /\ \A t \in Tunnels : ~Live(t)
      BY DEF Init, TypeOK, Live, Statuses
    <2>2. ASSUME NEW m \in Machines PROVE Count(m.owner) <= max_tunnels
      <3>1. {t \in Tunnels : Live(t) /\ machine[t].owner = m.owner} = {}
        BY <2>1
      <3>2. Count(m.owner) = 0
        BY <3>1, FS_EmptySet DEF Count
      <3>. QED  BY <3>2, QuotaAssumption
    <2>. QED  BY <2>1, <2>2 DEF CapHeld
  <1>2. TypeOK /\ CapHeld /\ [Next]_vars => TypeOK' /\ CapHeld'
    <2> SUFFICES ASSUME TypeOK, CapHeld, [Next]_vars PROVE CapHeld'
      BY TypeStep
    <2> SUFFICES ASSUME NEW m \in Machines PROVE Count(m.owner)' <= max_tunnels
      BY DEF CapHeld
    <2>1. Capped(m.owner) /\ Count(m.owner) <= max_tunnels
      BY CapStep DEF CapHeld
    <2>2. Count(m.owner) \in Nat /\ Count(m.owner)' \in Nat
      <3>1. {t \in Tunnels : Live(t)' /\ machine'[t].owner = m.owner} \in SUBSET Tunnels
        OBVIOUS
      <3>. QED  BY <3>1, CountType DEF Count
    <2>. QED  BY <2>1, <2>2, QuotaAssumption DEF Capped
  <1>. QED  BY <1>1, <1>2, PTL DEF Spec

\* However the statements interleave: what brings an owner above the cap is a
\* reservation that is not alone.
THEOREM CapOverlaps == TxSpec => CapByOverlap
  <1> DEFINE Over == \E x \in Txs : ~tx[x].alone /\ CommitReserve(x)
             Kept == \A m \in Machines :
                        \/ Count(m.owner)' <= max_tunnels \/ Count(m.owner)' <= Count(m.owner)
                        \/ Over
  <1>1. TxInv /\ [TxNext]_txvars => [Kept]_vars
    <2> SUFFICES ASSUME TxInv, [TxNext]_txvars, ~Over, NEW m \in Machines PROVE Capped(m.owner)
      BY DEF Capped
    <2>1. TypeOK
      BY DEF TxInv, Locked, Shaped, TxTypeOK
    <2>2. ASSUME NEW x \in Txs, CommitEdit(x) \/ CommitMove(x) PROVE Capped(m.owner)
      <3>1. UNCHANGED <<status, machine>>
        BY <2>2 DEF CommitEdit, CommitMove
      <3>. QED  BY <3>1, CountLess DEF Capped, Live
    <2>3. CASE [Next]_vars
      BY <2>1, <2>3, CapStep
    <2>4. CASE \E x \in Txs : ~tx[x].alone /\ CommitTx(x)
      BY <2>2, <2>4 DEF CommitTx
    <2>. QED  BY <2>3, <2>4, AloneStep DEF TxInv
  <1>2. CapByOverlap <=> [][Kept]_vars
    BY DEF CapByOverlap
  <1> HIDE DEF Kept
  <1>. QED  BY <1>1, <1>2, TxInvariant, PTL DEF TxSpec

-----------------------------------------------------------------------------
(* The endpoints of a device.                                              *)

Stores(x) == Open(x) /\ tx[x].kind # "move"

\* The machine that an edit has read is that of its tunnel.
EditMachine(x) ==
    Open(x) /\ tx[x].kind = "edit" /\ Live(tx[x].tun) => machine[tx[x].tun] = tx[x].mach

\* A move updates rows of routes that are there, and no edit can have deleted one.
MovePuts(x) ==
    Open(x) /\ tx[x].kind = "move" =>
        /\ tx[x].put \subseteq RoutesOf(tx[x].tun)
        /\ \A y \in Siblings(x) : tx[y].kind = "edit" => tx[x].put \cap tx[y].done = {}

\* What a reservation or an edit that is apart found still holds: no other one is
\* at its device, its endpoints are free there, no route was added to its tunnel.
EndpointsHeld(x) ==
    Stores(x) /\ tx[x].apart /\ tx[x].mach.device # None =>
        /\ \A y \in Txs \ {x} : Stores(y) => tx[y].mach.device # tx[x].mach.device
        /\ EndpointsFree(tx[x].mach.device, tx[x].req, tx[x].tun)
        /\ tx[x].kind = "edit" => RoutesOf(tx[x].tun) \subseteq tx[x].seen

Placed == \A x \in Txs : EditMachine(x) /\ MovePuts(x) /\ EndpointsHeld(x)

\* What a step that adds nothing to tunnel u may do to it.
LiveAfter(u) == status'[u] \in Statuses
RoutesAfter(u) == {k \in RouteKeys : routes'[<<u, k>>] # NoRoute}
Stays(u) == LiveAfter(u) => Live(u) /\ machine'[u] = machine[u]
Shrinks(u) == Stays(u) /\ RoutesAfter(u) \subseteq RoutesOf(u)

\* x is at the same task as before, and not apart if it was not.
GoesOn(x) == Open(x)' => /\ Open(x) /\ Task(tx'[x]) = Task(tx[x])
                         /\ tx'[x].apart => tx[x].apart

LEMMA KeepsGoesOn ==
    ASSUME NEW x \in Txs, Keeps(x)
    PROVE  GoesOn(x)
  BY KeepsLocks DEF Keeps, GoesOn

LEMMA ClashSym == \A j, k : Clash(j, k) <=> Clash(k, j)
  BY DEF Clash

LEMMA ShrinksClashing ==
    ASSUME NEW t \in Tunnels, NEW u \in Tunnels, Shrinks(t), Shrinks(u), Clashing(t, u)'
    PROVE  Clashing(t, u)
  BY DEF Shrinks, Stays, LiveAfter, RoutesAfter, Clashing, Live, RoutesOf

LEMMA KeepsEditMachine ==
    ASSUME NEW x \in Txs, EditMachine(x), GoesOn(x),
           Open(x) /\ tx[x].kind = "edit" => Stays(tx[x].tun)
    PROVE  EditMachine(x)'
  <1>1. Open(x)' => /\ Open(x) /\ tx'[x].kind = tx[x].kind /\ tx'[x].tun = tx[x].tun
                    /\ tx'[x].mach = tx[x].mach
    BY TaskFacts DEF GoesOn
  <1>. QED  BY <1>1 DEF EditMachine, Stays, Live, LiveAfter

LEMMA KeepsEndpoints ==
    ASSUME NEW x \in Txs, EndpointsHeld(x), GoesOn(x),
           Stores(x) /\ tx'[x].apart /\ tx[x].apart /\ tx[x].mach.device # None =>
              /\ \A u \in Tunnels \ {tx[x].tun} :
                    LiveAfter(u) => Shrinks(u) \/ machine'[u].device # tx[x].mach.device
              /\ tx[x].kind = "edit" => RoutesAfter(tx[x].tun) \subseteq RoutesOf(tx[x].tun)
              /\ \A y \in Txs \ {x} : Stores(y)' => tx'[y].mach.device # tx[x].mach.device
    PROVE  EndpointsHeld(x)'
  <1> SUFFICES ASSUME Stores(x)', tx'[x].apart, tx'[x].mach.device # None PROVE EndpointsHeld(x)'
    BY DEF EndpointsHeld
  <1>1. Open(x) /\ tx[x].apart /\ Task(tx'[x]) = Task(tx[x])
    BY DEF GoesOn, Stores
  <1>2. /\ tx'[x].kind = tx[x].kind /\ tx'[x].tun = tx[x].tun /\ tx'[x].mach = tx[x].mach
        /\ tx'[x].req = tx[x].req /\ tx'[x].seen = tx[x].seen
    BY <1>1, TaskFacts
  <1>3. Stores(x) /\ tx[x].mach.device # None
    BY <1>1, <1>2 DEF Stores
  <1>4. \A y \in Txs \ {x} : Stores(y)' => tx'[y].mach.device # tx'[x].mach.device
    BY <1>1, <1>2, <1>3
  <1>5. tx'[x].kind = "edit" => RoutesAfter(tx'[x].tun) \subseteq tx'[x].seen
    BY <1>1, <1>2, <1>3 DEF EndpointsHeld
  <1>6. EndpointsFree(tx[x].mach.device, tx[x].req, tx[x].tun)
    BY <1>1, <1>3 DEF EndpointsHeld
  <1>7. ASSUME NEW u \in Tunnels \ {tx[x].tun}, LiveAfter(u), machine'[u].device = tx[x].mach.device,
               NEW j \in tx[x].req, NEW k \in RoutesAfter(u)
        PROVE  ~Clash(j, k)
    <2>1. Shrinks(u)
      BY <1>1, <1>3, <1>7
    <2>2. Live(u) /\ machine[u].device = tx[x].mach.device /\ k \in RoutesOf(u)
      BY <1>7, <2>1 DEF Shrinks, Stays
    <2>. QED  BY <1>3, <1>6, <1>7, <2>2 DEF EndpointsFree
  <1>8. \A u \in Tunnels : (status'[u] \in Statuses <=> LiveAfter(u))
                          /\ {k \in RouteKeys : routes'[<<u, k>>] # NoRoute} = RoutesAfter(u)
    BY DEF LiveAfter, RoutesAfter
  <1>9. EndpointsFree(tx[x].mach.device, tx[x].req, tx[x].tun)'
    BY <1>2, <1>7, <1>8 DEF EndpointsFree, Live, RoutesOf
  <1>10. (tx[x].kind = "edit" => RoutesOf(tx[x].tun) \subseteq tx[x].seen)'
    BY <1>5 DEF RoutesOf, RoutesAfter
  <1>. QED  BY <1>4, <1>9, <1>10 DEF EndpointsHeld

\* What a commit does to the tunnels and their routes.
LEMMA CommitTunnels ==
    ASSUME Locked, NEW x \in Txs, CommitTx(x)
    PROVE  /\ \A u \in Tunnels \ {tx[x].tun} : Shrinks(u) /\ RoutesOf(u) \subseteq RoutesAfter(u)
           /\ tx[x].kind # "reserve" => Live(tx[x].tun) /\ Stays(tx[x].tun)
           /\ tx[x].kind = "reserve" => machine'[tx[x].tun] = tx[x].mach
           /\ \A k \in RouteKeys :
                 k \in RoutesAfter(tx[x].tun) <=>
                    k \in tx[x].put \/ (k \in RoutesOf(tx[x].tun) /\ k \notin Written(x))
  <1> DEFINE t == tx[x].tun
  <1>0. Shaped /\ TypeOK /\ Shape(x) /\ LockInv(x) /\ tx[x] \in Records
    BY DEF Locked, Shaped, TxTypeOK
  <1>1. Write(x) /\ Open(x) /\ t \in Tunnels
    BY <1>0, CommitFacts
  <1>2. \A u \in Tunnels : u # t => status'[u] = status[u] /\ machine'[u] = machine[u]
    BY <1>0, <1>1 DEF CommitTx, CommitReserve, CommitEdit, CommitMove, TypeOK
  <1>3. \A u \in Tunnels : u # t => RoutesAfter(u) = RoutesOf(u)
    <2>1. \A c \in Claims : c[1] # t => routes'[c] = routes[c]
      BY <1>0, <1>1, WriteFacts
    <2>2. \A u \in Tunnels, k \in RouteKeys : <<u, k>> \in Claims /\ <<u, k>>[1] = u
      BY DEF Claims
    <2>. QED  BY <2>1, <2>2 DEF RoutesOf, RoutesAfter
  <1>4. tx[x].kind # "reserve" => Live(t) /\ Stays(t)
    BY DEF CommitTx, CommitReserve, CommitEdit, CommitMove, Stays, Live, LiveAfter
  <1>5. tx[x].kind = "reserve" => machine'[t] = tx[x].mach
    BY <1>0, <1>1 DEF CommitTx, CommitReserve, CommitEdit, CommitMove, TypeOK
  <1>6. ASSUME NEW k \in RouteKeys
        PROVE  k \in RoutesAfter(t) <=> k \in tx[x].put \/ (k \in RoutesOf(t) /\ k \notin Written(x))
    <2>1. routes'[Claim(x, k)] = IF k \in tx[x].put THEN tx[x].got[k]
             ELSE IF k \in Written(x) THEN NoRoute ELSE routes[Claim(x, k)]
      BY <1>0, <1>1, WriteFacts
    <2>2. k \in tx[x].put => tx[x].got[k] # NoRoute /\ k \in Written(x)
      BY <1>0 DEF Shape, Written
    <2>3. /\ k \in RoutesAfter(t) <=> routes'[Claim(x, k)] # NoRoute
          /\ k \in RoutesOf(t) <=> routes[Claim(x, k)] # NoRoute
      BY DEF RoutesOf, RoutesAfter, Claim
    <2>. QED  BY <2>1, <2>2, <2>3
  <1>. QED  BY <1>1, <1>2, <1>3, <1>4, <1>5, <1>6 DEF Shrinks, Stays, Live, LiveAfter

\* A move adds no routes, and a reservation or an edit that is apart leaves the
\* ones requested.
LEMMA CommitRoutes ==
    ASSUME Locked, Owned, Unrouted, Placed, NEW x \in Txs, CommitTx(x)
    PROVE  /\ tx[x].kind = "move" => \A u \in Tunnels : Shrinks(u)
           /\ tx[x].kind = "reserve" => RoutesAfter(tx[x].tun) \subseteq tx[x].req
           /\ tx[x].kind = "edit" /\ tx[x].apart /\ tx[x].mach.device # None =>
                 RoutesAfter(tx[x].tun) \subseteq tx[x].req
  <1> DEFINE t == tx[x].tun
  <1>0. Shaped /\ Shape(x) /\ OwnId(x) /\ MovePuts(x) /\ EndpointsHeld(x) /\ tx[x] \in Records
    BY DEF Locked, Shaped, TxTypeOK, Owned, Placed
  <1>1. Open(x) /\ t \in Tunnels /\ AllAdded(x)
    BY <1>0, CommitFacts
  <1>2. /\ \A u \in Tunnels \ {t} : Shrinks(u)
        /\ tx[x].kind # "reserve" => Stays(t)
        /\ \A k \in RouteKeys :
              k \in RoutesAfter(t) <=> k \in tx[x].put \/ (k \in RoutesOf(t) /\ k \notin Written(x))
    BY CommitTunnels
  <1>3. RoutesAfter(t) \subseteq RouteKeys
    BY DEF RoutesAfter
  <1>4. ASSUME tx[x].kind = "move" PROVE \A u \in Tunnels : Shrinks(u)
    <2>1. tx[x].put \subseteq RoutesOf(t)
      BY <1>0, <1>1, <1>4 DEF MovePuts
    <2>. QED  BY <1>2, <1>3, <1>4, <2>1 DEF Shrinks
  <1>5. \A k \in tx[x].put : k \in Adds(tx[x])
    BY <1>0 DEF Shape
  <1>6. ASSUME tx[x].kind = "reserve" PROVE RoutesAfter(t) \subseteq tx[x].req
    <2>1. RoutesOf(t) = {}
      BY <1>0, <1>1, <1>6 DEF OwnId, Unrouted, Live, Statuses, RoutesOf, Claims
    <2>. QED  BY <1>2, <1>3, <1>5, <1>6, <2>1 DEF Adds
  <1>7. ASSUME tx[x].kind = "edit", tx[x].apart, tx[x].mach.device # None
        PROVE  RoutesAfter(t) \subseteq tx[x].req
    <2>1. RoutesOf(t) \subseteq tx[x].seen
      BY <1>0, <1>1, <1>7 DEF EndpointsHeld, Stores
    <2>2. tx[x].seen \ tx[x].req \subseteq Written(x)
      BY <1>1, <1>7 DEF AllAdded, Drops, Written
    <2>. QED  BY <1>2, <1>3, <1>5, <1>7, <2>1, <2>2 DEF Adds
  <1>. QED  BY <1>4, <1>6, <1>7

\* What has begun is apart from those that are open, or takes their mark.
LEMMA BeginPlaced ==
    ASSUME Shaped, Placed, NEW x \in Txs, Begins(x)
    PROVE  Placed'
  <1>0. TxTypeOK /\ \A y \in Txs : EditMachine(y) /\ MovePuts(y) /\ EndpointsHeld(y)
    BY DEF Shaped, Placed
  <1>1. PICK kind \in {"reserve", "edit", "move"}, t \in Tunnels, m \in Machines \cup {None},
             n \in Nodes, req \in SUBSET RouteKeys, seen \in SUBSET RouteKeys :
           /\ Begun(x, kind, t, m, n, req, seen)
           /\ kind # "move" => EndpointsFree(m.device, req, t)
           /\ kind = "edit" => m = machine[t] /\ seen = RoutesOf(t)
    <2>1. PICK t \in Tunnels, n \in Nodes :
             \/ \E m \in Machines, req \in Requests \ {{}} : BeginReserve(x, t, m, n, req)
             \/ \E req \in Requests : BeginEdit(x, t, n, req)
             \/ BeginMove(x, t, n)
      BY DEF Begins
    <2>2. RoutesOf(t) \in SUBSET RouteKeys /\ machine[t] \in Machines \cup {None}
      BY <1>0, MachineOf
    <2>3. ASSUME NEW m \in Machines, NEW req \in Requests \ {{}}, BeginReserve(x, t, m, n, req)
          PROVE  /\ Begun(x, "reserve", t, m, n, req, {}) /\ req \in SUBSET RouteKeys
                 /\ EndpointsFree(m.device, req, t)
      BY <1>0, <2>3, BeginFacts, RequestsAssumption DEF BeginReserve
    <2>4. ASSUME NEW req \in Requests, BeginEdit(x, t, n, req)
          PROVE  /\ Begun(x, "edit", t, machine[t], n, req, RoutesOf(t)) /\ req \in SUBSET RouteKeys
                 /\ EndpointsFree(machine[t].device, req, t)
      BY <1>0, <2>2, <2>4, BeginFacts, RequestsAssumption DEF BeginEdit
    <2>5. ASSUME BeginMove(x, t, n)
          PROVE  Begun(x, "move", t, None, n, {}, RoutesOf(t))
      BY <1>0, <2>2, <2>5, BeginFacts DEF BeginMove
    <2>6. ASSUME NEW m \in Machines, NEW req \in Requests \ {{}}, BeginReserve(x, t, m, n, req)
          PROVE  \E seen \in SUBSET RouteKeys : Begun(x, "reserve", t, m, n, req, seen)
      BY <2>3, <2>6
    <2>. QED  BY <2>1, <2>2, <2>3, <2>4, <2>5, <2>6
  <1>2. /\ UNCHANGED vars /\ Undisturbed(x)
        /\ tx'[x].kind = kind /\ tx'[x].tun = t /\ tx'[x].mach = m
        /\ tx'[x].req = req /\ tx'[x].seen = seen /\ tx'[x].put = {} /\ tx'[x].done = {}
    BY <1>1 DEF Begun
  <1>3. tx'[x].apart => Neighbours(kind, m) = {}
    BY <1>1 DEF Begun
  <1>4. \A y \in Txs : y # x /\ y \in Neighbours(kind, m) => ~tx'[y].apart
    BY <1>1 DEF Begun
  <1>5. \A u \in Tunnels : Shrinks(u) /\ RoutesAfter(u) = RoutesOf(u)
    BY <1>2 DEF vars, Shrinks, Stays, Live, LiveAfter, RoutesOf, RoutesAfter
  <1>6. \A y \in Txs : y # x => /\ Keeps(y) /\ Open(y)' = Open(y) /\ tx'[y].tun = tx[y].tun
                                /\ tx'[y].kind = tx[y].kind /\ tx'[y].mach = tx[y].mach
                                /\ tx'[y].put = tx[y].put /\ tx'[y].done = tx[y].done
    BY <1>2, KeepsLocks DEF Undisturbed, Keeps
  <1>7. \A y \in Txs : Open(y) => tx[y].tun \in Tunnels
    BY DEF Shaped, Shape
  <1>8. ASSUME NEW y \in Txs, y # x PROVE EditMachine(y)' /\ MovePuts(y)' /\ EndpointsHeld(y)'
    <2>1. GoesOn(y)
      BY <1>6, <1>8, KeepsGoesOn
    <2>2. EditMachine(y)'
      BY <1>0, <1>5, <1>7, <2>1, KeepsEditMachine DEF Shrinks
    <2>3. MovePuts(y)'
      <3> SUFFICES ASSUME Open(y)', tx'[y].kind = "move" PROVE MovePuts(y)'
        BY DEF MovePuts
      <3>1. Open(y) /\ tx[y].kind = "move" /\ tx[y].tun \in Tunnels /\ tx'[y].tun = tx[y].tun
        BY <1>6, <1>7, <1>8
      <3>2. (tx[y].put \subseteq RoutesOf(tx[y].tun))'
        BY <1>0, <1>2, <1>6, <1>8, <3>1 DEF MovePuts, vars, RoutesOf
      <3>3. \A z \in Txs : z # x /\ z \in Siblings(y)' => z \in Siblings(y)
        BY <1>6, <1>8 DEF Siblings
      <3>4. \A z \in Siblings(y)' : tx'[z].kind = "edit" => tx'[y].put \cap tx'[z].done = {}
        BY <1>0, <1>2, <1>6, <1>8, <3>1, <3>3 DEF MovePuts, Siblings
      <3>. QED  BY <3>2, <3>4 DEF MovePuts
    <2>4. EndpointsHeld(y)'
      <3>1. ASSUME Stores(y), tx'[y].apart, tx[y].apart, tx[y].mach.device # None,
                   NEW z \in Txs \ {y}, Stores(z)'
            PROVE  tx'[z].mach.device # tx[y].mach.device
        <4>1. CASE z = x
          <5>1. y \notin Neighbours(kind, m)
            BY <1>4, <1>8, <3>1
          <5>2. kind # "move"
            BY <1>2, <3>1, <4>1 DEF Stores
          <5>. QED  BY <1>2, <3>1, <4>1, <5>1, <5>2 DEF Neighbours, Stores
        <4>2. CASE z # x
          <5>1. Stores(z) /\ tx'[z].mach = tx[z].mach
            BY <1>6, <3>1, <4>2 DEF Stores
          <5>. QED  BY <1>0, <3>1, <5>1 DEF EndpointsHeld
        <4>. QED  BY <4>1, <4>2
      <3>. QED  BY <1>0, <1>5, <1>7, <2>1, <3>1, KeepsEndpoints DEF Stores
    <2>. QED  BY <2>2, <2>3, <2>4
  <1>9. EditMachine(x)' /\ MovePuts(x)'
    BY <1>1, <1>2 DEF EditMachine, MovePuts, vars
  <1>10. EndpointsHeld(x)'
    <2> SUFFICES ASSUME Stores(x)', tx'[x].apart, m.device # None PROVE EndpointsHeld(x)'
      BY <1>2 DEF EndpointsHeld
    <2>1. kind # "move" /\ Neighbours(kind, m) = {}
      BY <1>2, <1>3 DEF Stores
    <2>2. \A y \in Txs \ {x} : Stores(y)' => tx'[y].mach.device # m.device
      BY <1>6, <2>1 DEF Neighbours, Stores
    <2>3. EndpointsFree(tx[x].mach.device, tx[x].req, tx[x].tun)'
      BY <1>1, <1>2, <2>1 DEF EndpointsFree, vars, Live, RoutesOf
    <2>4. (tx[x].kind = "edit" => RoutesOf(tx[x].tun) \subseteq tx[x].seen)'
      BY <1>1, <1>2 DEF vars, RoutesOf
    <2>. QED  BY <1>2, <2>2, <2>3, <2>4 DEF EndpointsHeld
  <1>. QED  BY <1>8, <1>9, <1>10 DEF Placed

\* What a statement adds to the routes that a move updates, or an edit deletes,
\* no other one at its tunnel has written.
LEMMA StatementPuts ==
    ASSUME Shaped, NEW x \in Txs, TxStep(x), ~Begins(x), Open(x)',
           NEW unwritten, unwritten = {k \in RouteKeys : \A y \in Siblings(x) : k \notin Written(y)}
    PROVE  /\ tx[x].kind = "move" => tx'[x].put \subseteq tx[x].put \cup (RoutesOf(tx[x].tun) \cap unwritten)
           /\ tx[x].kind = "edit" => tx'[x].done \subseteq tx[x].done \cup unwritten
  <1>0. TxTypeOK /\ tx[x] \in Records
    BY DEF Shaped, TxTypeOK
  <1>1. ASSUME NEW keys \in SUBSET RouteKeys, StartFree(x, keys)
        PROVE  tx'[x].put = tx[x].put /\ tx'[x].done = tx[x].done
    BY <1>0, <1>1, StartFreeFacts
  <1>2. ASSUME EndFree(x)
        PROVE  /\ tx'[x].put = tx[x].put
               /\ tx[x].kind = "edit" => tx'[x].done \subseteq tx[x].done \cup unwritten
    <2>1. tx'[x].put = tx[x].put /\ tx'[x].done = tx[x].done \cup tx[x].keys
      BY <1>0, <1>2, EndFreeFacts
    <2>2. tx[x].keys \in SUBSET RouteKeys
      BY <1>0 DEF Records
    <2>3. tx[x].kind = "edit" => \A y \in Siblings(x) : tx[x].keys \cap Written(y) = {}
      BY <1>2 DEF EndFree
    <2>. QED  BY <2>1, <2>2, <2>3
  <1>3. ASSUME NEW k \in RouteKeys, NEW p \in Ports \cup {Shared}, Add(x, k, p)
        PROVE  /\ tx'[x].done = tx[x].done
               /\ tx[x].kind = "move" =>
                     tx'[x].put \subseteq tx[x].put \cup (RoutesOf(tx[x].tun) \cap unwritten)
    <2>1. /\ tx'[x].done = tx[x].done
          /\ tx'[x].put = IF tx[x].kind = "move" /\ k \notin RoutesOf(tx[x].tun)
                            THEN tx[x].put ELSE tx[x].put \cup {k}
      BY <1>0, <1>3, AddFacts
    <2>2. tx[x].kind = "move" => \A y \in Siblings(x) : k \notin Written(y)
      BY <1>3 DEF Add
    <2>. QED  BY <2>1, <2>2
  <1>4. ASSUME Abort(x) \/ CommitTx(x) PROVE FALSE
    <2>1. Becomes(x, Idle)
      BY <1>4, CommitFacts DEF Abort, Write
    <2>2. tx'[x] = Idle
      BY <1>0, <2>1, IdleType, BecomesFacts
    <2>. QED  BY <2>2 DEF Open, Idle
  <1>. QED  BY <1>1, <1>2, <1>3, <1>4 DEF TxStep, Begins

\* A statement between the first and the commit.
LEMMA StatementPlaced ==
    ASSUME Locked, Placed, NEW x \in Txs, TxStep(x), ~Begins(x), ~CommitTx(x)
    PROVE  Placed'
  <1>0. /\ Shaped /\ TxTypeOK /\ LockInv(x)
        /\ \A y \in Txs : Shape(y) /\ EditMachine(y) /\ MovePuts(y) /\ EndpointsHeld(y)
    BY DEF Locked, Shaped, Placed
  <1>1. UNCHANGED vars /\ Undisturbed(x)
    BY <1>0, OthersKeep
  <1>2. \A u \in Tunnels : Shrinks(u) /\ RoutesAfter(u) = RoutesOf(u)
    BY <1>1 DEF vars, Shrinks, Stays, Live, LiveAfter, RoutesOf, RoutesAfter
  <1>3. Open(x)' => /\ Open(x) /\ Task(tx'[x]) = Task(tx[x])
                    /\ tx'[x].apart = tx[x].apart
    BY <1>0, SameTask
  <1>4. \A y \in Txs : GoesOn(y)
    BY <1>1, <1>3, KeepsGoesOn DEF Undisturbed, GoesOn
  <1>5. \A y \in Txs : Open(y)' => /\ Open(y) /\ tx'[y].kind = tx[y].kind /\ tx'[y].tun = tx[y].tun
                                  /\ tx'[y].mach = tx[y].mach
    BY <1>4, TaskFacts DEF GoesOn
  <1>6. \A y \in Txs : Open(y) => tx[y].tun \in Tunnels
    BY <1>0 DEF Shape
  <1>7. \A y \in Txs : EditMachine(y)'
    BY <1>0, <1>2, <1>4, <1>6, KeepsEditMachine DEF Shrinks
  <1>8. ASSUME NEW y \in Txs PROVE EndpointsHeld(y)'
    <2>1. ASSUME Stores(y), tx[y].apart, tx[y].mach.device # None, NEW z \in Txs \ {y}, Stores(z)'
          PROVE  tx'[z].mach.device # tx[y].mach.device
      BY <1>0, <1>5, <2>1 DEF EndpointsHeld, Stores
    <2>. QED  BY <1>0, <1>2, <1>4, <1>6, <2>1, KeepsEndpoints DEF Stores
  <1>9. ASSUME NEW y \in Txs PROVE MovePuts(y)'
    <2> SUFFICES ASSUME Open(y)', tx'[y].kind = "move" PROVE MovePuts(y)'
      BY DEF MovePuts
    <2> DEFINE t == tx[y].tun
               unwritten == {k \in RouteKeys : \A z \in Siblings(x) : k \notin Written(z)}
    <2>1. Open(y) /\ tx[y].kind = "move" /\ tx'[y].tun = t /\ t \in Tunnels
      BY <1>5, <1>6
    <2>2. /\ tx[y].put \subseteq RoutesOf(t)
          /\ \A z \in Siblings(y) : tx[z].kind = "edit" => tx[y].put \cap tx[z].done = {}
      BY <1>0, <2>1 DEF MovePuts
    <2>3. \A z \in Txs : z # x => tx'[z].put = tx[z].put /\ tx'[z].done = tx[z].done
      BY <1>1 DEF Undisturbed, Keeps
    <2>4. Siblings(y)' \subseteq Siblings(y)
      BY <1>5, SiblingsShrink
    <2>5. /\ Open(x)' /\ tx[x].kind = "move" =>
                tx'[x].put \subseteq tx[x].put \cup (RoutesOf(tx[x].tun) \cap unwritten)
          /\ Open(x)' /\ tx[x].kind = "edit" => tx'[x].done \subseteq tx[x].done \cup unwritten
      BY <1>0, StatementPuts
    <2>6. tx'[y].put \subseteq RoutesOf(t)
      BY <2>1, <2>2, <2>3, <2>5
    <2>7. ASSUME NEW z \in Siblings(y)', tx'[z].kind = "edit" PROVE tx'[y].put \cap tx'[z].done = {}
      <3>1. z \in Siblings(y) /\ z \in Txs /\ z # y /\ Open(z)' /\ Open(z) /\ tx[z].kind = "edit"
        BY <1>5, <2>4, <2>7 DEF Siblings
      <3>2. tx[y].put \cap tx[z].done = {} /\ y \in Siblings(z)
        BY <2>1, <2>2, <3>1 DEF Siblings
      <3>3. CASE y = x
        <4>1. \A k \in unwritten : k \notin tx[z].done
          BY <3>1, <3>3 DEF Written
        <4>. QED  BY <2>1, <2>3, <2>5, <3>1, <3>2, <3>3, <4>1
      <3>4. CASE z = x
        <4>1. \A k \in unwritten : k \notin tx[y].put
          BY <3>2, <3>4 DEF Written
        <4>. QED  BY <2>3, <2>5, <3>1, <3>2, <3>4, <4>1
      <3>5. CASE y # x /\ z # x
        BY <2>3, <3>1, <3>2, <3>5
      <3>. QED  BY <3>3, <3>4, <3>5
    <2>8. (tx[y].put \subseteq RoutesOf(tx[y].tun))'
      BY <1>2, <2>1, <2>6 DEF RoutesOf, RoutesAfter
    <2>. QED  BY <2>7, <2>8 DEF MovePuts
  <1>. QED  BY <1>7, <1>8, <1>9 DEF Placed

\* The commit of another transaction.
LEMMA CommitPlaced ==
    ASSUME Locked, Owned, Unrouted, Placed, NEW y \in Txs, CommitTx(y)
    PROVE  Placed'
  <1> DEFINE t == tx[y].tun
  <1>0. /\ Shaped /\ TxTypeOK /\ LockInv(y) /\ Shape(y) /\ OwnId(y)
        /\ \A x \in Txs : EditMachine(x) /\ MovePuts(x) /\ EndpointsHeld(x)
    BY DEF Locked, Shaped, Owned, Placed
  <1>1. Undisturbed(y) /\ Open(y) /\ t \in Tunnels /\ Becomes(y, Idle)
    BY <1>0, OthersKeep, CommitFacts DEF TxStep, Write
  <1>2. tx'[y] = Idle
    BY <1>0, <1>1, IdleType, BecomesFacts
  <1>3. /\ \A u \in Tunnels \ {t} : Shrinks(u) /\ RoutesOf(u) \subseteq RoutesAfter(u)
        /\ tx[y].kind # "reserve" => Live(t) /\ Stays(t)
        /\ tx[y].kind = "reserve" => machine'[t] = tx[y].mach
        /\ \A k \in RouteKeys :
              k \in RoutesAfter(t) <=> k \in tx[y].put \/ (k \in RoutesOf(t) /\ k \notin Written(y))
    BY CommitTunnels
  <1>4. tx[y].kind = "move" => \A u \in Tunnels : Shrinks(u)
    BY CommitRoutes
  <1>5. \A x \in Txs : Open(x) => tx[x].tun \in Tunnels
    BY DEF Shaped, Shape, Locked
  <1>6. \A x \in Txs : Open(x)' => x # y /\ Open(x) /\ tx'[x].tun = tx[x].tun
    BY <1>1, <1>2, KeepsLocks DEF Undisturbed, Open, Idle
  <1>7. \A x \in Txs : x # y => GoesOn(x)
    BY <1>1, KeepsGoesOn DEF Undisturbed
  <1>8. \A x \in Txs : x # y /\ Open(x) /\ tx[x].tun = t => tx[y].kind # "reserve"
    BY <1>0, <1>1 DEF OwnId, Siblings
  <1>9. EditMachine(y)' /\ MovePuts(y)' /\ EndpointsHeld(y)'
    BY <1>6 DEF EditMachine, MovePuts, EndpointsHeld, Stores
  <1>10. ASSUME NEW x \in Txs, x # y PROVE EditMachine(x)'
    <2>1. Open(x) => Stays(tx[x].tun)
      BY <1>3, <1>5, <1>8, <1>10 DEF Shrinks
    <2>. QED  BY <1>0, <1>7, <1>10, <2>1, KeepsEditMachine
  <1>11. ASSUME NEW x \in Txs, x # y PROVE MovePuts(x)'
    <2> SUFFICES ASSUME Open(x)', tx'[x].kind = "move" PROVE MovePuts(x)'
      BY DEF MovePuts
    <2>1. /\ Open(x) /\ tx[x].kind = "move" /\ tx'[x].tun = tx[x].tun /\ tx[x].tun \in Tunnels
          /\ tx'[x].put = tx[x].put
      BY <1>1, <1>5, <1>6, <1>11, KeepsLocks DEF Undisturbed, Keeps
    <2>2. /\ tx[x].put \subseteq RoutesOf(tx[x].tun)
          /\ \A z \in Siblings(x) : tx[z].kind = "edit" => tx[x].put \cap tx[z].done = {}
      BY <1>0, <2>1 DEF MovePuts
    <2>3. tx[x].put \subseteq RoutesAfter(tx[x].tun)
      <3>1. CASE tx[x].tun # t
        BY <1>3, <2>1, <2>2, <3>1
      <3>2. CASE tx[x].tun = t
        <4>1. tx[y].kind = "edit" => tx[x].put \cap tx[y].done = {}
          BY <1>1, <1>11, <2>2, <3>2 DEF Siblings
        <4>2. \A k \in tx[x].put : k \in Written(y) => k \in tx[y].put
          BY <4>1 DEF Written
        <4>3. tx[x].put \subseteq RouteKeys
          BY <2>2 DEF RoutesOf
        <4>. QED  BY <1>3, <2>2, <3>2, <4>2, <4>3
      <3>. QED  BY <3>1, <3>2
    <2>4. ASSUME NEW z \in Siblings(x)', tx'[z].kind = "edit" PROVE tx'[x].put \cap tx'[z].done = {}
      <3>1. z \in Siblings(x) /\ z \in Txs /\ z # y
        BY <1>6, <2>1, <2>4 DEF Siblings
      <3>2. tx[z].kind = "edit" /\ tx'[z].done = tx[z].done
        BY <1>1, <2>4, <3>1, KeepsLocks DEF Undisturbed, Keeps
      <3>. QED  BY <2>1, <2>2, <3>1, <3>2
    <2>5. (tx[x].put \subseteq RoutesOf(tx[x].tun))'
      BY <2>1, <2>3 DEF RoutesOf, RoutesAfter
    <2>. QED  BY <2>4, <2>5 DEF MovePuts
  <1>12. ASSUME NEW x \in Txs, x # y PROVE EndpointsHeld(x)'
    <2> SUFFICES ASSUME Stores(x), tx[x].apart, tx[x].mach.device # None
                 PROVE  /\ \A u \in Tunnels \ {tx[x].tun} :
                              LiveAfter(u) => Shrinks(u) \/ machine'[u].device # tx[x].mach.device
                        /\ tx[x].kind = "edit" => RoutesAfter(tx[x].tun) \subseteq RoutesOf(tx[x].tun)
                        /\ \A z \in Txs \ {x} : Stores(z)' => tx'[z].mach.device # tx[x].mach.device
      BY <1>0, <1>7, <1>12, KeepsEndpoints
    <2>1. \A z \in Txs \ {x} : Stores(z) => tx[z].mach.device # tx[x].mach.device
      BY <1>0 DEF EndpointsHeld
    <2>2. ASSUME NEW z \in Txs \ {x}, Stores(z)' PROVE tx'[z].mach.device # tx[x].mach.device
      <3>1. z # y /\ Open(z)
        BY <1>6, <2>2 DEF Stores
      <3>2. Stores(z) /\ tx'[z].mach = tx[z].mach
        BY <1>1, <2>2, <3>1, KeepsLocks DEF Undisturbed, Stores
      <3>. QED  BY <2>1, <3>2
    <2>3. CASE tx[y].kind = "move"
      <3>1. Open(x) /\ tx[x].tun \in Tunnels
        BY <1>5 DEF Stores
      <3>. QED  BY <1>4, <2>2, <2>3, <3>1 DEF Shrinks
    <2>4. CASE tx[y].kind # "move"
      <3>1. tx[y].mach.device # tx[x].mach.device
        BY <1>1, <1>12, <2>1, <2>4 DEF Stores
      <3>2. LiveAfter(t) => machine'[t].device # tx[x].mach.device
        <4>1. CASE tx[y].kind = "reserve"
          BY <1>3, <3>1, <4>1
        <4>2. CASE tx[y].kind = "edit"
          BY <1>0, <1>1, <1>3, <3>1, <4>2 DEF EditMachine, Stays
        <4>. QED  BY <1>0, <1>1, <2>4, <4>1, <4>2 DEF Shape
      <3>3. tx[x].kind = "edit" => tx[x].tun # t
        <4>1. ASSUME tx[x].kind = "edit", tx[x].tun = t PROVE FALSE
          <5>1. Open(x) /\ tx[y].kind = "edit" /\ Live(t)
            BY <1>0, <1>1, <1>3, <1>8, <1>12, <2>4, <4>1 DEF Stores, Shape
          <5>. QED  BY <1>0, <1>1, <3>1, <4>1, <5>1 DEF EditMachine
        <4>. QED  BY <4>1
      <3>4. tx[x].kind = "edit" => RoutesAfter(tx[x].tun) \subseteq RoutesOf(tx[x].tun)
        BY <1>3, <1>5, <3>3 DEF Shrinks, Stores
      <3>. QED  BY <1>3, <2>2, <3>2, <3>4
    <2>. QED  BY <2>3, <2>4
  <1>. QED  BY <1>9, <1>10, <1>11, <1>12 DEF Placed

\* A step that changes no routes that an open transaction has written, and adds
\* nothing to any tunnel.
LEMMA OthersPlaced ==
    ASSUME Shaped, Placed, \A x \in Txs : Keeps(x), \A u \in Tunnels : Shrinks(u),
           \A x \in Txs : Open(x) =>
              \A k \in Written(x) : Claim(x, k) \in Claims => routes'[Claim(x, k)] = routes[Claim(x, k)]
    PROVE  Placed'
  <1>0. \A x \in Txs : Shape(x) /\ EditMachine(x) /\ MovePuts(x) /\ EndpointsHeld(x)
    BY DEF Shaped, Placed
  <1>1. \A x \in Txs : Open(x) => tx[x].tun \in Tunnels
    BY <1>0 DEF Shape
  <1>2. \A x \in Txs : Open(x)' => Open(x) /\ tx'[x].tun = tx[x].tun
    BY KeepsLocks
  <1> SUFFICES ASSUME NEW x \in Txs PROVE EditMachine(x)' /\ MovePuts(x)' /\ EndpointsHeld(x)'
    BY DEF Placed
  <1>3. GoesOn(x)
    BY KeepsGoesOn
  <1>4. EditMachine(x)'
    BY <1>0, <1>1, <1>3, KeepsEditMachine DEF Shrinks
  <1>5. EndpointsHeld(x)'
    <2>1. ASSUME Stores(x), tx[x].apart, tx[x].mach.device # None, NEW z \in Txs \ {x}, Stores(z)'
          PROVE  tx'[z].mach.device # tx[x].mach.device
      <3>1. Stores(z) /\ tx'[z].mach = tx[z].mach
        BY <2>1, KeepsLocks DEF Stores
      <3>. QED  BY <1>0, <2>1, <3>1 DEF EndpointsHeld
    <2>. QED  BY <1>0, <1>1, <1>3, <2>1, KeepsEndpoints DEF Stores, Shrinks
  <1>6. MovePuts(x)'
    <2> SUFFICES ASSUME Open(x)', tx'[x].kind = "move" PROVE MovePuts(x)'
      BY DEF MovePuts
    <2>1. /\ Open(x) /\ tx[x].kind = "move" /\ tx'[x].tun = tx[x].tun /\ tx[x].tun \in Tunnels
          /\ tx'[x].put = tx[x].put
      BY <1>1, KeepsLocks DEF Keeps
    <2>2. /\ tx[x].put \subseteq RoutesOf(tx[x].tun)
          /\ \A z \in Siblings(x) : tx[z].kind = "edit" => tx[x].put \cap tx[z].done = {}
      BY <1>0, <2>1 DEF MovePuts
    <2>3. ASSUME NEW k \in tx[x].put PROVE k \in RoutesAfter(tx[x].tun)
      <3>1. k \in RouteKeys /\ routes[<<tx[x].tun, k>>] # NoRoute /\ k \in Written(x)
        BY <2>2, <2>3 DEF RoutesOf, Written
      <3>2. Claim(x, k) = <<tx[x].tun, k>> /\ Claim(x, k) \in Claims
        BY <2>1, <3>1 DEF Claim, Claims
      <3>. QED  BY <2>1, <3>1, <3>2 DEF RoutesAfter
    <2>4. Siblings(x)' \subseteq Siblings(x)
      BY <1>2, SiblingsShrink
    <2>5. ASSUME NEW z \in Siblings(x)', tx'[z].kind = "edit" PROVE tx'[x].put \cap tx'[z].done = {}
      <3>1. z \in Siblings(x) /\ z \in Txs
        BY <2>4 DEF Siblings
      <3>2. tx[z].kind = "edit" /\ tx'[z].done = tx[z].done
        BY <2>5, <3>1, KeepsLocks DEF Keeps
      <3>. QED  BY <2>1, <2>2, <3>1, <3>2
    <2>6. (tx[x].put \subseteq RoutesOf(tx[x].tun))'
      BY <2>1, <2>3 DEF RoutesOf, RoutesAfter
    <2>. QED  BY <2>5, <2>6 DEF MovePuts
  <1>. QED  BY <1>4, <1>5, <1>6

LEMMA SingleShrinking ==
    ASSUME TypeOK, SingleStep
    PROVE  \A u \in Tunnels : Shrinks(u)
  <1> SUFFICES ASSUME NEW u \in Tunnels PROVE Shrinks(u)
    OBVIOUS
  <1>1. /\ \A c \in Claims : routes'[c] \in {routes[c], NoRoute}
        /\ Live(u)' => Live(u) /\ machine'[u] = machine[u]
    BY SingleShrinks
  <1>2. \A k \in RouteKeys : <<u, k>> \in Claims
    BY DEF Claims
  <1>. QED  BY <1>1, <1>2 DEF Shrinks, Stays, Live, LiveAfter, RoutesOf, RoutesAfter

LEMMA PlacedStep ==
    ASSUME Locked, Owned, Unrouted, Placed, [TxNext]_txvars
    PROVE  Placed'
  <1>0. Shaped /\ TxTypeOK /\ TypeOK
    BY DEF Locked, Shaped, TxTypeOK
  <1>1. ASSUME NEW x \in Txs, TxStep(x) PROVE Placed'
    BY <1>0, <1>1, BeginPlaced, StatementPlaced, CommitPlaced
  <1>2. ASSUME Single PROVE Placed'
    <2>1. SingleStep /\ WaitForLocks
      BY <1>0, <1>2, SingleFacts
    <2>2. \A x \in Txs : Keeps(x)
      BY <1>0, <1>2, SingleFacts
    <2>3. \A x \in Txs : Open(x) =>
             \A k \in Written(x) : Claim(x, k) \in Claims => routes'[Claim(x, k)] = routes[Claim(x, k)]
      BY <2>1 DEF WaitForLocks
    <2>. QED  BY <1>0, <2>1, <2>2, <2>3, SingleShrinking, OthersPlaced
  <1>3. CASE UNCHANGED txvars
    <2>1. UNCHANGED <<tx, status, machine, routes>>
      BY <1>3 DEF txvars, vars
    <2>2. \A x \in Txs : Keeps(x)
      BY <2>1, SameKeeps
    <2>3. \A u \in Tunnels : Shrinks(u)
      BY <2>1 DEF Shrinks, Stays, Live, LiveAfter, RoutesOf, RoutesAfter
    <2>. QED  BY <1>0, <2>1, <2>2, <2>3, OthersPlaced
  <1>. QED  BY <1>1, <1>2, <1>3 DEF TxNext, Single

LEMMA ClashingSym ==
    ASSUME NEW t \in Tunnels, NEW u \in Tunnels, Clashing(t, u)'
    PROVE  Clashing(u, t)'
  BY ClashSym DEF Clashing

\* The reservation or the edit of a tunnel that is apart stores no endpoint that
\* another service of its device has.
LEMMA ApartStores ==
    ASSUME Locked, Owned, Unrouted, Placed, NEW x \in Txs, CommitReserve(x) \/ CommitEdit(x),
           tx[x].apart, NEW t \in Tunnels, NEW u \in Tunnels \ {t}, tx[x].tun = t
    PROVE  ~Clashing(t, u)'
  <1> DEFINE m == tx[x].mach
  <1>0. CommitTx(x) /\ Shaped /\ EditMachine(x) /\ EndpointsHeld(x)
        /\ tx[x].kind \in {"reserve", "edit"}
    BY DEF CommitTx, CommitReserve, CommitEdit, Locked, Placed
  <1>1. Open(x) /\ Stores(x)
    BY <1>0, CommitFacts DEF Stores
  <1>2. LiveAfter(t) => machine'[t] = m
    BY <1>0, <1>1, CommitTunnels DEF EditMachine, Stays
  <1>3. Shrinks(u)
    BY <1>0, CommitTunnels
  <1>4. m.device # None => RoutesAfter(t) \subseteq tx[x].req /\ EndpointsFree(m.device, tx[x].req, t)
    BY <1>0, <1>1, CommitRoutes DEF EndpointsHeld
  <1> SUFFICES ASSUME LiveAfter(t), LiveAfter(u), machine'[t].device = machine'[u].device,
                      machine'[t].device # None, NEW j \in RoutesAfter(t), NEW k \in RoutesAfter(u)
               PROVE  ~Clash(j, k)
    BY DEF Clashing, Live, LiveAfter, RoutesOf, RoutesAfter
  <1>5. Live(u) /\ machine[u].device = m.device /\ k \in RoutesOf(u) /\ j \in tx[x].req
    BY <1>2, <1>3, <1>4 DEF Shrinks, Stays
  <1>. QED  BY <1>2, <1>4, <1>5 DEF EndpointsFree

LEMMA EndpointsStep ==
    ASSUME Locked, Owned, Unrouted, Placed, [TxNext]_txvars, NEW t \in Tunnels, NEW u \in Tunnels,
           Clashing(t, u)', ~Clashing(t, u)
    PROVE  \E x \in Txs : ~tx[x].apart /\ (CommitReserve(x) \/ CommitEdit(x))
  <1>0. Shaped /\ TxTypeOK /\ TypeOK /\ (\A x \in Txs : LockInv(x)) /\ t # u
    BY DEF Locked, Shaped, TxTypeOK, Clashing
  <1>1. ~(Shrinks(t) /\ Shrinks(u))
    BY ShrinksClashing
  <1>2. ASSUME UNCHANGED vars PROVE FALSE
    BY <1>1, <1>2 DEF vars, Shrinks, Stays, Live, LiveAfter, RoutesOf, RoutesAfter
  <1>3. ASSUME Single PROVE FALSE
    BY <1>0, <1>1, <1>3, SingleFacts, SingleShrinking
  <1>4. ASSUME NEW x \in Txs, CommitTx(x)
        PROVE  ~tx[x].apart /\ (CommitReserve(x) \/ CommitEdit(x))
    <2>1. tx[x].tun \in {t, u}
      BY <1>1, <1>4, CommitTunnels
    <2>2. tx[x].kind # "move"
      BY <1>1, <1>4, CommitRoutes
    <2>3. CommitReserve(x) \/ CommitEdit(x)
      BY <1>4, <2>2 DEF CommitTx, CommitMove
    <2>4. Clashing(u, t)'
      BY ClashingSym
    <2>5. ~tx[x].apart
      <3>1. CASE tx[x].tun = t
        BY <1>0, <2>3, <3>1, ApartStores
      <3>2. CASE tx[x].tun = u
        BY <1>0, <2>3, <2>4, <3>2, ApartStores
      <3>. QED  BY <2>1, <3>1, <3>2
    <2>. QED  BY <2>3, <2>5
  <1>5. ASSUME NEW x \in Txs, TxStep(x) PROVE CommitTx(x)
    BY <1>0, <1>2, <1>5, OthersKeep
  <1>. QED  BY <1>2, <1>3, <1>4, <1>5 DEF TxNext, Single, txvars

\* Two services of a device come to have one local endpoint only by a reservation
\* or an edit that overlaps another one for a service of that device: the check
\* that the handler makes before the transaction then misses what that one stores.
\* Neither moves nor the single steps do so.
THEOREM EndpointsOverlap == TxSpec => EndpointsByOverlap
  <1> DEFINE Inv == Locked /\ Owned /\ SettledInv /\ Placed
             Kept == \A t, u \in Tunnels :
                        Clashing(t, u)' =>
                           \/ Clashing(t, u)
                           \/ \E x \in Txs : ~tx[x].apart /\ (CommitReserve(x) \/ CommitEdit(x))
  <1>1. TxInit => Inv
    <2> SUFFICES ASSUME TxInit PROVE Inv
      OBVIOUS
    <2>1. \A x \in Txs : tx[x] = Idle
      BY DEF TxInit
    <2>2. Placed
      BY <2>1, IdleLocks DEF Placed, EditMachine, MovePuts, EndpointsHeld, Stores
    <2>. QED  BY <2>2, SettledInit
  <1>2. Inv /\ [TxNext]_txvars => Inv'
    BY LockedStep, OwnedStep, TxSettledStep, PlacedStep DEF SettledInv
  <1>3. Inv /\ [TxNext]_txvars => [Kept]_vars
    BY EndpointsStep DEF SettledInv
  <1>4. EndpointsByOverlap <=> [][Kept]_vars
    BY DEF EndpointsByOverlap
  <1> HIDE DEF Inv, Kept
  <1>. QED  BY <1>1, <1>2, <1>3, <1>4, PTL DEF TxSpec
=============================================================================
