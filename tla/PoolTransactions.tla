-------------------------- MODULE PoolTransactions --------------------------
(***************************************************************************)
(* Three transactions of PortPool that load rows before they write them -  *)
(* reserve_tunnel, set_service_routes, migrate_tunnel - statement by       *)
(* statement, as PostgreSQL runs them at READ COMMITTED                    *)
(* (natforge-backend/src/db/queries.rs).                                   *)
(*                                                                         *)
(* A transaction keeps what it has read and written in its record; the     *)
(* tables of PortPool are the committed ones.  A row it wrote is locked    *)
(* until its end.  An UPDATE works on the rows that match when it starts,  *)
(* waits for those that others lock, and skips those that no longer match. *)
(*                                                                         *)
(* Taken together are statements between which nobody can tell: a claim    *)
(* with the INSERT or UPDATE that stores its port, the freeing of a route's *)
(* row with the deletion of the route, and the writes to the row of        *)
(* tunnels with the commit.  There the unique index is checked, where in   *)
(* the code the statement waits for the other transaction.  The handler's  *)
(* check of the device's endpoints comes before the transaction and is     *)
(* taken with its first statement: an overlap lasts from that check to the *)
(* commit.  The remaining transactions are the single steps of PortPool,   *)
(* which wait for locks: what comes between the statements of a sweep,     *)
(* which reads before it writes too, is left out.                          *)
(* A third transaction of one tunnel does not overlap the first two: route *)
(* keys, which stand for route ids, tell no more than two apart.           *)
(***************************************************************************)
EXTENDS PortPool

CONSTANTS Txs     \* database connections; each runs a transaction at a time

ASSUME QuotaAssumption == IsFiniteSet(Tunnels) /\ max_tunnels \in Nat

VARIABLE tx       \* the transaction that each runs

txvars == <<vars, tx>>

Records == [
    at : {"idle", "ready", "freeing"},   \* freeing: in the UPDATE that frees rows
    kind : {"none", "reserve", "edit", "move"},
    tun : Tunnels \cup {None},
    mach : Machines \cup {None},         \* of a reservation or an edit
    to : Nodes \cup {None},              \* where it claims
    req : SUBSET RouteKeys,              \* the routes requested
    seen : SUBSET RouteKeys,             \* the routes loaded
    keys : SUBSET RouteKeys,             \* the routes whose rows the UPDATE frees
    look : SUBSET Rows,                  \* the rows that matched when it started
    done : SUBSET RouteKeys,             \* the routes whose rows were freed
    freed : SUBSET Rows,                 \* those rows
    got : [RouteKeys -> Ports \cup {NoRoute, Shared}],  \* ports claimed
    put : SUBSET RouteKeys,              \* the rows of routes inserted or updated
    alone : BOOLEAN,                     \* no other one came in between
    apart : BOOLEAN]                     \* nor did a reservation or edit for its device

Idle == [at |-> "idle", kind |-> "none", tun |-> None, mach |-> None, to |-> None,
         req |-> {}, seen |-> {}, keys |-> {}, look |-> {}, done |-> {}, freed |-> {},
         got |-> [k \in RouteKeys |-> NoRoute], put |-> {}, alone |-> TRUE,
         apart |-> TRUE]

TxTypeOK == TypeOK /\ tx \in [Txs -> Records]

TxInit == Init /\ tx = [x \in Txs |-> Idle]

-----------------------------------------------------------------------------
Open(x) == tx[x].at # "idle"
Siblings(x) == {y \in Txs \ {x} : Open(y) /\ tx[y].tun = tx[x].tun}

Claim(x, k) == <<tx[x].tun, k>>
Claiming(x) == {k \in RouteKeys : tx[x].got[k] \in Ports}
Taken(x) == {<<tx[x].to, tx[x].got[k]>> : k \in Claiming(x)}

Becomes(x, r) == tx' = [tx EXCEPT ![x] = r]

\* The rows of port_pool, and the keys of the rows of routes, that x has written.
Locks(x) == Taken(x) \cup tx[x].freed
Written(x) == tx[x].put \cup (IF tx[x].kind = "edit" THEN tx[x].done ELSE {})

\* Fault: FOR UPDATE SKIP LOCKED is left out.
UnlockedOrNot(row, x) == row \in Rows

Unlocked(row, x) == \A y \in Txs \ {x} : row \notin Locks(y)

\* The routes whose rows a transaction frees, and those it claims ports for or inserts.
Drops(r) == CASE r.kind = "edit" -> r.seen \ r.req
              [] r.kind = "move" -> RouteKeys
              [] OTHER -> {}
Adds(r) == IF r.kind = "move" THEN {k \in r.seen : k.kind \in {"tcp", "udp"}}
                              ELSE r.req \ r.seen

\* Two services of a device may not use one local socket.
Transports(kind) == IF kind = "both" THEN {"tcp", "udp"} ELSE {kind} \cap {"tcp", "udp"}
Clash(j, k) == j.local = k.local /\ Transports(j.kind) \cap Transports(k.kind) # {}
EndpointsFree(d, keys, t) ==
    \A u \in Tunnels \ {t} : Live(u) /\ machine[u].device = d /\ d # None =>
        \A j \in keys, k \in RoutesOf(u) : ~Clash(j, k)

-----------------------------------------------------------------------------
(* A transaction.                                                          *)

\* Those whose routes, or whose count of tunnels, the other one reads, and those
\* that store endpoints of one device.
Rivals(kind, t, m) ==
    {y \in Txs : Open(y) /\ \/ tx[y].tun = t
                            \/ /\ kind = "reserve" /\ tx[y].kind = "reserve"
                               /\ tx[y].mach.owner = m.owner}
Neighbours(kind, m) ==
    {y \in Txs : /\ Open(y) /\ kind # "move" /\ tx[y].kind # "move"
                /\ tx[y].mach.device = m.device /\ m.device # None}

\* It loads the routes of t.  From here on neither it nor its rivals are alone.
Begin(x, kind, t, m, n, req, seen) ==
    LET rivals == Rivals(kind, t, m)
        neighbours == Neighbours(kind, m)
    IN  /\ ~Open(x)
        /\ \A y \in Txs : Open(y) /\ tx[y].tun = t => tx[y].alone
        /\ tx' = [y \in Txs |->
                    IF y = x THEN [Idle EXCEPT !.at = "ready", !.kind = kind, !.tun = t, !.mach = m,
                                               !.to = n, !.req = req, !.seen = seen,
                                               !.alone = (rivals = {}), !.apart = (neighbours = {})]
                    ELSE [tx[y] EXCEPT !.alone = @ /\ y \notin rivals,
                                       !.apart = @ /\ y \notin neighbours]]
        /\ UNCHANGED vars

\* Fault: the owner's tunnels are not counted.
BeginReserveUncapped(x, t, m, n, req) ==
    /\ status[t] = "new" /\ \A y \in Txs : tx[y].tun # t
    /\ n \in seeded /\ EndpointsFree(m.device, req, t)
    /\ ~SigTaken(m, req, t)
    /\ Begin(x, "reserve", t, m, n, req, {})

\* The handler's check of the device's endpoints, the look-up by signature and
\* the count of the owner's tunnels.
BeginReserve(x, t, m, n, req) ==
    /\ status[t] = "new" /\ \A y \in Txs : tx[y].tun # t
    /\ n \in seeded /\ EndpointsFree(m.device, req, t)
    /\ ~SigTaken(m, req, t) /\ Count(m.owner) < max_tunnels
    /\ Begin(x, "reserve", t, m, n, req, {})

\* Fault: an edit may ask for the endpoints of the device's other services.
BeginEditUnchecked(x, t, n, req) ==
    /\ Live(t) /\ n \in homes[t]
    /\ Begin(x, "edit", t, machine[t], n, req, RoutesOf(t))

BeginEdit(x, t, n, req) ==
    /\ Live(t) /\ n \in homes[t] /\ EndpointsFree(machine[t].device, req, t)
    /\ Begin(x, "edit", t, machine[t], n, req, RoutesOf(t))

BeginMove(x, t, n) ==
    /\ Live(t) /\ n \in seeded \cap Targets /\ homes[t] \ {n} # {}
    /\ Begin(x, "move", t, None, n, {}, RoutesOf(t))

\* An edit frees the rows of one route after the other, a move all at once.
StartFree(x, keys) ==
    /\ tx[x].at = "ready" /\ keys # {} /\ keys \subseteq Drops(tx[x]) \ tx[x].done
    /\ IF tx[x].kind = "edit" THEN \E k \in keys : keys = {k} ELSE keys = RouteKeys
    /\ Becomes(x, [tx[x] EXCEPT
          !.at = "freeing", !.keys = keys,
          !.look = {row \in Rows : holder[row] \in ClaimsOf(tx[x].tun, keys)}])
    /\ UNCHANGED vars

\* An edit goes on to delete the route, which waits for whoever has updated it.
EndFree(x) ==
    /\ tx[x].at = "freeing" /\ \A row \in tx[x].look : Unlocked(row, x)
    /\ tx[x].kind = "edit" => \A y \in Siblings(x) : tx[x].keys \cap Written(y) = {}
    /\ LET rows == {row \in tx[x].look : holder[row] \in ClaimsOf(tx[x].tun, tx[x].keys)}
       IN  Becomes(x, [tx[x] EXCEPT !.at = "ready", !.keys = {}, !.look = {},
                                    !.done = @ \cup tx[x].keys, !.freed = @ \cup rows])
    /\ UNCHANGED vars

AllAdded(x) == Drops(tx[x]) \subseteq tx[x].done /\ \A k \in Adds(tx[x]) : tx[x].got[k] # NoRoute

\* CLAIM_PORT_SQL, and the row of routes: a move updates it if it is still there;
\* the others insert one, under the next id after those loaded, which must be free.
Add(x, k, p) ==
    /\ tx[x].at = "ready" /\ Drops(tx[x]) \subseteq tx[x].done
    /\ k \in Adds(tx[x]) /\ tx[x].got[k] = NoRoute
    /\ IF k.kind \in DedicatedKinds
         THEN /\ p \in Ports /\ tx[x].to \in seeded /\ Unlocked(<<tx[x].to, p>>, x)
              /\ holder[<<tx[x].to, p>>] = Free \/ <<tx[x].to, p>> \in tx[x].freed
              /\ <<tx[x].to, p>> \notin Taken(x)
         ELSE p = Shared
    /\ tx[x].kind # "reserve" => Live(tx[x].tun)
    /\ tx[x].kind = "edit" => /\ RoutesOf(tx[x].tun) \subseteq tx[x].seen
                              /\ \A y \in Siblings(x) : tx[y].put \subseteq tx[y].seen
    /\ tx[x].kind = "move" => \A y \in Siblings(x) : k \notin Written(y)
    /\ Becomes(x, [tx[x] EXCEPT
          !.got = [@ EXCEPT ![k] = p],
          !.put = IF tx[x].kind = "move" /\ k \notin RoutesOf(tx[x].tun) THEN @ ELSE @ \cup {k}])
    /\ UNCHANGED vars

\* Rolled back: the pool is empty, an id or a signature is taken, the tunnel is
\* gone, the database fails or breaks a deadlock.
Abort(x) ==
    /\ Open(x)
    /\ Becomes(x, Idle)
    /\ UNCHANGED vars

\* What has been written becomes visible.
Write(x) ==
    /\ holder' = [row \in Rows |->
                    IF row \in Taken(x)
                      THEN Claim(x, CHOOSE k \in RouteKeys : row = <<tx[x].to, tx[x].got[k]>>)
                    ELSE IF row \in tx[x].freed THEN Free ELSE holder[row]]
    /\ routes' = [c \in Claims |->
                    IF c[1] = tx[x].tun /\ c[2] \in tx[x].put THEN tx[x].got[c[2]]
                    ELSE IF c[1] = tx[x].tun /\ c[2] \in Written(x) THEN NoRoute ELSE routes[c]]
    /\ Becomes(x, Idle)

CommitReserve(x) ==
    /\ tx[x].at = "ready" /\ tx[x].kind = "reserve" /\ AllAdded(x)
    /\ ~SigTaken(tx[x].mach, tx[x].req, tx[x].tun)
    /\ Write(x)
    /\ status' = [status EXCEPT ![tx[x].tun] = "awaiting_agent"]
    /\ machine' = [machine EXCEPT ![tx[x].tun] = tx[x].mach]
    /\ node' = [node EXCEPT ![tx[x].tun] = tx[x].to]
    /\ sig' = [sig EXCEPT ![tx[x].tun] = tx[x].req]
    /\ homes' = [homes EXCEPT ![tx[x].tun] = {tx[x].to}]
    /\ UNCHANGED seeded

\* Fault: the index on owner, device and signature is missing.
CommitEditUnchecked(x) ==
    /\ tx[x].at = "ready" /\ tx[x].kind = "edit" /\ AllAdded(x) /\ Live(tx[x].tun)
    /\ Write(x)
    /\ sig' = [sig EXCEPT ![tx[x].tun] = tx[x].req]
    /\ UNCHANGED <<status, machine, node, homes, seeded>>

CommitEdit(x) ==
    /\ tx[x].at = "ready" /\ tx[x].kind = "edit" /\ AllAdded(x) /\ Live(tx[x].tun)
    /\ ~SigTaken(machine[tx[x].tun], tx[x].req, tx[x].tun)
    /\ Write(x)
    /\ sig' = [sig EXCEPT ![tx[x].tun] = tx[x].req]
    /\ UNCHANGED <<status, machine, node, homes, seeded>>

CommitMove(x) ==
    /\ tx[x].at = "ready" /\ tx[x].kind = "move" /\ AllAdded(x) /\ Live(tx[x].tun)
    /\ Write(x)
    /\ node' = [node EXCEPT ![tx[x].tun] = tx[x].to]
    /\ homes' = [homes EXCEPT ![tx[x].tun] = @ \cup {tx[x].to}]
    /\ UNCHANGED <<status, machine, sig, seeded>>

CommitTx(x) == CommitReserve(x) \/ CommitEdit(x) \/ CommitMove(x)

-----------------------------------------------------------------------------
(* The other transactions.                                                 *)

\* One that would write what an open transaction has written waits for it.  A
\* tunnel that routes or rows refer to, uncommitted ones too, is not deleted.
WaitForLocks ==
    \A x \in Txs : Open(x) =>
        /\ \A row \in Locks(x) : holder'[row] = holder[row] /\ row[1] \in seeded'
        /\ \A k \in Written(x) : Claim(x, k) \in Claims => routes'[Claim(x, k)] = routes[Claim(x, k)]
        /\ Live(tx[x].tun) /\ (Taken(x) # {} \/ tx[x].put # {}) =>
              status'[tx[x].tun] \in Statuses

\* It comes between the statements of x if it deletes what x has read.
Disturbs(x) ==
    \/ \E k \in tx[x].seen : routes'[Claim(x, k)] = NoRoute
    \/ tx[x].to \in seeded \ seeded'

Direct(A) ==
    /\ A /\ WaitForLocks
    /\ tx' = [x \in Txs |-> IF Open(x) /\ Disturbs(x) THEN [tx[x] EXCEPT !.alone = FALSE] ELSE tx[x]]

StatusStep(t) ==
    (\E n \in Nodes : TunnelUp(t, n)) \/ TunnelDown(t) \/ StopTunnel(t) \/ StartTunnel(t)

TxStep(x) ==
    \/ \E t \in Tunnels, n \in Nodes :
          \/ \E m \in Machines, req \in Requests \ {{}} : BeginReserve(x, t, m, n, req)
          \/ \E req \in Requests : BeginEdit(x, t, n, req)
          \/ BeginMove(x, t, n)
    \/ \E keys \in SUBSET RouteKeys : StartFree(x, keys)
    \/ EndFree(x)
    \/ \E k \in RouteKeys, p \in Ports \cup {Shared} : Add(x, k, p)
    \/ Abort(x) \/ CommitTx(x)

TxNext ==
    \/ \E x \in Txs : TxStep(x)
    \/ Direct(AdminStep)
    \/ \E t \in Tunnels : Direct(DeleteTunnel(t)) \/ Direct(StatusStep(t))

TxSpec == TxInit /\ [][TxNext]_txvars

-----------------------------------------------------------------------------
(* Properties.                                                             *)

\* "Concurrent reservations never hand out the same port" (queries.rs:13), nor do
\* edits and moves: no row is written by two open transactions.
LocksExclusive ==
    \A x, y \in Txs : x # y => Locks(x) \cap Locks(y) = {}

\* "All in one transaction": one that no other came in between does to the tables
\* what PortPool says it does in one step.
AtomicAlone ==
    [][UNCHANGED vars \/ Next \/ \E x \in Txs : ~tx[x].alone /\ CommitTx(x)]_txvars

\* "The per-user cap on how many service hosts (tunnels) an account may own"
\* (queries.rs:62), which PortPool keeps.
CapHeld == \A m \in Machines : Count(m.owner) <= max_tunnels

\* Only a reservation that is not alone, which another one of its owner overlaps,
\* brings an owner above the cap, whatever else runs.
CapByOverlap ==
    [][\A m \in Machines :
          \/ Count(m.owner)' <= max_tunnels \/ Count(m.owner)' <= Count(m.owner)
          \/ \E x \in Txs : ~tx[x].alone /\ CommitReserve(x)]_vars

Clashing(t, u) ==
    /\ t # u /\ Live(t) /\ Live(u)
    /\ machine[t].device = machine[u].device /\ machine[t].device # None
    /\ \E j \in RoutesOf(t), k \in RoutesOf(u) : Clash(j, k)

\* "Two services on one device must not both claim the same local endpoint"
\* (tunnels.rs:1215): they come to do so only by a reservation or an edit that
\* overlaps another one for a service of the device, and by no move.
EndpointsByOverlap ==
    [][\A t, u \in Tunnels :
          Clashing(t, u)' =>
             \/ Clashing(t, u)
             \/ \E x \in Txs : ~tx[x].apart /\ (CommitReserve(x) \/ CommitEdit(x))]_vars
=============================================================================
