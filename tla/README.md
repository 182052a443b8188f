# Natforge in TLA+

Specifications of Natforge, the tunnel service in this repository, checked by
TLC and proved with TLAPS: every safety property that a passing run checks is also
a theorem, liveness is left to TLC. Each module is a translation of Rust or SQL
code; the comment at its head names the functions. `PROJECT.json` maps every
definition to its lines, lists the runs, the theorems and the hazards.

Contents: the system, the hard parts, the modules, the runs, fairness, the
proofs, where code and documentation disagree, what is left out, the plan.

## 1. The system

Three programs share the life of a tunnel.

    browser, CLI --HTTP--> backend --HTTP (stop)--> node <==yamux==> agent
                             ^  |                     |                 |
                             |  PostgreSQL, Redis     |                 |
                             +---- tunnel_up/down ----+                 |
                             +---- reserve, device config --------------+

| Component | State it keeps | Operations | What makes it correct |
|---|---|---|---|
| node sessions and registries (`natforge-node/src/tunnel/mod.rs`, `api.rs`, `state.rs`) | six registries, each behind its own lock, the `tunnels` map, bound sockets, tasks | handshake, ownership check, bind, register, report, teardown, stop endpoint | registries never route to a session that is gone; ports are given back; a stop call drains |
| outbound stream driver (`tunnel/mux.rs`) | queue of open requests, the connection | the poll function: inbound, drain, open, decide | no lost wake-up; every request is answered once and in order; no head-of-line blocking |
| udp routes (`udp_listener_loop`, `udp_flow`) | table of flows, a mailbox per flow, a channel of notices | datagram, open, relay, end, notice | the table is bounded and holds no dead entry for ever; flows end |
| tcp routes (`tcp_listener_loop`, `bridge_public_connection`) | a socket, a task per connection | accept, ask for a stream, copy | the requests of the driver's module; sockets closed at teardown |
| reservations and port pool (`natforge-backend/src/db/queries.rs`, `handlers/tunnels.rs`) | tables `tunnels`, `routes`, `port_pool` | reserve, edit, migrate, delete, park, register and delete nodes | no leaked row; one port for one route; ports stable; signatures true |
| tunnel lifecycle (handlers of all three programs) | `tunnels.status`, the agent's task, sessions | stop, start, edit, delete, poll, re-reserve, connect, report, end | a pause holds; what is wanted is served; edits arrive |
| agent supervisor (`natforge-agent/src/service_host.rs`) | a task per service | poll and reconcile; re-reserve and reconnect | as above |
| node registry, failover, sweeps (`main.rs` of backend and node, `queries.rs`) | `nodes`, heartbeats | register, heartbeat, failover, reconcile, expire | moved tunnels keep the pool's invariants |
| shared http and https routers (`tunnel/shared.rs`) | none of their own; they read the registries | peek at the name, look it up by host or SNI, terminate TLS, check the block lists, ask for a stream | a registered host reaches its session; passthrough is not turned into decryption; a blocked country is refused; a slow client does not stay |
| country blocks (`geo.rs`, `state.rs`, `reporter.rs`) | two block lists, replaced one after the other | change, fetch, refresh, look-up | what a list has and keeps is refused at any moment of a refresh |
| reports and mirror (`reporter.rs`, `handlers/internal.rs`) | Redis keys, counters | tunnel_up, tunnel_down, bandwidth, logs, mirror | late reports do no harm |
| certificates (`acme.rs`, `tls.rs`) | issuances in flight, files, cache, challenges | ensure, issue, renew, load | one issuance of a domain; certificate and key belong together |
| device enrolment (`handlers/devices.rs`, `db/connection.rs`, `jwt.rs`; the agent's `device.rs`, `auth.rs`) | device codes in Redis, `devices` | begin, approve, poll, disconnect, delete, touch, sweep | a code is redeemed once and attaches one device; a token that is gone stays gone; the agent gets an answer |
| accounts, administration, metrics, frontend, scripts, DNS | | | single statements, I/O or presentation |

Interactions: handlers call queries inside transactions and then, outside them,
the node's stop endpoint, on a best-effort basis. The node verifies the signed
token an agent carries and asks nobody: the token's routes, ports and subdomain
are what the database held when it was minted, so edits and moves reach the node
only when an agent fetches a new token. The node reports sessions with two calls
that overwrite the status. On the node, tasks share the registries; the driver
and the udp tasks share nothing and exchange messages over bounded channels.

What is hard here:

* Sessions of one tunnel overlap, since an agent reconnects before the node has
  noticed that the old connection is dead, and teardown goes through the
  registries one lock at a time. Two sessions of one tunnel have one tunnel id.
* Handlers read outside the transaction they then write in.
* Reports and stop calls are lost, delayed and overtaken; nodes and agents
  restart without telling anyone.
* A hand-written `poll_fn` must register every waker before it returns Pending.
* A channel that is full makes a flow wait for a listener that itself waits.
* Routers look a name up in up to four registries one lock at a time, while sessions
  insert and remove entries in an order of their own.
* A certificate and its key are two files, each truncated and then written; a task
  of a session and the renewal loop may write the same ones, and the process may die
  between any two calls.
* A device code lives in two keys of Redis that expire on their own, and every
  request reads them call by call while others approve or consume the code.

`PROJECT.json` has these one by one under `hazards`, each at its line.

## 2. The modules

A component `X` is the module `X`; `MCX` gives small instances of its constants
and `X_<run>.cfg` a run; `X_proofs` has the theorems. Definitions whose comment
begins with "Fault:" are not part of a specification: each is the definition that
follows with one mistake in it, and stands beside it to show which property
would notice (see `mutants` in `PROJECT.json`).

### NodeSessions

`handle_agent`, `teardown` and the stop endpoint. A session or a stop call is an
actor with a program counter; an action is what its task does between two awaits
or under one lock. `registry` is the six maps in one function: a key such as
`<<"tcp", 1>>` names map and entry, the value is the session whose handle is in
it. `tunnels` is the map of `ActiveTunnel`s, `sockets` the ports that the kernel
has bound, `aborted` the sessions whose listener tasks were told to stop;
`CloseSocket` is the moment the runtime drops such a task.

    read the hello frame, verify the token    Hello
    free_or_ours under the read locks         PreCheck
    bind loop, one port                       Bind, Refuse
    reply and spawn the driver                Acknowledge
    register loop, one entry                  RegisterCustom, RegisterRoute
    tunnels.insert                            InsertTunnel
    tunnel_up and mirror                      Report
    driver returns; driver.await              DriverEnds, AwaitDriver
    teardown, its first lock; the other six   RemoveTunnel, RemoveRoutes
    POST /internal/tunnels/{sub}/stop         StopLookup, then teardown

Tokens are data: `Claims` is the set in circulation, stale ones included, and
`Init` gives each session one of them.

### PortPool

`tunnels`, `routes` and `port_pool`, one action per transaction; a transaction
that fails is rolled back and is no step. What a handler has read before its
transaction may be stale: `homes[t]` is the set of nodes the tunnel has been on,
and `SetServiceRoutes` and `TunnelUp` may use any of them. A claim takes any free
row, as SKIP LOCKED does. Each action that deletes also does what the foreign
keys do (routes cascade, pool rows are set free).

    reserve_tunnel, new tunnel                Reserve
    set_service_routes                        SetServiceRoutes
    migrate_tunnel, failover_stale_nodes      Migrate
    delete_tunnel, _user, _device             DeleteTunnel, DeleteUser, DeleteDevice
    reconcile_abandoned                       Reconcile
    expire_idle_service_hosts                 ExpireIdle
    set_tunnel_online, _offline               TunnelUp, TunnelDown
    stop_tunnel_keep, start_tunnel_keep       StopTunnel, StartTunnel
    register_node, delete_node                RegisterNode, DeleteNode

### PoolTransactions

Reservation, edit and move, which load rows before they write them, statement by
statement, as PostgreSQL runs them at READ COMMITTED. PortPool's tables are the
committed ones; `tx[x]` is what connection `x` has read and written since it began.
What it wrote is locked until its end (`Locks`, `Written`) and visible from its commit
on. An UPDATE takes the rows that match when it starts, waits for those that others
lock and skips those that match no more, so it takes two steps (`StartFree`,
`EndFree`); a claim takes a row that nobody holds or locks. The other transactions stay
single steps, which wait for locks (`Direct`, `WaitForLocks`).

`alone` marks a transaction that no other came in between: none on its tunnel, no
other reservation of its account, none that deleted what it had read. With the mark,
"All in one transaction" can be stated: such a one does to the tables what PortPool
says (`AtomicAlone`). `apart` is the like mark for what the handler reads before the
transaction: a reservation or an edit is apart while no other one is under way for a
service of its device. That check is taken together with the first statement, so an
overlap counts from the check on.

    check of endpoints, begin, load_routes    BeginReserve, BeginEdit, BeginMove
    UPDATE port_pool, DELETE FROM routes      StartFree, EndFree
    CLAIM_PORT_SQL, INSERT or UPDATE routes   Add
    write tunnels, commit                     CommitReserve, CommitEdit, CommitMove
    any error                                 Abort

The row of `tunnels` is written with the commit, where the unique index is checked; in
the code that statement comes earlier in a reservation and waits for the others, and
nobody can tell. A third transaction on one tunnel does not overlap two others: routes
are known by kind and local port in place of their ids, which is exact for two.

### TunnelLifecycle

One tunnel in all three programs: its row (status and a version number for its
routes), the dashboard's calls in two or three steps each, the agent's loop, and
sessions on the node. `loop` says which loop the agent runs: `run_device`, which
polls, or `run`, which re-reserves; `Loops` are those that a run admits. It
composes the others from above: the start
and the teardown of a session are those of NodeSessions taken together, ports are
left to PortPool. A report that was sent before the node died may arrive after it has
come back (`late`). `MaxFaults` bounds lost calls, broken links, refused connections
and restarts; the order is open.

    signal_node_stop then stop_tunnel_keep    Stop, Pause
    start_tunnel                              Start
    set_service_routes, status read, signal   Edit, ReadStatus, SignalEdit
    delete_tunnel                             Delete, Remove
    fetch_config or reserve                   Fetch, KeepReservation
    reconcile the task with the answer        Apply
    connect, hello, tunnels.insert            Accept, Refuse, Register
    tunnel_up, teardown, tunnel_down          ReportUp, End, ReportDown
    the node restarts, reports under way      NodeRestart (`late`)

### OpenService and MuxDriver

`OpenService` is what a session promises the tasks that ask it for streams: those
accepted are answered once, in the order of their acceptance, and none is kept
when the session ends. `MuxDriver` is `run_client_driver` at the level of its
poll function, with the events of other threads between any two of its steps, and
wakers: `wakes` is where the task's waker is registered, `woken` whether the
runtime will poll it again. It implements `OpenService` with the driver's queue
followed by the channel as the line and "not yet returned" as serving. yamux is
external: a connection opens at most `Backlog` streams that the agent has not
acknowledged.

### UdpFlows

The listener of a udp route with its table and one task per flow. The table's
entry is a sender of the flow's mailbox; a flow that ends sends its peer's address
over a channel with room for `Notices`, and the listener removes whatever entry
that peer has. While the listener waits for a stream (`opening`) it does nothing
else. A stream that is asked for is answered: that is `Answered` of MuxDriver.

### DeviceTickets and DeviceEnrol

`DeviceTickets` is what enrolment promises: a code is a ticket that is issued,
redeemed and spent, each at most once, and is attached to at most one device; a
device that loses its bearer does not get the same one back. `DeviceEnrol` is the
protocol: the two keys of a code (`hash`, with the approval, and `index`), the rows
of `devices`, approvals and polls that take one step per call of Redis or
PostgreSQL and may be abandoned between any two, the agent that shows the code,
and requests made with a token. Two kinds of code share the keys, those of
`natforge enroll` and those of the sign-in (`flow`). A poll stands for the token it
produces: a row's token is the poll whose nonce it holds.

    enroll_start, device_start                Start
    expiry of the two keys                    ExpireHash, ExpireIndex
    the agent's loop; a request sent twice    SendPoll, Duplicate, LoseReply
    enroll_approve, device_approve            ApproveNew, ApproveOwned, ApproveSignIn
    exists, hset, roll back of the device     Exists, Write, Undo
    devcode_status                            Status
    devcode_consume: get, del, del            GetIndex, DelIndex, DropHash
    set_device_token                          Store
    a call fails, a client goes               AbandonApproval, AbandonPoll
    disconnect_device, delete_device          Disconnect, DeleteDevice
    DeviceAuth, touch_device_online           Authenticate, Touch
    mark_stale_devices_offline                MarkStale

It implements `DeviceTickets`: a ticket is issued while the index is there, redeemed
while a poll is between the deletion of the index and its last step, and spent
from then on; a device's bearer is the code of the token in its row.

### Certificates

`acme.rs`, on a core node. A runner is whoever may be issuing: a task that
`ensure_cert` spawned, or the renewal loop, which takes its domains one after the
other and does not look at the set of issuances in flight. A certificate is the
number of its issuance, and so is a key, so that a pair fits if the numbers are
equal; `Torn` is a file that was truncated and not written. `split` remembers the
domains that had one file rewritten without the other: by a crash, by a failure, or
by two runners at once. The authority, the network and the file system fail at any
call. `MaxMade`, `MaxLost` and `MaxFaults` bound issuances, leaked tokens and faults.

    ensure_cert and the lock of `issuing`     EnsureCert, Lock, Unlock
    renew_due                                 RenewDue, RenewNext, RenewalRests,
                                              RenewalGoesOn
    issue_certificate                         Order, Publish, SetReady, SetReadyFails,
                                              Issued, OrderFails, DropToken
    issue_and_store                           CreateCert, WriteCert, CreateKey, WriteKey,
                                              InsertPair, WriteFails
    sixty days pass                           Ages
    the process dies; load_existing           Restart

### SharedRouter

`shared.rs` with the block lists of `state.rs` and `reporter.rs`. A connection's task
looks a name up in one registry after the other and reads the two lists one after the
other. Sessions of a tunnel overlap and stop calls tear down beside them, each a task
that goes through the registries on its own; an entry is known by its tunnel, since a
teardown removes by tunnel id whatever session's entry it finds. Tokens are current:
stale and renamed ones, and who holds which handle, are in NodeSessions, whose
`StopLookup` also says which of several sessions a stop call finds. One country stands
for all: a list has it or not. `mixed` remembers the tunnels that a session has joined
while another task of theirs was under way, until all have ended. Each connection
carries two marks for the properties, the tunnels that were up and not mixed when its
look-ups began and that have since not registered anew (`fresh`) or, besides, not been
lost or stopped (`steady`). The block lists exist three times: at the control plane, on
their way, and on the node, which begins with empty lists if its first pull fails
(`main.rs:86`); `pulled` remembers that one has succeeded.

    register loop, stop_tunnel, teardown      Connect, Register, Lose, Stop, Unregister
    a domain gets its certificate             CertIssued
    a list is changed                         Toggle
    internal policy handler, refresh_policy   FetchGlobal, FetchTunnels, RefreshFails,
                                              StoreGlobal, StoreTunnels
    run_http, run_https                       Accept
    the peek (parse_host, parse_sni)          ReadName, ReadOther, ReadMore, PeekFails
    serve_http, serve_https                   LookUpCustom, LookUpLabel,
                                              LookUpWildcard, LookUpAcme, ReadHead
    splice_to_route                           CheckGlobal, CheckTunnel, Open, Finish

## 3. The runs

Passing runs:

| Run | Instance | What it shows |
|---|---|---|
| `node_sessions_all` | 2 sessions, 1 stop call; stale and renamed tokens of 2 tunnels of one subdomain with http, https, tcp, udp and a custom host, or tokens that share a tcp port per subdomain, one of the sessions always with the first of a set; tasks fair | `NoDanglingRoute`, `StopDrains`; the bound port is the lock that the registries lack: `ListenersFreed`, `PortsFreed` |
| `port_pool_tx` | 2 tunnels of 2 owners, 2 nodes with 2 ports, one of them deleted and registered again, routes http, tcp and both, moves | `ExclusivePorts`, `PortsKept`, `NoLeakedPort`, `SigMatchesRoutes`, `BackedUntilRemoved` |
| `pool_statements_all` | 2 connections, 2 tunnels of one device, a cap of 1, 2 nodes with 1 port, one of them deleted and registered again, a tcp and a both route of one local port | `ExclusivePorts`, `LocksExclusive`, `AtomicAlone`, `CapByOverlap`, `EndpointsByOverlap` under any interleaving of statements |
| `tunnel_lifecycle_any` | an agent with either loop, 2 session slots, 1 dashboard call at a time, 1 edit, 3 faults | `OneConnection`, `PauseHolds`, `PausedDrops`, `Resumes` |
| `mux_driver_poll` | 4 requests, channel of 1, backlog of 1 | `NoLostWakeup`, `ImplementsOpenService`, `SendersProceed`, `Answered` |
| `udp_flows_table` | 2 sources, 3 flows, table of 1, mailboxes and notices of 1 | `NoDeadEntry`, `TableBounded`, `EndedForgotten`, `FlowsEnd` |
| `device_enrol_codes` | 1 code of either kind, 2 polls of it at a time, 1 approval at a time by either of 2 users, 2 devices | `ImplementsTickets`, with `SingleUse`, the reason for it; `OwnersMatch`, `EnrolEnds`, `OnlineEnds` |
| `certificates_acme` | 1 domain, 2 tasks and the renewal loop, 3 issuances, 1 lost order, 2 faults | `OneEnsured`, `ChallengesOfOrders`, `PairsFit`, `Durable`, `EnsureEnds` |
| `shared_router_route` | 1 connection, 2 tunnels, one with a custom domain whose leftmost label is the other's subdomain, 2 sessions and 1 stop call of the one and 1 session of the other, 4 names, one list that changes and one that keeps the country, a first pull that failed, 3 reads | `NeverDecrypted`, `ServedAsNamed`, `BlockedRefused`, `PeekEnds` |

The type invariants are proved (section 5) and not checked again. Runs that end in a counterexample are described in section 6.

Deadlock is not checked: every one of these systems may come to rest (all sessions
have returned, all tunnels deleted, the driver done), which is not an error.

Why the bounds are enough. The errors that threaten NodeSessions need an old
session, its successor and somebody who tears one of them down; two tunnels are
needed for a host that changes hands, two ports for a bind that fails after one
that did not, and every route kind occurs. In PortPool a leak or a double use
needs a route that leaves a row and another that takes it, two nodes for a move,
and a pool so small that it runs out (2 ports). In PoolTransactions one port per node
makes every claim a conflict; the two routes clash on a device, so that two services with
either of them compete for an endpoint, and a move claims for tcp and not for both; two
connections are what the hazards are about, and with a cap of one tunnel two
reservations at once already exceed it. http routes, which claim nothing and clash with
nothing but their like, are in the run of PortPool and in the proofs. `MCNext` leaves out the steps that write a status only, which touch no row of the pool or of
routes and wait for no lock, and which the proofs include. In TunnelLifecycle two slots let a
dying session overlap its successor, and three faults are enough for a broken
link, a lost report and a restart in one behaviour. In MuxDriver four requests
fill every place there is: one with a stream, one in the queue, one in the
channel, one whose sender waits. In UdpFlows three flows allow one to hold the
table's entry while one waits for room for its notice and a third one's notice
fills it. In DeviceEnrol two polls at a time let a retry overtake the first one, slots
are used again, so that approvals by both users follow each other at any stage of
a poll, and two devices let a code be approved for a second one. Codes do not
share state but for the rows, and tokens of one code overwrite each other through
the same row as tokens of two would. Users differ by name only, and `MCNext` calls u1
the one who has the first device. In Certificates two tasks are enough for the
set in flight, a task and the renewal loop for two writers of one domain, and two
faults for a crash after a failure; domains share nothing but the renewal loop's
turn. In SharedRouter two tunnels are enough for a clash of names; connections share
nothing that they write, so one is enough. Two sessions of a tunnel and a stop call are
three tasks at its entries, a session up or beginning while two others remove. `MCNext`
lets the sessions move only while the connection has look-ups before it, and between
look-ups only those whose entries its name may find; the lists move only while it is
about to read them; elsewhere their steps commute with those of the connection. `MCInit`
leaves out what can make no difference to it: which certificates there are, and what
the other tunnel registers, for a tunnel that has an https route as well. The lists
begin empty, and the first refresh that succeeds gives the state of a first pull that
did. The proofs are about the specification without these restrictions. The safety
properties that are proved (section 5) do not depend on any
bound.

## 4. Fairness

* NodeSessions: every task that can go on does, since tokio schedules all
  runnable tasks. Nobody is obliged to connect, to leave or to stop a tunnel.
  `Report` is fair as well, which assumes that the control plane answers: the
  HTTP client of the node has no timeout, and a call that hangs keeps the
  teardown waiting.
* TunnelLifecycle: the agent's loop goes round, calls that were begun go on, a
  dead link is noticed (keepalive) and sessions go through their stages. No
  button is pressed by fairness and no fault is required; there are at most
  `MaxFaults` of them.
* MuxDriver: the runtime polls a task that was woken, and a sender with room
  sends. That the agent acknowledges streams is not fairness but an assumption
  written into `Answered`; `SendersProceed` holds without it.
* DeviceEnrol: Redis drops keys whose time is up, an agent that waits polls, a
  poll that the server has is answered (failing is one of the answers), a request
  that was let in touches its device, and the sweep comes round for a device that
  stays silent. Nobody is obliged to approve, disconnect or delete anything, and
  requests made with a token are not obliged to be made.
* Certificates: the runtime goes on with a spawned task and with the renewal loop,
  whose ticks keep coming, and each call of the authority ends, well or not.
  Nobody is obliged to register and no fault is required.
* SharedRouter: the five seconds of a peek pass, look-ups and checks go on. Clients
  and agents owe nothing: `ReadHead`, the handshake and the rest of the head, which
  have no time limit, and the end of a relay are not fair, nor is any step of the
  sessions or the lists.
* UdpFlows: strong fairness of `Forget`, because `select!` takes a ready branch at
  random, and of `Notify`, because a bounded channel serves waiting senders in
  turn; a request for a stream is answered, and a relay whose sender is gone ends.

## 5. The proofs

All with TLAPS, for any values of the constants that satisfy the named
assumptions of the modules.

* NodeSessions: `TypeCorrect`, and `NoDangling`: no registry holds the handle of
  a session that has returned. That alone is not inductive: a session in
  teardown may be in a registry still. `RouteInv` says where: an entry's owner
  is before its teardown, or the lock that covers the entry is not behind it.
  It needs to know that the entries a session registers are among those its own
  teardown covers (`RouteKeyCovered`, `CustomKeyCovered`, `Covered`), and that
  `step` is 0 until teardown begins. One step per action; only registration and
  removal disturb it. `Drains` (`StopDrains`) needs `DrainInv`: what the session that
  a stop call found still has in a registry is covered by a lock that the call has
  yet to take. `Freed` (`ListenersFreed`) needs `HoldInv`, who holds which port at
  which stage, and `LockInv`: while the tokens of a subdomain share a tcp port, at
  most one session of it is between its bind and the closing of its sockets
  (`LockExcludes`), so none can replace an ActiveTunnel whose tasks still run.
* PortPool: `TypeCorrect`; `NoPortLeaks`, by `LeakInv`, which adds that a tunnel
  that is not live has no routes. `Exclusive`: two routes of settled tunnels of one
  node never share a port, whatever is done to others. A tunnel is settled while it
  has only ever been on one node, and that node is not one that may be deleted;
  without it the statement is false (section 6). Its invariant says that a live
  tunnel is on a node it has been on (`Homed`) and that a settled tunnel's dedicated
  port is a row of its own node, held by its route (`OwnRow`). `SigTrue`
  (`SigMatchesRoutes`) follows the stored signature through each transaction.
  `PortsKeptAlways` and `BackedAlways` are action properties; the second needs that
  a transaction leaves a route with its row unless it frees both (`TxHolds`). The
  transactions that claim ports share lemmas on what they write (`Assigns`,
  `Commit`), so each is one instance.
* `CapKept` (`CapHeld`) is about PortPool: a reservation counts and inserts in one step,
  and no other step adds a tunnel to an account (`CapStep`). Statement by statement it is
  false (section 6).
* PoolTransactions: `LocksHeld` (`LocksExclusive`) is inductive only as part of `Locked`:
  what a transaction has claimed is free in the committed table or was freed by itself,
  what it has freed is still held there by a route whose rows it was to free, and it
  claims no port twice. So nobody else may claim or free these rows before its end.
  `TxExclusive` carries `ExclusivePorts` over to the finer grain, where no transaction
  needs to be alone. It takes `SettledInv`, the invariant of PortPool, which every
  commit keeps though it may be no step of PortPool, and `Owned`: a reservation's id is
  nobody else's, and an edit claims on a node that its tunnel has been on, so that on a
  settled tunnel it claims on the tunnel's own. `Atomic` (`AtomicAlone`) takes `Lone`:
  while a transaction is alone the routes of its tunnel are those it loaded, no row that
  it means to free escapes its UPDATE, no route that it writes is missing, its account
  has room and its target is there. Its commit is then `Reserve`, `SetServiceRoutes` or
  `Migrate` with the claimed ports as the injection; every other statement leaves the
  tables alone. `AloneImplements` follows: where all are alone throughout,
  PoolTransactions implements PortPool. So does `CapOverlaps` (`CapByOverlap`): a step
  that is one of PortPool keeps the cap by `CapStep`, and of the commits that are not
  alone only a reservation's adds a tunnel.
* `EndpointsOverlap` (`EndpointsByOverlap`): of all steps only a reservation or an edit
  that is not apart brings two services of a device to one local endpoint. Its invariant,
  `Placed`, is about the records of the open transactions. What a reservation or an edit
  that is apart found still holds (`EndpointsHeld`): the endpoints it asks for are free on
  its device, no other one is under way there, and its tunnel has gained no routes. For
  that, a move must add no routes, though it writes rows that it loaded earlier: it
  updates those that are there, and an edit cannot have deleted one of them, since each
  waits for the rows of the other (`MovePuts`). And the device that an edit's endpoints
  were checked for is that of its tunnel as long as the tunnel is there (`EditMachine`).
  Every step but the commit of a reservation or an edit leaves each tunnel with at most
  the routes it had (`Shrinks`). TLC found `Placed` true of the run's instance before it
  was proved.
* TunnelLifecycle: `TypeCorrect`; `PausedHolds`, the action property: no step
  leaves `AtRest` except a start or a deletion. `AtRest` is chosen so that it is
  preserved by each step on its own: no answer that offers the tunnel, no session
  between its connection and its report. `OneConnectionAlways` (`OneConnection`), by
  `Known`: the only connection that lives is that of the task the agent knows of, so
  that forgetting a task has to end its connection.
* MuxDriver: `TypeCorrect`; `NoneLost`, by `WakeInv`, which relates what the waker
  is registered with to how far the poll has come; `Implements`: every step of
  the driver is a step of OpenService or leaves its variables alone. That uses
  `AskInv`: what is in the queue or the channel is unanswered, and no request is
  in two places.
* UdpFlows: `TypeCorrect`; `NoneDead`, by `EntryInv`: an entry's flow is one of its
  peer, or has returned with a notice still in the channel. `Bounded`, by `RoomInv`:
  the table is finite and a place is kept free while a flow is being opened.
* DeviceEnrol: `TypeCorrect`; `OneWinner`, by `SingleUse`: a poll that has won has
  taken the index away, there is one such poll of a code, and a code that was not
  started has neither polls nor an index. It is inductive with `TypeOK`. Most
  steps make no winner and no index (`Steady`), and the two that do have lemmas of
  their own (`StartSingle`, `WinSingle`). `Implements`: every step is a step of
  DeviceTickets or changes neither tickets nor bearers; a step is sorted by whether
  it leaves agents, index and winners alone but for one code (`Quiet`) and whether
  it leaves the tokens in the rows alone (`KeepsTokens`). `Owners` (`OwnersMatch`), by
  `OwnInv`: a user and a device that stand together in a request, a key or a poll
  belong together; it rests on a row's owner being written once.
* Certificates: `TypeCorrect`; `EnsuredOnce`, inductive with the types;
  `ChallengesKnown`, by `TokenInv`: a published token is that of the runner's present
  order or of one it lost; `PairsKept` and `DurableAlways`, by `FileInv`, which says
  for each domain that is not split what the two files hold at each stage of the one
  runner that may be writing them.
* SharedRouter: `TypeCorrect`. `EntryInv` is about the entries of a tunnel, in two
  parts. With any overlap, an entry is there only while some task of the tunnel can have
  left it (`HeldOf`). Outside `mixed`, each task knows what it has inserted or removed
  (`StepOf`), and a session that registers or is up is alone; while the tunnel is calm, that is
  up or being torn down by any number of tasks and not mixed, an http entry is there
  only with its https one (`HttpFirst`). The last is where the order of the removals
  counts: every teardown takes http before https. `PassthroughKept` and `Served` rest on
  `ConnInv`: what a look-up that found nothing has learnt of each marked tunnel, that is,
  which entries are gone for as long as the mark lasts. Neither holds of a mixed tunnel
  (section 6), so a connection marks none. `BlockedAlways`, by `BlockInv`: once a refresh
  has succeeded, a list that keeps the country is on the node and in every copy that a
  refresh may store.

Only model-checked: liveness, that is `PortsFreed`, `PausedDrops`, `Resumes`,
`SendersProceed`, `Answered`, `EndedForgotten`, `FlowsEnd`, `EnrolEnds`, `OnlineEnds`,
`EnsureEnds` and `PeekEnds`. It is beyond the prover, as is ENABLED; induction over data
and RECURSIVE operators would be too, and none is used.

## 6. Where the code and its documentation disagree

Three runs end in a counterexample that is kept:

* `node_sessions_resilient` (`ServingIsRoutable`). An http tunnel's agent
  reconnects; the new session registers its routes; the old one's teardown
  removes them, since both have one tunnel id. The agent stays connected and the
  tunnel answers nothing until it reconnects. A tcp route mostly hides this: its port is
  bound until the old session's first lock of teardown aborts the listeners, so a new
  session that comes earlier is refused and retries.
* `tunnel_lifecycle_pause` (`StoppedStays`). `tunnel_up` of a session that began
  before Stop writes "online" over "stopped".
* `shared_router_custom` (`CustomWinsTls`). On :443 the leftmost label of any name is
  tried against the subdomains with the wildcard (`shared.rs:407`) before the custom
  domains that have a certificate: TLS for `a.own`, somebody's custom domain, is
  terminated with the apex's wildcard and relayed to the tunnel `a`. Comments
  (`shared.rs:394`, `404`) and `docs/hosting.md:164` give the wildcard to subdomains
  and a certificate of its own to each custom domain; on :80 the custom domain wins.

Others of the same kind were found while modelling. They have no run of their
own; each can be had by stating the property in question. The first three break
properties that PortPool has and that PoolTransactions has only while transactions are
alone: TLC finds each within seconds on the instance of `pool_statements_all`.

* `migrate_tunnel` (`queries.rs:363`) locks neither the routes it loads nor the tunnel. If
  the idle sweep parks the tunnel, an edit drops a route or another move commits before
  its next statement, it claims ports for routes that are gone, its UPDATE of routes
  matches no row, and the port is leaked (`NoLeakedPort`) until the tunnel is moved,
  parked or deleted, although the move is "All in one transaction" (`queries.rs:351`).
* `set_service_routes` (`queries.rs:520`) compares with routes loaded without a lock: a
  tunnel that is parked meanwhile gets the signature of routes it no longer has
  (`SigMatchesRoutes`), and a reservation of that set then finds it and has fewer routes
  than it asked for.
* `reserve_tunnel` (`queries.rs:822`) counts the account's tunnels and inserts one with
  nothing locked in between: two reservations at once exceed the cap (`CapHeld`), and
  nothing else does (`CapByOverlap`).
* `request_tunnel` and `set_service_routes` (`handlers/tunnels.rs:305`, `1222`) read the
  endpoints of the device's other services before the transaction that stores the new
  ones: two requests at once give one local endpoint to two services, which the check
  is there to prevent (`queries.rs:690`). `EndpointsByOverlap` says that nothing else does.
* `migrate_tunnel` (`queries.rs:377`) frees all rows of a tunnel and claims again for tcp
  and udp only: a both route keeps a number that the pool considers free.
  `BackedUntilRemoved` is therefore about tcp and udp routes.
* An edit made while a session starts is not signalled to the node, which does not
  know the session yet, and a live session is left alone by the agent's loop, so the
  edit waits for the next reconnect.
* Two tokens of different tunnels for one host: both sessions pass the ownership
  check (`mod.rs:149`) before either registers, and the second takes the host over.
* A renamed tunnel's teardown removes, by subdomain alone (`mod.rs:479`), the
  ActiveTunnel of the tunnel that has the name now.
* If a tcp route is dropped or added by an edit, a session replaces the ActiveTunnel
  of an overlapping one without sharing a port with it, and a listener stays bound
  (`mod.rs:398`). `ListenersFreed` shows that sharing a port prevents this.
* An edit that read its node before a migration (`handlers/tunnels.rs:1201`)
  claims a port of the former node; two routes of the new node may then share one.
* A node that is deleted and registers again offers ports that its tunnels kept
  (`queries.rs:1831`).
* A late `tunnel_down` leaves a served tunnel offline (`queries.rs:1188`).
* The command line agent, which finds its tunnel by route signature
  (`queries.rs:779`), serves a paused tunnel again and does not find an edited one.
* The notice of an ended udp flow names the source only (`mod.rs:668`): read after
  the source has a new flow, it removes the new flow's entry.
* An approval that finds a code and writes it after it has expired, or was consumed,
  makes the hash anew (`connection.rs:153`, `connection.rs:176`), without an expiry;
  the approval reports success, though the code is said to be refused when it does
  not exist ("expired or never issued"). No poll can be answered from it
  (`EnrolEnds`, `ImplementsTickets`), but the key stays in Redis, and a device that
  was made for the code stays in the dashboard.
* A code of `natforge enroll` that is also entered on the sign-in page gets the user
  of one approval and the device of the other: the token's `sub` is then not the
  device's owner. `OwnersMatch` is stated for `Misfiled = FALSE`, where this does not
  happen; DeviceAuth takes the owner from the row, so the token acts for the owner.
* A request that was let in before its device was disconnected marks the device
  online afterwards (`handlers/tunnels.rs:493`), until the sweep (`OnlineEnds`).
* A poll whose device was deleted after the approval is told "approved" and given a
  token that is never accepted (`devices.rs:201`).
* A counter of the rate limit whose EXPIRE fails after its first INCR
  (`connection.rs:108`) never goes away.
* The routers take the leftmost label of any host for a subdomain, whatever domain it
  is under, and a Host value that a segment boundary cuts is looked up as far as it
  was read (`shared.rs:151`, `281`).
* TLS to a registered tunnel is decrypted with the wildcard although the tunnel has an
  https route, against `README.md:32` ("HTTPS SNI passthrough so the node never decrypts
  your traffic") and `docs/hosting.md:155`. Session A of a tunnel with http and https is
  being torn down and has removed its http entry (`mod.rs:487`). The agent reconnects:
  the pre-check lets session B in, since the entries left are of its own tunnel id
  (`mod.rs:151`), and B inserts http and https. A goes on and removes the https entry,
  which is B's now (`mod.rs:499`). B is up with its http entry alone, and `serve_https`
  finds no https route and terminates TLS for the http one (`shared.rs:397-412`), for
  every connection until the agent reconnects. A stop call's teardown does the same as
  A's. It is the cause of `node_sessions_resilient` with a consequence of its own. If
  `Named` marks tunnels in `mixed` too, provided that no session of theirs is
  registering, TLC finds `NeverDecrypted` violated on the instance of
  `shared_router_route` within seconds, by this behaviour, and `ServedAsNamed` likewise;
  without the proviso it finds a shorter one, where B registers during the look-ups.
  Both properties, and the theorems `PassthroughKept` and
  `Served`, therefore exempt `mixed` tunnels by their wording.
* A connection that came while a tunnel with an http and an https route registers,
  http first, finds the http entry and no https one, and is decrypted with the
  wildcard. `NeverDecrypted` is therefore also only about tunnels that were up when the
  look-ups began.
* A node whose first policy pull fails goes on without it (`main.rs:86`) and serves
  countries that a list blocks until a refresh succeeds. `BlockedRefused` is about
  connections that were checked after that.
* The handshake with a client and the rest of a request's head have no time limit
  (`shared.rs:217`, `423`), unlike the peek.
* A country that is moved from the global list to a tunnel's is let through by a
  refresh that has stored the one and not yet the other (`BlockedRefused` is about
  lists that keep it).
* If telling the authority that a challenge is ready fails (`acme.rs:152`), the
  function returns past the removal of the token (`acme.rs:179`), which stays in the
  map (`ChallengesOfOrders` counts such tokens).
* A certificate and a key of two issuances, left by a crash between two writes
  (`acme.rs:332`), are loaded at the next start (`acme.rs:292`), which does not compare
  them, and then kept, since the domain has a certificate (`PairsFit`).

## 7. What is left out

Bytes: framing, the routing preamble, relaying, datagrams' contents. Time: a
sweep may find anything silent or idle at any moment, a link dead at any moment.
In NodeSessions the SRV records and the calls of the control plane (they are in
TunnelLifecycle). In PortPool route ids, names and the checks that can only refuse a
request; in PoolTransactions the overlap of three transactions of one tunnel, and what a
user sees of an error. Its other transactions are single steps there too, although two
of them read before they write: `reconcile_abandoned` (`queries.rs:1524`) and
`expire_idle_service_hosts` (`queries.rs:1559`) first select the tunnels and then run
two or three statements on them. An edit that claims a port and commits between the
sweep's UPDATE of `port_pool` and its DELETE of routes is therefore not covered; from
the statements, its new route would go and the row in the pool would stay with the
tunnel. Nothing here says that the sweeps are safe against it. In TunnelLifecycle more
than one tunnel. In UdpFlows country blocks. In DeviceEnrol
names, bans, the rate limit, the age of tokens and the deletion of accounts. In
Certificates retries and their timing, accounts of the authority, file permissions
and writes that a machine loses after they returned. In SharedRouter bytes and
headers, traffic counters and logs, the reload of the GeoIP database and the first
load of a wildcard that was missing at start. The
components that are not modelled at all are listed in `PROJECT.json` with the
reason: DNS records, the TLS set-up, accounts, the frontend and the scripts are
I/O, presentation or single statements without state of their own.

## 8. Plan

In this order; the most important behaviour first.

1. `Failover`: heartbeats, staleness, the choice of the target, the sweep over a
   list read before, agents that reconnect to the node of an old token. Composes
   PortPool. Liveness: a tunnel of a node that stays down is moved if there is
   room.
2. `DeviceServices`: `run_device` with several services, whose tasks are aborted
   and replaced one by one, under a token that DeviceEnrol may revoke.
   TunnelLifecycle is its projection to one service.
3. `IdleTimer`: bandwidth reports whose totals restart with a session, the
   activity mark and the idle sweep.
4. `Preamble`: route ids as 16-bit numbers that grow, the offset of a both
   route's udp half, the replay of what a router has read. Checked against a
   reference definition over bounded inputs.
