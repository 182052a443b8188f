---------------------------- MODULE SharedRouter ----------------------------
(***************************************************************************)
(* The shared :80 and :443 routers of a core node: serve_http,             *)
(* serve_https and splice_to_route (natforge-node/src/tunnel/shared.rs),   *)
(* while sessions register and tear down their host routes                 *)
(* (tunnel/mod.rs) and the node refreshes its country blocks from the      *)
(* control plane (reporter.rs).                                            *)
(*                                                                         *)
(* A connection's task looks names up in one registry after the other and  *)
(* then in one block list after the other; each look-up takes its own      *)
(* lock, so anything may happen between two of them.  An action is what a  *)
(* task does between two awaits.                                           *)
(*                                                                         *)
(* Sessions of a tunnel overlap, and calls of the stop endpoint run the    *)
(* same teardown, as in NodeSessions.  Their tokens are current and grant  *)
(* the same routes, so an entry belongs to the one tunnel that has the     *)
(* name.  One country stands for each: a list either has it or not.  Names *)
(* are compared as they are once ports, dots and case are gone.  Left out: *)
(* bytes, traffic counters and logs, the first load of a wildcard          *)
(* certificate that was missing at start.                                  *)
(***************************************************************************)
EXTENDS Naturals, Sequences, FiniteSets, Functions

CONSTANTS
    Tunnels,
    Sessions,   \* slots for sessions, used again once teardown is over
    Stops,      \* slots for calls of the stop endpoint
    Of,         \* slot -> its tunnel
    Sub,        \* tunnel -> its subdomain, a label
    Custom,     \* tunnel -> its custom domain, or None
    Orders,     \* tunnel -> the orders of host routes its tokens may have
    Hosts,      \* names that are read: those clients ask for, and parts of them
    Label,      \* name -> leftmost label, whatever domain the name is under
    Dashboard,  \* the apex and its www: the control plane's website
    Conns,
    MaxReads,   \* bound: reads that fill the buffer to its cap
    Toggled,    \* block lists that change
    Kept,       \* block lists that have the country and keep it
    None

Tasks == Sessions \cup Stops
Lists == {"global"} \cup Tunnels
Modes == {"http", "https"}
Registries == {"http", "https", "custom_http", "custom_https"}
Vias == {"http", "passthrough", "wildcard", "acme"}

\* A tunnel's host routes: one or two, since further ones of a mode only insert
\* the same entries again.
RouteLists == {<<m>> : m \in Modes} \cup {<<m, n>> : m \in Modes, n \in Modes}

ASSUME NamesAssumption ==
    /\ \A t, u \in Tunnels : t # u => Sub[t] # Sub[u] /\ (Custom[t] = Custom[u] => Custom[t] = None)
    /\ \A t \in Tunnels : Orders[t] \subseteq RouteLists
    /\ None \notin Tunnels \cup Hosts \cup Vias /\ "global" \notin Tunnels
ASSUME TasksAssumption == Sessions \cap Stops = {} /\ Of \in [Tasks -> Tunnels]
ASSUME ListsAssumption == Toggled \subseteq Lists /\ Kept \subseteq Lists \ Toggled
ASSUME BoundAssumption == MaxReads \in Nat \ {0}

VARIABLES
    modes,     \* tunnel -> its host routes, in the order of its token
    phase,     \* where each session or stop call stands
    step,      \* entries it has inserted or locks its teardown has passed
    entries,   \* what the four registries hold: <<registry, tunnel>>
    mixed,     \* tunnels with a session that began before the last had ended
    wildcard,  \* a wildcard certificate is loaded
    certs,     \* custom domains with a certificate (Certificates)
    blocked,   \* control plane: lists that have the country
    copy,      \* what the refresh has fetched of them
    refresh,   \* where the refresh stands
    node,      \* the node's lists
    pulled,    \* a refresh has succeeded
    conn       \* the connections

sessionVars == <<modes, phase, step, entries, mixed>>
policyVars == <<blocked, copy, refresh, node, pulled>>
vars == <<sessionVars, wildcard, certs, policyVars, conn>>

LookUps == {"custom", "label", "wildcard", "acme"}
Ends == {"closed", "refused", "unknown", "bad", "challenge", "dashboard"}
Places == {"new", "peek", "head", "global", "tunnel", "open", "relay"} \cup LookUps \cup Ends

\* A connection: the port and the name it came to, the tunnel it was given and
\* how, and whether it is known to be from the country and was checked after a
\* refresh.  Two marks for the properties: tunnels that were up and not mixed
\* when its look-ups began and have had no new session since (fresh), nor been
\* lost or stopped (steady).
ConnStates ==
    [at : Places, port : Modes, reads : 0..MaxReads,
     name : Hosts \cup {None}, to : Tunnels \cup {None},
     via : Vias \cup {None}, from : BOOLEAN,
     fresh : SUBSET Tunnels, steady : SUBSET Tunnels]

NewConn == [at |-> "new", port |-> "http", reads |-> 0, name |-> None, to |-> None,
            via |-> None, from |-> FALSE, fresh |-> {}, steady |-> {}]

TypeOK ==
    /\ modes \in [Tunnels -> RouteLists]
    /\ phase \in [Tasks -> {"down", "register", "up", "teardown"}]
    /\ step \in [Tasks -> 0..4]
    /\ entries \subseteq Registries \X Tunnels
    /\ mixed \subseteq Tunnels
    /\ wildcard \in BOOLEAN
    /\ certs \subseteq Hosts
    /\ blocked \subseteq Lists /\ copy \subseteq Lists /\ node \subseteq Lists
    /\ refresh \in {"rest", "half", "fetched", "stored"}
    /\ pulled \in BOOLEAN
    /\ conn \in [Conns -> ConnStates]

\* No session is connected yet, and the first refresh is over: a node whose
\* control plane was away serves with empty lists.
Init ==
    /\ modes \in [Tunnels -> RouteLists] /\ \A t \in Tunnels : modes[t] \in Orders[t]
    /\ phase = [s \in Tasks |-> "down"]
    /\ step = [s \in Tasks |-> 0]
    /\ entries = {} /\ mixed = {}
    /\ wildcard \in BOOLEAN
    /\ certs = {}
    /\ \E S \in SUBSET Toggled : blocked = Kept \cup S
    /\ pulled \in BOOLEAN /\ node = IF pulled THEN blocked ELSE {}
    /\ copy = {} /\ refresh = "rest"
    /\ conn = [c \in Conns |-> NewConn]

-----------------------------------------------------------------------------
(* Sessions.                                                               *)

CustomOf == [http |-> "custom_http", https |-> "custom_https"]

\* Entries in the order they are inserted: for every route the custom domain's
\* and then the subdomain's.
Inserted(t) ==
    LET m == modes[t]
    IN  IF Custom[t] = None THEN m
        ELSE IF Len(m) = 1 THEN <<CustomOf[m[1]], m[1]>>
        ELSE <<CustomOf[m[1]], m[1], CustomOf[m[2]], m[2]>>

\* Fault: https goes first.
RemovedHttpsFirst(t) ==
    IF Custom[t] = None THEN <<"https", "http">>
    ELSE <<"https", "http", "custom_https", "custom_http">>

\* Registries in the order teardown locks them.
Removed(t) ==
    IF Custom[t] = None THEN <<"http", "https">>
    ELSE <<"http", "https", "custom_http", "custom_https">>

Goto(s, where) == phase' = [phase EXCEPT ![s] = where] /\ step' = [step EXCEPT ![s] = 0]

\* Another session or stop call of the tunnel is under way.
Overlaps(s) == \E u \in Tasks \ {s} : Of[u] = Of[s] /\ phase[u] # "down"

\* What connections know of a tunnel no longer holds, or only if it goes on.
NotFresh(t) ==
    conn' = [c \in Conns |-> [conn[c] EXCEPT !.fresh = @ \ {t}, !.steady = @ \ {t}]]
NotSteady(t) == conn' = [c \in Conns |-> [conn[c] EXCEPT !.steady = @ \ {t}]]

\* A token of the tunnel that has the name passes the pre-check, whatever older
\* sessions have left or have yet to remove.
Connect(s) ==
    /\ s \in Sessions /\ phase[s] = "down"
    /\ Goto(s, "register")
    /\ mixed' = IF Overlaps(s) THEN mixed \cup {Of[s]} ELSE mixed
    /\ NotFresh(Of[s])
    /\ UNCHANGED <<modes, entries, wildcard, certs, policyVars>>

Register(s) ==
    /\ phase[s] = "register"
    /\ entries' = entries \cup {<<Inserted(Of[s])[step[s] + 1], Of[s]>>}
    /\ IF step[s] + 1 = Len(Inserted(Of[s]))
       THEN Goto(s, "up")
       ELSE step' = [step EXCEPT ![s] = @ + 1] /\ UNCHANGED phase
    /\ UNCHANGED <<modes, mixed, wildcard, certs, policyVars, conn>>

\* The agent goes.
Lose(s) ==
    /\ phase[s] = "up"
    /\ Goto(s, "teardown")
    /\ NotSteady(Of[s])
    /\ UNCHANGED <<modes, entries, mixed, wildcard, certs, policyVars>>

\* A stop call that finds the tunnel ends the driver of its session and begins a
\* teardown of its own; which of several sessions it finds is left open
\* (NodeSessions).
Stop(o, s) ==
    /\ o \in Stops /\ phase[o] = "down" /\ Of[o] = Of[s]
    /\ phase[s] = "up" \/ (phase[s] = "teardown" /\ step[s] = 0)
    /\ phase' = [phase EXCEPT ![o] = "teardown", ![s] = "teardown"]
    /\ step' = [step EXCEPT ![o] = 0, ![s] = 0]
    /\ NotSteady(Of[s])
    /\ UNCHANGED <<modes, entries, mixed, wildcard, certs, policyVars>>

\* An entry goes if it is this tunnel's, whichever session's it is.
Unregister(s) ==
    /\ phase[s] = "teardown"
    /\ entries' = entries \ {<<Removed(Of[s])[step[s] + 1], Of[s]>>}
    /\ IF step[s] + 1 = Len(Removed(Of[s]))
       THEN Goto(s, "down") /\ mixed' = IF Overlaps(s) THEN mixed ELSE mixed \ {Of[s]}
       ELSE step' = [step EXCEPT ![s] = @ + 1] /\ UNCHANGED <<phase, mixed>>
    /\ UNCHANGED <<modes, wildcard, certs, policyVars, conn>>

CertIssued(d) ==
    /\ d \notin certs /\ \E t \in Tunnels : Custom[t] = d
    /\ certs' = certs \cup {d}
    /\ UNCHANGED <<sessionVars, wildcard, policyVars, conn>>

-----------------------------------------------------------------------------
(* Country blocks: refresh_policy asks the control plane, which runs one   *)
(* query for the global list and another for the tunnels', and the two     *)
(* lists of the node are replaced one after the other.                     *)

\* The admin panel or a tunnel's owner changes a list, in one transaction.
Toggle(l) ==
    /\ l \in Toggled
    /\ blocked' = IF l \in blocked THEN blocked \ {l} ELSE blocked \cup {l}
    /\ UNCHANGED <<sessionVars, wildcard, certs, copy, refresh, node, pulled, conn>>

FetchGlobal ==
    /\ refresh = "rest"
    /\ refresh' = "half"
    /\ copy' = blocked \cap {"global"}
    /\ UNCHANGED <<sessionVars, wildcard, certs, blocked, node, pulled, conn>>

FetchTunnels ==
    /\ refresh = "half"
    /\ refresh' = "fetched"
    /\ copy' = copy \cup (blocked \ {"global"})
    /\ UNCHANGED <<sessionVars, wildcard, certs, blocked, node, pulled, conn>>

\* The control plane is away: the lists stay as they are.
RefreshFails ==
    /\ refresh \in {"half", "fetched"}
    /\ refresh' = "rest" /\ copy' = {}
    /\ UNCHANGED <<sessionVars, wildcard, certs, blocked, node, pulled, conn>>

\* Fault: both lists are emptied before they are filled.
StoreGlobalOnly ==
    /\ refresh = "fetched"
    /\ refresh' = "stored"
    /\ node' = copy \cap {"global"}
    /\ UNCHANGED <<sessionVars, wildcard, certs, blocked, copy, pulled, conn>>

StoreGlobal ==
    /\ refresh = "fetched"
    /\ refresh' = "stored"
    /\ node' = (node \ {"global"}) \cup (copy \cap {"global"})
    /\ UNCHANGED <<sessionVars, wildcard, certs, blocked, copy, pulled, conn>>

StoreTunnels ==
    /\ refresh = "stored"
    /\ refresh' = "rest" /\ copy' = {} /\ pulled' = TRUE
    /\ node' = (node \cap {"global"}) \cup (copy \ {"global"})
    /\ UNCHANGED <<sessionVars, wildcard, certs, blocked, conn>>

-----------------------------------------------------------------------------
(* Connections.                                                            *)

Becomes(c, k) == conn' = [conn EXCEPT ![c] = k]
OnlyConn == UNCHANGED <<sessionVars, wildcard, certs, policyVars>>

\* A listener hands the connection to a task of its own.
Accept(c, port) ==
    /\ conn[c].at = "new"
    /\ Becomes(c, [conn[c] EXCEPT !.at = "peek", !.port = port])
    /\ OnlyConn

\* The name has been read: look-ups begin, except for the control plane's own
\* names on :80.
Named(k, n) ==
    LET up == {t \in Tunnels \ mixed : \E s \in Sessions : Of[s] = t /\ phase[s] = "up"}
    IN  IF n \in Dashboard /\ k.port = "http"
        THEN [k EXCEPT !.at = "dashboard", !.reads = 0]
        ELSE [k EXCEPT !.at = "custom", !.reads = 0, !.name = n,
                       !.fresh = up, !.steady = up]

\* On :80 the Host value as far as it has been read, even if a segment ends
\* within it; on :443 the server name of a whole record.
ReadName(c) ==
    /\ conn[c].at = "peek"
    /\ \E h \in Hosts : Becomes(c, Named(conn[c], h))
    /\ OnlyConn

\* The request line asks for a challenge of the certificate authority, which
\* is answered whatever the host; or there is no name: no Host, no TLS.
ReadOther(c) ==
    /\ conn[c].at = "peek"
    /\ \E end \in {"bad"} \cup (IF conn[c].port = "http" THEN {"challenge"} ELSE {}) :
          Becomes(c, [conn[c] EXCEPT !.at = end, !.reads = 0])
    /\ OnlyConn

\* Fault: the size of the buffer is not looked at.
ReadMoreUncapped(c) ==
    /\ conn[c].at = "peek"
    /\ Becomes(c, [conn[c] EXCEPT !.reads = IF @ < MaxReads THEN @ + 1 ELSE 1])
    /\ OnlyConn

\* Not enough yet: read on, up to the cap.
ReadMore(c) ==
    /\ conn[c].at = "peek"
    /\ LET k == [conn[c] EXCEPT !.reads = @ + 1]
       IN  Becomes(c, IF k.reads < MaxReads THEN k ELSE [k EXCEPT !.at = "bad", !.reads = 0])
    /\ OnlyConn

\* End of stream, an error, or five seconds without a byte.
PeekFails(c) ==
    /\ conn[c].at = "peek"
    /\ Becomes(c, [conn[c] EXCEPT !.at = "closed", !.reads = 0])
    /\ OnlyConn

\* The tunnel a registry gives for a name, the subdomain registries by its
\* leftmost label.
Find(registry, n) ==
    LET found == {t \in Tunnels :
                     /\ <<registry, t>> \in entries
                     /\ IF registry \in Modes THEN Sub[t] = Label[n] ELSE Custom[t] = n}
    IN  IF found = {} THEN None ELSE CHOOSE t \in found : TRUE

\* A route found for the port's own mode.
Routed(k, t) ==
    IF k.port = "http" THEN [k EXCEPT !.at = "head", !.to = t, !.via = "http"]
    ELSE [k EXCEPT !.at = "global", !.to = t, !.via = "passthrough"]

\* Fault: the subdomain is looked up first.
LookUpSubFirst(c) ==
    /\ conn[c].at = "custom"
    /\ LET k == conn[c]
           t == Find(k.port, k.name)
       IN  Becomes(c, IF t # None THEN Routed(k, t) ELSE [k EXCEPT !.at = "label"])
    /\ OnlyConn

LookUpCustom(c) ==
    /\ conn[c].at = "custom"
    /\ LET k == conn[c]
           t == Find(CustomOf[k.port], k.name)
       IN  Becomes(c, IF t # None THEN Routed(k, t) ELSE [k EXCEPT !.at = "label"])
    /\ OnlyConn

LookUpLabel(c) ==
    /\ conn[c].at = "label"
    /\ LET k == conn[c]
           t == Find(k.port, k.name)
       IN  Becomes(c, IF t # None THEN Routed(k, t)
                      ELSE [k EXCEPT !.at = IF k.port = "http" THEN "unknown" ELSE "wildcard"])
    /\ OnlyConn

\* No https route: the wildcard certificate is used if there is one and an http
\* route of the label, else the custom domain's.
LookUpWildcard(c) ==
    /\ conn[c].at = "wildcard"
    /\ LET k == conn[c]
           t == Find("http", k.name)
       IN  Becomes(c, IF wildcard /\ t # None
                      THEN [k EXCEPT !.at = "head", !.to = t, !.via = "wildcard"]
                      ELSE [k EXCEPT !.at = IF k.name \in certs THEN "acme" ELSE "unknown"])
    /\ OnlyConn

LookUpAcme(c) ==
    /\ conn[c].at = "acme"
    /\ LET k == conn[c]
           t == Find("custom_http", k.name)
       IN  Becomes(c, IF t # None THEN [k EXCEPT !.at = "head", !.to = t, !.via = "acme"]
                      ELSE [k EXCEPT !.at = "unknown"])
    /\ OnlyConn

\* The handshake, where the node terminates TLS, and the rest of the head, which
\* may never come: neither has a time limit.
ReadHead(c) ==
    /\ conn[c].at = "head"
    /\ \/ Becomes(c, [conn[c] EXCEPT !.at = "global"])
       \/ conn[c].via # "http" /\ Becomes(c, [conn[c] EXCEPT !.at = "closed"])
    /\ OnlyConn

\* splice_to_route: what is not known to be from the country is let through;
\* for the rest the two lists are read one after the other.
CheckGlobal(c) ==
    /\ conn[c].at = "global"
    /\ LET k == [NewConn EXCEPT !.to = conn[c].to]
       IN  \/ Becomes(c, [k EXCEPT !.at = "open"])
           \/ Becomes(c, [k EXCEPT !.at = IF "global" \in node THEN "refused" ELSE "tunnel",
                                   !.from = pulled])
    /\ OnlyConn

CheckTunnel(c) ==
    /\ conn[c].at = "tunnel"
    /\ Becomes(c, [conn[c] EXCEPT !.at = IF conn[c].to \in node THEN "refused" ELSE "open"])
    /\ OnlyConn

\* A stream from the session's driver, if it is still there (MuxDriver).
Open(c) ==
    /\ conn[c].at = "open"
    /\ \E end \in {"relay", "closed"} : Becomes(c, [conn[c] EXCEPT !.at = end])
    /\ OnlyConn

Finish(c) ==
    /\ conn[c].at = "relay"
    /\ Becomes(c, [conn[c] EXCEPT !.at = "closed"])
    /\ OnlyConn

-----------------------------------------------------------------------------
SessionStep ==
    \/ \E s \in Sessions : Connect(s) \/ Register(s) \/ Lose(s) \/ \E o \in Stops : Stop(o, s)
    \/ \E s \in Tasks : Unregister(s)

PolicyStep ==
    \/ \E l \in Toggled : Toggle(l)
    \/ FetchGlobal \/ FetchTunnels \/ RefreshFails \/ StoreGlobal \/ StoreTunnels

PeekStep(c) == ReadName(c) \/ ReadOther(c) \/ ReadMore(c) \/ PeekFails(c)

RouteStep(c) ==
    \/ LookUpCustom(c) \/ LookUpLabel(c) \/ LookUpWildcard(c) \/ LookUpAcme(c)
    \/ CheckGlobal(c) \/ CheckTunnel(c) \/ Open(c)

ConnStep(c) ==
    \/ \E port \in Modes : Accept(c, port)
    \/ PeekStep(c) \/ RouteStep(c) \/ ReadHead(c) \/ Finish(c)

Next ==
    \/ SessionStep \/ PolicyStep
    \/ \E d \in Hosts : CertIssued(d)
    \/ \E c \in Conns : ConnStep(c)

Spec == Init /\ [][Next]_vars

\* The runtime goes on with every task that waits neither for its client nor
\* for its agent; the five seconds of a peek pass.
Fairness == \A c \in Conns : WF_vars(PeekStep(c)) /\ WF_vars(RouteStep(c))

FairSpec == Spec /\ Fairness

-----------------------------------------------------------------------------
(* Properties.                                                             *)

\* README: "HTTPS SNI passthrough so the node never decrypts your traffic".  A
\* connection whose look-ups began when a tunnel was registered is not decrypted
\* for a route of that tunnel if it has an https route too, even if the tunnel is
\* torn down, by its session and by stop calls at once, between the look-ups.
\* Exempt is a tunnel that a session has joined before all that was under way for
\* it had ended, until all of it has: there the code breaks the promise, since
\* one session's teardown may take the https entry of another and leave http.
NeverDecrypted ==
    \A c \in Conns : conn[c].via \in {"wildcard", "acme"} /\ conn[c].to \in conn[c].fresh =>
        \A i \in DOMAIN modes[conn[c].to] : modes[conn[c].to][i] # "https"

Serves(t, k) ==
    /\ \E i \in DOMAIN modes[t] : modes[t][i] = k.port
    /\ Custom[t] = k.name \/ Sub[t] = Label[k.name]

\* A request whose name, as it was read, a registered tunnel serves on that port
\* reaches it, or the owner of the name as a custom domain, who comes first
\* (shared.rs: "A registered custom hostname wins"), whoever else comes and goes
\* meanwhile.  Tunnels whose sessions overlap are exempt as above (NodeSessions,
\* ServingIsRoutable, has what becomes of them).
ServedAsNamed ==
    \A c \in Conns : \A t \in conn[c].steady :
        Serves(t, conn[c]) =>
            /\ conn[c].at # "unknown" /\ conn[c].via \notin {"wildcard", "acme"}
            /\ conn[c].to \in {None, t} \/ Custom[conn[c].to] = conn[c].name

\* A country that a list keeps is refused as soon as one refresh of the node's
\* lists has succeeded and during every later one, finished or not, failed or not,
\* whatever other lists change.
BlockedRefused ==
    \A c \in Conns : conn[c].from /\ conn[c].at \in {"open", "relay"} =>
        Kept \cap {"global", conn[c].to} = {}

\* A client that sends its head byte by byte, or never, does not keep the task
\* that peeks at it.
PeekEnds == \A c \in Conns : conn[c].at = "peek" ~> conn[c].at # "peek"

\* shared.rs on :443: the wildcard is "for a subdomain http route", a domain's own
\* certificate "for a custom-domain http route".  A custom domain's name is not
\* decrypted for another tunnel while its owner is registered.
CustomWinsTls ==
    \A c \in Conns : \A t \in conn[c].steady :
        conn[c].via = "wildcard" /\ Custom[t] = conn[c].name => conn[c].to = t
=============================================================================
