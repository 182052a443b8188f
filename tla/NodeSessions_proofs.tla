------------------------- MODULE NodeSessions_proofs -------------------------
(***************************************************************************)
(* For any number of sessions and stop calls, any tokens and any order of  *)
(* their steps: the registries never route to a session that has returned, *)
(* a stop call drains, and listeners do not outlive their session where a  *)
(* tcp port works as a lock.                                               *)
(***************************************************************************)
EXTENDS NodeSessions, TLAPS

-----------------------------------------------------------------------------
(* Tokens and the entries they name.                                       *)

\* The loops of handle_agent read a route the token grants.
LEMMA RouteType ==
    ASSUME TypeOK, NEW s \in Sessions, HasRoute(s)
    PROVE  Route(s) \in RouteClaim
  <1>1. claims[s] \in TunnelClaims
    BY ClaimsAssumption DEF TypeOK
  <1>2. claims[s].routes \in Seq(RouteClaim) /\ at[s] \in 1..Len(claims[s].routes)
    BY <1>1 DEF TypeOK, TunnelClaims, HasRoute
  <1>. QED  BY <1>2 DEF Route

\* An entry that a route of the token is registered under is covered by one
\* of teardown's locks: 1 and 2 host names, 3 and 4 ports.
LEMMA RouteKeyCovered ==
    ASSUME TypeOK, NEW s \in Sessions, HasRoute(s)
    PROVE  /\ RouteKey(claims[s], Route(s)) \in Keys
           /\ Route(s).mode \in PortModes => RouteKey(claims[s], Route(s)) \in PortKeys
           /\ \E n \in 1..6 : RouteKey(claims[s], Route(s)) \in TeardownKeys(claims[s])[n]
  <1> DEFINE c == claims[s]
             r == Route(s)
             k == RouteKey(c, r)
  <1>1. /\ c \in TunnelClaims
        /\ at[s] \in 1..Len(c.routes)
    BY ClaimsAssumption DEF TypeOK, HasRoute, TunnelClaims
  <1>2. r \in RouteClaim /\ r = c.routes[at[s]]
    BY RouteType DEF Route
  <1>3. CASE r.mode \in HostModes
    <2>1. k = <<r.mode, c.sub>> /\ c.sub \in Subdomains
      BY <1>1, <1>3 DEF RouteKey, TunnelClaims
    <2>2. k \in Keys
      BY <2>1, <1>3 DEF Keys, HostKeys
    <2>3. k \in TeardownKeys(c)[1] \/ k \in TeardownKeys(c)[2]
      BY <2>1, <1>3 DEF TeardownKeys, HostModes
    <2>4. r.mode \notin PortModes
      BY <1>3 DEF HostModes, PortModes
    <2>. QED  BY <2>2, <2>3, <2>4
  <1>4. CASE r.mode \in PortModes
    <2>1. k = <<r.mode, r.port>> /\ r.port \in Ports
      BY <1>2, <1>4 DEF RouteKey, RouteClaim, HostModes, PortModes
    <2>2. k \in Keys /\ k \in PortKeys
      BY <2>1, <1>4 DEF Keys, PortKeys
    <2>3. k \in PortKeysOf(c, r.mode)
      BY <1>1, <1>2, <2>1 DEF PortKeysOf
    <2>4. k \in TeardownKeys(c)[3] \/ k \in TeardownKeys(c)[4]
      BY <2>3, <1>4 DEF TeardownKeys, PortModes
    <2>. QED  BY <2>2, <2>4
  <1>. QED  BY <1>2, <1>3, <1>4 DEF RouteClaim

\* The same for the custom host name of an http or https route, locks 5 and 6.
LEMMA CustomKeyCovered ==
    ASSUME TypeOK, NEW s \in Sessions, NEW m \in HostModes, claims[s].custom # None
    PROVE  /\ CustomKey(claims[s], m) \in Keys
           /\ \E n \in 1..6 : CustomKey(claims[s], m) \in TeardownKeys(claims[s])[n]
  <1> DEFINE k == CustomKey(claims[s], m)
  <1>1. claims[s].custom \in Domains
    BY ClaimsAssumption DEF TypeOK, TunnelClaims
  <1>2. k \in Keys
    BY <1>1 DEF CustomKey, CustomKind, HostModes, Keys, CustomKeys
  <1>3. k \in TeardownKeys(claims[s])[5] \/ k \in TeardownKeys(claims[s])[6]
    BY <1>2 DEF TeardownKeys, HostModes
  <1>. QED  BY <1>2, <1>3

-----------------------------------------------------------------------------
(* Types.                                                                  *)

\* A stop call that tears down has copied the ActiveTunnel of a session.
StopHasTarget == \A o \in Stops : pc[o] = "teardown" => target[o] \in Sessions

TypeInv == TypeOK /\ StopHasTarget

\* Both callers of teardown work on the claims of a session.
LEMMA SubjectType ==
    ASSUME TypeInv, NEW a \in Actors, pc[a] = "teardown"
    PROVE  /\ Subject(a) \in Sessions
           /\ claims[Subject(a)] \in TunnelClaims
           /\ claims[Subject(a)].sub \in Subdomains
  <1>1. Subject(a) \in Sessions
    BY DEF TypeInv, StopHasTarget, Actors, Subject
  <1>. QED  BY <1>1, ClaimsAssumption DEF TypeInv, TypeOK, TunnelClaims

\* The token of a session names a subdomain.
LEMMA SubType ==
    ASSUME TypeInv, NEW s \in Sessions
    PROVE  claims[s].sub \in Subdomains
  BY ClaimsAssumption DEF TypeInv, TypeOK, TunnelClaims

\* Every step of a task, of a stop call or of the runtime keeps the types.
LEMMA TypeStep == TypeInv /\ [Next]_vars => TypeInv'
  <1> SUFFICES ASSUME TypeInv, [Next]_vars PROVE TypeInv'
    OBVIOUS
  <1> USE NoneAssumption DEF SessionStates, Goto, Actors
  <1>1. ASSUME NEW s \in Sessions, SessionStep(s) PROVE TypeInv'
    <2> USE DEF TypeInv, StopHasTarget
    <2>1. CASE Hello(s)
      BY <2>1 DEF TypeOK, Hello
    <2>2. CASE PreCheck(s)
      BY <2>2 DEF TypeOK, PreCheck
    <2>3. CASE Bind(s)
      BY <2>3, RouteKeyCovered DEF TypeOK, Bind
    <2>4. CASE Refuse(s)
      BY <2>4 DEF TypeOK, Refuse, DropSockets
    <2>5. CASE Acknowledge(s)
      BY <2>5 DEF TypeOK, Acknowledge, DropSockets
    <2>6. CASE RegisterCustom(s)
      <3>1. Route(s).mode \in HostModes /\ claims[s].custom # None
        BY <2>6 DEF RegisterCustom
      <3>. QED  BY <2>6, <3>1, CustomKeyCovered DEF TypeOK, RegisterCustom
    <2>7. CASE RegisterRoute(s)
      BY <2>7, RouteKeyCovered DEF TypeOK, RegisterRoute
    <2>8. CASE InsertTunnel(s)
      BY <2>8, SubType DEF TypeOK, InsertTunnel
    <2>9. CASE Report(s)
      BY <2>9 DEF TypeOK, Report
    <2>10. CASE AwaitDriver(s)
      BY <2>10 DEF TypeOK, AwaitDriver
    <2>. QED  BY <1>1, <2>1, <2>2, <2>3, <2>4, <2>5, <2>6, <2>7, <2>8, <2>9, <2>10
              DEF SessionStep
  <1>2. ASSUME NEW s \in Sessions, DriverEnds(s) PROVE TypeInv'
    BY <1>2 DEF TypeInv, StopHasTarget, TypeOK, DriverEnds, taskVars
  <1>3. ASSUME NEW a \in Actors, RemoveTunnel(a) PROVE TypeInv'
    <2>1. pc[a] = "teardown" /\ claims[Subject(a)].sub \in Subdomains
      BY <1>3, SubjectType DEF RemoveTunnel
    <2>2. tunnels[claims[Subject(a)].sub] \in Sessions \cup {None}
      BY <2>1 DEF TypeInv, TypeOK
    <2>. QED  BY <1>3, <2>1, <2>2 DEF TypeInv, StopHasTarget, TypeOK, RemoveTunnel
  <1>4. ASSUME NEW a \in Actors, RemoveRoutes(a) PROVE TypeInv'
    <2>1. registry' \in [Keys -> Sessions \cup {None}]
      BY <1>4 DEF TypeInv, TypeOK, RemoveRoutes
    <2>2. step' \in [Actors -> 0..6] /\ pc' \in [Actors -> SessionStates]
      BY <1>4 DEF TypeInv, TypeOK, RemoveRoutes
    <2>. QED  BY <1>4, <2>1, <2>2 DEF TypeInv, StopHasTarget, TypeOK, RemoveRoutes
  <1>5. ASSUME NEW o \in Stops, NEW d \in Subdomains, StopLookup(o, d) PROVE TypeInv'
    <2>1. tunnels[d] \in Sessions \cup {None}
      BY DEF TypeInv, TypeOK
    <2>. QED  BY <1>5, <2>1 DEF TypeInv, StopHasTarget, TypeOK, StopLookup
  <1>6. ASSUME NEW k \in PortKeys, CloseSocket(k) PROVE TypeInv'
    BY <1>6 DEF TypeInv, StopHasTarget, TypeOK, CloseSocket, taskVars
  <1>7. CASE UNCHANGED vars
    BY <1>7 DEF TypeInv, StopHasTarget, TypeOK, vars
  <1>. QED  BY <1>1, <1>2, <1>3, <1>4, <1>5, <1>6, <1>7 DEF Next, Teardown

\* Hence the types always hold, at most six teardown locks included.
LEMMA TypeInvariant == Spec => []TypeInv
  <1>1. Init => TypeInv
    BY DEF Init, TypeInv, StopHasTarget, TypeOK, SessionStates, Actors
  <1>. QED  BY <1>1, TypeStep, PTL DEF Spec

\* Every variable keeps its type, for any set of sessions, stops and tokens.
THEOREM TypeCorrect == Spec => []TypeOK
  <1>1. TypeInv => TypeOK
    BY DEF TypeInv
  <1>. QED  BY <1>1, TypeInvariant, PTL

-----------------------------------------------------------------------------
(* No dangling route.                                                      *)

\* Nobody has taken a lock of teardown before entering it.
StepInv == \A a \in Actors : pc[a] \notin {"teardown", "done"} => step[a] = 0

\* Every entry is one that its owner's teardown covers.
Covered ==
    \A k \in Keys : registry[k] # None =>
        \E n \in 1..6 : k \in TeardownKeys(claims[registry[k]])[n]

IInv == TypeInv /\ StepInv /\ Covered /\ RouteInv

\* A step of handle_agent before teardown keeps the invariant: only the
\* registration steps touch a registry, and they enter covered keys.
LEMMA SessionStepIInv ==
    ASSUME IInv, TypeInv', NEW s \in Sessions, SessionStep(s)
    PROVE  IInv'
  <1> USE NoneAssumption DEF IInv, StepInv, Covered, RouteInv, Goto, Actors
  <1>0. TypeOK
    BY DEF TypeInv
  <1>1. CASE Hello(s)
    BY <1>0, <1>1 DEF TypeOK, Hello
  <1>2. CASE PreCheck(s)
    BY <1>0, <1>2 DEF TypeOK, PreCheck
  <1>3. CASE Bind(s)
    BY <1>0, <1>3 DEF TypeOK, Bind
  <1>4. CASE Refuse(s)
    BY <1>0, <1>4 DEF TypeOK, Refuse
  <1>5. CASE Acknowledge(s)
    BY <1>0, <1>5 DEF TypeOK, Acknowledge
  <1>6. CASE RegisterCustom(s)
    <2> DEFINE k == CustomKey(claims[s], Route(s).mode)
    <2>1. k \in Keys /\ \E n \in 1..6 : k \in TeardownKeys(claims[s])[n]
      BY <1>0, <1>6, CustomKeyCovered DEF RegisterCustom
    <2>2. registry' = [registry EXCEPT ![k] = s] /\ pc[s] = "register"
          /\ UNCHANGED <<pc, claims, step>>
      BY <1>6 DEF RegisterCustom
    <2> HIDE DEF k
    <2>. QED  BY <1>0, <2>1, <2>2 DEF TypeOK
  <1>7. CASE RegisterRoute(s)
    <2> DEFINE k == RouteKey(claims[s], Route(s))
    <2>1. k \in Keys /\ \E n \in 1..6 : k \in TeardownKeys(claims[s])[n]
      BY <1>0, <1>7, RouteKeyCovered DEF RegisterRoute
    <2>2. registry' = [registry EXCEPT ![k] = s] /\ pc[s] = "register"
          /\ UNCHANGED <<pc, claims, step>>
      BY <1>7 DEF RegisterRoute
    <2> HIDE DEF k
    <2>. QED  BY <1>0, <2>1, <2>2 DEF TypeOK
  <1>8. CASE InsertTunnel(s)
    BY <1>0, <1>8 DEF TypeOK, InsertTunnel
  <1>9. CASE Report(s)
    BY <1>0, <1>9 DEF TypeOK, Report
  <1>10. CASE AwaitDriver(s)
    BY <1>0, <1>10 DEF TypeOK, AwaitDriver
  <1>. QED  BY <1>1, <1>2, <1>3, <1>4, <1>5, <1>6, <1>7, <1>8, <1>9, <1>10
            DEF SessionStep

\* One lock of a teardown: an entry that survives it is not covered by that
\* lock, or belongs to a session of another tunnel than the actor's.
LEMMA RemoveRoutesIInv ==
    ASSUME IInv, TypeInv', NEW a \in Actors, RemoveRoutes(a)
    PROVE  IInv'
  <1> USE NoneAssumption DEF IInv, Actors
  <1> DEFINE c == claims[Subject(a)]
  <1>0. TypeOK /\ claims' = claims /\ pc[a] = "teardown" /\ step[a] \in 1..6
    BY DEF TypeInv, RemoveRoutes
  <1>1. \A k \in Keys : registry'[k] # None =>
           registry'[k] = registry[k] /\ ~(k \in TeardownKeys(c)[step[a]] /\ Owned(k, c.tid))
    BY DEF RemoveRoutes
  <1>2. Covered'
    BY <1>0, <1>1 DEF Covered
  <1>3. /\ \A b \in Actors : b # a => pc'[b] = pc[b] /\ step'[b] = step[b]
        /\ step[a] < 6 => pc'[a] = pc[a] /\ step'[a] = step[a] + 1
        /\ step[a] = 6 => pc'[a] = "done"
    BY <1>0 DEF RemoveRoutes, Goto, TypeOK
  <1>4. StepInv'
    BY <1>0, <1>3 DEF StepInv
  <1>5. ASSUME NEW k \in Keys, registry'[k] # None
        PROVE  LET s == registry'[k]
               IN  \/ pc'[s] \in {"register", "report", "serve"}
                   \/ pc'[s] = "teardown" /\ \E n \in 1..6 :
                        n >= step'[s] /\ k \in TeardownKeys(claims'[s])[n]
    <2> DEFINE s == registry[k]
    <2>1. registry'[k] = s /\ s \in Sessions
      BY <1>0, <1>1, <1>5 DEF TypeOK
    <2>2. CASE s # a
      BY <1>0, <1>1, <1>3, <1>5, <2>1, <2>2 DEF RouteInv
    <2>3. CASE s = a
      <3>1. c = claims[s] /\ Owned(k, c.tid)
        BY <1>1, <1>5, <2>1, <2>3 DEF Subject, Owned
      <3>2. k \notin TeardownKeys(claims[s])[step[a]]
        BY <1>1, <1>5, <3>1
      <3>3. PICK n \in 1..6 : n >= step[a] /\ k \in TeardownKeys(claims[s])[n]
        BY <1>0, <1>1, <1>5, <2>1, <2>3 DEF RouteInv
      <3>4. n > step[a]
        BY <1>0, <3>2, <3>3
      <3>. QED  BY <1>0, <1>3, <2>1, <2>3, <3>3, <3>4
    <2>. QED  BY <2>2, <2>3
  <1>. QED  BY <1>2, <1>4, <1>5 DEF RouteInv

\* Every step keeps the inductive invariant; a step of handle_agent and a lock
\* of teardown are the two that can disturb it.
LEMMA IInvStep == IInv /\ [Next]_vars => IInv'
  <1> SUFFICES ASSUME IInv, [Next]_vars PROVE IInv'
    OBVIOUS
  <1>0. TypeOK /\ TypeInv'
    BY TypeStep DEF IInv, TypeInv
  <1>1. ASSUME NEW s \in Sessions, SessionStep(s) PROVE IInv'
    BY <1>0, <1>1, SessionStepIInv
  <1>2. ASSUME NEW s \in Sessions, DriverEnds(s) PROVE IInv'
    BY <1>0, <1>2 DEF IInv, StepInv, Covered, RouteInv, DriverEnds, taskVars
  <1>3. ASSUME NEW a \in Actors, RemoveTunnel(a) PROVE IInv'
    <2>1. \A s \in Sessions : pc[s] = "teardown" => step'[s] \in {step[s], 1}
      BY <1>0, <1>3 DEF RemoveTunnel, TypeOK, Actors
    <2>. QED  BY <1>0, <1>3, <2>1, NoneAssumption
              DEF IInv, StepInv, Covered, RouteInv, RemoveTunnel, TypeOK, Actors
  <1>4. ASSUME NEW a \in Actors, RemoveRoutes(a) PROVE IInv'
    BY <1>0, <1>4, RemoveRoutesIInv
  <1>5. ASSUME NEW o \in Stops, NEW d \in Subdomains, StopLookup(o, d) PROVE IInv'
    BY <1>0, <1>5, NoneAssumption
    DEF IInv, StepInv, Covered, RouteInv, StopLookup, TypeOK, Actors, Goto
  <1>6. ASSUME NEW k \in PortKeys, CloseSocket(k) PROVE IInv'
    BY <1>0, <1>6 DEF IInv, StepInv, Covered, RouteInv, CloseSocket, taskVars
  <1>7. CASE UNCHANGED vars
    BY <1>0, <1>7 DEF IInv, StepInv, Covered, RouteInv, vars
  <1>. QED  BY <1>1, <1>2, <1>3, <1>4, <1>5, <1>6, <1>7 DEF Next, Teardown

\* Hence every registry entry always has an owner that will still remove it.
LEMMA IInvariant == Spec => []IInv
  <1>1. TypeInv /\ Init => IInv
    BY DEF Init, IInv, StepInv, Covered, RouteInv, Actors
  <1>. QED  BY <1>1, TypeInvariant, IInvStep, PTL DEF Spec

\* No registry ever routes to a session that was refused or has returned.
THEOREM NoDangling == Spec => []NoDanglingRoute
  <1>1. IInv => NoDanglingRoute
    BY DEF IInv, RouteInv, NoDanglingRoute
  <1>. QED  BY <1>1, IInvariant, PTL

-----------------------------------------------------------------------------
(* A stop call drains.                                                     *)

Registered == {"report", "serve", "teardown", "done"}

\* Only sessions that have registered have an ActiveTunnel, and they have a driver.
TunnelInv ==
    /\ \A s \in Sessions : pc[s] \in Registered \cup {"register"} => driver[s] # "none"
    /\ \A d \in Subdomains : tunnels[d] # None => pc[tunnels[d]] \in Registered

\* The session a stop call found registers nothing any more, and what it has in
\* the registries is covered by a lock that the call has still to take.
DrainInv ==
    \A o \in Stops : target[o] # None =>
        /\ pc[target[o]] \in Registered /\ pc[o] \in {"teardown", "done"}
        /\ driver[target[o]] = "ended" /\ target[o] \in aborted
        /\ \A k \in Keys : registry[k] = target[o] =>
              pc[o] = "teardown" /\ \E n \in 1..6 :
                  n >= step[o] /\ k \in TeardownKeys(claims[target[o]])[n]

StopInv == TunnelInv /\ DrainInv

\* A step of handle_agent: entries that are added are those of a session that no
\* stop call has found.
LEMMA SessionStepStop ==
    ASSUME IInv, StopInv, NEW s \in Sessions, SessionStep(s)
    PROVE  StopInv'
  <1> USE NoneAssumption DEF StopInv, TunnelInv, DrainInv, Registered, Goto, Actors
  <1>0. TypeOK
    BY DEF IInv, TypeInv
  <1>1. CASE Hello(s)
    BY <1>0, <1>1 DEF TypeOK, Hello
  <1>2. CASE PreCheck(s)
    BY <1>0, <1>2 DEF TypeOK, PreCheck
  <1>3. CASE Bind(s)
    BY <1>0, <1>3 DEF TypeOK, Bind
  <1>4. CASE Refuse(s)
    BY <1>0, <1>4 DEF TypeOK, Refuse
  <1>5. CASE Acknowledge(s)
    BY <1>0, <1>5 DEF TypeOK, Acknowledge
  <1>6. CASE RegisterCustom(s)
    <2>1. \A k \in Keys : registry'[k] \in {registry[k], s}
      BY <1>0, <1>6 DEF TypeOK, RegisterCustom
    <2>2. pc[s] = "register" /\ UNCHANGED <<pc, claims, driver, tunnels, aborted, target, step>>
      BY <1>6 DEF RegisterCustom
    <2>. QED  BY <1>0, <2>1, <2>2 DEF TypeOK
  <1>7. CASE RegisterRoute(s)
    <2>1. \A k \in Keys : registry'[k] \in {registry[k], s}
      BY <1>0, <1>7 DEF TypeOK, RegisterRoute
    <2>2. pc[s] = "register" /\ UNCHANGED <<pc, claims, driver, tunnels, aborted, target, step>>
      BY <1>7 DEF RegisterRoute
    <2>. QED  BY <1>0, <2>1, <2>2 DEF TypeOK
  <1>8. CASE InsertTunnel(s)
    BY <1>0, <1>8 DEF TypeOK, InsertTunnel
  <1>9. CASE Report(s)
    BY <1>0, <1>9 DEF TypeOK, Report
  <1>10. CASE AwaitDriver(s)
    BY <1>0, <1>10 DEF TypeOK, AwaitDriver
  <1>. QED  BY <1>1, <1>2, <1>3, <1>4, <1>5, <1>6, <1>7, <1>8, <1>9, <1>10
            DEF SessionStep

\* A lock of a teardown: it takes nothing that is not covered, and a stop call's
\* takes what its target has under it.
LEMMA RemoveRoutesStop ==
    ASSUME IInv, StopInv, NEW a \in Actors, RemoveRoutes(a)
    PROVE  StopInv'
  <1> USE NoneAssumption DEF Actors
  <1> DEFINE c == claims[Subject(a)]
  <1>0. /\ TypeOK /\ TypeInv /\ pc[a] = "teardown" /\ step[a] \in 1..6
        /\ UNCHANGED <<claims, driver, tunnels, aborted, target>>
    BY DEF IInv, TypeInv, RemoveRoutes
  <1>1. \A k \in Keys : registry'[k] # None =>
           registry'[k] = registry[k] /\ ~(k \in TeardownKeys(c)[step[a]] /\ Owned(k, c.tid))
    BY DEF RemoveRoutes
  <1>2. /\ \A b \in Actors : b # a => pc'[b] = pc[b] /\ step'[b] = step[b]
        /\ step[a] < 6 => pc'[a] = pc[a] /\ step'[a] = step[a] + 1
        /\ step[a] = 6 => pc'[a] = "done"
    BY <1>0 DEF RemoveRoutes, Goto, TypeOK
  <1>3. \A b \in Actors : pc'[b] \in {pc[b], "done"} /\ (pc'[b] # pc[b] => pc[b] = "teardown")
    BY <1>0, <1>2 DEF TypeOK
  <1>4. TunnelInv'
    BY <1>0, <1>3 DEF StopInv, TunnelInv, TypeOK, Registered
  <1>5. ASSUME NEW o \in Stops, target[o] # None
        PROVE  /\ pc'[target[o]] \in Registered /\ pc'[o] \in {"teardown", "done"}
               /\ driver[target[o]] = "ended" /\ target[o] \in aborted
    BY <1>0, <1>3, <1>5 DEF StopInv, DrainInv, TypeOK, Registered
  <1>6. ASSUME NEW o \in Stops, target[o] # None, NEW k \in Keys, registry'[k] = target[o]
        PROVE  pc'[o] = "teardown" /\ \E n \in 1..6 :
                  n >= step'[o] /\ k \in TeardownKeys(claims[target[o]])[n]
    <2>1. target[o] \in Sessions /\ registry[k] = target[o]
      BY <1>0, <1>1, <1>6 DEF TypeOK
    <2>2. PICK n \in 1..6 : n >= step[o] /\ k \in TeardownKeys(claims[target[o]])[n]
      BY <1>6, <2>1 DEF StopInv, DrainInv
    <2>3. pc[o] = "teardown"
      BY <1>6, <2>1 DEF StopInv, DrainInv
    <2>4. CASE o # a
      BY <1>2, <2>2, <2>3, <2>4
    <2>5. CASE o = a
      <3>1. c = claims[target[o]] /\ Owned(k, c.tid)
        BY <1>6, <2>1, <2>5 DEF Subject, Owned
      <3>2. k \notin TeardownKeys(c)[step[a]]
        BY <1>1, <1>6, <3>1
      <3>3. n > step[a]
        BY <1>0, <2>2, <2>5, <3>1, <3>2
      <3>. QED  BY <1>0, <1>2, <2>2, <2>3, <2>5, <3>3
    <2>. QED  BY <2>4, <2>5
  <1>7. DrainInv'
    BY <1>0, <1>5, <1>6 DEF DrainInv
  <1>. QED  BY <1>4, <1>7 DEF StopInv

LEMMA StopInvStep == IInv /\ StopInv /\ [Next]_vars => StopInv'
  <1> SUFFICES ASSUME IInv, StopInv, [Next]_vars PROVE StopInv'
    OBVIOUS
  <1> USE NoneAssumption
  <1>0. TypeOK /\ TypeInv
    BY DEF IInv, TypeInv
  <1>1. ASSUME NEW s \in Sessions, SessionStep(s) PROVE StopInv'
    BY <1>1, SessionStepStop
  <1>2. ASSUME NEW s \in Sessions, DriverEnds(s) PROVE StopInv'
    BY <1>0, <1>2 DEF StopInv, TunnelInv, DrainInv, DriverEnds, taskVars, TypeOK
  <1>3. ASSUME NEW a \in Actors, RemoveTunnel(a) PROVE StopInv'
    <2>1. claims[Subject(a)].sub \in Subdomains
      BY <1>0, <1>3, SubjectType DEF RemoveTunnel
    <2>2. \A b \in Actors : step'[b] = step[b] \/ (step[b] = 0 /\ step'[b] = 1)
      BY <1>0, <1>3 DEF RemoveTunnel, TypeOK
    <2>3. \A d \in Subdomains : tunnels'[d] \in {tunnels[d], None}
      BY <1>0, <1>3, <2>1 DEF RemoveTunnel, TypeOK
    <2>4. aborted \subseteq aborted' /\ UNCHANGED <<pc, claims, driver, registry, target>>
      BY <1>3 DEF RemoveTunnel
    <2>5. TunnelInv'
      BY <2>3, <2>4 DEF StopInv, TunnelInv
    <2>6. DrainInv'
      BY <2>2, <2>4 DEF StopInv, DrainInv, Actors
    <2>. QED  BY <2>5, <2>6 DEF StopInv
  <1>4. ASSUME NEW a \in Actors, RemoveRoutes(a) PROVE StopInv'
    BY <1>4, RemoveRoutesStop
  <1>5. ASSUME NEW o \in Stops, NEW d \in Subdomains, StopLookup(o, d) PROVE StopInv'
    <2>1. \A b \in Actors : b # o => pc'[b] = pc[b]
      BY <1>0, <1>5 DEF StopLookup, Goto, TypeOK
    <2>2. \A s \in Sessions : pc'[s] = pc[s] /\ driver'[s] \in {driver[s], "ended"}
      BY <1>0, <1>5, <2>1 DEF StopLookup, TypeOK, Actors
    <2>3. TunnelInv'
      BY <1>0, <1>5, <2>2 DEF StopInv, TunnelInv, StopLookup, TypeOK
    <2>4. pc[o] = "hello" /\ target[o] = None
      BY <1>0, <1>5 DEF StopLookup, StopInv, DrainInv
    <2>5. ASSUME NEW p \in Stops, p # o PROVE target'[p] = target[p] /\ pc'[p] = pc[p]
      BY <1>0, <1>5, <2>1, <2>5 DEF StopLookup, TypeOK, Actors
    <2>6. aborted \subseteq aborted' /\ UNCHANGED <<claims, registry, step>>
      BY <1>5 DEF StopLookup
    <2>7. ASSUME tunnels[d] # None
          PROVE  /\ target'[o] = tunnels[d] /\ pc'[o] = "teardown"
                 /\ driver'[tunnels[d]] = "ended" /\ tunnels[d] \in aborted'
                 /\ pc'[tunnels[d]] \in Registered
                 /\ \A k \in Keys : registry[k] = tunnels[d] => \E n \in 1..6 :
                       n >= step[o] /\ k \in TeardownKeys(claims[tunnels[d]])[n]
      <3>1. tunnels[d] \in Sessions /\ pc[tunnels[d]] \in Registered
        BY <1>0, <2>7 DEF StopInv, TunnelInv, TypeOK
      <3>2. step[o] = 0
        BY <2>4 DEF IInv, StepInv, Actors
      <3>3. \A k \in Keys : registry[k] = tunnels[d] => \E n \in 1..6 :
               n >= step[o] /\ k \in TeardownKeys(claims[tunnels[d]])[n]
        BY <2>7, <3>2 DEF IInv, Covered
      <3>4. /\ target'[o] = tunnels[d] /\ pc'[o] = "teardown"
            /\ driver'[tunnels[d]] = "ended" /\ tunnels[d] \in aborted'
        BY <1>0, <1>5, <2>7, <3>1 DEF StopLookup, Goto, TypeOK, Actors
      <3>. QED  BY <2>2, <3>1, <3>3, <3>4
    <2>8. target'[o] \in {None, tunnels[d]}
      BY <1>0, <1>5, <2>4 DEF StopLookup, TypeOK
    <2>9. ASSUME NEW p \in Stops, target'[p] # None
          PROVE  /\ pc'[target'[p]] \in Registered /\ pc'[p] \in {"teardown", "done"}
                 /\ driver'[target'[p]] = "ended" /\ target'[p] \in aborted'
                 /\ \A k \in Keys : registry'[k] = target'[p] =>
                       pc'[p] = "teardown" /\ \E n \in 1..6 :
                           n >= step'[p] /\ k \in TeardownKeys(claims'[target'[p]])[n]
      <3>1. CASE p = o
        <4>1. tunnels[d] # None /\ target'[o] = tunnels[d]
          BY <2>8, <2>9, <3>1
        <4>. QED  BY <2>6, <2>7, <3>1, <4>1
      <3>2. CASE p # o
        <4>1. target'[p] = target[p] /\ pc'[p] = pc[p] /\ target[p] \in Sessions
          BY <1>0, <2>5, <2>9, <3>2 DEF TypeOK
        <4>. QED  BY <2>2, <2>6, <2>9, <4>1 DEF StopInv, DrainInv
      <3>. QED  BY <3>1, <3>2
    <2>10. DrainInv'
      BY <2>9 DEF DrainInv
    <2>. QED  BY <2>3, <2>10 DEF StopInv
  <1>6. ASSUME NEW k \in PortKeys, CloseSocket(k) PROVE StopInv'
    BY <1>6 DEF StopInv, TunnelInv, DrainInv, CloseSocket, taskVars
  <1>7. CASE UNCHANGED vars
    BY <1>7 DEF StopInv, TunnelInv, DrainInv, vars
  <1>. QED  BY <1>1, <1>2, <1>3, <1>4, <1>5, <1>6, <1>7 DEF Next, Teardown

\* Once a stop call that found a session has answered, the session is out of the
\* registries and stays out, wherever its own task is.
THEOREM Drains == Spec => []StopDrains
  <1>1. Init => StopInv
    BY DEF Init, StopInv, TunnelInv, DrainInv, Registered, Actors
  <1>2. IInv /\ StopInv => StopDrains
    BY DEF StopInv, DrainInv, StopDrains, IInv, TypeInv, TypeOK
  <1>. QED  BY <1>1, <1>2, StopInvStep, IInvariant, PTL DEF Spec

-----------------------------------------------------------------------------
(* A bound port as a lock.                                                 *)

TcpRoutes(s) == {i \in 1..Len(claims[s].routes) : claims[s].routes[i].mode = "tcp"}
TcpKey(s, i) == <<"tcp", claims[s].routes[i].port>>

\* Who holds ports, and which: the bind loop those it has passed, and a session
\* that is past it all of them until its listeners are aborted.
HoldInv ==
    /\ \A k \in PortKeys : sockets[k] # None =>
          pc[sockets[k]] \in {"bind", "refused", "register"} \cup Registered
    /\ \A s \in aborted : pc[s] \in Registered
    /\ \A s \in Sessions : pc[s] \in {"hello", "check"} => at[s] = 1
    /\ \A s \in Sessions, i \in Nat :
          i \in TcpRoutes(s) /\ s \notin aborted
          /\ (\/ pc[s] = "bind" /\ i < at[s]
              \/ pc[s] \in {"register"} \cup Registered)
          => sockets[TcpKey(s, i)] = s

\* Under the lock a session's own ActiveTunnel stays in the map until somebody
\* removes it, and with it aborts the session's listeners.
LockInv ==
    PortLock => \A s \in Sessions \ aborted : pc[s] \in Registered =>
        /\ tunnels[claims[s].sub] = s
        /\ pc[s] \in {"report", "serve"} \/ (pc[s] = "teardown" /\ step[s] = 0)

\* A tcp route has a port to bind.
LEMMA TcpKeyType ==
    ASSUME TypeOK, NEW s \in Sessions, NEW i \in TcpRoutes(s)
    PROVE  TcpKey(s, i) \in PortKeys
  <1>1. claims[s].routes \in Seq(RouteClaim) /\ i \in 1..Len(claims[s].routes)
    BY ClaimsAssumption DEF TypeOK, TunnelClaims, TcpRoutes
  <1>2. claims[s].routes[i] \in RouteClaim /\ claims[s].routes[i].mode = "tcp"
    BY <1>1 DEF TcpRoutes
  <1>3. claims[s].routes[i].port \in Ports
    BY <1>2 DEF RouteClaim, HostModes
  <1>. QED  BY <1>3 DEF TcpKey, PortKeys, PortModes

\* Two sessions of one subdomain cannot both hold their ports.
LEMMA LockExcludes ==
    ASSUME TypeOK, HoldInv, PortLock, NEW s \in Sessions \ aborted, NEW u \in Sessions \ aborted,
           claims[s].sub = claims[u].sub,
           pc[s] \in {"register"} \cup Registered, pc[u] \in {"register"} \cup Registered
    PROVE  s = u
  <1>1. PICK k : k \in PortKeysOf(claims[s], "tcp") \cap PortKeysOf(claims[u], "tcp")
    BY DEF PortLock
  <1>2. PICK i \in TcpRoutes(s) : k = TcpKey(s, i)
    BY <1>1 DEF PortKeysOf, TcpRoutes, TcpKey
  <1>3. PICK j \in TcpRoutes(u) : k = TcpKey(u, j)
    BY <1>1 DEF PortKeysOf, TcpRoutes, TcpKey
  <1>4. i \in Nat /\ j \in Nat
    BY ClaimsAssumption DEF TcpRoutes, TypeOK, TunnelClaims
  <1>5. sockets[TcpKey(s, i)] = s
    BY <1>2, <1>4 DEF HoldInv
  <1>6. sockets[TcpKey(u, j)] = u
    BY <1>3, <1>4 DEF HoldInv
  <1>. QED  BY <1>2, <1>3, <1>5, <1>6

\* A round of the bind loop: a port it takes was nobody's, and is the next one.
LEMMA BindHold ==
    ASSUME TypeOK, HoldInv, NEW s \in Sessions, Bind(s)
    PROVE  HoldInv'
  <1> DEFINE k == RouteKey(claims[s], Route(s))
  <1>1. /\ pc[s] = "bind" /\ HasRoute(s) /\ at[s] \in Nat
        /\ UNCHANGED <<claims, aborted>>
    BY DEF Bind, TypeOK
  <1>2. CASE pc' # pc
    <2>1. pc' = [pc EXCEPT ![s] = "refused"] /\ UNCHANGED <<at, sockets>>
      BY <1>2 DEF Bind, Goto
    <2>2. \A u \in Sessions : pc'[u] = IF u = s THEN "refused" ELSE pc[u]
      BY <2>1 DEF TypeOK, Actors
    <2>. QED  BY <1>1, <2>1, <2>2, NoneAssumption DEF HoldInv, TypeOK, TcpRoutes, TcpKey, Registered
  <1>3. CASE UNCHANGED pc
    <2>1. at' = [at EXCEPT ![s] = @ + 1]
      BY <1>1, <1>3 DEF Bind, Goto, TypeOK, Actors
    <2>2. \A l \in PortKeys : sockets[l] # None => sockets'[l] = sockets[l]
      BY <1>1, <1>3, NoneAssumption DEF Bind, Goto, TypeOK, Actors
    <2>3. \A l \in PortKeys : sockets'[l] \in {sockets[l], s}
      BY <1>1, <1>3 DEF Bind, Goto, TypeOK, Actors
    <2>4. ASSUME at[s] \in TcpRoutes(s) PROVE sockets'[TcpKey(s, at[s])] = s
      <3>1. Route(s).mode = "tcp" /\ k = TcpKey(s, at[s])
        BY <2>4 DEF TcpRoutes, TcpKey, Route, RouteKey, HostModes
      <3>2. TcpKey(s, at[s]) \in PortKeys
        BY <2>4, TcpKeyType
      <3>3. sockets' = [sockets EXCEPT ![k] = s]
        BY <1>3, <3>1, <1>1 DEF Bind, Goto, HostModes, TypeOK, Actors
      <3>. QED  BY <3>1, <3>2, <3>3 DEF TypeOK
    <2>5. ASSUME NEW u \in Sessions, NEW i \in Nat, i \in TcpRoutes(u), u \notin aborted,
                 \/ pc[u] = "bind" /\ i < at'[u]
                 \/ pc[u] \in {"register"} \cup Registered
          PROVE  sockets'[TcpKey(u, i)] = u
      <3>1. TcpKey(u, i) \in PortKeys
        BY <2>5, TcpKeyType
      <3>2. CASE u = s /\ i = at[s]
        BY <2>4, <2>5, <3>2
      <3>3. CASE ~(u = s /\ i = at[s])
        <4>1. \/ pc[u] = "bind" /\ i < at[u]
              \/ pc[u] \in {"register"} \cup Registered
          BY <1>1, <2>1, <2>5, <3>3 DEF TypeOK, Registered
        <4>2. sockets[TcpKey(u, i)] = u
          BY <2>5, <4>1 DEF HoldInv
        <4>. QED  BY <2>2, <3>1, <4>2, NoneAssumption
      <3>. QED  BY <3>2, <3>3
    <2>6. \A l \in PortKeys : sockets'[l] # None =>
             pc'[sockets'[l]] \in {"bind", "refused", "register"} \cup Registered
      BY <1>1, <1>3, <2>3 DEF HoldInv
    <2>7. \A u \in Sessions : pc[u] \in {"hello", "check"} => at'[u] = 1
      BY <1>1, <2>1 DEF HoldInv, TypeOK
    <2>. QED  BY <1>1, <1>3, <2>5, <2>6, <2>7 DEF HoldInv, TcpRoutes, TcpKey
  <1>. QED  BY <1>2, <1>3

\* Ports given up before the agent was accepted are those of the refused session.
LEMMA DropHold ==
    ASSUME TypeOK, HoldInv, NEW s \in Sessions, pc[s] \in {"bind", "refused"},
           Goto(s, "rejected"), DropSockets(s), UNCHANGED <<claims, at, aborted>>
    PROVE  HoldInv'
  <1>1. \A u \in Sessions : pc'[u] = IF u = s THEN "rejected" ELSE pc[u]
    BY DEF TypeOK, Actors, Goto
  <1>2. \A k \in PortKeys : sockets'[k] = IF sockets[k] = s THEN None ELSE sockets[k]
    BY DEF DropSockets
  <1>3. \A u \in Sessions, i \in Nat : i \in TcpRoutes(u) => TcpKey(u, i) \in PortKeys
    BY TcpKeyType
  <1>4. UNCHANGED <<claims, at, aborted>>
    OBVIOUS
  <1>5. \A k \in PortKeys : sockets'[k] # None =>
           pc'[sockets'[k]] \in {"bind", "refused", "register"} \cup Registered
    BY <1>1, <1>2 DEF HoldInv, TypeOK
  <1>6. \A u \in aborted : pc'[u] \in Registered
    BY <1>1 DEF HoldInv, TypeOK, Registered
  <1>7. \A u \in Sessions : pc'[u] \in {"hello", "check"} => at[u] = 1
    BY <1>1 DEF HoldInv
  <1>8. ASSUME NEW u \in Sessions, NEW i \in Nat, i \in TcpRoutes(u), u \notin aborted,
               \/ pc'[u] = "bind" /\ i < at[u]
               \/ pc'[u] \in {"register"} \cup Registered
        PROVE  sockets'[TcpKey(u, i)] = u
    <2>1. u # s /\ pc'[u] = pc[u]
      BY <1>1, <1>8 DEF Registered
    <2>2. sockets[TcpKey(u, i)] = u
      BY <1>8, <2>1 DEF HoldInv
    <2>. QED  BY <1>2, <1>3, <1>8, <2>1, <2>2
  <1>. QED  BY <1>4, <1>5, <1>6, <1>7, <1>8 DEF HoldInv, TcpRoutes, TcpKey

\* A session that goes on without touching a port keeps what it holds, if it has
\* bound all when it leaves the bind loop.
LEMMA GoHold ==
    ASSUME TypeOK, HoldInv, NEW s \in Sessions, UNCHANGED <<claims, sockets, aborted>>,
           NEW where, pc' = [pc EXCEPT ![s] = where],
           \A u \in Sessions : u # s => at'[u] = at[u],
           \/ where = "rejected" /\ pc[s] \in {"hello", "check"}
           \/ where \in {"check", "bind"} /\ pc[s] \in {"hello", "check"} /\ at'[s] = at[s]
           \/ where = "register" /\ pc[s] = "bind" /\ ~HasRoute(s)
           \/ where \in {"register"} \cup Registered /\ pc[s] = "register"
           \/ where \in Registered /\ pc[s] \in Registered
    PROVE  HoldInv'
  <1>1. \A u \in Sessions : pc'[u] = IF u = s THEN where ELSE pc[u]
    BY DEF TypeOK, Actors
  <1>2. /\ where \notin {"hello"} /\ at[s] \in Nat
        /\ where \in {"check", "bind"} => at'[s] = 1
    BY DEF HoldInv, TypeOK, Registered
  <1>3. \A k \in PortKeys : sockets[k] # None =>
           pc'[sockets[k]] \in {"bind", "refused", "register"} \cup Registered
    BY <1>1 DEF HoldInv, TypeOK, Registered
  <1>4. \A u \in aborted : pc'[u] \in Registered
    BY <1>1 DEF HoldInv, TypeOK, Registered
  <1>5. \A u \in Sessions : pc'[u] \in {"hello", "check"} => at'[u] = 1
    BY <1>1, <1>2 DEF HoldInv, Registered
  <1>6. ASSUME NEW u \in Sessions, NEW i \in Nat, i \in TcpRoutes(u), u \notin aborted,
               \/ pc'[u] = "bind" /\ i < at'[u]
               \/ pc'[u] \in {"register"} \cup Registered
        PROVE  sockets[TcpKey(u, i)] = u
    <2>1. CASE u # s
      BY <1>1, <1>6, <2>1 DEF HoldInv
    <2>2. CASE u = s
      <3>1. i \in 1..Len(claims[s].routes) /\ Len(claims[s].routes) \in Nat
        BY <1>6, <2>2, ClaimsAssumption DEF TcpRoutes, TypeOK, TunnelClaims
      <3>2. where # "bind" /\ where # "check"
        BY <1>1, <1>2, <1>6, <2>2, <3>1 DEF Registered
      <3>3. pc[s] = "bind" => i < at[s]
        BY <1>1, <1>2, <1>6, <2>2, <3>1 DEF HasRoute, Registered
      <3>. QED  BY <1>1, <1>6, <2>2, <3>2, <3>3 DEF HoldInv, Registered
    <2>. QED  BY <2>1, <2>2
  <1>7. UNCHANGED <<claims, sockets, aborted>>
    OBVIOUS
  <1>. QED  BY <1>3, <1>4, <1>5, <1>6, <1>7 DEF HoldInv, TcpRoutes, TcpKey

\* Of the steps of handle_agent only the bind loop and a refusal touch ports.
LEMMA SessionStepHold ==
    ASSUME TypeOK, HoldInv, NEW s \in Sessions, SessionStep(s)
    PROVE  HoldInv'
  <1>1. CASE Hello(s)
    BY <1>1, GoHold DEF Hello, Goto
  <1>2. CASE PreCheck(s)
    BY <1>2, GoHold DEF PreCheck, Goto
  <1>3. CASE Bind(s)
    BY <1>3, BindHold
  <1>4. CASE Refuse(s)
    BY <1>4, DropHold DEF Refuse
  <1>5. CASE Acknowledge(s)
    <2>1. CASE Goto(s, "register") /\ at' = [at EXCEPT ![s] = 1] /\ UNCHANGED sockets
      <3>1. \A u \in Sessions : u # s => at'[u] = at[u]
        BY <2>1 DEF TypeOK
      <3>. QED  BY <1>5, <2>1, <3>1, GoHold DEF Acknowledge, Goto
    <2>2. CASE Goto(s, "rejected") /\ DropSockets(s) /\ UNCHANGED at
      BY <1>5, <2>2, DropHold DEF Acknowledge
    <2>. QED  BY <1>5, <2>1, <2>2 DEF Acknowledge
  <1>6. CASE RegisterCustom(s)
    BY <1>6 DEF RegisterCustom, HoldInv, TcpRoutes, TcpKey
  <1>7. CASE RegisterRoute(s)
    <2>1. pc' = [pc EXCEPT ![s] = "register"]
      BY <1>7 DEF RegisterRoute, TypeOK
    <2>2. \A u \in Sessions : u # s => at'[u] = at[u]
      BY <1>7 DEF RegisterRoute, TypeOK
    <2>. QED  BY <1>7, <2>1, <2>2, GoHold DEF RegisterRoute
  <1>8. CASE InsertTunnel(s)
    BY <1>8, GoHold DEF InsertTunnel, Goto, Registered
  <1>9. CASE Report(s)
    BY <1>9, GoHold DEF Report, Goto, Registered
  <1>10. CASE AwaitDriver(s)
    BY <1>10, GoHold DEF AwaitDriver, Goto, Registered
  <1>. QED  BY <1>1, <1>2, <1>3, <1>4, <1>5, <1>6, <1>7, <1>8, <1>9, <1>10
            DEF SessionStep

\* More sessions aborted, all of them registered, take no port from another.
LEMMA AbortHold ==
    ASSUME TypeOK, HoldInv, UNCHANGED <<claims, at, sockets>>, aborted \subseteq aborted',
           \A s \in aborted' : pc'[s] \in Registered,
           \A s \in Sessions : pc'[s] = pc[s] \/ (pc[s] \in Registered /\ pc'[s] \in Registered)
    PROVE  HoldInv'
  <1>1. \A s \in Sessions : /\ pc[s] \in Registered <=> pc'[s] \in Registered
                            /\ pc'[s] \notin Registered => pc'[s] = pc[s]
    OBVIOUS
  <1>2. UNCHANGED <<claims, at, sockets>>
    OBVIOUS
  <1>3. \A k \in PortKeys : sockets[k] # None =>
           pc'[sockets[k]] \in {"bind", "refused", "register"} \cup Registered
    BY <1>1 DEF HoldInv, TypeOK
  <1>4. \A s \in Sessions : pc'[s] \in {"hello", "check"} => at[s] = 1
    BY <1>1 DEF HoldInv, Registered
  <1>5. ASSUME NEW s \in Sessions, NEW i \in Nat, i \in TcpRoutes(s), s \notin aborted',
               \/ pc'[s] = "bind" /\ i < at[s]
               \/ pc'[s] \in {"register"} \cup Registered
        PROVE  sockets[TcpKey(s, i)] = s
    BY <1>1, <1>5 DEF HoldInv, Registered
  <1>. QED  BY <1>2, <1>3, <1>4, <1>5 DEF HoldInv, TcpRoutes, TcpKey

\* Every step keeps it: a listener is closed only once its session is aborted.
LEMMA HoldStep == IInv /\ StopInv /\ HoldInv /\ [Next]_vars => HoldInv'
  <1> SUFFICES ASSUME IInv, StopInv, HoldInv, [Next]_vars PROVE HoldInv'
    OBVIOUS
  <1> USE NoneAssumption
  <1>0. TypeOK /\ TypeInv
    BY DEF IInv, TypeInv
  <1>1. ASSUME NEW s \in Sessions, SessionStep(s) PROVE HoldInv'
    BY <1>0, <1>1, SessionStepHold
  <1>2. ASSUME NEW s \in Sessions, DriverEnds(s) PROVE HoldInv'
    BY <1>2 DEF DriverEnds, taskVars, HoldInv, TcpRoutes, TcpKey
  <1>3. ASSUME NEW a \in Actors, RemoveTunnel(a) PROVE HoldInv'
    <2>1. claims[Subject(a)].sub \in Subdomains
      BY <1>0, <1>3, SubjectType DEF RemoveTunnel
    <2>2. \A s \in aborted' : pc'[s] \in Registered
      BY <1>0, <1>3, <2>1 DEF RemoveTunnel, StopInv, TunnelInv, HoldInv, TypeOK
    <2>. QED  BY <1>0, <1>3, <2>2, AbortHold DEF RemoveTunnel
  <1>4. ASSUME NEW a \in Actors, RemoveRoutes(a) PROVE HoldInv'
    <2>1. \A s \in Sessions :
             pc'[s] = pc[s] \/ (pc[s] \in Registered /\ pc'[s] \in Registered)
      BY <1>0, <1>4 DEF RemoveRoutes, Goto, TypeOK, Actors, Registered
    <2>2. UNCHANGED <<claims, at, sockets, aborted>>
      BY <1>4 DEF RemoveRoutes
    <2>3. \A s \in aborted : pc'[s] \in Registered
      BY <1>0, <2>1 DEF HoldInv, TypeOK
    <2>. QED  BY <1>0, <2>1, <2>2, <2>3, AbortHold
  <1>5. ASSUME NEW o \in Stops, NEW d \in Subdomains, StopLookup(o, d) PROVE HoldInv'
    <2>1. \A s \in Sessions : pc'[s] = pc[s]
      BY <1>0, <1>5 DEF StopLookup, Goto, TypeOK, Actors
    <2>2. aborted' \in {aborted, aborted \cup {tunnels[d]}}
          /\ (aborted' # aborted => tunnels[d] # None)
      BY <1>5 DEF StopLookup
    <2>3. \A s \in aborted' : pc'[s] \in Registered
      BY <1>0, <2>1, <2>2 DEF StopInv, TunnelInv, HoldInv, TypeOK
    <2>. QED  BY <1>0, <1>5, <2>1, <2>2, <2>3, AbortHold DEF StopLookup
  <1>6. ASSUME NEW k \in PortKeys, CloseSocket(k) PROVE HoldInv'
    <2>1. /\ sockets[k] \in aborted /\ UNCHANGED <<pc, at, claims, aborted>>
          /\ \A l \in PortKeys : sockets'[l] = IF l = k THEN None ELSE sockets[l]
      BY <1>0, <1>6 DEF CloseSocket, taskVars, TypeOK
    <2>2. \A s \in Sessions, i \in Nat : i \in TcpRoutes(s) => TcpKey(s, i) \in PortKeys
      BY <1>0, TcpKeyType
    <2>. QED  BY <2>1, <2>2 DEF HoldInv, TcpRoutes, TcpKey
  <1>7. CASE UNCHANGED vars
    BY <1>7 DEF vars, HoldInv, TcpRoutes, TcpKey
  <1>. QED  BY <1>1, <1>2, <1>3, <1>4, <1>5, <1>6, <1>7 DEF Next, Teardown

\* The session's part of LockInv.
Holds(s) == tunnels[claims[s].sub] = s
Before(s) == pc[s] \in {"report", "serve"} \/ (pc[s] = "teardown" /\ step[s] = 0)

\* A step of handle_agent: to replace an ActiveTunnel takes a port its session has.
LEMMA SessionStepLock ==
    ASSUME IInv, HoldInv, PortLock, NEW s \in Sessions, SessionStep(s),
           \A u \in Sessions \ aborted : pc[u] \in Registered => Holds(u) /\ Before(u)
    PROVE  \A u \in Sessions \ aborted' : pc'[u] \in Registered => Holds(u)' /\ Before(u)'
  <1> USE NoneAssumption DEF Holds, Before, Registered, Goto, Actors
  <1>0. TypeOK /\ TypeInv
    BY DEF IInv, TypeInv
  <1>1. CASE Hello(s)
    BY <1>0, <1>1 DEF TypeOK, Hello
  <1>2. CASE PreCheck(s)
    BY <1>0, <1>2 DEF TypeOK, PreCheck
  <1>3. CASE Bind(s)
    BY <1>0, <1>3 DEF TypeOK, Bind
  <1>4. CASE Refuse(s)
    BY <1>0, <1>4 DEF TypeOK, Refuse
  <1>5. CASE Acknowledge(s)
    BY <1>0, <1>5 DEF TypeOK, Acknowledge
  <1>6. CASE RegisterCustom(s)
    BY <1>6 DEF RegisterCustom
  <1>7. CASE RegisterRoute(s)
    BY <1>7 DEF RegisterRoute
  <1>8. CASE InsertTunnel(s)
    <2>1. pc[s] = "register" /\ s \notin aborted /\ claims[s].sub \in Subdomains
      BY <1>0, <1>8, SubType DEF InsertTunnel, HoldInv
    <2>2. \A u \in Sessions \ aborted : u # s /\ pc[u] \in Registered =>
             claims[u].sub # claims[s].sub
      BY <1>0, <2>1, LockExcludes
    <2>. QED  BY <1>0, <1>8, <2>1, <2>2, SubType DEF InsertTunnel, TypeOK
  <1>9. CASE Report(s)
    BY <1>0, <1>9 DEF TypeOK, Report
  <1>10. CASE AwaitDriver(s)
    <2>1. step[s] = 0
      BY <1>10 DEF AwaitDriver, IInv, StepInv
    <2>. QED  BY <1>0, <1>10, <2>1 DEF TypeOK, AwaitDriver
  <1>. QED  BY <1>1, <1>2, <1>3, <1>4, <1>5, <1>6, <1>7, <1>8, <1>9, <1>10
            DEF SessionStep

\* Every step keeps it: what is removed from the map is aborted.
LEMMA LockStep == IInv /\ StopInv /\ HoldInv /\ LockInv /\ [Next]_vars => LockInv'
  <1> SUFFICES ASSUME IInv, StopInv, HoldInv, LockInv, [Next]_vars, PortLock'
               PROVE  \A u \in Sessions \ aborted' :
                         pc'[u] \in Registered => Holds(u)' /\ Before(u)'
    BY DEF LockInv, Holds, Before
  <1> USE NoneAssumption
  <1>0. TypeOK /\ TypeInv
    BY DEF IInv, TypeInv
  <1>a. UNCHANGED claims
    BY DEF Next, SessionStep, Hello, PreCheck, Bind, Refuse, Acknowledge, RegisterCustom,
           RegisterRoute, InsertTunnel, Report, AwaitDriver, DriverEnds, Teardown,
           RemoveTunnel, RemoveRoutes, StopLookup, CloseSocket, taskVars, vars
  <1>b. PortLock
    BY <1>a DEF PortLock
  <1>c. \A u \in Sessions \ aborted : pc[u] \in Registered => Holds(u) /\ Before(u)
    BY <1>b DEF LockInv, Holds, Before
  <1>1. ASSUME NEW s \in Sessions, SessionStep(s)
        PROVE  \A u \in Sessions \ aborted' : pc'[u] \in Registered => Holds(u)' /\ Before(u)'
    BY <1>1, <1>b, <1>c, SessionStepLock
  <1>2. ASSUME NEW s \in Sessions, DriverEnds(s)
        PROVE  \A u \in Sessions \ aborted' : pc'[u] \in Registered => Holds(u)' /\ Before(u)'
    BY <1>2, <1>c DEF DriverEnds, taskVars, Holds, Before
  <1>3. ASSUME NEW a \in Actors, RemoveTunnel(a), NEW u \in Sessions \ aborted',
               pc'[u] \in Registered
        PROVE  Holds(u)' /\ Before(u)'
    <2> DEFINE d == claims[Subject(a)].sub
    <2>1. /\ d \in Subdomains /\ UNCHANGED <<pc, claims>>
          /\ aborted' = aborted \cup ({tunnels[d]} \ {None})
          /\ tunnels' = [tunnels EXCEPT ![d] = None]
          /\ step' = [step EXCEPT ![a] = 1]
      BY <1>0, <1>3, SubjectType DEF RemoveTunnel
    <2> HIDE DEF d
    <2>2. u \in Sessions /\ u \notin aborted /\ Holds(u) /\ Before(u)
      BY <1>3, <1>c, <2>1
    <2>3. claims[u].sub # d
      BY <1>3, <2>1, <2>2 DEF Holds
    <2>4. u # a
      BY <2>2, <2>3 DEF d, Subject
    <2>. QED  BY <1>0, <2>1, <2>2, <2>3, <2>4, SubType DEF Holds, Before, TypeOK, Actors
  <1>4. ASSUME NEW a \in Actors, RemoveRoutes(a), NEW u \in Sessions \ aborted',
               pc'[u] \in Registered
        PROVE  Holds(u)' /\ Before(u)'
    <2>1. /\ pc[a] = "teardown" /\ step[a] \in 1..6
          /\ UNCHANGED <<claims, tunnels, aborted>>
          /\ \A b \in Actors : b # a => pc'[b] = pc[b] /\ step'[b] = step[b]
      BY <1>0, <1>4 DEF RemoveRoutes, Goto, TypeOK
    <2>2. u # a
      BY <1>4, <1>c, <2>1 DEF Before, Registered
    <2>. QED  BY <1>4, <1>c, <2>1, <2>2 DEF Holds, Before, Actors
  <1>5. ASSUME NEW o \in Stops, NEW d \in Subdomains, StopLookup(o, d)
        PROVE  \A u \in Sessions \ aborted' : pc'[u] \in Registered => Holds(u)' /\ Before(u)'
    <2>1. \A s \in Sessions : pc'[s] = pc[s]
      BY <1>0, <1>5 DEF StopLookup, Goto, TypeOK, Actors
    <2>2. aborted \subseteq aborted' /\ UNCHANGED <<claims, tunnels, step>>
      BY <1>5 DEF StopLookup
    <2>. QED  BY <1>c, <2>1, <2>2 DEF Holds, Before
  <1>6. ASSUME NEW k \in PortKeys, CloseSocket(k)
        PROVE  \A u \in Sessions \ aborted' : pc'[u] \in Registered => Holds(u)' /\ Before(u)'
    BY <1>6, <1>c DEF CloseSocket, taskVars, Holds, Before
  <1>7. CASE UNCHANGED vars
    BY <1>7, <1>c DEF vars, Holds, Before
  <1>. QED  BY <1>1, <1>2, <1>3, <1>4, <1>5, <1>6, <1>7 DEF Next, Teardown

\* A refused session holds no port, and the listeners of a session that has
\* returned were told to stop if the tokens of a subdomain share a tcp port.
THEOREM Freed == Spec => []ListenersFreed
  <1>1. Init => StopInv /\ HoldInv /\ LockInv
    BY DEF Init, StopInv, TunnelInv, DrainInv, HoldInv, LockInv, Registered, Actors
  <1>2. IInv /\ HoldInv /\ LockInv => ListenersFreed
    BY DEF HoldInv, LockInv, ListenersFreed, Registered, IInv, TypeInv, TypeOK
  <1>. QED  BY <1>1, <1>2, StopInvStep, HoldStep, LockStep, IInvariant, PTL DEF Spec
=============================================================================
