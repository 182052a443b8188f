------------------------- MODULE SharedRouter_proofs -------------------------
(* Theorems about SharedRouter. *)
EXTENDS SharedRouter, TLAPS

Has(t, m) == \E i \in DOMAIN modes[t] : modes[t][i] = m

\* The registries t has an entry in while it is up.
Entered(t) ==
    {m \in Modes : Has(t, m)} \cup
    {CustomOf[m] : m \in {n \in Modes : Custom[t] # None /\ Has(t, n)}}

-----------------------------------------------------------------------------
(* The lists of registries that a session goes through.                    *)

\* A session registers exactly the entries its routes call for, in at most four
\* insertions.
LEMMA InsertedList ==
    ASSUME NEW t \in Tunnels, modes[t] \in RouteLists
    PROVE  /\ Len(Inserted(t)) \in 1..4
           /\ \A i \in 1..Len(Inserted(t)) : Inserted(t)[i] \in Entered(t)
           /\ \A r \in Entered(t) : \E i \in 1..Len(Inserted(t)) : Inserted(t)[i] = r
<1>1. CASE modes[t] \in {<<m>> : m \in Modes}
  <2>1. PICK m \in Modes : modes[t] = <<m>>
    BY <1>1
  <2>2. Entered(t) = IF Custom[t] = None THEN {m} ELSE {m, CustomOf[m]}
    BY <2>1 DEF Entered, Has
  <2>3. CASE Custom[t] = None
    BY <2>1, <2>2, <2>3 DEF Inserted
  <2>4. CASE Custom[t] # None
    BY <2>1, <2>2, <2>4 DEF Inserted
  <2>. QED
    BY <2>3, <2>4
<1>2. CASE modes[t] \in {<<m, n>> : m \in Modes, n \in Modes}
  <2>1. PICK m \in Modes, n \in Modes : modes[t] = <<m, n>>
    BY <1>2
  <2>2. Entered(t) = IF Custom[t] = None THEN {m, n} ELSE {m, n, CustomOf[m], CustomOf[n]}
    BY <2>1 DEF Entered, Has
  <2>3. CASE Custom[t] = None
    BY <2>1, <2>2, <2>3 DEF Inserted
  <2>4. CASE Custom[t] # None
    <3>1. Inserted(t) = <<CustomOf[m], m, CustomOf[n], n>>
      BY <2>1, <2>4 DEF Inserted
    <3>. QED
      BY <3>1, <2>2, <2>4
  <2>. QED
    BY <2>3, <2>4
<1>. QED
  BY <1>1, <1>2 DEF RouteLists

\* What teardown passes, and in which order.
LEMMA RemovedList ==
    ASSUME NEW t \in Tunnels
    PROVE  /\ Len(Removed(t)) = IF Custom[t] = None THEN 2 ELSE 4
           /\ Removed(t)[1] = "http" /\ Removed(t)[2] = "https"
           /\ Custom[t] # None => Removed(t)[3] = "custom_http" /\ Removed(t)[4] = "custom_https"
           /\ \A i \in 1..Len(Removed(t)) : Removed(t)[i] = "https" => i = 2
           /\ \A i \in 1..Len(Removed(t)) : Removed(t)[i] = "custom_https" => i = 4
  BY DEF Removed

-----------------------------------------------------------------------------
(* Type correctness, with how far sessions and stop calls may have come.   *)

StepInv ==
    \A s \in Tasks :
        /\ phase[s] = "register" => step[s] < Len(Inserted(Of[s]))
        /\ phase[s] = "teardown" => step[s] < Len(Removed(Of[s]))

TypeInv == TypeOK /\ StepInv

LEMMA Fixed ==
    ASSUME UNCHANGED modes, NEW t \in Tunnels
    PROVE  /\ Inserted(t)' = Inserted(t) /\ Removed(t)' = Removed(t)
           /\ Entered(t)' = Entered(t)
  BY DEF Inserted, Removed, Entered, Has, CustomOf

LEMMA OfTask ==
    ASSUME NEW s \in Tasks
    PROVE  Of[s] \in Tunnels
  BY TasksAssumption

\* A task stays as it was, or goes where its lists reach.
LEMMA StepKept ==
    ASSUME StepInv, UNCHANGED modes,
           \A u \in Tasks :
              \/ phase'[u] = phase[u] /\ step'[u] = step[u]
              \/ /\ phase'[u] = "register" => step'[u] < Len(Inserted(Of[u]))
                 /\ phase'[u] = "teardown" => step'[u] < Len(Removed(Of[u]))
    PROVE  StepInv'
<1>. SUFFICES ASSUME NEW u \in Tasks
              PROVE  /\ phase'[u] = "register" => step'[u] < Len(Inserted(Of[u])')
                     /\ phase'[u] = "teardown" => step'[u] < Len(Removed(Of[u])')
  BY DEF StepInv
<1>1. Inserted(Of[u])' = Inserted(Of[u]) /\ Removed(Of[u])' = Removed(Of[u])
  BY Fixed, OfTask
<1>. QED
  BY <1>1 DEF StepInv

\* A connection's step leaves everything else as it was.
LEMMA ConnKept ==
    ASSUME TypeInv, NEW c \in Conns, NEW k \in ConnStates, Becomes(c, k), OnlyConn
    PROVE  TypeInv'
<1>1. TypeOK'
  BY DEF TypeInv, TypeOK, Becomes, OnlyConn, sessionVars, policyVars
<1>2. StepInv'
  BY StepKept DEF TypeInv, OnlyConn, sessionVars
<1>. QED
  BY <1>1, <1>2 DEF TypeInv

\* So do the steps of the policy and of certificates, but for their own variables.
LEMMA PolicyKept ==
    ASSUME TypeInv, UNCHANGED <<sessionVars, wildcard, conn>>, certs' \subseteq Hosts,
           blocked' \subseteq Lists, copy' \subseteq Lists, node' \subseteq Lists,
           refresh' \in {"rest", "half", "fetched", "stored"}, pulled' \in BOOLEAN
    PROVE  TypeInv'
<1>1. TypeOK'
  BY DEF TypeInv, TypeOK, sessionVars
<1>2. StepInv'
  BY StepKept DEF TypeInv, sessionVars
<1>. QED
  BY <1>1, <1>2 DEF TypeInv

LEMMA PolicyTyped ==
    ASSUME TypeInv, PolicyStep \/ \E d \in Hosts : CertIssued(d)
    PROVE  TypeInv'
<1>1. ASSUME NEW l \in Toggled, Toggle(l)
      PROVE  TypeInv'
  BY <1>1, PolicyKept, ListsAssumption DEF Toggle, TypeInv, TypeOK
<1>2. CASE FetchGlobal
  BY <1>2, PolicyKept DEF FetchGlobal, TypeInv, TypeOK
<1>3. CASE FetchTunnels
  BY <1>3, PolicyKept DEF FetchTunnels, TypeInv, TypeOK
<1>4. CASE RefreshFails
  BY <1>4, PolicyKept DEF RefreshFails, TypeInv, TypeOK
<1>5. CASE StoreGlobal
  BY <1>5, PolicyKept DEF StoreGlobal, TypeInv, TypeOK
<1>6. CASE StoreTunnels
  BY <1>6, PolicyKept DEF StoreTunnels, TypeInv, TypeOK
<1>7. ASSUME NEW d \in Hosts, CertIssued(d)
      PROVE  TypeInv'
  BY <1>7, PolicyKept DEF CertIssued, TypeInv, TypeOK, policyVars
<1>. QED
  BY <1>1, <1>2, <1>3, <1>4, <1>5, <1>6, <1>7 DEF PolicyStep

\* What becomes of a connection when a tunnel loses its marks.
LEMMA MarksGo ==
    ASSUME TypeOK, NEW t, NotFresh(t) \/ NotSteady(t)
    PROVE  /\ conn' \in [Conns -> ConnStates]
           /\ \A c \in Conns :
                 /\ conn'[c].at = conn[c].at /\ conn'[c].port = conn[c].port
                 /\ conn'[c].name = conn[c].name /\ conn'[c].to = conn[c].to
                 /\ conn'[c].via = conn[c].via /\ conn'[c].from = conn[c].from
                 /\ conn'[c].steady = conn[c].steady \ {t}
                 /\ conn'[c].fresh =
                       IF NotFresh(t) THEN conn[c].fresh \ {t} ELSE conn[c].fresh
<1>. DEFINE Gone(k) == [k EXCEPT !.fresh = @ \ {t}, !.steady = @ \ {t}]
            Lost(k) == [k EXCEPT !.steady = @ \ {t}]
<1>1. conn \in [Conns -> ConnStates]
  BY DEF TypeOK
<1>2. ASSUME NEW k \in ConnStates
      PROVE  /\ Gone(k) \in ConnStates /\ Lost(k) \in ConnStates
             /\ Gone(k).at = k.at /\ Gone(k).port = k.port /\ Gone(k).name = k.name
             /\ Gone(k).to = k.to /\ Gone(k).via = k.via /\ Gone(k).from = k.from
             /\ Gone(k).fresh = k.fresh \ {t} /\ Gone(k).steady = k.steady \ {t}
             /\ Lost(k).at = k.at /\ Lost(k).port = k.port /\ Lost(k).name = k.name
             /\ Lost(k).to = k.to /\ Lost(k).via = k.via /\ Lost(k).from = k.from
             /\ Lost(k).fresh = k.fresh /\ Lost(k).steady = k.steady \ {t}
  BY DEF ConnStates
<1>3. /\ NotFresh(t) <=> conn' = [c \in Conns |-> Gone(conn[c])]
      /\ NotSteady(t) <=> conn' = [c \in Conns |-> Lost(conn[c])]
  BY DEF NotFresh, NotSteady
<1>. HIDE DEF Gone, Lost
<1>4. CASE NotFresh(t)
  BY <1>1, <1>2, <1>3, <1>4
<1>5. CASE ~NotFresh(t)
  BY <1>1, <1>2, <1>3, <1>5
<1>. QED
  BY <1>4, <1>5

\* What each step of a session or of a stop call does to the tasks.
LEMMA Moves ==
    ASSUME TypeInv, NEW s \in Tasks
    PROVE  /\ Connect(s) =>
                 /\ phase[s] = "down" /\ phase'[s] = "register" /\ step'[s] = 0
                 /\ \A u \in Tasks \ {s} : phase'[u] = phase[u] /\ step'[u] = step[u]
           /\ Register(s) =>
                 /\ phase[s] = "register"
                 /\ IF step[s] + 1 = Len(Inserted(Of[s])) THEN phase'[s] = "up"
                    ELSE phase'[s] = "register" /\ step'[s] = step[s] + 1
                 /\ \A u \in Tasks \ {s} : phase'[u] = phase[u] /\ step'[u] = step[u]
           /\ Lose(s) =>
                 /\ phase[s] = "up" /\ phase'[s] = "teardown" /\ step'[s] = 0
                 /\ \A u \in Tasks \ {s} : phase'[u] = phase[u] /\ step'[u] = step[u]
           /\ Unregister(s) =>
                 /\ phase[s] = "teardown"
                 /\ IF step[s] + 1 = Len(Removed(Of[s])) THEN phase'[s] = "down"
                    ELSE phase'[s] = "teardown" /\ step'[s] = step[s] + 1
                 /\ \A u \in Tasks \ {s} : phase'[u] = phase[u] /\ step'[u] = step[u]
           /\ \A o \in Stops : Stop(o, s) =>
                 /\ o \in Tasks /\ Of[o] = Of[s] /\ phase[o] = "down"
                 /\ phase[s] = "up" \/ (phase[s] = "teardown" /\ step[s] = 0)
                 /\ phase'[o] = "teardown" /\ step'[o] = 0
                 /\ phase'[s] = "teardown" /\ step'[s] = 0
                 /\ \A u \in Tasks \ {o, s} : phase'[u] = phase[u] /\ step'[u] = step[u]
<1>. phase \in [Tasks -> {"down", "register", "up", "teardown"}] /\ step \in [Tasks -> 0..4]
  BY DEF TypeInv, TypeOK
<1>1. \A w : Goto(s, w) =>
         /\ phase'[s] = w /\ step'[s] = 0
         /\ \A u \in Tasks \ {s} : phase'[u] = phase[u] /\ step'[u] = step[u]
  BY DEF Goto
<1>2. step' = [step EXCEPT ![s] = @ + 1] /\ UNCHANGED phase =>
         /\ phase'[s] = phase[s] /\ step'[s] = step[s] + 1
         /\ \A u \in Tasks \ {s} : phase'[u] = phase[u] /\ step'[u] = step[u]
  OBVIOUS
<1>3. ASSUME NEW o \in Stops, Stop(o, s)
      PROVE  /\ o \in Tasks /\ Of[o] = Of[s] /\ phase[o] = "down"
             /\ phase[s] = "up" \/ (phase[s] = "teardown" /\ step[s] = 0)
             /\ phase'[o] = "teardown" /\ step'[o] = 0
             /\ phase'[s] = "teardown" /\ step'[s] = 0
             /\ \A u \in Tasks \ {o, s} : phase'[u] = phase[u] /\ step'[u] = step[u]
  <2>1. o \in Tasks
    BY DEF Tasks
  <2>2. /\ Of[o] = Of[s] /\ phase[o] = "down"
        /\ phase[s] = "up" \/ (phase[s] = "teardown" /\ step[s] = 0)
        /\ phase' = [phase EXCEPT ![o] = "teardown", ![s] = "teardown"]
        /\ step' = [step EXCEPT ![o] = 0, ![s] = 0]
    BY <1>3 DEF Stop
  <2>3. /\ phase'[o] = "teardown" /\ phase'[s] = "teardown"
        /\ \A u \in Tasks \ {o, s} : phase'[u] = phase[u]
    BY <2>1, <2>2
  <2>4. /\ step'[o] = 0 /\ step'[s] = 0
        /\ \A u \in Tasks \ {o, s} : step'[u] = step[u]
    BY <2>1, <2>2
  <2>. QED
    BY <2>1, <2>2, <2>3, <2>4
<1>. QED
  BY <1>1, <1>2, <1>3 DEF Connect, Register, Lose, Unregister

LEMMA SessionTyped ==
    ASSUME TypeInv, SessionStep
    PROVE  TypeInv'
<1>1. \A t \in Tunnels : Len(Inserted(t)) \in 1..4 /\ Entered(t) \subseteq Registries
  BY InsertedList DEF TypeInv, TypeOK, Entered, CustomOf, Registries, Modes
<1>2. \A t \in Tunnels : Len(Removed(t)) \in {2, 4}
  BY RemovedList
<1>3. \A t : NotFresh(t) \/ NotSteady(t) => conn' \in [Conns -> ConnStates]
  BY MarksGo DEF TypeInv, TypeOK
<1>4. ASSUME NEW s \in Tasks, Connect(s)
      PROVE  TypeInv'
  <2>1. TypeOK'
    BY <1>3, <1>4, OfTask DEF TypeInv, TypeOK, Connect, Goto, policyVars
  <2>2. StepInv'
    <3>1. UNCHANGED modes
      BY <1>4 DEF Connect
    <3>2. 0 < Len(Inserted(Of[s]))
      <4>1. Len(Inserted(Of[s])) \in 1..4
        BY <1>1, OfTask
      <4>. QED
        BY <4>1
    <3>. QED
      BY <1>4, <3>1, <3>2, Moves, StepKept DEF TypeInv
  <2>. QED
    BY <2>1, <2>2 DEF TypeInv
<1>5. ASSUME NEW s \in Tasks, Register(s)
      PROVE  TypeInv'
  <2>1. Inserted(Of[s])[step[s] + 1] \in Registries /\ step[s] + 1 \in 1..4
    BY <1>1, <1>5, InsertedList, OfTask DEF TypeInv, TypeOK, StepInv, Register
  <2>2. TypeOK'
    BY <2>1, <1>5, OfTask DEF TypeInv, TypeOK, Register, Goto, policyVars
  <2>3. StepInv'
    <3>1. UNCHANGED modes
      BY <1>5 DEF Register
    <3>2. step[s] \in Nat /\ Len(Inserted(Of[s])) \in Nat /\ step[s] < Len(Inserted(Of[s]))
      BY <1>1, <1>5, OfTask DEF TypeInv, TypeOK, StepInv, Register
    <3>3. step[s] + 1 # Len(Inserted(Of[s])) => step[s] + 1 < Len(Inserted(Of[s]))
      BY <3>2
    <3>. QED
      BY <1>5, <3>1, <3>3, Moves, StepKept DEF TypeInv
  <2>. QED
    BY <2>2, <2>3 DEF TypeInv
<1>6. ASSUME NEW s \in Tasks, Lose(s)
      PROVE  TypeInv'
  <2>1. TypeOK'
    BY <1>3, <1>6, OfTask DEF TypeInv, TypeOK, Lose, Goto, policyVars
  <2>2. StepInv'
    <3>1. UNCHANGED modes
      BY <1>6 DEF Lose
    <3>2. 0 < Len(Removed(Of[s]))
      BY <1>2, OfTask
    <3>. QED
      BY <1>6, <3>1, <3>2, Moves, StepKept DEF TypeInv
  <2>. QED
    BY <2>1, <2>2 DEF TypeInv
<1>7. ASSUME NEW s \in Tasks, NEW o \in Stops, Stop(o, s)
      PROVE  TypeInv'
  <2>1. TypeOK'
    BY <1>3, <1>7, OfTask DEF TypeInv, TypeOK, Stop, policyVars
  <2>2. StepInv'
    <3>1. UNCHANGED modes
      BY <1>7 DEF Stop
    <3>2. 0 < Len(Removed(Of[s])) /\ Of[o] = Of[s]
      BY <1>2, <1>7, OfTask DEF Stop
    <3>. QED
      BY <1>7, <3>1, <3>2, Moves, StepKept DEF TypeInv
  <2>. QED
    BY <2>1, <2>2 DEF TypeInv
<1>8. ASSUME NEW s \in Tasks, Unregister(s)
      PROVE  TypeInv'
  <2>1. /\ step[s] + 1 \in 1..4
        /\ step[s] + 1 # Len(Removed(Of[s])) => step[s] + 1 < Len(Removed(Of[s]))
    <3>1. step[s] \in 0..4 /\ step[s] < Len(Removed(Of[s]))
      BY <1>8 DEF TypeInv, TypeOK, StepInv, Unregister
    <3>2. Len(Removed(Of[s])) = 2 \/ Len(Removed(Of[s])) = 4
      BY <1>2, OfTask
    <3>3. ASSUME NEW a \in 0..4, NEW n \in {2, 4}, a < n
          PROVE  a + 1 \in 1..4 /\ (a + 1 # n => a + 1 < n)
      BY <3>3
    <3>. QED
      BY <3>1, <3>2, <3>3
  <2>2. TypeOK'
    BY <2>1, <1>8, OfTask DEF TypeInv, TypeOK, Unregister, Goto, policyVars
  <2>3. StepInv'
    <3>1. UNCHANGED modes
      BY <1>8 DEF Unregister
    <3>. QED
      BY <1>8, <2>1, <3>1, Moves, StepKept DEF TypeInv
  <2>. QED
    BY <2>2, <2>3 DEF TypeInv
<1>. QED
  BY <1>4, <1>5, <1>6, <1>7, <1>8 DEF SessionStep, Tasks

\* What a look-up gives.
LEMMA Found ==
    ASSUME NEW r \in Registries, NEW n
    PROVE  LET t == Find(r, n) IN
           /\ t \in Tunnels \cup {None}
           /\ t # None => /\ <<r, t>> \in entries
                          /\ IF r \in Modes THEN Sub[t] = Label[n] ELSE Custom[t] = n
           /\ t = None => \A u \in Tunnels :
                  ~(/\ <<r, u>> \in entries
                    /\ IF r \in Modes THEN Sub[u] = Label[n] ELSE Custom[u] = n)
  BY NamesAssumption DEF Find

LEMMA RoutedTyped ==
    ASSUME NEW k \in ConnStates, NEW t \in Tunnels
    PROVE  Routed(k, t) \in ConnStates
<1>1. CASE k.port = "http"
  BY <1>1 DEF Routed, ConnStates, Places, Vias
<1>2. CASE k.port # "http"
  BY <1>2 DEF Routed, ConnStates, Places, Vias
<1>. QED
  BY <1>1, <1>2

LEMMA ConnTyped ==
    ASSUME TypeInv, NEW c \in Conns, ConnStep(c)
    PROVE  TypeInv'
<1>. DEFINE k == conn[c]
<1>1. k \in ConnStates
  BY DEF TypeInv, TypeOK
<1>2. \A r \in Registries : \A n : Find(r, n) \in Tunnels \cup {None}
  BY Found
<1>3. k.port \in Registries /\ CustomOf[k.port] \in Registries
  BY <1>1 DEF ConnStates, Modes, Registries, CustomOf
<1>0. 0 \in 0..MaxReads
  BY BoundAssumption
<1>4. ASSUME NEW port \in Modes, Accept(c, port)
      PROVE  TypeInv'
  <2>1. [k EXCEPT !.at = "peek", !.port = port] \in ConnStates
    BY <1>1 DEF ConnStates, Places
  <2>. QED
    BY <1>4, <2>1, ConnKept DEF Accept
<1>5. CASE ReadName(c)
  <2>1. PICK h \in Hosts : Becomes(c, Named(k, h))
    BY <1>5 DEF ReadName
  <2>2. Named(k, h) \in ConnStates
    <3>. DEFINE up == {t \in Tunnels \ mixed : \E s \in Sessions : Of[s] = t /\ phase[s] = "up"}
                d == [k EXCEPT !.at = "dashboard", !.reads = 0]
                m == [k EXCEPT !.at = "custom", !.reads = 0, !.name = h, !.fresh = up, !.steady = up]
    <3>1. up \subseteq Tunnels /\ Named(k, h) \in {d, m}
      BY DEF Named
    <3>. HIDE DEF up
    <3>. QED
      BY <1>0, <1>1, <3>1 DEF ConnStates, Places, LookUps, Ends
  <2>. QED
    BY <1>5, <2>1, <2>2, ConnKept DEF ReadName
<1>6. CASE ReadOther(c)
  <2>1. PICK end \in {"bad", "challenge"} : Becomes(c, [k EXCEPT !.at = end, !.reads = 0])
    BY <1>6 DEF ReadOther
  <2>2. [k EXCEPT !.at = end, !.reads = 0] \in ConnStates
    BY <1>0, <1>1 DEF ConnStates, Places, Ends
  <2>. QED
    BY <1>6, <2>1, <2>2, ConnKept DEF ReadOther
<1>7. CASE ReadMore(c)
  <2>. DEFINE m == [k EXCEPT !.reads = @ + 1]
              n == IF m.reads < MaxReads THEN m ELSE [m EXCEPT !.at = "bad", !.reads = 0]
  <2>1. Becomes(c, n)
    BY <1>7 DEF ReadMore
  <2>2. m.reads < MaxReads => m.reads \in 0..MaxReads
    BY <1>1, BoundAssumption DEF ConnStates
  <2>3. n \in ConnStates
    BY <1>0, <1>1, <2>2 DEF ConnStates, Places, Ends
  <2>. QED
    BY <1>7, <2>1, <2>3, ConnKept DEF ReadMore
<1>8. CASE PeekFails(c)
  <2>1. [k EXCEPT !.at = "closed", !.reads = 0] \in ConnStates
    BY <1>0, <1>1 DEF ConnStates, Places, Ends
  <2>. QED
    BY <1>8, <2>1, ConnKept DEF PeekFails
<1>9. CASE LookUpCustom(c)
  <2>. DEFINE t == Find(CustomOf[k.port], k.name)
              n == IF t # None THEN Routed(k, t) ELSE [k EXCEPT !.at = "label"]
  <2>1. Becomes(c, n)
    BY <1>9 DEF LookUpCustom
  <2>2. n \in ConnStates
    <3>1. CASE t # None
      BY <1>1, <1>2, <1>3, <3>1, RoutedTyped
    <3>2. CASE t = None
      BY <1>1, <3>2 DEF ConnStates, Places, LookUps
    <3>. QED
      BY <3>1, <3>2
  <2>. QED
    BY <1>9, <2>1, <2>2, ConnKept DEF LookUpCustom
<1>10. CASE LookUpLabel(c)
  <2>. DEFINE t == Find(k.port, k.name)
              n == IF t # None THEN Routed(k, t)
                   ELSE [k EXCEPT !.at = IF k.port = "http" THEN "unknown" ELSE "wildcard"]
  <2>1. Becomes(c, n)
    BY <1>10 DEF LookUpLabel
  <2>2. n \in ConnStates
    <3>1. CASE t # None
      BY <1>1, <1>2, <1>3, <3>1, RoutedTyped
    <3>2. CASE t = None
      BY <1>1, <3>2 DEF ConnStates, Places, LookUps, Ends
    <3>. QED
      BY <3>1, <3>2
  <2>. QED
    BY <1>10, <2>1, <2>2, ConnKept DEF LookUpLabel
<1>11. CASE LookUpWildcard(c)
  <2>. DEFINE t == Find("http", k.name)
              n == IF wildcard /\ t # None
                   THEN [k EXCEPT !.at = "head", !.to = t, !.via = "wildcard"]
                   ELSE [k EXCEPT !.at = IF k.name \in certs THEN "acme" ELSE "unknown"]
  <2>1. Becomes(c, n)
    BY <1>11 DEF LookUpWildcard
  <2>2. t \in Tunnels \cup {None}
    BY <1>2 DEF Registries
  <2>3. n \in ConnStates
    BY <1>1, <2>2 DEF ConnStates, Places, LookUps, Ends, Vias
  <2>. QED
    BY <1>11, <2>1, <2>3, ConnKept DEF LookUpWildcard
<1>12. CASE LookUpAcme(c)
  <2>. DEFINE t == Find("custom_http", k.name)
              n == IF t # None THEN [k EXCEPT !.at = "head", !.to = t, !.via = "acme"]
                   ELSE [k EXCEPT !.at = "unknown"]
  <2>1. Becomes(c, n)
    BY <1>12 DEF LookUpAcme
  <2>2. t \in Tunnels \cup {None}
    BY <1>2 DEF Registries
  <2>3. n \in ConnStates
    BY <1>1, <2>2 DEF ConnStates, Places, LookUps, Ends, Vias
  <2>. QED
    BY <1>12, <2>1, <2>3, ConnKept DEF LookUpAcme
<1>13. CASE ReadHead(c)
  <2>1. PICK a \in {"global", "closed"} : Becomes(c, [k EXCEPT !.at = a])
    BY <1>13 DEF ReadHead
  <2>2. [k EXCEPT !.at = a] \in ConnStates
    BY <1>1 DEF ConnStates, Places, Ends
  <2>. QED
    BY <1>13, <2>1, <2>2, ConnKept DEF ReadHead
<1>14. CASE CheckGlobal(c)
  <2>. DEFINE m == [NewConn EXCEPT !.to = k.to]
              n == [m EXCEPT !.at = IF "global" \in node THEN "refused" ELSE "tunnel",
                             !.from = pulled]
  <2>1. m \in ConnStates /\ pulled \in BOOLEAN
    BY <1>0, <1>1 DEF NewConn, ConnStates, Places, Modes, TypeInv, TypeOK
  <2>2. Becomes(c, [m EXCEPT !.at = "open"]) \/ Becomes(c, n)
    BY <1>14 DEF CheckGlobal
  <2>3. [m EXCEPT !.at = "open"] \in ConnStates /\ n \in ConnStates
    <3>. HIDE DEF m
    <3>. QED
      BY <2>1 DEF ConnStates, Places, Ends
  <2>. QED
    BY <1>14, <2>2, <2>3, ConnKept DEF CheckGlobal
<1>15. CASE CheckTunnel(c)
  <2>1. [k EXCEPT !.at = IF k.to \in node THEN "refused" ELSE "open"] \in ConnStates
    BY <1>1 DEF ConnStates, Places, Ends
  <2>. QED
    BY <1>15, <2>1, ConnKept DEF CheckTunnel
<1>16. CASE Open(c)
  <2>1. PICK a \in {"relay", "closed"} : Becomes(c, [k EXCEPT !.at = a])
    BY <1>16 DEF Open
  <2>2. [k EXCEPT !.at = a] \in ConnStates
    BY <1>1 DEF ConnStates, Places, Ends
  <2>. QED
    BY <1>16, <2>1, <2>2, ConnKept DEF Open
<1>17. CASE Finish(c)
  <2>1. [k EXCEPT !.at = "closed"] \in ConnStates
    BY <1>1 DEF ConnStates, Places, Ends
  <2>. QED
    BY <1>17, <2>1, ConnKept DEF Finish
<1>. QED
  BY <1>4, <1>5, <1>6, <1>7, <1>8, <1>9, <1>10, <1>11, <1>12, <1>13, <1>14, <1>15,
     <1>16, <1>17 DEF ConnStep, PeekStep, RouteStep

LEMMA InitTyped ==
    ASSUME Init
    PROVE  TypeInv
<1>1. NewConn \in ConnStates
  BY BoundAssumption DEF NewConn, ConnStates, Places, Modes
<1>2. TypeOK
  BY <1>1, ListsAssumption DEF Init, TypeOK
<1>. QED
  BY <1>2 DEF Init, TypeInv, StepInv

LEMMA StepTyped ==
    ASSUME TypeInv, [Next]_vars
    PROVE  TypeInv'
<1>1. CASE UNCHANGED vars
  <2>1. TypeOK'
    BY <1>1 DEF TypeInv, TypeOK, vars, sessionVars, policyVars
  <2>2. StepInv'
    BY <1>1, StepKept DEF TypeInv, vars, sessionVars
  <2>. QED
    BY <2>1, <2>2 DEF TypeInv
<1>. QED
  BY <1>1, SessionTyped, PolicyTyped, ConnTyped DEF Next

\* The routers, the sessions and the policy keep their types.
THEOREM TypeCorrect == Spec => []TypeOK
<1>1. Spec => []TypeInv
  BY InitTyped, StepTyped, PTL DEF Spec
<1>. QED
  BY <1>1, PTL DEF TypeInv

-----------------------------------------------------------------------------
(* What the registries hold, by how far sessions and stop calls have come. *)

\* An entry of a task's tunnel that its teardown, if it has begun, has not passed.
Holds(s, r) ==
    \/ phase[s] \in {"register", "up"}
    \/ phase[s] = "teardown" /\ \A i \in 1..step[s] : Removed(Of[s])[i] # r

\* No other session or stop call of the tunnel is under way.
Alone(s) == \A u \in Tasks \ {s} : Of[u] = Of[s] => phase[u] = "down"

Calm(t) == t \notin mixed /\ \A s \in Tasks : Of[s] = t => phase[s] # "register"

\* Of every tunnel: what is entered is yet to be removed by someone.
HeldOf(t) ==
    /\ \A r \in Registries : <<r, t>> \in entries => \E s \in Tasks : Of[s] = t /\ Holds(s, r)
    /\ Custom[t] = None => \A r \in Registries \ Modes : <<r, t>> \notin entries

\* Of a tunnel whose sessions do not overlap: a session that registers or is up is
\* alone and has its entries, teardown has removed those it has passed.
StepOf(s) ==
    /\ phase[s] = "register" =>
          Alone(s) /\ \A i \in 1..step[s] : <<Inserted(Of[s])[i], Of[s]>> \in entries
    /\ phase[s] = "up" => Alone(s) /\ \A r \in Entered(Of[s]) : <<r, Of[s]>> \in entries
    /\ phase[s] = "teardown" => \A i \in 1..step[s] : <<Removed(Of[s])[i], Of[s]>> \notin entries

\* And unless one registers, its http entries are gone before its https entries.
HttpFirst(t) ==
    Calm(t) /\ Has(t, "https") =>
        /\ <<"https", t>> \notin entries => <<"http", t>> \notin entries
        /\ <<"custom_https", t>> \notin entries => <<"custom_http", t>> \notin entries

EntryInv ==
    /\ \A t \in Tunnels : HeldOf(t) /\ HttpFirst(t)
    /\ \A s \in Tasks : Of[s] \notin mixed => StepOf(s)

\* A step of other tunnels' tasks.
LEMMA TunnelKept ==
    ASSUME EntryInv, UNCHANGED modes, NEW t \in Tunnels, t \in mixed' <=> t \in mixed,
           \A u \in Tasks : Of[u] = t => phase'[u] = phase[u] /\ step'[u] = step[u],
           \A r : <<r, t>> \in entries' <=> <<r, t>> \in entries
    PROVE  /\ HeldOf(t)' /\ HttpFirst(t)'
           /\ \A s \in Tasks : Of[s] = t /\ t \notin mixed' => StepOf(s)'
<1>1. Inserted(t)' = Inserted(t) /\ Removed(t)' = Removed(t) /\ Entered(t)' = Entered(t)
  BY Fixed
<1>2. HeldOf(t)'
  <2>1. \A s \in Tasks : Of[s] = t => \A r : Holds(s, r) => Holds(s, r)'
    BY <1>1 DEF Holds
  <2>. QED
    BY <2>1 DEF EntryInv, HeldOf
<1>3. HttpFirst(t)'
  BY DEF EntryInv, HttpFirst, Calm, Has
<1>4. ASSUME NEW s \in Tasks, Of[s] = t, t \notin mixed'
      PROVE  StepOf(s)'
  <2>1. StepOf(s) /\ (Alone(s) => Alone(s)')
    BY <1>4 DEF EntryInv, Alone
  <2>. QED
    BY <1>1, <1>4, <2>1 DEF StepOf
<1>. QED
  BY <1>2, <1>3, <1>4

\* What is left to show of a step: the tunnel it is of.
LEMMA EntryLocal ==
    ASSUME EntryInv, UNCHANGED modes, NEW t \in Tunnels,
           \A u \in Tunnels \ {t} : u \in mixed' <=> u \in mixed,
           \A u \in Tasks : Of[u] # t => phase'[u] = phase[u] /\ step'[u] = step[u],
           \A u \in Tunnels \ {t} : \A r : <<r, u>> \in entries' <=> <<r, u>> \in entries,
           HeldOf(t)', HttpFirst(t)',
           \A s \in Tasks : Of[s] = t /\ t \notin mixed' => StepOf(s)'
    PROVE  EntryInv'
<1>1. ASSUME NEW u \in Tunnels
      PROVE  /\ HeldOf(u)' /\ HttpFirst(u)'
             /\ \A s \in Tasks : Of[s] = u /\ u \notin mixed' => StepOf(s)'
  <2>1. CASE u = t
    BY <2>1
  <2>2. CASE u # t
    BY <2>2, TunnelKept
  <2>. QED
    BY <2>1, <2>2
<1>2. \A s \in Tasks : Of[s] \in Tunnels
  BY OfTask
<1>. QED
  BY <1>1, <1>2 DEF EntryInv

LEMMA ConnectEntries ==
    ASSUME TypeInv, EntryInv, NEW s \in Tasks, Connect(s)
    PROVE  EntryInv'
<1>. DEFINE t == Of[s]
<1>0. t \in Tunnels
  BY OfTask
<1>1. /\ phase[s] = "down" /\ phase'[s] = "register" /\ step'[s] = 0
      /\ \A u \in Tasks \ {s} : phase'[u] = phase[u] /\ step'[u] = step[u]
  BY Moves
<1>2. UNCHANGED modes /\ entries' = entries
      /\ mixed' = IF Overlaps(s) THEN mixed \cup {t} ELSE mixed
  BY DEF Connect
<1>3. HeldOf(t)'
  <2>1. \A u \in Tasks : \A r : Holds(u, r) => Holds(u, r)'
    BY <1>0, <1>1, <1>2, Fixed, OfTask DEF Holds
  <2>. QED
    BY <1>0, <1>2, <2>1 DEF EntryInv, HeldOf
<1>4. HttpFirst(t)'
  BY <1>1 DEF HttpFirst, Calm
<1>5. ASSUME NEW u \in Tasks, Of[u] = t, t \notin mixed'
      PROVE  StepOf(u)'
  <2>1. \A v \in Tasks \ {s} : Of[v] = t => phase[v] = "down"
    BY <1>2, <1>5 DEF Overlaps
  <2>2. CASE u = s
    BY <1>1, <2>1, <2>2 DEF StepOf, Alone
  <2>3. CASE u # s
    BY <1>1, <1>5, <2>1, <2>3 DEF StepOf
  <2>. QED
    BY <2>2, <2>3
<1>. QED
  BY <1>0, <1>1, <1>2, <1>3, <1>4, <1>5, EntryLocal

LEMMA RegisterEntries ==
    ASSUME TypeInv, EntryInv, NEW s \in Tasks, Register(s)
    PROVE  EntryInv'
<1>. DEFINE t == Of[s]
            n == step[s] + 1
<1>0. t \in Tunnels
  BY OfTask
<1>1. /\ phase[s] = "register"
      /\ IF n = Len(Inserted(t)) THEN phase'[s] = "up" ELSE phase'[s] = "register" /\ step'[s] = n
      /\ \A u \in Tasks \ {s} : phase'[u] = phase[u] /\ step'[u] = step[u]
  BY Moves
<1>2. /\ UNCHANGED <<modes, mixed>>
      /\ entries' = entries \cup {<<Inserted(t)[n], t>>}
  BY DEF Register
<1>3. /\ n \in 1..Len(Inserted(t)) /\ step[s] \in Nat /\ Len(Inserted(t)) \in Nat
      /\ Inserted(t)[n] \in Entered(t)
      /\ \A r \in Entered(t) : \E i \in 1..Len(Inserted(t)) : Inserted(t)[i] = r
  BY <1>0, <1>1, InsertedList DEF TypeInv, TypeOK, StepInv
<1>4. HeldOf(t)'
  <2>1. \A r : Holds(s, r)'
    BY <1>1 DEF Holds
  <2>2. Custom[t] = None => \A r \in Registries \ Modes : <<r, t>> \notin entries'
    BY <1>0, <1>2, <1>3 DEF EntryInv, HeldOf, Entered
  <2>. QED
    BY <2>1, <2>2 DEF HeldOf
<1>5. ASSUME NEW u \in Tasks, Of[u] = t, t \notin mixed'
      PROVE  StepOf(u)'
  <2>1. StepOf(s) /\ Alone(s) /\ Alone(s)'
    BY <1>1, <1>2, <1>5 DEF EntryInv, StepOf, Alone
  <2>2. CASE u # s
    BY <1>1, <1>5, <2>1, <2>2 DEF Alone, StepOf
  <2>3. CASE u = s
    <3>1. \A i \in 1..n : <<Inserted(t)[i], t>> \in entries'
      BY <1>1, <1>2, <1>3, <2>1 DEF StepOf
    <3>2. CASE n = Len(Inserted(t))
      <4>1. \A r \in Entered(t) : <<r, t>> \in entries'
        BY <1>3, <3>1, <3>2
      <4>2. Entered(t)' = Entered(t)
        BY <1>0, <1>2, Fixed
      <4>. QED
        BY <1>1, <2>1, <2>3, <3>2, <4>1, <4>2 DEF StepOf
    <3>3. CASE n # Len(Inserted(t))
      <4>1. Inserted(t)' = Inserted(t)
        BY <1>0, <1>2, Fixed
      <4>. QED
        BY <1>1, <2>1, <2>3, <3>1, <3>3, <4>1 DEF StepOf
    <3>. QED
      BY <3>2, <3>3
  <2>. QED
    BY <2>2, <2>3
<1>6. HttpFirst(t)'
  <2>. SUFFICES ASSUME Calm(t)', Has(t, "https")
                PROVE  /\ <<"https", t>> \in entries'
                       /\ <<"custom_http", t>> \in entries' => <<"custom_https", t>> \in entries'
    BY <1>2 DEF HttpFirst, Has
  <2>1. phase'[s] = "up" /\ t \notin mixed'
    BY <1>1 DEF Calm
  <2>2. \A r \in Entered(t) : <<r, t>> \in entries'
    BY <1>0, <1>2, <1>5, <2>1, Fixed DEF StepOf
  <2>3. "https" \in Entered(t) /\ (Custom[t] # None => "custom_https" \in Entered(t))
    BY DEF Entered, Modes, CustomOf
  <2>4. Custom[t] = None => <<"custom_http", t>> \notin entries'
    BY <1>4 DEF HeldOf, Registries, Modes
  <2>. QED
    BY <2>2, <2>3, <2>4
<1>. QED
  BY <1>0, <1>1, <1>2, <1>4, <1>5, <1>6, EntryLocal

\* The session's agent goes, or a stop call finds it: nothing is entered or removed.
LEMMA EndEntries ==
    ASSUME TypeInv, EntryInv, NEW s \in Tasks, Lose(s) \/ \E o \in Stops : Stop(o, s)
    PROVE  EntryInv'
<1>. DEFINE t == Of[s]
<1>0. t \in Tunnels
  BY OfTask
<1>1. UNCHANGED <<modes, entries, mixed>>
  BY DEF Lose, Stop
<1>2. /\ phase[s] = "up" \/ (phase[s] = "teardown" /\ step[s] = 0)
      /\ phase'[s] = "teardown" /\ step'[s] = 0
      /\ \A u \in Tasks \ {s} :
            \/ phase'[u] = phase[u] /\ step'[u] = step[u]
            \/ Of[u] = t /\ phase[u] = "down" /\ phase'[u] = "teardown" /\ step'[u] = 0
  BY Moves
<1>3. HeldOf(t)'
  <2>1. \A u \in Tasks : \A r : Holds(u, r) => Holds(u, r)'
    BY <1>0, <1>1, <1>2, Fixed, OfTask DEF Holds
  <2>. QED
    BY <1>0, <1>1, <2>1 DEF EntryInv, HeldOf
<1>4. ASSUME NEW u \in Tasks, Of[u] = t, t \notin mixed
      PROVE  StepOf(u)'
  <2>1. StepOf(u) /\ (~Alone(u) \/ u = s)
    BY <1>2, <1>4 DEF EntryInv, Alone
  <2>2. CASE u = s
    BY <1>2, <2>2 DEF StepOf
  <2>3. CASE u # s /\ phase'[u] = phase[u] /\ step'[u] = step[u]
    <3>1. Removed(t)' = Removed(t) /\ phase[u] \notin {"register", "up"}
      BY <1>0, <1>1, <2>1, <2>3, Fixed DEF StepOf
    <3>. QED
      BY <1>1, <1>4, <2>1, <2>3, <3>1 DEF StepOf
  <2>4. CASE phase'[u] = "teardown" /\ step'[u] = 0
    BY <2>4 DEF StepOf
  <2>. QED
    BY <1>2, <2>2, <2>3, <2>4
<1>5. HttpFirst(t)'
  <2>. SUFFICES ASSUME Calm(t)', Has(t, "https")
                PROVE  Calm(t)
    BY <1>0, <1>1 DEF EntryInv, HttpFirst, Has
  <2>. QED
    BY <1>1, <1>2 DEF Calm
<1>. QED
  BY <1>0, <1>1, <1>2, <1>3, <1>4, <1>5, EntryLocal

LEMMA UnregisterEntries ==
    ASSUME TypeInv, EntryInv, NEW s \in Tasks, Unregister(s)
    PROVE  EntryInv'
<1>. DEFINE t == Of[s]
            n == step[s] + 1
<1>0. t \in Tunnels
  BY OfTask
<1>1. /\ phase[s] = "teardown"
      /\ IF n = Len(Removed(t)) THEN phase'[s] = "down"
         ELSE phase'[s] = "teardown" /\ step'[s] = n
      /\ \A u \in Tasks \ {s} : phase'[u] = phase[u] /\ step'[u] = step[u]
  BY Moves
<1>2. /\ UNCHANGED modes /\ entries' = entries \ {<<Removed(t)[n], t>>}
      /\ \/ mixed' = mixed
         \/ mixed' = mixed \ {t} /\ n = Len(Removed(t)) /\ ~Overlaps(s)
  BY DEF Unregister
<1>3. n \in 1..Len(Removed(t)) /\ step[s] \in Nat
  BY <1>0, <1>1, RemovedList DEF TypeInv, TypeOK, StepInv
<1>4. Removed(t)' = Removed(t)
  BY <1>0, <1>2, Fixed
<1>5. HeldOf(t)'
  <2>1. Custom[t] = None => \A r \in Registries \ Modes : <<r, t>> \notin entries'
    BY <1>0, <1>2 DEF EntryInv, HeldOf
  <2>2. ASSUME NEW r \in Registries, <<r, t>> \in entries'
        PROVE  \E u \in Tasks : Of[u] = t /\ Holds(u, r)'
    <3>1. r # Removed(t)[n] /\ <<r, t>> \in entries
      BY <1>2, <2>2
    <3>2. PICK u \in Tasks : Of[u] = t /\ Holds(u, r)
      BY <1>0, <3>1 DEF EntryInv, HeldOf
    <3>3. CASE u # s
      BY <1>1, <1>4, <3>2, <3>3 DEF Holds
    <3>4. CASE u = s
      <4>1. \A i \in 1..n : Removed(t)[i] # r
        BY <1>1, <1>3, <3>1, <3>2, <3>4 DEF Holds
      <4>2. CASE n = Len(Removed(t))
        <5>1. CASE Custom[t] = None
          BY <1>0, <2>1, <2>2, <4>1, <4>2, <5>1, RemovedList DEF Modes
        <5>2. CASE Custom[t] # None
          BY <1>0, <4>1, <4>2, <5>2, RemovedList DEF Registries
        <5>. QED
          BY <5>1, <5>2
      <4>3. CASE n # Len(Removed(t))
        BY <1>1, <1>4, <4>1, <4>3 DEF Holds
      <4>. QED
        BY <4>2, <4>3
    <3>. QED
      BY <3>3, <3>4
  <2>. QED
    BY <2>1, <2>2 DEF HeldOf
<1>6. CASE t \in mixed /\ t \notin mixed'
  <2>1. \A u \in Tasks : Of[u] = t => phase'[u] = "down"
    BY <1>1, <1>2, <1>6 DEF Overlaps
  <2>2. \A r \in Registries : <<r, t>> \notin entries'
    BY <1>5, <2>1 DEF HeldOf, Holds
  <2>3. HttpFirst(t)'
    BY <2>2 DEF HttpFirst, Registries
  <2>4. \A u \in Tasks : Of[u] = t => StepOf(u)'
    BY <2>1 DEF StepOf
  <2>. QED
    BY <1>0, <1>1, <1>2, <1>5, <2>3, <2>4, EntryLocal
<1>7. CASE t \in mixed /\ t \in mixed'
  BY <1>0, <1>1, <1>2, <1>5, <1>7, EntryLocal DEF HttpFirst, Calm
<1>8. CASE t \notin mixed
  <2>1. \A u \in Tasks : Of[u] = t => StepOf(u)
    BY <1>8 DEF EntryInv
  <2>2. ASSUME NEW u \in Tasks, Of[u] = t
        PROVE  phase[u] \notin {"register", "up"} /\ StepOf(u)'
    <3>1. phase[u] \notin {"register", "up"}
      BY <1>1, <2>1, <2>2 DEF StepOf, Alone
    <3>2. CASE u # s
      BY <1>1, <1>2, <1>4, <2>1, <2>2, <3>1, <3>2 DEF StepOf
    <3>3. CASE u = s
      <4>1. \A i \in 1..n : <<Removed(t)[i], t>> \notin entries'
        BY <1>1, <1>2, <1>3, <2>1 DEF StepOf
      <4>. QED
        BY <1>1, <1>4, <3>3, <4>1 DEF StepOf
    <3>. QED
      BY <3>1, <3>2, <3>3
  <2>3. HttpFirst(t)'
    <3>. SUFFICES ASSUME Has(t, "https")
                  PROVE  /\ <<"https", t>> \notin entries' => <<"http", t>> \notin entries'
                         /\ <<"custom_https", t>> \notin entries' => <<"custom_http", t>> \notin entries'
      BY <1>2 DEF HttpFirst, Has
    <3>1. /\ <<"https", t>> \notin entries => <<"http", t>> \notin entries
          /\ <<"custom_https", t>> \notin entries => <<"custom_http", t>> \notin entries
      BY <1>0, <1>8, <2>2 DEF EntryInv, HttpFirst, Calm
    <3>2. \A i \in 1..n : <<Removed(t)[i], t>> \notin entries'
      BY <1>1, <1>2, <1>3, <2>1 DEF StepOf
    <3>3. Removed(t)[n] = "https" => <<"http", t>> \notin entries'
      BY <1>0, <1>3, <3>2, RemovedList
    <3>4. Removed(t)[n] = "custom_https" => <<"custom_http", t>> \notin entries'
      <4>1. CASE Custom[t] = None
        BY <1>0, <1>5, <4>1 DEF HeldOf, Registries, Modes
      <4>2. CASE Custom[t] # None
        BY <1>0, <1>3, <3>2, <4>2, RemovedList
      <4>. QED
        BY <4>1, <4>2
    <3>. QED
      BY <1>2, <3>1, <3>3, <3>4
  <2>. QED
    BY <1>0, <1>1, <1>2, <1>5, <1>8, <2>2, <2>3, EntryLocal
<1>. QED
  BY <1>6, <1>7, <1>8

LEMMA EntryStep ==
    ASSUME TypeInv, EntryInv, SessionStep
    PROVE  EntryInv'
  BY ConnectEntries, RegisterEntries, EndEntries, UnregisterEntries DEF SessionStep, Tasks

LEMMA EntryAlways ==
    ASSUME TypeInv, EntryInv, [Next]_vars
    PROVE  EntryInv'
<1>1. CASE SessionStep
  BY <1>1, EntryStep
<1>2. CASE UNCHANGED sessionVars
  <2>1. UNCHANGED <<modes, phase, step, entries, mixed>>
    BY <1>2 DEF sessionVars
  <2>2. \A t \in Tunnels : /\ HeldOf(t)' /\ HttpFirst(t)'
                           /\ \A s \in Tasks : Of[s] = t /\ t \notin mixed' => StepOf(s)'
    BY <2>1, TunnelKept
  <2>. QED
    BY <2>2, OfTask DEF EntryInv
<1>3. PolicyStep \/ (\E d \in Hosts : CertIssued(d)) => UNCHANGED sessionVars
  BY DEF PolicyStep, Toggle, FetchGlobal, FetchTunnels, RefreshFails, StoreGlobal, StoreTunnels,
         CertIssued
<1>4. \A c \in Conns : ConnStep(c) => UNCHANGED sessionVars
  BY DEF ConnStep, Accept, PeekStep, ReadName, ReadOther, ReadMore, PeekFails, RouteStep,
         LookUpCustom, LookUpLabel, LookUpWildcard, LookUpAcme, CheckGlobal, CheckTunnel, Open,
         ReadHead, Finish, OnlyConn
<1>. QED
  BY <1>1, <1>2, <1>3, <1>4 DEF Next, vars

-----------------------------------------------------------------------------
(* A country that a list keeps.                                            *)

BlockConn(k) ==
    k.from => /\ k.at = "tunnel" => pulled /\ "global" \notin Kept
              /\ k.at \in {"open", "relay"} => Kept \cap {"global", k.to} = {}

BlockLists ==
    /\ Kept \subseteq blocked
    /\ pulled => Kept \subseteq node
    /\ refresh = "half" => Kept \cap {"global"} \subseteq copy
    /\ refresh \in {"fetched", "stored"} => Kept \subseteq copy
    /\ refresh = "stored" => Kept \cap {"global"} \subseteq node

BlockInv == BlockLists /\ \A c \in Conns : BlockConn(conn[c])

\* What a connection's step has to show.
LEMMA BlockBecomes ==
    ASSUME TypeInv, BlockInv, NEW c \in Conns, NEW k, Becomes(c, k), OnlyConn, BlockConn(k)
    PROVE  BlockInv'
  BY DEF BlockInv, BlockLists, BlockConn, Becomes, OnlyConn, policyVars, TypeInv, TypeOK

LEMMA BlockConnStep ==
    ASSUME TypeInv, BlockInv, NEW c \in Conns, ConnStep(c)
    PROVE  BlockInv'
<1>. DEFINE k == conn[c]
<1>1. k \in ConnStates /\ BlockConn(k) /\ (pulled => Kept \subseteq node) /\ pulled \in BOOLEAN
  BY DEF TypeInv, TypeOK, BlockInv, BlockLists
<1>2. CASE CheckGlobal(c)
  <2>. DEFINE m == [NewConn EXCEPT !.to = k.to]
              n == [m EXCEPT !.at = IF "global" \in node THEN "refused" ELSE "tunnel",
                             !.from = pulled]
  <2>1. Becomes(c, [m EXCEPT !.at = "open"]) \/ Becomes(c, n)
    BY <1>2 DEF CheckGlobal
  <2>2. BlockConn([m EXCEPT !.at = "open"])
    BY DEF BlockConn, NewConn
  <2>3. BlockConn(n)
    BY <1>1 DEF BlockConn, NewConn
  <2>. QED
    BY <1>2, <2>1, <2>2, <2>3, BlockBecomes DEF CheckGlobal
<1>3. CASE CheckTunnel(c)
  <2>. DEFINE n == [k EXCEPT !.at = IF k.to \in node THEN "refused" ELSE "open"]
  <2>1. Becomes(c, n) /\ OnlyConn /\ k.at = "tunnel"
    BY <1>3 DEF CheckTunnel
  <2>2. BlockConn(n)
    BY <1>1, <2>1 DEF BlockConn, ConnStates
  <2>. QED
    BY <2>1, <2>2, BlockBecomes
<1>4. CASE Open(c)
  <2>1. PICK a \in {"relay", "closed"} : Becomes(c, [k EXCEPT !.at = a])
    BY <1>4 DEF Open
  <2>2. BlockConn([k EXCEPT !.at = a])
    BY <1>1, <1>4 DEF BlockConn, ConnStates, Open
  <2>. QED
    BY <1>4, <2>1, <2>2, BlockBecomes DEF Open
<1>5. ASSUME OnlyConn, NEW n, Becomes(c, n), n.at \notin {"tunnel", "open", "relay"}
      PROVE  BlockInv'
  BY <1>5, BlockBecomes DEF BlockConn
<1>6. CASE \E port \in Modes : Accept(c, port)
  <2>1. PICK port \in Modes : Becomes(c, [k EXCEPT !.at = "peek", !.port = port]) /\ OnlyConn
    BY <1>6 DEF Accept
  <2>2. [k EXCEPT !.at = "peek", !.port = port].at = "peek"
    BY <1>1 DEF ConnStates
  <2>. QED
    BY <1>5, <2>1, <2>2
<1>7. CASE ReadName(c)
  <2>1. PICK h \in Hosts : Becomes(c, Named(k, h))
    BY <1>7 DEF ReadName
  <2>2. Named(k, h).at \in {"dashboard", "custom"}
    BY <1>1 DEF Named, ConnStates
  <2>. QED
    BY <1>5, <1>7, <2>1, <2>2 DEF ReadName
<1>8. CASE ReadOther(c)
  <2>1. PICK end \in {"bad", "challenge"} : Becomes(c, [k EXCEPT !.at = end, !.reads = 0])
    BY <1>8 DEF ReadOther
  <2>2. [k EXCEPT !.at = end, !.reads = 0].at = end
    BY <1>1 DEF ConnStates
  <2>. QED
    BY <1>5, <1>8, <2>1, <2>2 DEF ReadOther
<1>9. CASE ReadMore(c)
  <2>. DEFINE m == [k EXCEPT !.reads = @ + 1]
              n == IF m.reads < MaxReads THEN m ELSE [m EXCEPT !.at = "bad", !.reads = 0]
  <2>1. Becomes(c, n) /\ OnlyConn /\ k.at = "peek"
    BY <1>9 DEF ReadMore
  <2>2. n.at \in {"peek", "bad"}
    BY <1>1, <2>1 DEF ConnStates
  <2>. HIDE DEF n
  <2>. QED
    BY <1>5, <2>1, <2>2
<1>10. CASE PeekFails(c)
  <2>1. [k EXCEPT !.at = "closed", !.reads = 0].at = "closed"
    BY <1>1 DEF ConnStates
  <2>. QED
    BY <1>5, <1>10, <2>1 DEF PeekFails
<1>11. ASSUME NEW t, NEW a \in {"label", "wildcard", "acme", "unknown"},
              NEW n \in {Routed(k, t), [k EXCEPT !.at = a]}
       PROVE  n.at \notin {"tunnel", "open", "relay"}
  BY <1>1, <1>11 DEF Routed, ConnStates
<1>12. CASE LookUpCustom(c)
  <2>1. \E n \in {Routed(k, Find(CustomOf[k.port], k.name)), [k EXCEPT !.at = "label"]} :
           Becomes(c, n)
    BY <1>12 DEF LookUpCustom
  <2>. QED
    BY <1>5, <1>11, <1>12, <2>1 DEF LookUpCustom
<1>13. CASE LookUpLabel(c)
  <2>1. \E a \in {"unknown", "wildcard"} :
           \E n \in {Routed(k, Find(k.port, k.name)), [k EXCEPT !.at = a]} : Becomes(c, n)
    BY <1>13 DEF LookUpLabel
  <2>. QED
    BY <1>5, <1>11, <1>13, <2>1 DEF LookUpLabel
<1>14. ASSUME NEW t, NEW v
       PROVE  [k EXCEPT !.at = "head", !.to = t, !.via = v].at = "head"
  BY <1>1 DEF ConnStates
<1>15. CASE LookUpWildcard(c)
  <2>1. \/ \E t : Becomes(c, [k EXCEPT !.at = "head", !.to = t, !.via = "wildcard"])
        \/ \E a \in {"acme", "unknown"} : Becomes(c, [k EXCEPT !.at = a])
    BY <1>15 DEF LookUpWildcard
  <2>. QED
    BY <1>5, <1>11, <1>14, <1>15, <2>1 DEF LookUpWildcard
<1>16. CASE LookUpAcme(c)
  <2>1. \/ \E t : Becomes(c, [k EXCEPT !.at = "head", !.to = t, !.via = "acme"])
        \/ Becomes(c, [k EXCEPT !.at = "unknown"])
    BY <1>16 DEF LookUpAcme
  <2>. QED
    BY <1>5, <1>11, <1>14, <1>16, <2>1 DEF LookUpAcme
<1>17. CASE ReadHead(c) \/ Finish(c)
  <2>1. PICK a \in {"global", "closed"} : Becomes(c, [k EXCEPT !.at = a])
    BY <1>17 DEF ReadHead, Finish
  <2>2. [k EXCEPT !.at = a].at = a
    BY <1>1 DEF ConnStates
  <2>. QED
    BY <1>5, <1>17, <2>1, <2>2 DEF ReadHead, Finish
<1>. QED
  BY <1>2, <1>3, <1>4, <1>6, <1>7, <1>8, <1>9, <1>10, <1>12, <1>13, <1>15, <1>16, <1>17
     DEF ConnStep, PeekStep, RouteStep

LEMMA BlockStep ==
    ASSUME TypeInv, BlockInv, [Next]_vars
    PROVE  BlockInv'
<1>1. Kept \cap Toggled = {}
  BY ListsAssumption
<1>2. CASE PolicyStep
  <2>1. UNCHANGED conn /\ (pulled => pulled') /\ BlockLists'
    BY <1>1, <1>2 DEF PolicyStep, Toggle, FetchGlobal, FetchTunnels, RefreshFails, StoreGlobal,
                      StoreTunnels, BlockInv, BlockLists
  <2>. QED
    BY <2>1 DEF BlockInv, BlockConn
<1>3. CASE SessionStep
  <2>1. BlockLists'
    BY <1>3 DEF SessionStep, Connect, Register, Lose, Stop, Unregister, policyVars, BlockInv,
                BlockLists
  <2>2. pulled' = pulled
    BY <1>3 DEF SessionStep, Connect, Register, Lose, Stop, Unregister, policyVars
  <2>3. (\E t : NotFresh(t) \/ NotSteady(t)) \/ conn' = conn
    BY <1>3 DEF SessionStep, Connect, Register, Lose, Stop, Unregister
  <2>4. \A c \in Conns : /\ conn'[c].from = conn[c].from
                         /\ conn'[c].at = conn[c].at /\ conn'[c].to = conn[c].to
    BY <2>3, MarksGo DEF TypeInv
  <2>. QED
    BY <2>1, <2>2, <2>4 DEF BlockInv, BlockConn
<1>4. ASSUME NEW d \in Hosts, CertIssued(d)
      PROVE  BlockInv'
  BY <1>4 DEF CertIssued, policyVars, BlockInv, BlockLists, BlockConn
<1>5. CASE UNCHANGED vars
  BY <1>5 DEF vars, policyVars, BlockInv, BlockLists, BlockConn
<1>. QED
  BY <1>2, <1>3, <1>4, <1>5, BlockConnStep DEF Next

\* A country that a list keeps never gets through once a refresh of the node's lists
\* has succeeded, whatever later ones are doing and whatever becomes of other lists.
THEOREM BlockedAlways == Spec => []BlockedRefused
<1>1. Init => BlockInv
  BY DEF Init, BlockInv, BlockLists, BlockConn, NewConn
<1>2. BlockInv => BlockedRefused
  BY DEF BlockInv, BlockConn, BlockedRefused
<1>3. Spec => [](TypeInv /\ BlockInv)
  BY <1>1, InitTyped, StepTyped, BlockStep, PTL DEF Spec
<1>. QED
  BY <1>2, <1>3, PTL

-----------------------------------------------------------------------------
(* What a connection knows after each look-up.                             *)

PlaceOk(k) ==
    /\ k.at \in {"new", "peek"} \cup LookUps => k.via = None /\ k.to = None
    /\ k.at \in LookUps => k.name # None
    /\ k.at \in {"wildcard", "acme"} => k.port = "https"

\* Of a tunnel that was up and has not registered anew: when the https entry was
\* not found the http entry, which is removed first, is not there either.
FreshOk(k, t) ==
    /\ Calm(t)
    /\ Has(t, "https") /\ k.port = "https" =>
          /\ k.at \in {"label", "wildcard", "acme"} /\ Custom[t] = k.name =>
                <<"custom_http", t>> \notin entries
          /\ k.at \in {"wildcard", "acme"} /\ Sub[t] = Label[k.name] => <<"http", t>> \notin entries
    /\ k.via \in {"wildcard", "acme"} /\ k.to = t => ~Has(t, "https")

\* A tunnel that is up and whose sessions do not overlap.
IsUp(t) == t \notin mixed /\ \E s \in Tasks : Of[s] = t /\ phase[s] = "up"

\* Of a tunnel that is up all along: what serves the name has been found.
SteadyOk(k, t) ==
    /\ IsUp(t)
    /\ Has(t, k.port) =>
          /\ k.at \in {"label", "wildcard", "acme", "unknown"} => Custom[t] # k.name
          /\ k.at \in {"wildcard", "acme", "unknown"} => Sub[t] # Label[k.name]
          /\ Serves(t, k) => /\ k.via \notin {"wildcard", "acme"}
                             /\ k.to \in {None, t} \/ Custom[k.to] = k.name

ConnOk(k) ==
    /\ PlaceOk(k)
    /\ \A t \in k.fresh : FreshOk(k, t)
    /\ \A t \in k.steady : SteadyOk(k, t)

ConnInv == \A c \in Conns : ConnOk(conn[c])

\* What look-ups rely on: the entries of a tunnel that is up, and those of one
\* that may be gone but is not on its way up.
LEMMA Entries ==
    ASSUME TypeInv, EntryInv, NEW t \in Tunnels
    PROVE  /\ IsUp(t) => Calm(t)
           /\ IsUp(t) /\ Has(t, "http") => <<"http", t>> \in entries
           /\ IsUp(t) /\ Has(t, "https") => <<"https", t>> \in entries
           /\ IsUp(t) /\ Has(t, "http") /\ Custom[t] # None => <<"custom_http", t>> \in entries
           /\ IsUp(t) /\ Has(t, "https") /\ Custom[t] # None => <<"custom_https", t>> \in entries
           /\ Calm(t) /\ Has(t, "https") /\ <<"https", t>> \notin entries =>
                 <<"http", t>> \notin entries
           /\ Calm(t) /\ Has(t, "https") /\ <<"custom_https", t>> \notin entries =>
                 <<"custom_http", t>> \notin entries
<1>1. /\ Has(t, "http") => "http" \in Entered(t)
      /\ Has(t, "https") => "https" \in Entered(t)
      /\ Has(t, "http") /\ Custom[t] # None => "custom_http" \in Entered(t)
      /\ Has(t, "https") /\ Custom[t] # None => "custom_https" \in Entered(t)
  BY DEF Entered, Modes, CustomOf
<1>2. HttpFirst(t)
  BY DEF EntryInv
<1>3. ASSUME IsUp(t)
      PROVE  Calm(t) /\ \A r \in Entered(t) : <<r, t>> \in entries
  <2>1. PICK s \in Tasks : Of[s] = t /\ phase[s] = "up" /\ t \notin mixed
    BY <1>3 DEF IsUp
  <2>2. Alone(s) /\ \A r \in Entered(t) : <<r, t>> \in entries
    BY <2>1 DEF EntryInv, StepOf
  <2>3. Calm(t)
    BY <2>1, <2>2 DEF Calm, Alone
  <2>. QED
    BY <2>2, <2>3
<1>. QED
  BY <1>1, <1>2, <1>3 DEF HttpFirst

\* A step of a connection: the sessions stay as they are.
LEMMA ConnBecomes ==
    ASSUME TypeInv, ConnInv, NEW c \in Conns, NEW k \in ConnStates, Becomes(c, k), OnlyConn,
           ConnOk(k)
    PROVE  ConnInv'
<1>1. \A d \in Conns : ConnOk(conn'[d])
  BY DEF ConnInv, Becomes, TypeInv, TypeOK
<1>2. ASSUME NEW d \in Conns
      PROVE  ConnOk(conn[d])'
  BY <1>1 DEF ConnOk, PlaceOk, FreshOk, SteadyOk, Calm, IsUp, Has, Serves, OnlyConn, sessionVars
<1>. QED
  BY <1>2 DEF ConnInv

\* A step of a session: what the connection came with stays, its marks shrink.
LEMMA ConnUnder ==
    ASSUME UNCHANGED modes, NEW c \in Conns, NEW k, NEW n, k = conn[c], n = conn'[c],
           n.at = k.at, n.port = k.port, n.name = k.name, n.to = k.to, n.via = k.via,
           n.fresh \subseteq k.fresh, n.steady \subseteq k.steady,
           \A t \in n.fresh : Calm(t)' /\ \A r : <<r, t>> \in entries' => <<r, t>> \in entries,
           \A t \in n.steady : IsUp(t)',
           ConnOk(k)
    PROVE  ConnOk(conn[c])'
<1>1. PlaceOk(n)
  BY DEF ConnOk, PlaceOk
<1>2. ASSUME NEW t \in n.fresh
      PROVE  FreshOk(conn[c], t)'
  <2>1. /\ FreshOk(k, t) /\ Calm(t)'
        /\ <<"http", t>> \in entries' => <<"http", t>> \in entries
        /\ <<"custom_http", t>> \in entries' => <<"custom_http", t>> \in entries
    BY DEF ConnOk
  <2>2. Has(t, "https")' <=> Has(t, "https")
    BY DEF Has
  <2>. QED
    BY <2>1, <2>2 DEF FreshOk
<1>3. \A t \in n.steady : SteadyOk(conn[c], t)'
  BY DEF ConnOk, SteadyOk, Has, Serves
<1>. QED
  BY <1>1, <1>2, <1>3 DEF ConnOk, PlaceOk

LEMMA ConnSession ==
    ASSUME TypeInv, ConnInv, SessionStep
    PROVE  ConnInv'
<1>. SUFFICES ASSUME NEW c \in Conns PROVE ConnOk(conn[c])'
  BY DEF ConnInv
<1>. DEFINE k == conn[c]
<1>1. k \in ConnStates /\ ConnOk(k) /\ UNCHANGED modes
  BY DEF TypeInv, TypeOK, ConnInv, SessionStep, Connect, Register, Lose, Stop, Unregister
<1>2. \A t \in k.fresh : t \in Tunnels /\ Calm(t)
  BY <1>1 DEF ConnStates, ConnOk, FreshOk
<1>3. \A t \in k.steady : t \in Tunnels /\ IsUp(t)
  BY <1>1 DEF ConnStates, ConnOk, SteadyOk
<1>4. ASSUME NEW s \in Tasks, Connect(s)
      PROVE  ConnOk(conn[c])'
  <2>1. \A u \in Tasks : Of[u] # Of[s] => phase'[u] = phase[u]
    BY <1>4, Moves
  <2>2. entries' = entries /\ mixed' \subseteq mixed \cup {Of[s]} /\ NotFresh(Of[s])
    BY <1>4 DEF Connect
  <2>3. /\ conn'[c].fresh = k.fresh \ {Of[s]} /\ conn'[c].steady = k.steady \ {Of[s]}
        /\ conn'[c].at = k.at /\ conn'[c].port = k.port /\ conn'[c].name = k.name
        /\ conn'[c].to = k.to /\ conn'[c].via = k.via
    BY <2>2, MarksGo DEF TypeInv
  <2>4. \A t \in conn'[c].fresh : Calm(t)'
    BY <1>2, <2>1, <2>2, <2>3 DEF Calm
  <2>5. \A t \in conn'[c].steady : IsUp(t)'
    BY <1>3, <2>1, <2>2, <2>3 DEF IsUp
  <2>6. conn'[c].fresh \subseteq k.fresh /\ conn'[c].steady \subseteq k.steady
    BY <2>3
  <2>. QED
    BY <1>1, <2>2, <2>3, <2>4, <2>5, <2>6, ConnUnder
<1>5. ASSUME NEW s \in Tasks, Register(s)
      PROVE  ConnOk(conn[c])'
  <2>1. phase[s] = "register" /\ \A u \in Tasks \ {s} : phase'[u] = phase[u]
    BY <1>5, Moves
  <2>2. /\ mixed' = mixed /\ conn' = conn
        /\ \A t \in Tunnels \ {Of[s]} : \A r : <<r, t>> \in entries' => <<r, t>> \in entries
    BY <1>5 DEF Register
  <2>3. \A t \in k.fresh : Calm(t)' /\ \A r : <<r, t>> \in entries' => <<r, t>> \in entries
    BY <1>2, <2>1, <2>2 DEF Calm
  <2>4. \A t \in k.steady : IsUp(t)'
    BY <1>3, <2>1, <2>2 DEF IsUp
  <2>. QED
    BY <1>1, <2>2, <2>3, <2>4, ConnUnder
<1>6. ASSUME NEW s \in Tasks, Lose(s) \/ \E o \in Stops : Stop(o, s)
      PROVE  ConnOk(conn[c])'
  <2>1. \A u \in Tasks : phase'[u] = phase[u] \/ (Of[u] = Of[s] /\ phase'[u] = "teardown")
    BY <1>6, Moves
  <2>2. entries' = entries /\ mixed' = mixed /\ NotSteady(Of[s])
    BY <1>6 DEF Lose, Stop
  <2>3. /\ conn'[c].fresh \subseteq k.fresh /\ conn'[c].steady = k.steady \ {Of[s]}
        /\ conn'[c].at = k.at /\ conn'[c].port = k.port /\ conn'[c].name = k.name
        /\ conn'[c].to = k.to /\ conn'[c].via = k.via
    <3>1. conn'[c].fresh = IF NotFresh(Of[s]) THEN k.fresh \ {Of[s]} ELSE k.fresh
      BY <2>2, MarksGo DEF TypeInv
    <3>2. conn'[c].fresh \subseteq k.fresh
      BY <3>1
    <3>. QED
      BY <2>2, <3>2, MarksGo DEF TypeInv
  <2>4. \A t \in conn'[c].fresh : Calm(t)'
    BY <1>2, <2>1, <2>2, <2>3 DEF Calm
  <2>5. \A t \in conn'[c].steady : IsUp(t)'
    BY <1>3, <2>1, <2>2, <2>3 DEF IsUp
  <2>6. conn'[c].steady \subseteq k.steady
    BY <2>3
  <2>. QED
    BY <1>1, <2>2, <2>3, <2>4, <2>5, <2>6, ConnUnder
<1>7. ASSUME NEW s \in Tasks, Unregister(s)
      PROVE  ConnOk(conn[c])'
  <2>1. /\ phase[s] = "teardown" /\ phase'[s] \in {"teardown", "down"}
        /\ \A u \in Tasks \ {s} : phase'[u] = phase[u]
    BY <1>7, Moves
  <2>2. conn' = conn /\ entries' \subseteq entries /\ mixed' \subseteq mixed
    BY <1>7 DEF Unregister
  <2>3. \A t \in k.fresh : Calm(t)'
    BY <1>2, <2>1, <2>2 DEF Calm
  <2>4. \A t \in k.steady : IsUp(t)'
    BY <1>3, <2>1, <2>2 DEF IsUp
  <2>. QED
    BY <1>1, <2>2, <2>3, <2>4, ConnUnder
<1>. QED
  BY <1>4, <1>5, <1>6, <1>7 DEF SessionStep, Tasks

-----------------------------------------------------------------------------
(* The look-ups, one by one.                                               *)

\* A connection that goes on to a place where nothing more is asked of it.
LEMMA Moved ==
    ASSUME NEW k \in ConnStates, ConnOk(k), NEW a, a \notin LookUps \cup {"new", "peek", "unknown"}
    PROVE  ConnOk([k EXCEPT !.at = a])
  BY DEF ConnOk, PlaceOk, FreshOk, SteadyOk, Serves, ConnStates, LookUps

LEMMA CustomKnown ==
    ASSUME TypeInv, EntryInv, ConnInv, NEW c \in Conns, LookUpCustom(c)
    PROVE  ConnInv'
<1>. DEFINE k == conn[c]
            t == Find(CustomOf[k.port], k.name)
            n == IF t # None THEN Routed(k, t) ELSE [k EXCEPT !.at = "label"]
<1>1. /\ k \in ConnStates /\ ConnOk(k) /\ k.at = "custom" /\ k.name # None
      /\ k.via = None /\ k.to = None /\ k.port \in {"http", "https"}
  BY DEF LookUpCustom, TypeInv, TypeOK, ConnInv, ConnOk, PlaceOk, LookUps, ConnStates, Modes
<1>2. Becomes(c, n) /\ OnlyConn
  BY DEF LookUpCustom
<1>3. CustomOf[k.port] \in Registries \ Modes
  BY <1>1 DEF CustomOf, Registries, Modes
<1>4. CASE t # None
  <2>1. t \in Tunnels /\ Custom[t] = k.name
    BY <1>3, <1>4, Found
  <2>2. Routed(k, t) \in ConnStates
    BY <1>1, <2>1, RoutedTyped
  <2>3. ConnOk(Routed(k, t))
    BY <1>1, <2>1 DEF Routed, ConnStates, ConnOk, PlaceOk, FreshOk, SteadyOk, Serves, LookUps
  <2>. QED
    BY <1>2, <1>4, <2>2, <2>3, ConnBecomes
<1>5. CASE t = None
  <2>. DEFINE m == [k EXCEPT !.at = "label"]
  <2>1. \A u \in Tunnels : Custom[u] = k.name => <<CustomOf[k.port], u>> \notin entries
    BY <1>3, <1>5, Found
  <2>2. /\ m \in ConnStates /\ m.at = "label" /\ m.fresh = k.fresh /\ m.steady = k.steady
        /\ m.port = k.port /\ m.name = k.name /\ m.to = k.to /\ m.via = k.via
    BY <1>1 DEF ConnStates, Places, LookUps
  <2>. HIDE DEF m
  <2>3. \A u \in m.fresh : FreshOk(m, u)
    <3>. SUFFICES ASSUME NEW u \in m.fresh PROVE FreshOk(m, u)
      OBVIOUS
    <3>1. u \in Tunnels /\ Calm(u)
      BY <1>1, <2>2 DEF ConnStates, ConnOk, FreshOk
    <3>2. ASSUME Has(u, "https"), m.port = "https", Custom[u] = m.name
          PROVE  <<"custom_http", u>> \notin entries
      <4>1. <<"custom_https", u>> \notin entries /\ Custom[u] # None
        BY <1>1, <2>1, <2>2, <3>1, <3>2 DEF CustomOf
      <4>. QED
        BY <3>1, <3>2, <4>1, Entries
    <3>. QED
      BY <1>1, <2>2, <3>1, <3>2, NamesAssumption DEF FreshOk
  <2>4. \A u \in m.steady : SteadyOk(m, u)
    <3>. SUFFICES ASSUME NEW u \in m.steady PROVE SteadyOk(m, u)
      OBVIOUS
    <3>1. u \in Tunnels /\ IsUp(u)
      BY <1>1, <2>2 DEF ConnStates, ConnOk, SteadyOk
    <3>2. ASSUME Has(u, m.port), Custom[u] = m.name
          PROVE  FALSE
      <4>1. <<CustomOf[m.port], u>> \notin entries /\ Custom[u] # None
        BY <1>1, <2>1, <2>2, <3>1, <3>2
      <4>2. CASE m.port = "http"
        <5>1. Has(u, "http") /\ <<"custom_http", u>> \notin entries
          BY <3>2, <4>1, <4>2 DEF CustomOf
        <5>. QED
          BY <3>1, <4>1, <5>1, Entries
      <4>3. CASE m.port = "https"
        <5>1. Has(u, "https") /\ <<"custom_https", u>> \notin entries
          BY <3>2, <4>1, <4>3 DEF CustomOf
        <5>. QED
          BY <3>1, <4>1, <5>1, Entries
      <4>. QED
        BY <1>1, <2>2, <4>2, <4>3
    <3>. QED
      BY <1>1, <2>2, <3>1, <3>2, NamesAssumption DEF SteadyOk, Vias
  <2>5. PlaceOk(m)
    BY <1>1, <2>2 DEF PlaceOk
  <2>6. ConnOk(m) /\ Becomes(c, m)
    BY <1>2, <1>5, <2>3, <2>4, <2>5 DEF ConnOk, m
  <2>. QED
    BY <1>2, <2>2, <2>6, ConnBecomes
<1>. QED
  BY <1>4, <1>5

LEMMA LabelKnown ==
    ASSUME TypeInv, EntryInv, ConnInv, NEW c \in Conns, LookUpLabel(c)
    PROVE  ConnInv'
<1>. DEFINE k == conn[c]
            t == Find(k.port, k.name)
            m == [k EXCEPT !.at = IF k.port = "http" THEN "unknown" ELSE "wildcard"]
            n == IF t # None THEN Routed(k, t) ELSE m
<1>1. /\ k \in ConnStates /\ ConnOk(k) /\ k.at = "label" /\ k.name # None
      /\ k.via = None /\ k.to = None /\ k.port \in {"http", "https"}
  BY DEF LookUpLabel, TypeInv, TypeOK, ConnInv, ConnOk, PlaceOk, LookUps, ConnStates, Modes
<1>2. Becomes(c, n) /\ OnlyConn
  BY DEF LookUpLabel
<1>3. k.port \in Registries /\ k.port \in Modes
  BY <1>1 DEF Registries, Modes
<1>4. CASE t # None
  <2>1. t \in Tunnels /\ Sub[t] = Label[k.name]
    BY <1>3, <1>4, Found
  <2>2. Routed(k, t) \in ConnStates
    BY <1>1, <2>1, RoutedTyped
  <2>3. \A u \in k.steady : Serves(u, k) => u = t
    <3>. SUFFICES ASSUME NEW u \in k.steady, Serves(u, k) PROVE u = t
      OBVIOUS
    <3>1. u \in Tunnels /\ Custom[u] # k.name
      BY <1>1 DEF ConnStates, ConnOk, SteadyOk, Serves, Has
    <3>. QED
      BY <2>1, <3>1, NamesAssumption DEF Serves
  <2>. DEFINE m2 == Routed(k, t)
  <2>4. /\ m2.at \in {"head", "global"} /\ m2.via \in {"http", "passthrough"} /\ m2.to = t
        /\ m2.port = k.port /\ m2.name = k.name /\ m2.fresh = k.fresh /\ m2.steady = k.steady
    BY <1>1 DEF Routed, ConnStates
  <2>. HIDE DEF m2
  <2>5. PlaceOk(m2)
    BY <2>4 DEF PlaceOk, LookUps
  <2>6. \A u \in m2.fresh : FreshOk(m2, u)
    BY <1>1, <2>4 DEF ConnOk, FreshOk
  <2>7. \A u \in m2.steady : SteadyOk(m2, u)
    BY <1>1, <2>3, <2>4 DEF ConnOk, SteadyOk, Serves
  <2>8. ConnOk(m2) /\ Becomes(c, m2) /\ m2 \in ConnStates
    BY <1>2, <1>4, <2>2, <2>5, <2>6, <2>7 DEF ConnOk, m2
  <2>. QED
    BY <1>2, <2>8, ConnBecomes
<1>5. CASE t = None
  <2>1. \A u \in Tunnels : Sub[u] = Label[k.name] => <<k.port, u>> \notin entries
    BY <1>3, <1>5, NamesAssumption DEF Find
  <2>2. /\ m \in ConnStates /\ m.at = IF k.port = "http" THEN "unknown" ELSE "wildcard"
        /\ m.fresh = k.fresh /\ m.steady = k.steady
        /\ m.port = k.port /\ m.name = k.name /\ m.to = k.to /\ m.via = k.via
    BY <1>1 DEF ConnStates, Places, LookUps, Ends
  <2>. HIDE DEF m
  <2>3. \A u \in m.fresh : FreshOk(m, u)
    <3>. SUFFICES ASSUME NEW u \in m.fresh PROVE FreshOk(m, u)
      OBVIOUS
    <3>1. u \in Tunnels /\ FreshOk(k, u) /\ Calm(u)
      BY <1>1, <2>2 DEF ConnStates, ConnOk, FreshOk
    <3>2. Has(u, "https") /\ m.port = "https" /\ Sub[u] = Label[m.name] =>
             <<"http", u>> \notin entries
      BY <1>1, <2>1, <2>2, <3>1, Entries
    <3>. QED
      BY <1>1, <2>2, <3>1, <3>2 DEF FreshOk
  <2>4. \A u \in m.steady : SteadyOk(m, u)
    <3>. SUFFICES ASSUME NEW u \in m.steady PROVE SteadyOk(m, u)
      OBVIOUS
    <3>1. u \in Tunnels /\ IsUp(u) /\ SteadyOk(k, u)
      BY <1>1, <2>2 DEF ConnStates, ConnOk, SteadyOk
    <3>2. Has(u, m.port) => Sub[u] # Label[m.name]
      BY <1>1, <2>1, <2>2, <3>1, Entries
    <3>. QED
      BY <1>1, <2>2, <3>1, <3>2, NamesAssumption DEF SteadyOk, Vias
  <2>5. PlaceOk(m)
    BY <1>1, <2>2 DEF PlaceOk
  <2>6. ConnOk(m) /\ Becomes(c, m)
    BY <1>2, <1>5, <2>3, <2>4, <2>5 DEF ConnOk, m
  <2>. QED
    BY <1>2, <2>2, <2>6, ConnBecomes
<1>. QED
  BY <1>4, <1>5

LEMMA TlsKnown ==
    ASSUME TypeInv, ConnInv, NEW c \in Conns, LookUpWildcard(c) \/ LookUpAcme(c)
    PROVE  ConnInv'
<1>. DEFINE k == conn[c]
<1>1. /\ k \in ConnStates /\ ConnOk(k) /\ k.at \in {"wildcard", "acme"} /\ k.name # None
      /\ k.via = None /\ k.to = None /\ k.port = "https" /\ OnlyConn
  BY DEF LookUpWildcard, LookUpAcme, TypeInv, TypeOK, ConnInv, ConnOk, PlaceOk, LookUps
<1>2. ASSUME NEW a \in {"acme", "unknown"}, Becomes(c, [k EXCEPT !.at = a])
      PROVE  ConnInv'
  <2>. DEFINE m == [k EXCEPT !.at = a]
  <2>1. /\ m \in ConnStates /\ m.at = a /\ m.fresh = k.fresh /\ m.steady = k.steady
        /\ m.port = k.port /\ m.name = k.name /\ m.to = k.to /\ m.via = k.via
    BY <1>1 DEF ConnStates, Places, LookUps, Ends
  <2>2. Becomes(c, m)
    BY <1>2
  <2>. HIDE DEF m
  <2>3. \A u \in m.fresh : FreshOk(m, u)
    BY <1>1, <2>1 DEF ConnOk, FreshOk
  <2>4. \A u \in m.steady : SteadyOk(m, u)
    BY <1>1, <2>1 DEF ConnOk, SteadyOk, Serves
  <2>5. ConnOk(m)
    BY <1>1, <2>1, <2>3, <2>4 DEF ConnOk, PlaceOk
  <2>. QED
    BY <1>1, <2>1, <2>2, <2>5, ConnBecomes
<1>3. ASSUME NEW t \in Tunnels, NEW v \in {"wildcard", "acme"},
             Becomes(c, [k EXCEPT !.at = "head", !.to = t, !.via = v]),
             t \in k.fresh => ~Has(t, "https")
      PROVE  ConnInv'
  <2>. DEFINE m == [k EXCEPT !.at = "head", !.to = t, !.via = v]
  <2>1. /\ m \in ConnStates /\ m.at = "head" /\ m.fresh = k.fresh /\ m.steady = k.steady
        /\ m.port = k.port /\ m.name = k.name /\ m.to = t /\ m.via = v
    BY <1>1 DEF ConnStates, Places, Vias
  <2>2. Becomes(c, m)
    BY <1>3
  <2>. HIDE DEF m
  <2>3. \A u \in m.fresh : FreshOk(m, u)
    BY <1>1, <1>3, <2>1 DEF ConnOk, FreshOk
  <2>4. \A u \in m.steady : SteadyOk(m, u)
    <3>. SUFFICES ASSUME NEW u \in m.steady PROVE SteadyOk(m, u)
      OBVIOUS
    <3>1. SteadyOk(k, u)
      BY <1>1, <2>1 DEF ConnOk
    <3>2. ~Serves(u, m)
      BY <1>1, <2>1, <3>1 DEF SteadyOk, Serves, Has
    <3>. QED
      BY <2>1, <3>1, <3>2 DEF SteadyOk
  <2>5. ConnOk(m)
    BY <2>1, <2>3, <2>4 DEF ConnOk, PlaceOk, LookUps
  <2>. QED
    BY <1>1, <2>1, <2>2, <2>5, ConnBecomes
<1>4. CASE LookUpWildcard(c)
  <2>. DEFINE t == Find("http", k.name)
  <2>1. \/ t # None /\ Becomes(c, [k EXCEPT !.at = "head", !.to = t, !.via = "wildcard"])
        \/ \E a \in {"acme", "unknown"} : Becomes(c, [k EXCEPT !.at = a])
    BY <1>4 DEF LookUpWildcard
  <2>2. t # None => t \in Tunnels /\ <<"http", t>> \in entries /\ Sub[t] = Label[k.name]
    BY Found DEF Registries, Modes
  <2>. HIDE DEF t
  <2>3. t # None /\ t \in k.fresh => ~Has(t, "https")
    BY <1>1, <2>2 DEF ConnOk, FreshOk
  <2>. QED
    BY <1>2, <1>3, <2>1, <2>2, <2>3
<1>5. CASE LookUpAcme(c)
  <2>. DEFINE t == Find("custom_http", k.name)
  <2>1. \/ t # None /\ Becomes(c, [k EXCEPT !.at = "head", !.to = t, !.via = "acme"])
        \/ Becomes(c, [k EXCEPT !.at = "unknown"])
    BY <1>5 DEF LookUpAcme
  <2>2. t # None => t \in Tunnels /\ <<"custom_http", t>> \in entries /\ Custom[t] = k.name
    BY Found DEF Registries, Modes
  <2>. HIDE DEF t
  <2>3. t # None /\ t \in k.fresh => ~Has(t, "https")
    BY <1>1, <2>2 DEF ConnOk, FreshOk
  <2>. QED
    BY <1>2, <1>3, <2>1, <2>2, <2>3
<1>. QED
  BY <1>4, <1>5

\* Before the look-ups, and once they are over.
LEMMA OtherKnown ==
    ASSUME TypeInv, EntryInv, ConnInv, NEW c \in Conns,
           \/ \E port \in Modes : Accept(c, port)
           \/ PeekStep(c) \/ ReadHead(c) \/ CheckGlobal(c) \/ CheckTunnel(c) \/ Open(c) \/ Finish(c)
    PROVE  ConnInv'
<1>. DEFINE k == conn[c]
<1>1. k \in ConnStates /\ ConnOk(k)
  BY DEF TypeInv, TypeOK, ConnInv
<1>2. 0 \in 0..MaxReads
  BY BoundAssumption
<1>3. ASSUME NEW m \in ConnStates, Becomes(c, m), OnlyConn,
             m.fresh = k.fresh, m.steady = k.steady, m.via = k.via, m.to = k.to, m.name = k.name,
             \/ m.at \notin LookUps \cup {"new", "peek", "unknown"} /\ m.port = k.port
             \/ m.at = "peek" /\ k.at \in {"new", "peek"} /\ (m.port = k.port \/ k.at = "new")
      PROVE  ConnInv'
  <2>1. PlaceOk(m)
    BY <1>1, <1>3 DEF ConnOk, PlaceOk, LookUps
  <2>2. \A u \in m.fresh : FreshOk(m, u)
    BY <1>1, <1>3 DEF ConnOk, FreshOk, LookUps
  <2>3. \A u \in m.steady : SteadyOk(m, u)
    <3>1. CASE m.port = k.port
      BY <1>1, <1>3, <3>1 DEF ConnOk, SteadyOk, Serves, LookUps
    <3>2. CASE m.via = None /\ m.to = None /\ m.at = "peek"
      BY <1>1, <1>3, <3>2, NamesAssumption DEF ConnOk, SteadyOk, Vias
    <3>. QED
      BY <1>1, <1>3, <3>1, <3>2 DEF ConnOk, PlaceOk
  <2>. QED
    BY <1>3, <2>1, <2>2, <2>3, ConnBecomes DEF ConnOk
<1>4. ASSUME NEW a \in Places \ (LookUps \cup {"new", "peek", "unknown"}),
             Becomes(c, [k EXCEPT !.at = a]) \/ Becomes(c, [k EXCEPT !.at = a, !.reads = 0]), OnlyConn
      PROVE  ConnInv'
  <2>1. PICK r \in 0..MaxReads : Becomes(c, [k EXCEPT !.at = a, !.reads = r])
    <3>1. [k EXCEPT !.at = a] = [k EXCEPT !.at = a, !.reads = k.reads] /\ k.reads \in 0..MaxReads
      BY <1>1 DEF ConnStates
    <3>. QED
      BY <1>2, <1>4, <3>1
  <2>. DEFINE m == [k EXCEPT !.at = a, !.reads = r]
  <2>2. /\ m \in ConnStates /\ m.at = a /\ m.fresh = k.fresh /\ m.steady = k.steady
        /\ m.port = k.port /\ m.name = k.name /\ m.to = k.to /\ m.via = k.via
    BY <1>1 DEF ConnStates
  <2>. HIDE DEF m
  <2>. QED
    BY <1>3, <1>4, <2>1, <2>2 DEF m
<1>5. CASE \E port \in Modes : Accept(c, port)
  <2>1. PICK port \in Modes : Becomes(c, [k EXCEPT !.at = "peek", !.port = port]) /\ OnlyConn
                              /\ k.at = "new"
    BY <1>5 DEF Accept
  <2>. DEFINE m == [k EXCEPT !.at = "peek", !.port = port]
  <2>2. /\ m \in ConnStates /\ m.at = "peek" /\ m.fresh = k.fresh /\ m.steady = k.steady
        /\ m.name = k.name /\ m.to = k.to /\ m.via = k.via
    BY <1>1 DEF ConnStates, Places
  <2>. HIDE DEF m
  <2>. QED
    BY <1>3, <2>1, <2>2 DEF m
<1>6. CASE ReadName(c)
  <2>1. PICK h \in Hosts : Becomes(c, Named(k, h))
    BY <1>6 DEF ReadName
  <2>2. CASE h \in Dashboard /\ k.port = "http"
    <3>1. Named(k, h) = [k EXCEPT !.at = "dashboard", !.reads = 0]
      BY <2>2 DEF Named
    <3>2. "dashboard" \in Places \ (LookUps \cup {"new", "peek", "unknown"})
      BY DEF Places, LookUps, Ends
    <3>. QED
      BY <1>4, <1>6, <2>1, <3>1, <3>2 DEF ReadName
  <2>3. CASE ~(h \in Dashboard /\ k.port = "http")
    <3>. DEFINE up == {t \in Tunnels \ mixed : \E s \in Sessions : Of[s] = t /\ phase[s] = "up"}
                m == [k EXCEPT !.at = "custom", !.reads = 0, !.name = h, !.fresh = up, !.steady = up]
    <3>1. Becomes(c, m) /\ OnlyConn /\ k.via = None /\ k.to = None /\ h # None
      BY <1>1, <1>6, <2>1, <2>3, NamesAssumption DEF Named, ReadName, ConnOk, PlaceOk
    <3>0. up \subseteq Tunnels /\ \A u \in up : IsUp(u) /\ Calm(u)
      BY Entries DEF IsUp, Tasks
    <3>. HIDE DEF up
    <3>2. /\ m \in ConnStates /\ m.at = "custom" /\ m.fresh = up /\ m.steady = up
          /\ m.port = k.port /\ m.name = h /\ m.to = k.to /\ m.via = k.via
      BY <1>1, <1>2, <3>0 DEF ConnStates, Places, LookUps
    <3>. HIDE DEF m
    <3>3. PlaceOk(m)
      BY <3>1, <3>2 DEF PlaceOk
    <3>4. \A u \in up : FreshOk(m, u)
      BY <3>0, <3>1, <3>2, NamesAssumption DEF FreshOk, Vias
    <3>5. \A u \in up : SteadyOk(m, u)
      BY <3>0, <3>1, <3>2, NamesAssumption DEF SteadyOk, Vias
    <3>. QED
      BY <3>1, <3>2, <3>3, <3>4, <3>5, ConnBecomes DEF ConnOk
  <2>. QED
    BY <2>2, <2>3
<1>7. CASE ReadOther(c)
  <2>1. PICK a \in {"bad", "challenge"} : Becomes(c, [k EXCEPT !.at = a, !.reads = 0])
    BY <1>7 DEF ReadOther
  <2>2. a \in Places \ (LookUps \cup {"new", "peek", "unknown"})
    BY DEF Places, LookUps, Ends
  <2>. QED
    BY <1>4, <1>7, <2>1, <2>2 DEF ReadOther
<1>8. CASE ReadMore(c)
  <2>. DEFINE m == [k EXCEPT !.reads = @ + 1]
              n == IF m.reads < MaxReads THEN m ELSE [m EXCEPT !.at = "bad", !.reads = 0]
  <2>1. Becomes(c, n) /\ OnlyConn /\ k.at = "peek"
    BY <1>8 DEF ReadMore
  <2>2. m.reads < MaxReads => m.reads \in 0..MaxReads
    BY <1>1, BoundAssumption DEF ConnStates
  <2>3. /\ n \in ConnStates /\ n.at \in {"peek", "bad"} /\ n.fresh = k.fresh /\ n.steady = k.steady
        /\ n.port = k.port /\ n.name = k.name /\ n.to = k.to /\ n.via = k.via
    BY <1>1, <1>2, <2>1, <2>2 DEF ConnStates, Places, Ends
  <2>. HIDE DEF n
  <2>. QED
    BY <1>3, <2>1, <2>3 DEF LookUps
<1>9. CASE PeekFails(c)
  <2>1. "closed" \in Places \ (LookUps \cup {"new", "peek", "unknown"})
    BY DEF Places, LookUps, Ends
  <2>. QED
    BY <1>4, <1>9, <2>1 DEF PeekFails
<1>10. CASE ReadHead(c) \/ Finish(c) \/ Open(c)
  <2>1. PICK a \in {"global", "closed", "relay"} : Becomes(c, [k EXCEPT !.at = a])
    BY <1>10 DEF ReadHead, Finish, Open
  <2>2. a \in Places \ (LookUps \cup {"new", "peek", "unknown"})
    BY DEF Places, LookUps, Ends
  <2>. QED
    BY <1>4, <1>10, <2>1, <2>2 DEF ReadHead, Finish, Open
<1>11. CASE CheckTunnel(c)
  <2>1. PICK a \in {"refused", "open"} : Becomes(c, [k EXCEPT !.at = a])
    BY <1>11 DEF CheckTunnel
  <2>2. a \in Places \ (LookUps \cup {"new", "peek", "unknown"})
    BY DEF Places, LookUps, Ends
  <2>. QED
    BY <1>4, <1>11, <2>1, <2>2 DEF CheckTunnel
<1>12. CASE CheckGlobal(c)
  <2>. DEFINE m == [NewConn EXCEPT !.to = k.to]
              n == [m EXCEPT !.at = IF "global" \in node THEN "refused" ELSE "tunnel",
                             !.from = pulled]
  <2>1. m \in ConnStates /\ m.fresh = {} /\ m.steady = {} /\ pulled \in BOOLEAN
    BY <1>1, <1>2 DEF NewConn, ConnStates, Places, Modes, TypeInv, TypeOK
  <2>2. Becomes(c, [m EXCEPT !.at = "open"]) \/ Becomes(c, n)
    BY <1>12 DEF CheckGlobal
  <2>. HIDE DEF m
  <2>3. [m EXCEPT !.at = "open"] \in ConnStates /\ ConnOk([m EXCEPT !.at = "open"])
    BY <2>1 DEF ConnStates, Places, ConnOk, PlaceOk, LookUps
  <2>4. n \in ConnStates /\ ConnOk(n)
    BY <2>1 DEF ConnStates, Places, Ends, ConnOk, PlaceOk, LookUps
  <2>. QED
    BY <1>12, <2>2, <2>3, <2>4, ConnBecomes DEF CheckGlobal
<1>. QED
  BY <1>5, <1>6, <1>7, <1>8, <1>9, <1>10, <1>11, <1>12 DEF PeekStep

LEMMA ConnKnown ==
    ASSUME TypeInv, EntryInv, ConnInv, [Next]_vars
    PROVE  ConnInv'
<1>1. ASSUME UNCHANGED <<sessionVars, conn>>
      PROVE  ConnInv'
  BY <1>1 DEF ConnInv, ConnOk, PlaceOk, FreshOk, SteadyOk, Calm, IsUp, Has, Serves, sessionVars
<1>2. PolicyStep \/ (\E d \in Hosts : CertIssued(d)) => UNCHANGED <<sessionVars, conn>>
  BY DEF PolicyStep, Toggle, FetchGlobal, FetchTunnels, RefreshFails, StoreGlobal, StoreTunnels,
         CertIssued
<1>. QED
  BY <1>1, <1>2, ConnSession, CustomKnown, LabelKnown, TlsKnown, OtherKnown
     DEF Next, vars, ConnStep, RouteStep

LEMMA KnownAlways == Spec => [](TypeInv /\ ConnInv)
<1>1. Init => EntryInv
  BY DEF Init, EntryInv, HeldOf, HttpFirst, StepOf
<1>2. Init => ConnInv
  BY DEF Init, ConnInv, ConnOk, PlaceOk, NewConn, LookUps
<1>. QED
  BY <1>1, <1>2, InitTyped, StepTyped, EntryAlways, ConnKnown, PTL DEF Spec

\* A tunnel's https route keeps its traffic from being decrypted whenever the tunnel
\* is torn down between the look-ups, by its session and by any stop calls, provided
\* that none of its sessions has begun before all that was under way for the tunnel
\* had ended.
THEOREM PassthroughKept == Spec => []NeverDecrypted
<1>1. TypeInv /\ ConnInv => NeverDecrypted
  BY DEF TypeInv, TypeOK, ConnStates, ConnInv, ConnOk, FreshOk, Has, NeverDecrypted
<1>. QED
  BY <1>1, KnownAlways, PTL

\* A request for a tunnel that is registered all along, by a session that overlaps
\* no other of the tunnel, reaches it or the owner of its name, for any tunnels,
\* names and connections.
THEOREM Served == Spec => []ServedAsNamed
<1>1. TypeInv /\ ConnInv => ServedAsNamed
  BY DEF TypeInv, TypeOK, ConnStates, ConnInv, ConnOk, SteadyOk, Has, Serves, ServedAsNamed
<1>. QED
  BY <1>1, KnownAlways, PTL
=============================================================================
