-------------------------- MODULE DeviceEnrol_proofs --------------------------
(***************************************************************************)
(* Theorems about DeviceEnrol for any number of codes, polls, approvals    *)
(* and devices.                                                            *)
(***************************************************************************)
EXTENDS DeviceEnrol, TLAPS

\* A poll's first component is its code.
LEMMA PollCode ==
    ASSUME NEW p \in Polls
    PROVE  /\ p[1] \in Codes
           /\ \A c \in Codes : p \in {c} \X Tries <=> p[1] = c
BY DEF Polls

LEMMA CodePoll ==
    ASSUME NEW c \in Codes, NEW p \in {c} \X Tries
    PROVE  p \in Polls /\ p[1] = c
BY DEF Polls

\* Telling the agent the outcome of a poll (device.rs enroll) keeps its state one of
\* its states, and does not start an agent that is off.
LEMMA TellType ==
    ASSUME TypeOK, NEW p \in Polls, NEW what \in AgentStates \ {"off"}, Tell(p, what)
    PROVE  /\ agent' \in [Codes -> AgentStates]
           /\ \A c \in Codes : agent'[c] = "off" <=> agent[c] = "off"
<1>1. p[1] \in Codes
    BY PollCode
<1> QED BY <1>1 DEF TypeOK, Tell, AgentStates

\* A key, a row or a slot that is made empty is of its type.
LEMMA Empties ==
    /\ NoHash \in Keys /\ NoRow \in Rows /\ NoApproval \in Requests /\ NoPoll \in PollStates
    /\ [NoHash EXCEPT !.here = TRUE, !.known = TRUE] \in Keys
BY DEF NoHash, NoRow, NoApproval, NoPoll, Keys, Rows, Requests, PollStates

\* A row or a slot of which a field is changed to one of its values is of its type.
LEMMA RowFields ==
    ASSUME NEW r \in Rows, NEW t \in Polls \cup {None}, NEW u \in Users,
           NEW st \in {"pending", "online", "offline"}
    PROVE  /\ [r EXCEPT !.token = t, !.status = st] \in Rows
           /\ [r EXCEPT !.token = t] \in Rows
           /\ [r EXCEPT !.status = st] \in Rows
           /\ [r EXCEPT !.at = "there", !.owner = u] \in Rows
BY DEF Rows

LEMMA PollFields ==
    ASSUME NEW r \in PollStates, NEW mine \in BOOLEAN, NEW at \in {"status", "done"}
    PROVE  [r EXCEPT !.at = at, !.mine = mine] \in PollStates
BY DEF PollStates

\* Answering, advancing or sending a poll keeps the slots' type.
LEMMA EndPollType ==
    ASSUME TypeOK, NEW p \in Polls, NEW what \in AgentStates \ {"off"}, EndPoll(p, what)
    PROVE  /\ poll' \in [Polls -> PollStates]
           /\ agent' \in [Codes -> AgentStates]
BY TellType, Empties DEF TypeOK, EndPoll

LEMMA GoesType ==
    ASSUME TypeOK, NEW p \in Polls, NEW to \in {"del", "drop", "late", "store"}, Goes(p, to)
    PROVE  /\ poll' \in [Polls -> PollStates]
           /\ agent' \in [Codes -> AgentStates]
BY DEF TypeOK, Goes, PollStates, AgentStates

LEMMA AskType ==
    ASSUME TypeOK, NEW c \in Codes, NEW mine \in BOOLEAN, Ask(c, mine)
    PROVE  poll' \in [Polls -> PollStates]
<1>1. PICK p \in {c} \X Tries : poll' = [poll EXCEPT ![p].at = "status", ![p].mine = mine]
    BY DEF Ask
<1>2. p \in Polls
    BY CodePoll
<1>3. poll[p] \in PollStates
    BY <1>2 DEF TypeOK
<1>4. poll' = [poll EXCEPT ![p] = [poll[p] EXCEPT !.at = "status", !.mine = mine]]
    BY <1>1
<1>5. [poll[p] EXCEPT !.at = "status", !.mine = mine] \in PollStates
    BY <1>3, PollFields
<1> QED BY <1>2, <1>4, <1>5 DEF TypeOK

\* A deleted row keeps nothing but its owner.
LEMMA DeletedType ==
    ASSUME TypeOK, NEW d \in Devices \cup {None}
    PROVE  Deleted(d) \in [Devices -> Rows]
<1>1. ASSUME d \in Devices
      PROVE  [NoRow EXCEPT !.at = "deleted", !.owner = row[d].owner] \in Rows
    BY <1>1 DEF TypeOK, NoRow, Rows
<1> QED BY <1>1 DEF TypeOK, Deleted

\* A new row has an owner among the users.
LEMMA InsertType ==
    ASSUME TypeOK, NEW d \in Devices, NEW u \in Users, InsertRow(d, u)
    PROVE  row' \in [Devices -> Rows]
<1>1. row' = [row EXCEPT ![d].at = "there", ![d].owner = u]
    BY DEF InsertRow
<1>2. row[d] \in Rows
    BY DEF TypeOK
<1>3. [row[d] EXCEPT !.at = "there", !.owner = u] \in Rows
    BY <1>2, RowFields DEF Rows
<1>4. row' = [row EXCEPT ![d] = [row[d] EXCEPT !.at = "there", !.owner = u]]
    BY <1>1
<1> QED BY <1>3, <1>4 DEF TypeOK

\* Every step of a code and its agent keeps the types.
LEMMA CodeType ==
    ASSUME TypeOK, NEW c \in Codes, CodeStep(c)
    PROVE  TypeOK'
<1>1. CASE Start(c)
    BY <1>1, Empties DEF TypeOK, Start, AgentStates
<1>2. CASE ExpireHash(c)
    BY <1>2, Empties DEF TypeOK, ExpireHash
<1>3. CASE ExpireIndex(c)
    BY <1>3 DEF TypeOK, ExpireIndex
<1>4. CASE SendPoll(c)
    BY <1>4, AskType DEF TypeOK, SendPoll, AgentStates
<1>5. CASE Duplicate(c)
    BY <1>5, AskType DEF TypeOK, Duplicate
<1>6. CASE LoseReply(c)
    BY <1>6 DEF TypeOK, LoseReply, AgentStates
<1> QED BY <1>1, <1>2, <1>3, <1>4, <1>5, <1>6 DEF CodeStep

\* Every step of an approval (devices.rs enroll_approve, auth.rs device_approve)
\* keeps the types.
LEMMA ApprovalStepType ==
    ASSUME TypeOK, NEW a \in Approvals, ApprovalStep(a)
    PROVE  TypeOK'
<1>1. ASSUME EndApproval(a) PROVE approval' \in [Approvals -> Requests]
    BY <1>1, Empties DEF TypeOK, EndApproval
<1>2. ASSUME NEW c \in Codes, NEW u \in Users, NEW d \in Devices \cup {None},
             NEW made \in BOOLEAN, Approve(a, c, u, d, made)
      PROVE  approval' \in [Approvals -> Requests]
    <2>1. [at |-> "exists", code |-> c, user |-> u, device |-> d, made |-> made] \in Requests
        BY DEF Requests
    <2> QED BY <1>2, <2>1 DEF TypeOK, Approve
<1>3. ASSUME NEW c \in Codes, NEW u \in Users, NEW d \in Devices, ApproveNew(a, c, u, d)
      PROVE  TypeOK'
    <2>1. approval' \in [Approvals -> Requests]
        BY <1>2, <1>3 DEF ApproveNew
    <2>2. row' \in [Devices -> Rows]
        BY <1>3, InsertType DEF ApproveNew
    <2> QED BY <1>3, <2>1, <2>2 DEF TypeOK, ApproveNew
<1>4. ASSUME NEW c \in Codes, NEW u \in Users, NEW d \in Devices, ApproveOwned(a, c, u, d)
      PROVE  TypeOK'
    <2>1. approval' \in [Approvals -> Requests]
        BY <1>2, <1>4 DEF ApproveOwned
    <2> QED BY <1>4, <2>1 DEF TypeOK, ApproveOwned
<1>5. ASSUME NEW c \in Codes, NEW u \in Users, ApproveSignIn(a, c, u) PROVE TypeOK'
    <2>1. approval' \in [Approvals -> Requests]
        BY <1>2, <1>5 DEF ApproveSignIn
    <2> QED BY <1>5, <2>1 DEF TypeOK, ApproveSignIn
<1>6. CASE Exists(a)
    <2>1. ASSUME NEW to \in {"write", "undo"}, approval' = [approval EXCEPT ![a].at = to]
          PROVE  approval' \in [Approvals -> Requests]
        BY <2>1 DEF TypeOK, Requests
    <2>2. approval' \in [Approvals -> Requests]
        BY <1>1, <1>6, <2>1 DEF Exists
    <2> QED BY <1>6, <2>2 DEF TypeOK, Exists
<1>7. CASE Write(a)
    <2>1. approval[a] \in Requests
        BY DEF TypeOK
    <2>2. hash' \in [Codes -> Keys]
        <3> DEFINE r == approval[a]
                   h == [here |-> TRUE, known |-> hash[r.code].known, user |-> r.user,
                         device |-> IF r.device = None THEN hash[r.code].device
                                    ELSE r.device]
        <3>1. hash' = [hash EXCEPT ![r.code] = h]
            BY <1>7 DEF Write
        <3>2. ASSUME r.code \in Codes PROVE h \in Keys
            <4>1. hash[r.code] \in Keys
                BY <3>2 DEF TypeOK
            <4> QED BY <2>1, <4>1 DEF Keys, Requests
        <3> HIDE DEF h
        <3> QED BY <3>1, <3>2 DEF TypeOK
    <2>3. approval' \in [Approvals -> Requests]
        BY <1>1, <1>7 DEF Write
    <2> QED BY <1>7, <2>2, <2>3 DEF TypeOK, Write
<1>8. CASE Undo(a)
    <2>0. approval[a].device \in Devices \cup {None}
        BY DEF TypeOK, Requests
    <2>1. row' \in [Devices -> Rows]
        BY <1>8, <2>0, DeletedType DEF TypeOK, Undo
    <2>2. approval' \in [Approvals -> Requests]
        BY <1>1, <1>8 DEF Undo
    <2> QED BY <1>8, <2>1, <2>2 DEF TypeOK, Undo
<1>9. CASE AbandonApproval(a)
    <2>1. approval' \in [Approvals -> Requests]
        BY <1>1, <1>9 DEF AbandonApproval
    <2> QED BY <1>9, <2>1 DEF TypeOK, AbandonApproval
<1> QED BY <1>3, <1>4, <1>5, <1>6, <1>7, <1>8, <1>9 DEF ApprovalStep, Begin

\* Every step of a poll (devices.rs enroll_token) and of a request made with its
\* token keeps the types.
LEMMA PollStepType ==
    ASSUME TypeOK, NEW p \in Polls, PollStep(p)
    PROVE  TypeOK'
<1>0. p[1] \in Codes
    BY PollCode
<1>a. /\ "failed" \in AgentStates \ {"off"} /\ "waiting" \in AgentStates \ {"off"}
      /\ "enrolled" \in AgentStates \ {"off"}
    BY DEF AgentStates
<1>1. CASE Status(p)
    <2>1. ASSUME EndPoll(p, "failed") \/ EndPoll(p, "waiting")
          PROVE  poll' \in [Polls -> PollStates] /\ agent' \in [Codes -> AgentStates]
        BY <1>a, <2>1, EndPollType
    <2>2. ASSUME Go(p) PROVE poll' \in [Polls -> PollStates]
        <3>1. hash[p[1]] \in Keys
            BY <1>0 DEF TypeOK
        <3> QED BY <2>2, <3>1 DEF TypeOK, Go, PollStates, Keys
    <2> QED BY <1>1, <2>1, <2>2 DEF TypeOK, Status
<1>2. CASE GetIndex(p)
    <2>1. poll' \in [Polls -> PollStates] /\ agent' \in [Codes -> AgentStates]
        BY <1>2, <1>a, EndPollType, GoesType DEF GetIndex
    <2> QED BY <1>2, <2>1 DEF TypeOK, GetIndex
<1>3. CASE DelIndex(p)
    <2>1. poll' \in [Polls -> PollStates] /\ agent' \in [Codes -> AgentStates]
        BY <1>3, GoesType DEF DelIndex
    <2> QED BY <1>3, <2>1 DEF TypeOK, DelIndex
<1>4. CASE DropHash(p)
    <2>1. poll' \in [Polls -> PollStates] /\ agent' \in [Codes -> AgentStates]
        BY <1>4, <1>a, EndPollType, GoesType DEF DropHash
    <2> QED BY <1>4, <2>1, Empties DEF TypeOK, DropHash
<1>5. CASE Store(p)
    <2>1. agent' \in [Codes -> AgentStates]
        BY <1>5, <1>a, TellType DEF Store
    <2>2. row' \in [Devices -> Rows]
        <3> DEFINE d == poll[p].device
        <3>1. row' = [row EXCEPT ![d] =
                         [row[d] EXCEPT !.token = IF row[d].at = "there" THEN p ELSE @]]
            BY <1>5 DEF Store
        <3>2. ASSUME d \in Devices
              PROVE  [row[d] EXCEPT !.token = IF row[d].at = "there" THEN p ELSE @] \in Rows
            <4>1. row[d] \in Rows
                BY <3>2 DEF TypeOK
            <4>2. (IF row[d].at = "there" THEN p ELSE row[d].token) \in Polls \cup {None}
                BY <4>1 DEF Rows
            <4> QED BY <4>1, <4>2 DEF Rows
        <3> QED BY <3>1, <3>2 DEF TypeOK
    <2>3. poll' \in [Polls -> PollStates]
        <3>1. poll' = [poll EXCEPT ![p] = [poll[p] EXCEPT !.at = "done", !.mine = FALSE]]
            BY <1>5 DEF Store
        <3>2. [poll[p] EXCEPT !.at = "done", !.mine = FALSE] \in PollStates
            BY PollFields DEF TypeOK
        <3> QED BY <3>1, <3>2 DEF TypeOK
    <2> QED BY <1>5, <2>1, <2>2, <2>3 DEF TypeOK, Store
<1>6. CASE AbandonPoll(p)
    BY <1>6, <1>a, EndPollType DEF TypeOK, AbandonPoll
<1>7. CASE Authenticate(p)
    BY <1>7 DEF TypeOK, Authenticate
<1>8. CASE Touch(p)
    <2>1. row' \in [Devices -> Rows]
        <3> DEFINE d == poll[p].device
        <3>1. row' = row \/ row' = [row EXCEPT ![d] = [row[d] EXCEPT !.status = "online"]]
            BY <1>8 DEF Touch
        <3>2. d \in Devices => [row[d] EXCEPT !.status = "online"] \in Rows
            BY DEF TypeOK, Rows
        <3> QED BY <3>1, <3>2 DEF TypeOK
    <2> QED BY <1>8, <2>1 DEF TypeOK, Touch
<1> QED BY <1>1, <1>2, <1>3, <1>4, <1>5, <1>6, <1>7, <1>8 DEF PollStep, Serve

\* Every change of a device (queries.rs) keeps the types.
LEMMA DeviceType ==
    ASSUME TypeOK,
           \/ \E d \in Devices : DeviceStep(d)
           \/ \E D \in SUBSET Devices : MarkStale(D)
    PROVE  TypeOK'
<1>1. ASSUME NEW d \in Devices, Disconnect(d) PROVE TypeOK'
    <2>1. row' \in [Devices -> Rows]
        <3>1. row' = [row EXCEPT ![d] = [row[d] EXCEPT !.token = None, !.status = "pending"]]
            BY <1>1 DEF Disconnect
        <3>2. [row[d] EXCEPT !.token = None, !.status = "pending"] \in Rows
            BY DEF TypeOK, Rows
        <3> QED BY <3>1, <3>2 DEF TypeOK
    <2> QED BY <1>1, <2>1 DEF TypeOK, Disconnect
<1>2. ASSUME NEW d \in Devices, DeleteDevice(d) PROVE TypeOK'
    BY <1>2, DeletedType DEF TypeOK, DeleteDevice
<1>3. ASSUME NEW d \in Devices, NEW u \in Users, CreateDevice(d, u) PROVE TypeOK'
    <2>1. row' \in [Devices -> Rows]
        BY <1>3, InsertType DEF CreateDevice
    <2> QED BY <1>3, <2>1 DEF TypeOK, CreateDevice
<1>4. ASSUME NEW D \in SUBSET Devices, MarkStale(D) PROVE TypeOK'
    <2>1. row' \in [Devices -> Rows]
        BY <1>4 DEF TypeOK, MarkStale, Rows
    <2> QED BY <1>4, <2>1 DEF TypeOK, MarkStale
<1> QED BY <1>1, <1>2, <1>3, <1>4 DEF DeviceStep

LEMMA InitType == Init => TypeOK
BY Empties DEF Init, TypeOK, AgentStates

LEMMA StepType == TypeOK /\ [Next]_vars => TypeOK'
<1> SUFFICES ASSUME TypeOK, [Next]_vars PROVE TypeOK'
    OBVIOUS
<1>1. CASE UNCHANGED vars
    BY <1>1 DEF TypeOK, vars
<1> QED BY <1>1, CodeType, ApprovalStepType, PollStepType, DeviceType DEF Next

\* Type correctness: whatever polls, approvals and expiries interleave, requests,
\* rows and keys keep the shape the code gives them.
THEOREM TypeCorrect == Spec => []TypeOK
BY InitType, StepType, PTL DEF Spec

-----------------------------------------------------------------------------
\* Ending, advancing or sending a poll changes the progress of no other.
LEMMA EndPollAt ==
    ASSUME TypeOK, NEW p \in Polls, NEW what, EndPoll(p, what)
    PROVE  /\ poll'[p].at = "idle"
           /\ \A q \in Polls \ {p} : poll'[q] = poll[q]
BY DEF TypeOK, EndPoll, NoPoll

LEMMA GoesAt ==
    ASSUME TypeOK, NEW p \in Polls, NEW to, Goes(p, to)
    PROVE  /\ poll'[p].at = to
           /\ \A q \in Polls \ {p} : poll'[q] = poll[q]
<1>1. poll[p] \in PollStates
    BY DEF TypeOK
<1> QED BY <1>1 DEF TypeOK, Goes, PollStates

LEMMA AskAt ==
    ASSUME TypeOK, NEW c \in Codes, NEW mine, Ask(c, mine)
    PROVE  \E p \in Polls :
              /\ p[1] = c /\ poll[p].at = "idle" /\ poll'[p].at = "status"
              /\ \A q \in Polls \ {p} : poll'[q] = poll[q]
<1>1. PICK p \in {c} \X Tries :
          /\ poll[p].at = "idle"
          /\ poll' = [poll EXCEPT ![p].at = "status", ![p].mine = mine]
    BY DEF Ask
<1>2. p \in Polls /\ p[1] = c
    BY CodePoll
<1>3. poll[p] \in PollStates
    BY <1>2 DEF TypeOK
<1> QED BY <1>1, <1>2, <1>3 DEF TypeOK, PollStates

\* What a step does to the agents that are off, to the index and to the winners.
Quiet(C) ==
    /\ \A c \in Codes \ C : agent'[c] = "off" <=> agent[c] = "off"
    /\ \A c \in Codes \ C : index'[c] = index[c]
    /\ \A p \in Polls : p[1] \notin C => (Won(p)' <=> Won(p))

\* A step that is quiet but for one code changes no other ticket.
LEMMA OneTicket ==
    ASSUME NEW c \in Codes, Quiet({c})
    PROVE  [e \in Codes |-> TicketOf(e)]'
               = [[e \in Codes |-> TicketOf(e)] EXCEPT ![c] = TicketOf(c)']
<1>1. ASSUME NEW e \in Codes, e # c PROVE TicketOf(e)' = TicketOf(e)
    <2>1. ASSUME NEW p \in {e} \X Tries PROVE Won(p)' <=> Won(p)
        BY <1>1, <2>1, CodePoll DEF Quiet
    <2> QED BY <1>1, <2>1 DEF TicketOf, Quiet
<1> QED BY <1>1

\* A step that is quiet changes no ticket.
LEMMA NoTicket ==
    ASSUME Quiet({})
    PROVE  [e \in Codes |-> TicketOf(e)]' = [e \in Codes |-> TicketOf(e)]
<1>1. ASSUME NEW e \in Codes PROVE TicketOf(e)' = TicketOf(e)
    <2>1. ASSUME NEW p \in {e} \X Tries PROVE Won(p)' <=> Won(p)
        BY <2>1, CodePoll DEF Quiet
    <2> QED BY <2>1 DEF TicketOf, Quiet
<1> QED BY <1>1

\* A step that changes no row changes no bearer.
LEMMA NoBearer ==
    ASSUME \A d \in Devices : row'[d].token = row[d].token
    PROVE  [d \in Devices |-> BearerOf(d)]' = [d \in Devices |-> BearerOf(d)]
BY DEF BearerOf

\* A step that starts no agent, makes no index, lets only polls of started agents begin
\* and makes no winner keeps codes single-use.
Steady ==
    /\ \A c \in Codes : agent'[c] = "off" <=> agent[c] = "off"
    /\ \A c \in Codes : index'[c] => index[c]
    /\ \A p \in Polls : poll'[p].at # "idle" => poll[p].at # "idle" \/ agent[p[1]] # "off"
    /\ \A p \in Polls : Won(p)' => Won(p)

LEMMA SteadySingle ==
    ASSUME SingleUse, Steady
    PROVE  SingleUse'
<1>0. \A p \in Polls : p[1] \in Codes
    BY PollCode
<1>1. \A p \in Polls : poll'[p].at # "idle" => agent'[p[1]] # "off"
    BY <1>0 DEF SingleUse, Steady
<1>2. \A c \in Codes : agent'[c] = "off" => ~index'[c]
    BY DEF SingleUse, Steady
<1>3. \A p \in Polls : Won(p)' => ~index'[p[1]]
    BY <1>0 DEF SingleUse, Steady
<1>4. \A p, q \in Polls : Won(p)' /\ Won(q)' /\ p[1] = q[1] => p = q
    BY DEF SingleUse, Steady
<1> QED BY <1>1, <1>2, <1>3, <1>4 DEF SingleUse

\* A step after which agents, the index and polls stand as before.
Still ==
    /\ \A c \in Codes : agent'[c] = "off" <=> agent[c] = "off"
    /\ index' = index
    /\ poll' = poll

LEMMA StillSteady ==
    ASSUME Still
    PROVE  Steady /\ Quiet({})
BY DEF Still, Steady, Quiet, Won

\* A poll p goes on or ends without winning; the index stands.
Moves(p) ==
    /\ \A c \in Codes : agent'[c] = "off" <=> agent[c] = "off"
    /\ index' = index
    /\ \A q \in Polls \ {p} : poll'[q] = poll[q]
    /\ poll'[p].at # "idle" => poll[p].at # "idle" \/ agent[p[1]] # "off"
    /\ Won(p)' => Won(p)

LEMMA MovesSteady ==
    ASSUME NEW p \in Polls, Moves(p)
    PROVE  /\ Steady
           /\ (Won(p) => Won(p)') => Quiet({})
           /\ Quiet({p[1]})
<1>1. \A q \in Polls : q # p => (Won(q)' <=> Won(q))
    BY DEF Moves, Won
<1>2. Steady
    BY <1>1 DEF Moves, Steady
<1>3. (Won(p) => Won(p)') => Quiet({})
    BY <1>1 DEF Moves, Quiet
<1>4. Quiet({p[1]})
    BY <1>1 DEF Moves, Quiet
<1> QED BY <1>2, <1>3, <1>4

\* Approvals (devices.rs enroll_approve), requests made with a token and changes of
\* devices touch no agent, index or poll.
LEMMA Others ==
    /\ \A c \in Codes : ExpireHash(c) => Still
    /\ \A a \in Approvals : ApprovalStep(a) => Still
    /\ \A p \in Polls : Authenticate(p) \/ Touch(p) => Still
    /\ \A d \in Devices : DeviceStep(d) => Still
    /\ \A D \in SUBSET Devices : MarkStale(D) => Still
<1>1. ASSUME NEW c \in Codes, ExpireHash(c) PROVE Still
    BY <1>1 DEF ExpireHash, Still
<1>2. ASSUME NEW a \in Approvals, ApprovalStep(a) PROVE Still
    <2>1. UNCHANGED <<index, poll, agent>>
        BY <1>2 DEF ApprovalStep, Begin, ApproveNew, ApproveOwned, ApproveSignIn, Exists,
                    Write, Undo, AbandonApproval
    <2> QED BY <2>1 DEF Still
<1>3. ASSUME NEW p \in Polls, Authenticate(p) \/ Touch(p) PROVE Still
    BY <1>3 DEF Authenticate, Touch, Still
<1>4. ASSUME NEW d \in Devices, DeviceStep(d) PROVE Still
    BY <1>4 DEF DeviceStep, Disconnect, DeleteDevice, CreateDevice, Still
<1>5. ASSUME NEW D \in SUBSET Devices, MarkStale(D) PROVE Still
    BY <1>5 DEF MarkStale, Still
<1> QED BY <1>1, <1>2, <1>3, <1>4, <1>5

\* A poll that is served or ends moves, and only deleting the index makes a winner.
LEMMA EndMoves ==
    ASSUME TypeOK, NEW p \in Polls, NEW what \in AgentStates \ {"off"},
           EndPoll(p, what), index' = index
    PROVE  Moves(p) /\ ~Won(p)'
BY TellType, EndPollAt DEF EndPoll, Moves, Won

LEMMA GoesMoves ==
    ASSUME TypeOK, NEW p \in Polls, NEW to \in {"del", "late", "store"},
           Goes(p, to), poll[p].at # "idle", to = "store" => Won(p)
    PROVE  index' = index => Moves(p) /\ (Won(p)' <=> to = "store")
<1>1. poll'[p].at = to /\ \A q \in Polls \ {p} : poll'[q] = poll[q]
    BY GoesAt
<1>2. agent' = agent
    BY DEF Goes
<1> QED BY <1>1, <1>2 DEF Moves, Won

LEMMA ServeMoves ==
    ASSUME TypeOK, NEW p \in Polls
    PROVE  /\ Status(p) \/ GetIndex(p) => Moves(p) /\ ~Won(p) /\ ~Won(p)'
           /\ DelIndex(p) /\ ~index[p[1]] => Moves(p) /\ ~Won(p) /\ ~Won(p)'
           /\ DropHash(p) => Moves(p)
           /\ Store(p) => Moves(p) /\ Won(p) /\ ~Won(p)'
           /\ AbandonPoll(p) => Moves(p) /\ ~Won(p)'
<1>a. /\ "failed" \in AgentStates \ {"off"} /\ "waiting" \in AgentStates \ {"off"}
      /\ "enrolled" \in AgentStates \ {"off"}
    BY DEF AgentStates
<1>1. ASSUME Status(p) PROVE Moves(p) /\ ~Won(p) /\ ~Won(p)'
    <2>1. poll[p].at = "status" /\ index' = index
        BY <1>1 DEF Status
    <2>2. ASSUME Go(p), agent' = agent PROVE Moves(p) /\ ~Won(p)'
        <3>1. poll'[p].at = "get" /\ \A q \in Polls \ {p} : poll'[q] = poll[q]
            BY <2>2 DEF TypeOK, Go
        <3> QED BY <2>1, <2>2, <3>1 DEF Moves, Won
    <2>3. ASSUME EndPoll(p, "failed") \/ EndPoll(p, "waiting") PROVE Moves(p) /\ ~Won(p)'
        BY <1>a, <2>1, <2>3, EndMoves
    <2> QED BY <1>1, <2>1, <2>2, <2>3 DEF Status, Won
<1>2. ASSUME GetIndex(p) PROVE Moves(p) /\ ~Won(p) /\ ~Won(p)'
    <2>1. poll[p].at = "get" /\ index' = index
        BY <1>2 DEF GetIndex
    <2>2. Goes(p, "del") \/ EndPoll(p, "failed")
        BY <1>2 DEF GetIndex
    <2> QED BY <1>a, <2>1, <2>2, EndMoves, GoesMoves DEF Won
<1>3. ASSUME DelIndex(p), ~index[p[1]] PROVE Moves(p) /\ ~Won(p) /\ ~Won(p)'
    <2>1. poll[p].at = "del" /\ index' = index /\ Goes(p, "late")
        BY <1>3, PollCode DEF DelIndex, TypeOK
    <2> QED BY <2>1, GoesMoves DEF Won
<1>4. ASSUME DropHash(p) PROVE Moves(p)
    <2>1. poll[p].at \in {"drop", "late"} /\ index' = index
        BY <1>4 DEF DropHash
    <2>2. \/ Goes(p, "store") /\ Won(p)
          \/ EndPoll(p, "enrolled") \/ EndPoll(p, "failed")
        BY <1>4 DEF DropHash, Won
    <2> QED BY <1>a, <2>1, <2>2, EndMoves, GoesMoves
<1>5. ASSUME Store(p) PROVE Moves(p) /\ Won(p) /\ ~Won(p)'
    <2>1. poll[p].at = "store" /\ index' = index
        BY <1>5 DEF Store
    <2>2. poll'[p].at = "done" /\ \A q \in Polls \ {p} : poll'[q] = poll[q]
        <3>1. poll[p] \in PollStates
            BY DEF TypeOK
        <3> QED BY <1>5, <3>1 DEF TypeOK, Store, PollStates
    <2>3. \A c \in Codes : agent'[c] = "off" <=> agent[c] = "off"
        BY <1>5, <1>a, TellType DEF Store
    <2> QED BY <2>1, <2>2, <2>3 DEF Moves, Won
<1>6. ASSUME AbandonPoll(p) PROVE Moves(p) /\ ~Won(p)'
    <2>1. index' = index /\ EndPoll(p, "failed")
        BY <1>6 DEF AbandonPoll
    <2> QED BY <1>a, <2>1, EndMoves
<1> QED BY <1>1, <1>2, <1>3, <1>4, <1>5, <1>6

\* The steps of a code: one that starts it, one that ends it, and polls being sent.
LEMMA CodeMoves ==
    ASSUME TypeOK, SingleUse, NEW c \in Codes
    PROVE  /\ SendPoll(c) \/ Duplicate(c) => Steady /\ Quiet({})
           /\ LoseReply(c) => Steady /\ Quiet({})
           /\ ExpireIndex(c) => Steady /\ Quiet({c})
<1>1. ASSUME SendPoll(c) \/ Duplicate(c) PROVE Steady /\ Quiet({})
    <2>1. PICK mine \in BOOLEAN : Ask(c, mine)
        BY <1>1 DEF SendPoll, Duplicate
    <2>2. PICK p \in Polls :
              /\ p[1] = c /\ poll[p].at = "idle" /\ poll'[p].at = "status"
              /\ \A q \in Polls \ {p} : poll'[q] = poll[q]
        BY <2>1, AskAt
    <2>3. /\ index' = index /\ agent[c] # "off"
          /\ \A e \in Codes : agent'[e] = "off" <=> agent[e] = "off"
        BY <1>1 DEF SendPoll, Duplicate, TypeOK
    <2>4. Moves(p) /\ ~Won(p) /\ ~Won(p)'
        BY <2>2, <2>3 DEF Moves, Won
    <2> QED BY <2>4, MovesSteady
<1>2. ASSUME LoseReply(c) PROVE Steady /\ Quiet({})
    <2>1. Still
        BY <1>2 DEF LoseReply, Still, TypeOK
    <2> QED BY <2>1, StillSteady
<1>3. ASSUME ExpireIndex(c) PROVE Steady /\ Quiet({c})
    BY <1>3 DEF ExpireIndex, Steady, Quiet, TypeOK, Won
<1> QED BY <1>1, <1>2, <1>3

\* The two steps that are not steady: a code is started, and a poll wins one.
LEMMA StartSingle ==
    ASSUME TypeOK, SingleUse, NEW c \in Codes, Start(c)
    PROVE  SingleUse' /\ Quiet({c})
<1>0. \A p \in Polls : p[1] \in Codes
    BY PollCode
<1>1. /\ poll' = poll
      /\ agent'[c] = "waiting" /\ index'[c] = TRUE
      /\ \A e \in Codes \ {c} : agent'[e] = agent[e] /\ index'[e] = index[e]
    BY DEF Start, TypeOK
<1>2. \A p \in Polls : Won(p)' <=> Won(p)
    BY <1>1 DEF Won
<1>3. agent[c] = "off"
    BY DEF Start
<1>4. \A p \in Polls : p[1] = c => poll[p].at = "idle" /\ ~Won(p)
    BY <1>3 DEF SingleUse, Won
<1>5. Quiet({c})
    BY <1>0, <1>1, <1>2 DEF Quiet
<1>6. \A p \in Polls : poll'[p].at # "idle" => agent'[p[1]] # "off"
    BY <1>0, <1>1, <1>4 DEF SingleUse
<1>7. \A e \in Codes : agent'[e] = "off" => ~index'[e]
    BY <1>1 DEF SingleUse
<1>8. \A p \in Polls : Won(p)' => ~index'[p[1]]
    BY <1>0, <1>1, <1>2, <1>4 DEF SingleUse
<1>9. \A p, q \in Polls : Won(p)' /\ Won(q)' /\ p[1] = q[1] => p = q
    BY <1>2 DEF SingleUse
<1> QED BY <1>5, <1>6, <1>7, <1>8, <1>9 DEF SingleUse

LEMMA WinSingle ==
    ASSUME TypeOK, SingleUse, NEW p \in Polls, DelIndex(p), index[p[1]]
    PROVE  SingleUse' /\ Quiet({p[1]}) /\ Won(p)' /\ ~index'[p[1]] /\ agent' = agent
<1>0. \A q \in Polls : q[1] \in Codes
    BY PollCode
<1>1. /\ Goes(p, "drop") /\ agent' = agent /\ poll[p].at = "del"
      /\ index' = [index EXCEPT ![p[1]] = FALSE]
    BY DEF DelIndex, Goes
<1>2. ~index'[p[1]] /\ \A e \in Codes \ {p[1]} : index'[e] = index[e]
    BY <1>0, <1>1 DEF TypeOK
<1>3. Won(p)' /\ poll'[p].at = "drop" /\ \A q \in Polls \ {p} : poll'[q] = poll[q]
    BY <1>1, GoesAt DEF Won
<1>4. \A q \in Polls \ {p} : Won(q)' <=> Won(q)
    BY <1>3 DEF Won
<1>5. \A q \in Polls : q[1] = p[1] => ~Won(q)
    BY DEF SingleUse
<1>6. Quiet({p[1]})
    BY <1>0, <1>1, <1>2, <1>4 DEF Quiet
<1>7. \A q \in Polls : poll'[q].at # "idle" => agent'[q[1]] # "off"
    BY <1>1, <1>3 DEF SingleUse
<1>8. \A e \in Codes : agent'[e] = "off" => ~index'[e]
    BY <1>1, <1>2 DEF SingleUse
<1>9. \A q \in Polls : Won(q)' => ~index'[q[1]]
    BY <1>0, <1>2, <1>4 DEF SingleUse
<1>10. \A q, r \in Polls : Won(q)' /\ Won(r)' /\ q[1] = r[1] => q = r
    BY <1>4, <1>5 DEF SingleUse
<1> QED BY <1>1, <1>2, <1>3, <1>6, <1>7, <1>8, <1>9, <1>10 DEF SingleUse

LEMMA StepSingle == TypeOK /\ SingleUse /\ [Next]_vars => SingleUse'
<1> SUFFICES ASSUME TypeOK, SingleUse, [Next]_vars PROVE SingleUse'
    OBVIOUS
<1>1. ASSUME Still PROVE SingleUse'
    BY <1>1, StillSteady, SteadySingle
<1>2. ASSUME NEW c \in Codes, CodeStep(c) PROVE SingleUse'
    BY <1>1, <1>2, Others, StartSingle, CodeMoves, SteadySingle DEF CodeStep
<1>3. ASSUME NEW p \in Polls, PollStep(p) PROVE SingleUse'
    <2>1. CASE Authenticate(p) \/ Touch(p)
        BY <1>1, <2>1, Others
    <2>2. CASE DelIndex(p) /\ index[p[1]]
        BY <2>2, WinSingle
    <2>3. CASE Status(p) \/ GetIndex(p) \/ (DelIndex(p) /\ ~index[p[1]]) \/ DropHash(p)
               \/ Store(p) \/ AbandonPoll(p)
        <3>1. Moves(p)
            BY <2>3, ServeMoves
        <3> QED BY <3>1, MovesSteady, SteadySingle
    <2> QED BY <1>3, <2>1, <2>2, <2>3 DEF PollStep, Serve
<1>4. CASE UNCHANGED vars
    <2>1. Still
        BY <1>4 DEF vars, Still
    <2> QED BY <1>1, <2>1
<1> QED BY <1>1, <1>2, <1>3, <1>4, Others DEF Next

LEMMA InitSingle == Init => SingleUse
BY PollCode DEF Init, SingleUse, Won, NoPoll

\* "Single-use: the first approved poll wins; replays see it gone" (devices.rs): one
\* poll of a code at most is between winning it and storing its token.
THEOREM OneWinner == Spec => []SingleUse
<1>1. Init => TypeOK /\ SingleUse
    BY InitType, InitSingle
<1>2. TypeOK /\ SingleUse /\ [Next]_vars => TypeOK' /\ SingleUse'
    BY StepType, StepSingle
<1> QED BY <1>1, <1>2, PTL DEF Spec

-----------------------------------------------------------------------------
(* DeviceEnrol implements DeviceTickets.                                   *)

KeepsTokens == \A d \in Devices : row'[d].token = row[d].token

TicketStep == Tickets!Next \/ UNCHANGED Tickets!vars

\* What a ticket is, without the slots.
LEMMA TicketIs ==
    ASSUME NEW c \in Codes
    PROVE  /\ agent[c] = "off" => TicketOf(c) = "unused"
           /\ agent[c] # "off" /\ index[c] => TicketOf(c) = "issued"
           /\ \A p \in Polls : p[1] = c /\ Won(p) /\ agent[c] # "off" /\ ~index[c]
                 => TicketOf(c) = "redeemed"
           /\ agent[c] # "off" /\ ~index[c] /\ (\A p \in Polls : p[1] = c => ~Won(p))
                 => TicketOf(c) = "spent"
<1>1. (\E p \in {c} \X Tries : Won(p)) <=> \E p \in Polls : p[1] = c /\ Won(p)
    BY PollCode, CodePoll
<1> QED BY <1>1 DEF TicketOf

\* A winner's code is redeemed; it is spent when the winner ends.
LEMMA WinnerTicket ==
    ASSUME TypeOK, SingleUse, NEW p \in Polls, Won(p)
    PROVE  /\ TicketOf(p[1]) = "redeemed"
           /\ Moves(p) /\ ~Won(p)' => TicketOf(p[1])' = "spent"
<1>1. p[1] \in Codes
    BY PollCode
<1>2. ~index[p[1]] /\ agent[p[1]] # "off"
    BY DEF SingleUse, Won
<1>3. TicketOf(p[1]) = "redeemed"
    BY <1>1, <1>2, TicketIs
<1>4. ASSUME Moves(p), ~Won(p)' PROVE TicketOf(p[1])' = "spent"
    <2>1. \A q \in Polls : q[1] = p[1] => ~Won(q)'
        BY <1>4 DEF SingleUse, Moves, Won
    <2>2. agent'[p[1]] # "off" /\ ~index'[p[1]]
        BY <1>1, <1>2, <1>4 DEF Moves
    <2>3. ASSUME NEW q \in {p[1]} \X Tries PROVE ~Won(q)'
        BY <1>1, <2>1, CodePoll
    <2> QED BY <2>2, <2>3 DEF TicketOf
<1> QED BY <1>3, <1>4

\* A step that changes one ticket and no bearer, or neither.
LEMMA StutterStep ==
    ASSUME Quiet({}), KeepsTokens
    PROVE  TicketStep
BY NoTicket, NoBearer DEF KeepsTokens, TicketStep, Tickets!vars

LEMMA TurnStep ==
    ASSUME NEW c \in Codes, Quiet({c}), KeepsTokens,
           \/ TicketOf(c) = "unused" /\ TicketOf(c)' = "issued"
           \/ TicketOf(c) = "issued" /\ TicketOf(c)' \in {"redeemed", "spent"}
           \/ TicketOf(c) = "redeemed" /\ TicketOf(c)' = "spent"
    PROVE  TicketStep
<1> DEFINE T == [e \in Codes |-> TicketOf(e)]
<1>1. T' = [T EXCEPT ![c] = TicketOf(c)'] /\ T[c] = TicketOf(c)
    BY OneTicket
<1>2. [d \in Devices |-> BearerOf(d)]' = [d \in Devices |-> BearerOf(d)]
    BY NoBearer DEF KeepsTokens
<1>3. Tickets!Issue(c) \/ Tickets!Redeem(c) \/ Tickets!Void(c)
    BY <1>1, <1>2 DEF Tickets!Issue, Tickets!Redeem, Tickets!Void, Tickets!Turns
<1> QED BY <1>3 DEF TicketStep, Tickets!Next

\* A step that takes the token of a device, if it had one.
LEMMA DetachStep ==
    ASSUME TypeOK, Still, NEW d \in Devices, row'[d].token = None,
           \A e \in Devices \ {d} : row'[e].token = row[e].token
    PROVE  TicketStep
<1>1. Quiet({})
    BY StillSteady
<1>2. CASE row[d].token = None
    BY <1>1, <1>2, StutterStep DEF KeepsTokens
<1>3. CASE row[d].token # None
    <2>1. row[d].token \in Polls
        BY <1>3 DEF TypeOK, Rows
    <2>2. BearerOf(d) # None /\ BearerOf(d)' = None
        BY <1>3, <2>1, PollCode, NoneAssumption DEF BearerOf
    <2>3. \A e \in Devices \ {d} : BearerOf(e)' = BearerOf(e)
        BY DEF BearerOf
    <2>4. Tickets!Detach(d)
        BY <1>1, <2>2, <2>3, NoTicket DEF Tickets!Detach
    <2> QED BY <2>4 DEF TicketStep, Tickets!Next
<1> QED BY <1>2, <1>3

\* Starting a code issues its ticket, expiry voids it; the agent's own steps change none.
LEMMA CodeRefines ==
    ASSUME TypeOK, SingleUse, NEW c \in Codes, CodeStep(c)
    PROVE  TicketStep
<1>0. KeepsTokens
    BY DEF CodeStep, Start, ExpireHash, ExpireIndex, SendPoll, Duplicate, LoseReply, KeepsTokens
<1>1. CASE Start(c)
    <2>1. agent[c] = "off" /\ agent'[c] = "waiting" /\ index'[c] = TRUE
        BY <1>1 DEF Start, TypeOK
    <2>2. TicketOf(c) = "unused" /\ TicketOf(c)' = "issued"
        BY <2>1 DEF TicketOf
    <2> QED BY <1>0, <1>1, <2>2, StartSingle, TurnStep
<1>2. CASE ExpireIndex(c)
    <2>1. index[c] /\ ~index'[c] /\ agent' = agent /\ poll' = poll
        BY <1>2 DEF ExpireIndex, TypeOK
    <2>2. agent[c] # "off"
        BY <2>1 DEF SingleUse
    <2>3. ASSUME NEW p \in {c} \X Tries PROVE ~Won(p)'
        <3>1. p \in Polls /\ p[1] = c
            BY CodePoll
        <3> QED BY <2>1, <3>1 DEF SingleUse, Won
    <2>4. TicketOf(c) = "issued" /\ TicketOf(c)' = "spent"
        BY <2>1, <2>2, <2>3 DEF TicketOf
    <2> QED BY <1>0, <1>2, <2>4, CodeMoves, TurnStep
<1>3. CASE ExpireHash(c) \/ SendPoll(c) \/ Duplicate(c) \/ LoseReply(c)
    <2>1. Quiet({})
        BY <1>3, Others, StillSteady, CodeMoves
    <2> QED BY <1>0, <2>1, StutterStep
<1> QED BY <1>1, <1>2, <1>3 DEF CodeStep

\* An approval changes no ticket; undoing a device that was made for it detaches what
\* a device without a token does not have, or what it was given meanwhile.
LEMMA ApprovalRefines ==
    ASSUME TypeOK, NEW a \in Approvals, ApprovalStep(a)
    PROVE  TicketStep
<1>0. Still
    BY Others
<1>1. CASE KeepsTokens
    BY <1>0, <1>1, StillSteady, StutterStep
<1>2. CASE Undo(a) /\ row' # row
    <2> DEFINE d == approval[a].device
    <2>1. row' = Deleted(d)
        BY <1>2 DEF Undo
    <2>2. d \in Devices
        BY <1>2, <2>1 DEF TypeOK, Deleted
    <2>3. row'[d].token = None /\ \A e \in Devices \ {d} : row'[e] = row[e]
        BY <2>1, <2>2 DEF TypeOK, Deleted, NoRow
    <2> QED BY <1>0, <2>2, <2>3, DetachStep
<1>3. ASSUME NEW c \in Codes, NEW u \in Users, NEW d \in Devices, ApproveNew(a, c, u, d)
      PROVE  KeepsTokens
    <2>1. row' = [row EXCEPT ![d].at = "there", ![d].owner = u]
        BY <1>3 DEF ApproveNew, InsertRow
    <2> QED BY <2>1 DEF TypeOK, Rows, KeepsTokens
<1>4. ASSUME row' = row PROVE KeepsTokens
    BY <1>4 DEF KeepsTokens
<1> QED BY <1>1, <1>2, <1>3, <1>4
        DEF ApprovalStep, Begin, ApproveOwned, ApproveSignIn, Exists, Write, AbandonApproval

\* A poll redeems its code by deleting the index, attaches the device by storing the
\* token, and voids what it has won when it ends otherwise.
LEMMA PollRefines ==
    ASSUME TypeOK, SingleUse, NEW p \in Polls, PollStep(p)
    PROVE  TicketStep
<1>0. p[1] \in Codes
    BY PollCode
<1>1. CASE DelIndex(p) /\ index[p[1]]
    <2>1. agent[p[1]] # "off" /\ KeepsTokens
        BY <1>0, <1>1 DEF SingleUse, DelIndex, KeepsTokens
    <2>2. TicketOf(p[1]) = "issued"
        BY <1>1, <2>1 DEF TicketOf
    <2>3. agent'[p[1]] # "off" /\ ~index'[p[1]] /\ Won(p)'
        BY <1>1, <2>1, WinSingle
    <2>4. TicketOf(p[1])' = "redeemed"
        BY <1>0, <2>3, PollCode DEF TicketOf
    <2> QED BY <1>0, <1>1, <2>1, <2>2, <2>4, WinSingle, TurnStep
<1>2. ASSUME Moves(p), KeepsTokens PROVE TicketStep
    <2>1. CASE Won(p) => Won(p)'
        BY <1>2, <2>1, MovesSteady, StutterStep
    <2>2. CASE Won(p) /\ ~Won(p)'
        BY <1>0, <1>2, <2>2, MovesSteady, WinnerTicket, TurnStep
    <2> QED BY <2>1, <2>2
<1>3. CASE Status(p) \/ GetIndex(p) \/ (DelIndex(p) /\ ~index[p[1]]) \/ DropHash(p)
           \/ AbandonPoll(p)
    <2>1. KeepsTokens
        BY <1>3 DEF Status, GetIndex, DelIndex, DropHash, AbandonPoll, KeepsTokens
    <2> QED BY <1>2, <1>3, <2>1, ServeMoves
<1>4. CASE Store(p)
    <2> DEFINE d == poll[p].device
    <2>1. Moves(p) /\ Won(p) /\ ~Won(p)'
        BY <1>4, ServeMoves
    <2>2. row' = [row EXCEPT ![d].token = IF row[d].at = "there" THEN p ELSE @]
        BY <1>4 DEF Store
    <2>3. CASE d \notin Devices \/ row[d].at # "there"
        <3>1. KeepsTokens
            BY <2>2, <2>3 DEF TypeOK, Rows, KeepsTokens
        <3> QED BY <1>2, <2>1, <3>1
    <2>4. ASSUME NEW e \in Devices, e = d, row[e].at = "there" PROVE TicketStep
        <3>1. row'[e].token = p /\ \A o \in Devices \ {e} : row'[o].token = row[o].token
            BY <2>2, <2>4 DEF TypeOK, Rows
        <3>2. BearerOf(e)' = p[1] /\ \A o \in Devices \ {e} : BearerOf(o)' = BearerOf(o)
            BY <3>1, NoneAssumption DEF BearerOf
        <3>3. Quiet({p[1]}) /\ TicketOf(p[1]) = "redeemed" /\ TicketOf(p[1])' = "spent"
            BY <2>1, MovesSteady, WinnerTicket
        <3>4. [c \in Codes |-> TicketOf(c)]'
                  = [[c \in Codes |-> TicketOf(c)] EXCEPT ![p[1]] = "spent"]
            BY <1>0, <3>3, OneTicket
        <3>5. [o \in Devices |-> BearerOf(o)]'
                  = [[o \in Devices |-> BearerOf(o)] EXCEPT ![e] = p[1]]
            BY <3>2
        <3>6. Tickets!Attach(p[1], e)
            BY <1>0, <3>3, <3>4, <3>5 DEF Tickets!Attach, Tickets!Turns
        <3> QED BY <1>0, <3>6 DEF TicketStep, Tickets!Next
    <2> QED BY <2>3, <2>4
<1>5. CASE Authenticate(p) \/ Touch(p)
    <2>1. KeepsTokens
        BY <1>5 DEF Authenticate, Touch, KeepsTokens, TypeOK, Rows
    <2> QED BY <1>5, <2>1, Others, StillSteady, StutterStep
<1> QED BY <1>1, <1>3, <1>4, <1>5 DEF PollStep, Serve

\* Disconnecting or deleting a device detaches it; a new device and the sweep detach none.
LEMMA DeviceRefines ==
    ASSUME TypeOK,
           \/ \E d \in Devices : DeviceStep(d)
           \/ \E D \in SUBSET Devices : MarkStale(D)
    PROVE  TicketStep
<1>1. Still
    BY Others
<1>2. ASSUME NEW d \in Devices, Disconnect(d) \/ DeleteDevice(d) PROVE TicketStep
    <2>1. row'[d].token = None /\ \A e \in Devices \ {d} : row'[e].token = row[e].token
        BY <1>2 DEF TypeOK, Rows, Disconnect, DeleteDevice, Deleted, NoRow
    <2> QED BY <1>1, <2>1, DetachStep
<1>3. ASSUME NEW d \in Devices, NEW u \in Users, CreateDevice(d, u) PROVE KeepsTokens
    BY <1>3 DEF TypeOK, Rows, CreateDevice, InsertRow, KeepsTokens
<1>4. ASSUME NEW D \in SUBSET Devices, MarkStale(D) PROVE KeepsTokens
    BY <1>4 DEF TypeOK, Rows, MarkStale, KeepsTokens
<1> QED BY <1>1, <1>2, <1>3, <1>4, StillSteady, StutterStep DEF DeviceStep

\* Enrolment implements DeviceTickets: whichever polls, approvals, expiries and
\* disconnects overlap, a code is redeemed once and attaches one device once.
THEOREM Implements == Spec => ImplementsTickets
<1>1. Init => Tickets!Init
    <2> SUFFICES ASSUME Init PROVE Tickets!Init
        OBVIOUS
    <2>1. \A c \in Codes : TicketOf(c) = "unused"
        BY DEF Init, TicketOf
    <2>2. \A d \in Devices : BearerOf(d) = None
        BY DEF Init, NoRow, BearerOf
    <2> QED BY <2>1, <2>2 DEF Tickets!Init
<1>2. TypeOK /\ SingleUse /\ [Next]_vars => [Tickets!Next]_(Tickets!vars)
    <2> SUFFICES ASSUME TypeOK, SingleUse, [Next]_vars PROVE TicketStep
        BY DEF TicketStep
    <2>1. CASE UNCHANGED vars
        <3>1. Still /\ KeepsTokens
            BY <2>1 DEF vars, Still, KeepsTokens
        <3> QED BY <3>1, StillSteady, StutterStep
    <2> QED BY <2>1, CodeRefines, ApprovalRefines, PollRefines, DeviceRefines DEF Next
<1> QED BY <1>1, <1>2, TypeCorrect, OneWinner, PTL DEF Spec, ImplementsTickets, Tickets!Spec

-----------------------------------------------------------------------------
(* Owners.                                                                 *)

\* By the rows r the user owns the device, if there is one.
Mine(r, u, d) == d # None => u # None /\ r[d].owner = u

\* Rows that were not inserted have no owner.
NewUnowned == \A d \in Devices : row[d].at = "new" => row[d].owner = None

\* An approval without a device is for the sign-in, and one with a device that has
\* found its code is for natforge enroll.
Filed(r) ==
    /\ r.at # "idle" /\ r.device = None => flow[r.code] = "signin"
    /\ r.at = "write" /\ r.device # None => flow[r.code] = "enroll"

\* User and device belong together wherever they are kept: that is OwnersMatch for
\* the polls, which read the hash, which approvals write.
OwnInv ==
    /\ NewUnowned
    /\ ~Misfiled =>
        /\ \A a \in Approvals : Mine(row, approval[a].user, approval[a].device) /\ Filed(approval[a])
        /\ \A c \in Codes : /\ Mine(row, hash[c].user, hash[c].device)
                            /\ hash[c].device # None => flow[c] = "enroll"
        /\ \A p \in Polls : Mine(row, poll[p].user, poll[p].device)

\* A row's owner is written once, when it is inserted.
OwnersKept ==
    \A d \in Devices : row'[d].owner = row[d].owner \/ row[d].owner = None

\* What a step may put into a request, a hash and a poll.
LEMMA OwnFrame ==
    ASSUME TypeOK, OwnInv, UNCHANGED flow, OwnersKept, NewUnowned',
           ~Misfiled => \A a \in Approvals :
               \/ approval'[a] = approval[a]
               \/ Mine(row', approval'[a].user, approval'[a].device) /\ Filed(approval'[a]),
           ~Misfiled => \A c \in Codes :
               \/ hash'[c] = hash[c] \/ hash'[c].device = None
               \/ Mine(row', hash'[c].user, hash'[c].device) /\ flow[c] = "enroll",
           ~Misfiled => \A p \in Polls :
               \/ poll'[p].user = poll[p].user /\ poll'[p].device = poll[p].device
               \/ poll'[p].device = None
               \/ Mine(row', poll'[p].user, poll'[p].device)
    PROVE  OwnInv'
<1>1. ASSUME NEW u, NEW d \in Devices \cup {None}, Mine(row, u, d) PROVE Mine(row', u, d)
    BY <1>1 DEF Mine, OwnersKept
<1>2. UNCHANGED flow
    OBVIOUS
<1>3. ASSUME ~Misfiled, NEW a \in Approvals
      PROVE  Mine(row', approval'[a].user, approval'[a].device) /\ Filed(approval'[a])
    <2>1. approval[a].device \in Devices \cup {None}
        BY DEF TypeOK, Requests
    <2> QED BY <1>1, <1>2, <1>3, <2>1 DEF OwnInv, Filed
<1>4. ASSUME ~Misfiled, NEW c \in Codes
      PROVE  Mine(row', hash'[c].user, hash'[c].device) /\ (hash'[c].device # None => flow[c] = "enroll")
    <2>1. hash[c].device \in Devices \cup {None}
        BY DEF TypeOK, Keys
    <2>2. hash'[c].device = None => Mine(row', hash'[c].user, hash'[c].device)
        BY DEF Mine
    <2> QED BY <1>1, <1>4, <2>1, <2>2 DEF OwnInv
<1>5. ASSUME ~Misfiled, NEW p \in Polls
      PROVE  Mine(row', poll'[p].user, poll'[p].device)
    <2>1. poll[p].device \in Devices \cup {None}
        BY DEF TypeOK, PollStates
    <2>2. poll'[p].device = None => Mine(row', poll'[p].user, poll'[p].device)
        BY DEF Mine
    <2> QED BY <1>1, <1>5, <2>1, <2>2 DEF OwnInv
<1> QED BY <1>2, <1>3, <1>4, <1>5 DEF OwnInv, Filed

\* Rows and their owners, by what is done to the table.
LEMMA RowsUnchanged ==
    ASSUME OwnInv, UNCHANGED row
    PROVE  OwnersKept /\ NewUnowned'
BY DEF OwnInv, OwnersKept, NewUnowned

LEMMA RowChanged ==
    ASSUME TypeOK, OwnInv, NEW d \in Devices,
           \A e \in Devices \ {d} : row'[e] = row[e],
           row'[d].owner = row[d].owner, row'[d].at = row[d].at \/ row'[d].at = "deleted"
    PROVE  OwnersKept /\ NewUnowned'
BY DEF OwnInv, OwnersKept, NewUnowned

LEMMA RowInserted ==
    ASSUME TypeOK, OwnInv, NEW d \in Devices, NEW u \in Users, InsertRow(d, u)
    PROVE  OwnersKept /\ NewUnowned' /\ Mine(row', u, d)
<1>1. row[d].at = "new" /\ row' = [row EXCEPT ![d].at = "there", ![d].owner = u]
    BY DEF InsertRow
<1>2. row[d] \in Rows
    BY DEF TypeOK
<1>3. row'[d].owner = u /\ row'[d].at = "there" /\ \A e \in Devices \ {d} : row'[e] = row[e]
    BY <1>1, <1>2 DEF TypeOK, Rows
<1>4. u # None /\ d # None
    BY NoneAssumption
<1> QED BY <1>1, <1>3, <1>4 DEF OwnInv, OwnersKept, NewUnowned, Mine

LEMMA RowDeleted ==
    ASSUME TypeOK, OwnInv, NEW d \in Devices, row' = Deleted(d)
    PROVE  OwnersKept /\ NewUnowned'
<1>1. /\ \A e \in Devices \ {d} : row'[e] = row[e]
      /\ row'[d].owner = row[d].owner /\ row'[d].at = "deleted"
    BY DEF Deleted, NoRow, TypeOK
<1> QED BY <1>1, RowChanged

\* Steps of a code: its hash is emptied, a poll only starts.
LEMMA CodeOwn ==
    ASSUME TypeOK, OwnInv, NEW c \in Codes, CodeStep(c)
    PROVE  OwnInv'
<1>1. UNCHANGED <<flow, row, approval>>
    BY DEF CodeStep, Start, ExpireHash, ExpireIndex, SendPoll, Duplicate, LoseReply
<1>2. \A d \in Codes : hash'[d] = hash[d] \/ hash'[d].device = None
    <2>1. NoHash.device = None /\ [NoHash EXCEPT !.here = TRUE, !.known = TRUE].device = None
        BY DEF NoHash
    <2> QED BY <2>1 DEF CodeStep, Start, ExpireHash, ExpireIndex, SendPoll, Duplicate, LoseReply, TypeOK
<1>3. ASSUME NEW mine, Ask(c, mine), NEW p \in Polls
      PROVE  poll'[p].user = poll[p].user /\ poll'[p].device = poll[p].device
    <2>1. PICK q \in {c} \X Tries : poll' = [poll EXCEPT ![q].at = "status", ![q].mine = mine]
        BY <1>3 DEF Ask
    <2>2. q \in Polls
        BY CodePoll
    <2>3. poll[q] \in PollStates
        BY <2>2 DEF TypeOK
    <2> QED BY <2>1, <2>2, <2>3 DEF TypeOK, PollStates
<1>4. \A p \in Polls : poll'[p].user = poll[p].user /\ poll'[p].device = poll[p].device
    BY <1>3 DEF CodeStep, Start, ExpireHash, ExpireIndex, SendPoll, Duplicate, LoseReply
<1>5. OwnersKept /\ NewUnowned'
    BY <1>1, RowsUnchanged
<1> QED BY <1>1, <1>2, <1>4, <1>5, OwnFrame

\* One approval changes, to a request whose device is its user's.
LEMMA ApprovalFrame ==
    ASSUME TypeOK, OwnInv, UNCHANGED <<flow, hash, poll>>, OwnersKept, NewUnowned',
           NEW a \in Approvals, NEW r, approval' = [approval EXCEPT ![a] = r],
           ~Misfiled => Mine(row', r.user, r.device) /\ Filed(r)
    PROVE  OwnInv'
<1>1. UNCHANGED <<flow, hash, poll>>
    OBVIOUS
<1>2. \A b \in Approvals : approval'[b] = IF b = a THEN r ELSE approval[b]
    BY DEF TypeOK
<1>3. ~Misfiled => \A b \in Approvals :
         \/ approval'[b] = approval[b]
         \/ Mine(row', approval'[b].user, approval'[b].device) /\ Filed(approval'[b])
    BY <1>2
<1> QED BY <1>1, <1>3, OwnFrame

\* An approval that has ended says nothing.
LEMMA NoneFiled ==
    /\ \A r : Mine(r, NoApproval.user, NoApproval.device)
    /\ Filed(NoApproval)
BY DEF Mine, Filed, NoApproval

\* Steps of an approval: what is written to the hash belongs together.
LEMMA ApprovalOwn ==
    ASSUME TypeOK, OwnInv, NEW a \in Approvals, ApprovalStep(a)
    PROVE  OwnInv'
<1> DEFINE r == approval[a]
<1>0. r \in Requests /\ (~Misfiled => Mine(row, r.user, r.device) /\ Filed(r))
    BY DEF TypeOK, OwnInv
<1>1. ASSUME UNCHANGED <<flow, hash, poll, row>>, EndApproval(a) PROVE OwnInv'
    BY <1>1, NoneFiled, RowsUnchanged, ApprovalFrame DEF EndApproval
<1>2. ASSUME NEW c \in Codes, NEW u \in Users, NEW d \in Devices \cup {None},
             NEW made \in BOOLEAN, Approve(a, c, u, d, made),
             UNCHANGED <<flow, hash, poll>>, OwnersKept, NewUnowned',
             ~Misfiled => Mine(row', u, d) /\ (d = None => flow[c] = "signin")
      PROVE  OwnInv'
    <2> DEFINE q == [at |-> "exists", code |-> c, user |-> u, device |-> d, made |-> made]
    <2>1. approval' = [approval EXCEPT ![a] = q]
        BY <1>2 DEF Approve
    <2>2. ~Misfiled => Mine(row', q.user, q.device) /\ Filed(q)
        BY <1>2 DEF Filed
    <2> HIDE DEF q
    <2> QED BY <1>2, <2>1, <2>2, ApprovalFrame
<1>3. ASSUME NEW c \in Codes, NEW u \in Users, NEW d \in Devices, ApproveNew(a, c, u, d)
      PROVE  OwnInv'
    <2>1. d # None
        BY NoneAssumption
    <2> QED BY <1>2, <1>3, <2>1, RowInserted DEF ApproveNew
<1>4. ASSUME NEW c \in Codes, NEW u \in Users, NEW d \in Devices, ApproveOwned(a, c, u, d)
      PROVE  OwnInv'
    <2>1. d # None /\ u # None
        BY NoneAssumption
    <2>2. Mine(row', u, d)
        BY <1>4, <2>1 DEF ApproveOwned, Mine
    <2> QED BY <1>2, <1>4, <2>1, <2>2, RowsUnchanged DEF ApproveOwned
<1>5. ASSUME NEW c \in Codes, NEW u \in Users, ApproveSignIn(a, c, u)
      PROVE  OwnInv'
    <2>1. Mine(row', u, None)
        BY DEF Mine
    <2> QED BY <1>2, <1>5, <2>1, RowsUnchanged DEF ApproveSignIn
<1>6. CASE Exists(a)
    <2>1. UNCHANGED <<flow, hash, poll, row>>
        BY <1>6 DEF Exists
    <2>2. ASSUME NEW to \in {"write", "undo"},
                 approval' = [approval EXCEPT ![a].at = to],
                 r.at = "exists",
                 to = "write" => r.device = None \/ flow[r.code] = "enroll"
          PROVE  OwnInv'
        <3> DEFINE q == [r EXCEPT !.at = to]
        <3>1. q.at = to /\ q.user = r.user /\ q.device = r.device /\ q.code = r.code
            BY <1>0 DEF Requests
        <3>2. ~Misfiled => Mine(row', q.user, q.device) /\ Filed(q)
            BY <1>0, <2>1, <2>2, <3>1 DEF Filed
        <3>3. approval' = [approval EXCEPT ![a] = q]
            BY <2>2
        <3> HIDE DEF q
        <3> QED BY <2>1, <3>2, <3>3, RowsUnchanged, ApprovalFrame
    <2> QED BY <1>1, <1>6, <2>1, <2>2 DEF Exists
<1>7. CASE Write(a)
    <2>1. r.at = "write" /\ EndApproval(a) /\ UNCHANGED <<flow, row, poll>>
        BY <1>7 DEF Write
    <2> DEFINE h == [here |-> TRUE, known |-> hash[r.code].known, user |-> r.user,
                     device |-> IF r.device = None THEN hash[r.code].device ELSE r.device]
    <2>2. hash' = [hash EXCEPT ![r.code] = h]
        BY <1>7 DEF Write
    <2>3. ASSUME ~Misfiled, r.code \in Codes
          PROVE  h.device = None \/ (Mine(row', h.user, h.device) /\ flow[r.code] = "enroll")
        <3>1. CASE r.device = None
            BY <1>0, <2>1, <2>3, <3>1 DEF Filed, OwnInv
        <3>2. CASE r.device # None
            BY <1>0, <2>1, <2>3, <3>2 DEF Filed
        <3> QED BY <3>1, <3>2
    <2> HIDE DEF h
    <2>4. ~Misfiled => \A c \in Codes :
             \/ hash'[c] = hash[c] \/ hash'[c].device = None
             \/ Mine(row', hash'[c].user, hash'[c].device) /\ flow[c] = "enroll"
        BY <2>2, <2>3 DEF TypeOK
    <2>5. \A b \in Approvals :
             \/ approval'[b] = approval[b]
             \/ Mine(row', approval'[b].user, approval'[b].device) /\ Filed(approval'[b])
        BY <2>1, NoneFiled DEF EndApproval, TypeOK
    <2> QED BY <2>1, <2>4, <2>5, RowsUnchanged, OwnFrame
<1>8. CASE Undo(a)
    <2>1. OwnersKept /\ NewUnowned'
        <3>1. CASE row' = row
            BY <3>1, RowsUnchanged
        <3>2. CASE row' = Deleted(r.device) /\ r.device \in Devices
            BY <3>2, RowDeleted
        <3>3. CASE row' = Deleted(r.device) /\ r.device \notin Devices
            BY <3>3, RowsUnchanged DEF Deleted, TypeOK
        <3> QED BY <1>8, <3>1, <3>2, <3>3 DEF Undo
    <2> QED BY <1>8, <2>1, NoneFiled, ApprovalFrame DEF Undo, EndApproval
<1>9. CASE AbandonApproval(a)
    BY <1>1, <1>9 DEF AbandonApproval
<1> HIDE DEF r
<1> QED BY <1>3, <1>4, <1>5, <1>6, <1>7, <1>8, <1>9 DEF ApprovalStep, Begin

\* Steps of a poll: it takes the hash's user and device together, and a row keeps
\* its owner when it gets a token.
LEMMA PollOwn ==
    ASSUME TypeOK, OwnInv, NEW p \in Polls, PollStep(p)
    PROVE  OwnInv'
<1>0. poll[p] \in PollStates /\ p[1] \in Codes
    BY PollCode DEF TypeOK
<1>1. UNCHANGED <<flow, approval>>
    BY DEF PollStep, Serve, Status, GetIndex, DelIndex, DropHash, Store, AbandonPoll,
           Authenticate, Touch
<1>2. \A c \in Codes : hash'[c] = hash[c] \/ hash'[c].device = None
    BY DEF PollStep, Serve, Status, GetIndex, DelIndex, DropHash, Store, AbandonPoll,
           Authenticate, Touch, NoHash, TypeOK
<1>3. OwnersKept /\ NewUnowned'
    <2>1. CASE row' = row
        BY <2>1, RowsUnchanged
    <2>2. ASSUME NEW d \in Devices, NEW t,
                 \/ row' = [row EXCEPT ![d].token = t]
                 \/ row' = [row EXCEPT ![d].status = t]
          PROVE  OwnersKept /\ NewUnowned'
        <3>1. row[d] \in Rows
            BY DEF TypeOK
        <3>2. /\ \A e \in Devices \ {d} : row'[e] = row[e]
              /\ row'[d].owner = row[d].owner /\ row'[d].at = row[d].at
            BY <2>2, <3>1 DEF TypeOK, Rows
        <3> QED BY <3>2, RowChanged
    <2>3. ASSUME poll[p].device \notin Devices, NEW r,
                 \/ row' = [row EXCEPT ![poll[p].device].token = r]
                 \/ row' = [row EXCEPT ![poll[p].device].status = r]
          PROVE  row' = row
        BY <2>3 DEF TypeOK
    <2>4. CASE Store(p)
        BY <2>1, <2>2, <2>3, <2>4 DEF Store
    <2>5. CASE Touch(p)
        BY <2>1, <2>2, <2>3, <2>5 DEF Touch
    <2>6. CASE ~Store(p) /\ ~Touch(p)
        <3>1. row' = row
            BY <2>6 DEF PollStep, Serve, Status, GetIndex, DelIndex, DropHash, AbandonPoll,
                        Authenticate
        <3> QED BY <2>1, <3>1
    <2> QED BY <2>4, <2>5, <2>6
<1>4. \A q \in Polls \ {p} : poll'[q] = poll[q]
    BY DEF PollStep, Serve, Status, GetIndex, DelIndex, DropHash, Store, AbandonPoll,
           Authenticate, Touch, EndPoll, Goes, Go, TypeOK
<1>5. ~Misfiled =>
         \/ poll'[p].user = poll[p].user /\ poll'[p].device = poll[p].device
         \/ poll'[p].device = None
         \/ Mine(row', poll'[p].user, poll'[p].device)
    <2>1. ASSUME NEW what, EndPoll(p, what) PROVE poll'[p].device = None
        BY <2>1 DEF EndPoll, NoPoll, TypeOK
    <2>2. ASSUME NEW to, Goes(p, to)
          PROVE  poll'[p].user = poll[p].user /\ poll'[p].device = poll[p].device
        BY <1>0, <2>2 DEF Goes, TypeOK, PollStates
    <2>3. ASSUME ~Misfiled, Go(p), UNCHANGED row
          PROVE  Mine(row', poll'[p].user, poll'[p].device)
        <3>1. poll'[p].user = hash[p[1]].user /\ poll'[p].device = hash[p[1]].device
            BY <2>3 DEF Go, TypeOK
        <3> QED BY <1>0, <2>3, <3>1 DEF OwnInv
    <2>4. CASE Status(p)
        BY <2>1, <2>3, <2>4 DEF Status
    <2>5. CASE GetIndex(p) \/ DelIndex(p) \/ DropHash(p) \/ AbandonPoll(p)
        BY <2>1, <2>2, <2>5 DEF GetIndex, DelIndex, DropHash, AbandonPoll
    <2>6. CASE Store(p)
        BY <1>0, <2>6 DEF Store, TypeOK, PollStates
    <2>7. CASE Authenticate(p) \/ Touch(p)
        BY <2>7 DEF Authenticate, Touch
    <2> QED BY <2>4, <2>5, <2>6, <2>7 DEF PollStep, Serve
<1>6. ~Misfiled => \A q \in Polls :
         \/ poll'[q].user = poll[q].user /\ poll'[q].device = poll[q].device
         \/ poll'[q].device = None
         \/ Mine(row', poll'[q].user, poll'[q].device)
    BY <1>4, <1>5
<1> QED BY <1>1, <1>2, <1>3, <1>6, OwnFrame

\* Devices and the sweep: rows keep their owner.
LEMMA DeviceOwn ==
    ASSUME TypeOK, OwnInv,
           \/ \E d \in Devices : DeviceStep(d)
           \/ \E D \in SUBSET Devices : MarkStale(D)
    PROVE  OwnInv'
<1>1. UNCHANGED <<flow, hash, approval, poll>>
    BY DEF DeviceStep, Disconnect, DeleteDevice, CreateDevice, MarkStale
<1>2. OwnersKept /\ NewUnowned'
    <2>1. ASSUME NEW d \in Devices, Disconnect(d) PROVE OwnersKept /\ NewUnowned'
        <3>1. row[d] \in Rows
            BY DEF TypeOK
        <3>2. /\ \A e \in Devices \ {d} : row'[e] = row[e]
              /\ row'[d].owner = row[d].owner /\ row'[d].at = row[d].at
            BY <2>1, <3>1 DEF Disconnect, TypeOK, Rows
        <3> QED BY <3>2, RowChanged
    <2>2. ASSUME NEW d \in Devices, DeleteDevice(d) PROVE OwnersKept /\ NewUnowned'
        BY <2>2, RowDeleted DEF DeleteDevice
    <2>3. ASSUME NEW d \in Devices, NEW u \in Users, CreateDevice(d, u)
          PROVE  OwnersKept /\ NewUnowned'
        BY <2>3, RowInserted DEF CreateDevice
    <2>4. ASSUME NEW D \in SUBSET Devices, MarkStale(D) PROVE OwnersKept /\ NewUnowned'
        <3>1. \A d \in Devices : row'[d].owner = row[d].owner /\ row'[d].at = row[d].at
            BY <2>4 DEF MarkStale, TypeOK, Rows
        <3> QED BY <3>1 DEF OwnInv, OwnersKept, NewUnowned
    <2> QED BY <2>1, <2>2, <2>3, <2>4 DEF DeviceStep
<1> QED BY <1>1, <1>2, OwnFrame

\* Every step keeps it.
LEMMA OwnStep == TypeOK /\ OwnInv /\ [Next]_vars => OwnInv'
<1> SUFFICES ASSUME TypeOK, OwnInv, [Next]_vars PROVE OwnInv'
    OBVIOUS
<1>1. CASE UNCHANGED vars
    BY <1>1, RowsUnchanged, OwnFrame DEF vars
<1> QED BY <1>1, CodeOwn, ApprovalOwn, PollOwn, DeviceOwn DEF Next

\* The device of an approval and its user are never mixed up with another's, unless
\* codes of natforge enroll are entered on the sign-in page.
THEOREM Owners == Spec => []OwnersMatch
<1>1. Init => OwnInv
    BY DEF Init, OwnInv, NewUnowned, Mine, Filed, NoRow, NoHash, NoApproval, NoPoll
<1>2. OwnInv => OwnersMatch
    BY DEF OwnInv, OwnersMatch, Mine
<1> QED BY <1>1, <1>2, OwnStep, TypeCorrect, PTL DEF Spec
=============================================================================
