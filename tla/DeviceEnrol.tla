----------------------------- MODULE DeviceEnrol -----------------------------
(***************************************************************************)
(* Device codes (RFC 8628): natforge enroll, which links a machine to a    *)
(* row of devices and gives it a device token, and the sign-in of the      *)
(* command line agent, which uses the same codes                           *)
(* (natforge-backend/src/handlers/devices.rs, handlers/auth.rs,            *)
(* db/connection.rs, jwt.rs; natforge-agent/src/device.rs, auth.rs).       *)
(*                                                                         *)
(* A code is two keys in Redis, which expire: a hash under the user code,  *)
(* with the approval, and an index under the device code.  A request is a  *)
(* process that takes one step for each call of Redis or PostgreSQL and    *)
(* may end after any of them, when a call fails or its client goes.  A     *)
(* code and an id of a device are used once.  The agent has one poll at a  *)
(* time in flight; the network may deliver it twice.                       *)
(*                                                                         *)
(* Left out: names, bans, the deletion of accounts (their devices go as if *)
(* deleted), the rate limit of approvals, and the age of tokens.  devcode  *)
(* creation is one step: nobody knows the code before it is complete.      *)
(***************************************************************************)
EXTENDS Naturals

CONSTANTS
    Codes,
    Tries,      \* slots for polls of one code
    Users, Devices,
    Approvals,  \* slots for approvals in progress
    Misfiled,   \* users enter codes of natforge enroll on the sign-in page
    None

Polls == Codes \X Tries    \* the code is the first component

ASSUME NoneAssumption == None \notin Codes \cup Users \cup Devices \cup Polls
ASSUME MisfiledAssumption == Misfiled \in BOOLEAN

VARIABLES
    hash,      \* nf:devcode:<user code>; known when it has its device_code
    flow,      \* what the code was issued for
    index,     \* nf:devcode:dc:<device code> is there
    row,       \* devices
    approval, poll,  \* requests in progress; a poll that has won keeps its slot
    agent,     \* the machine that shows the code
    checked    \* polls whose token was checked for a request of configuration

vars == <<hash, flow, index, row, approval, poll, agent, checked>>

NoHash == [here |-> FALSE, known |-> FALSE, user |-> None, device |-> None]
NoRow == [at |-> "new", owner |-> None, token |-> None, status |-> "pending"]
NoApproval == [at |-> "idle", code |-> None, user |-> None, device |-> None, made |-> FALSE]
NoPoll == [at |-> "idle", mine |-> FALSE, user |-> None, device |-> None]

Keys == [here : BOOLEAN, known : BOOLEAN, user : Users \cup {None}, device : Devices \cup {None}]

Rows == [at : {"new", "there", "deleted"}, owner : Users \cup {None},
         token : Polls \cup {None}, status : {"pending", "online", "offline"}]

Requests == [at : {"idle", "exists", "write", "undo"}, code : Codes \cup {None},
             user : Users \cup {None}, device : Devices \cup {None}, made : BOOLEAN]

PollStates == [at : {"idle", "status", "get", "del", "drop", "late", "store", "done"},
               mine : BOOLEAN, user : Users \cup {None}, device : Devices \cup {None}]

AgentStates == {"off", "waiting", "polling", "enrolled", "failed"}

TypeOK ==
    /\ hash \in [Codes -> Keys]
    /\ flow \in [Codes -> {"enroll", "signin"}]
    /\ index \in [Codes -> BOOLEAN]
    /\ row \in [Devices -> Rows]
    /\ approval \in [Approvals -> Requests]
    /\ poll \in [Polls -> PollStates]
    /\ agent \in [Codes -> AgentStates]
    /\ checked \subseteq Polls

Init ==
    /\ hash = [c \in Codes |-> NoHash]
    /\ flow \in [Codes -> {"enroll", "signin"}]
    /\ index = [c \in Codes |-> FALSE]
    /\ row = [d \in Devices |-> NoRow]
    /\ approval = [a \in Approvals |-> NoApproval]
    /\ poll = [p \in Polls |-> NoPoll]
    /\ agent = [c \in Codes |-> "off"]
    /\ checked = {}

-----------------------------------------------------------------------------
(* Codes and the agent that shows one.                                     *)

\* enroll_start and device_start: both keys, which expire together.
Start(c) ==
    /\ agent[c] = "off"
    /\ agent' = [agent EXCEPT ![c] = "waiting"]
    /\ hash' = [hash EXCEPT ![c] = [NoHash EXCEPT !.here = TRUE, !.known = TRUE]]
    /\ index' = [index EXCEPT ![c] = TRUE]
    /\ UNCHANGED <<flow, row, approval, poll, checked>>

\* The two keys expire in the order in which their times to live were set.
ExpireHash(c) ==
    /\ hash[c].known
    /\ hash' = [hash EXCEPT ![c] = NoHash]
    /\ UNCHANGED <<flow, index, row, approval, poll, agent, checked>>

ExpireIndex(c) ==
    /\ index[c] /\ ~hash[c].known
    /\ index' = [index EXCEPT ![c] = FALSE]
    /\ UNCHANGED <<hash, flow, row, approval, poll, agent, checked>>

\* A poll is sent, by the agent or by the network again, and takes an idle slot.
Ask(c, mine) ==
    \E p \in {c} \X Tries :
        /\ poll[p].at = "idle" /\ p = CHOOSE q \in {c} \X Tries : poll[q].at = "idle"
        /\ poll' = [poll EXCEPT ![p].at = "status", ![p].mine = mine]

SendPoll(c) ==
    /\ agent[c] = "waiting"
    /\ Ask(c, TRUE)
    /\ agent' = [agent EXCEPT ![c] = "polling"]
    /\ UNCHANGED <<hash, flow, index, row, approval, checked>>

Duplicate(c) ==
    /\ agent[c] = "polling"
    /\ Ask(c, FALSE)
    /\ UNCHANGED <<hash, flow, index, row, approval, agent, checked>>

\* The agent gives up when a reply does not come or is not JSON.
LoseReply(c) ==
    /\ agent[c] = "polling"
    /\ agent' = [agent EXCEPT ![c] = "failed"]
    /\ UNCHANGED <<hash, flow, index, row, approval, poll, checked>>

-----------------------------------------------------------------------------
(* A user approves a code.                                                 *)

Approve(a, c, u, d, made) ==
    /\ approval[a].at = "idle" /\ agent[c] # "off"
    /\ approval' = [approval EXCEPT ![a] =
                       [at |-> "exists", code |-> c, user |-> u, device |-> d, made |-> made]]

\* The id is the next one of the sequence.
InsertRow(d, u) ==
    /\ row[d].at = "new" /\ d = CHOOSE e \in Devices : row[e].at = "new"
    /\ row' = [row EXCEPT ![d].at = "there", ![d].owner = u]

\* POST /devices: a device without an agent.
CreateDevice(d, u) ==
    /\ InsertRow(d, u)
    /\ UNCHANGED <<hash, flow, index, approval, poll, agent, checked>>

\* enroll_approve without a device: one is created for the code.
ApproveNew(a, c, u, d) ==
    /\ Approve(a, c, u, d, TRUE)
    /\ InsertRow(d, u)
    /\ UNCHANGED <<hash, flow, index, poll, agent, checked>>

\* enroll_approve for a device the user owns.
ApproveOwned(a, c, u, d) ==
    /\ row[d].at = "there" /\ row[d].owner = u
    /\ Approve(a, c, u, d, FALSE)
    /\ UNCHANGED <<hash, flow, index, row, poll, agent, checked>>

\* device_approve of the sign-in page.
ApproveSignIn(a, c, u) ==
    /\ flow[c] = "signin" \/ Misfiled
    /\ Approve(a, c, u, None, FALSE)
    /\ UNCHANGED <<hash, flow, index, row, poll, agent, checked>>

EndApproval(a) == approval' = [approval EXCEPT ![a] = NoApproval]

\* Redis is asked whether the hash is there.  Codes of the sign-in have a dash,
\* which enroll_approve takes out: it does not find them.
Exists(a) ==
    LET r == approval[a] IN
    /\ r.at = "exists"
    /\ \/ /\ hash[r.code].here /\ (r.device = None \/ flow[r.code] = "enroll")
          /\ approval' = [approval EXCEPT ![a].at = "write"]
       \/ /\ ~(hash[r.code].here /\ (r.device = None \/ flow[r.code] = "enroll"))
          /\ IF r.made THEN approval' = [approval EXCEPT ![a].at = "undo"] ELSE EndApproval(a)
    /\ UNCHANGED <<hash, flow, index, row, poll, agent, checked>>

\* Fault: an approval does not replace the user of an earlier one.
WriteKeepingUser(a) ==
    LET r == approval[a]
        h == hash[r.code]
    IN
    /\ r.at = "write"
    /\ hash' = [hash EXCEPT ![r.code] =
                   [here |-> TRUE, known |-> h.known,
                    user |-> IF h.user = None THEN r.user ELSE h.user,
                    device |-> IF r.device = None THEN h.device ELSE r.device]]
    /\ EndApproval(a)
    /\ UNCHANGED <<flow, index, row, poll, agent, checked>>

\* The approval is written; a hash that went in between is made anew, without
\* its device_code and without a time to live.
Write(a) ==
    LET r == approval[a]
        h == hash[r.code]
    IN
    /\ r.at = "write"
    /\ hash' = [hash EXCEPT ![r.code] =
                   [here |-> TRUE, known |-> h.known, user |-> r.user,
                    device |-> IF r.device = None THEN h.device ELSE r.device]]
    /\ EndApproval(a)
    /\ UNCHANGED <<flow, index, row, poll, agent, checked>>

Deleted(d) == [row EXCEPT ![d] = [NoRow EXCEPT !.at = "deleted", !.owner = row[d].owner]]

\* A device made for a code that is not there is deleted again.
Undo(a) ==
    /\ approval[a].at = "undo"
    /\ row' = IF row[approval[a].device].at = "there" THEN Deleted(approval[a].device) ELSE row
    /\ EndApproval(a)
    /\ UNCHANGED <<hash, flow, index, poll, agent, checked>>

AbandonApproval(a) ==
    /\ approval[a].at # "idle"
    /\ EndApproval(a)
    /\ UNCHANGED <<hash, flow, index, row, poll, agent, checked>>

-----------------------------------------------------------------------------
(* A poll: enroll_token, and device_token for codes of the sign-in.        *)

\* The reply reaches the agent if it is its poll and it still waits for it.
Tell(p, what) ==
    agent' = [agent EXCEPT ![p[1]] = IF poll[p].mine /\ @ = "polling" THEN what ELSE @]
EndPoll(p, what) == poll' = [poll EXCEPT ![p] = NoPoll] /\ Tell(p, what)
Goes(p, to) == poll' = [poll EXCEPT ![p].at = to] /\ UNCHANGED agent

Approved(h, c) == h.user # None /\ (flow[c] = "signin" \/ h.device # None)

Go(p) == poll' = [poll EXCEPT ![p] = [at |-> "get", mine |-> poll[p].mine,
                                      user |-> hash[p[1]].user, device |-> hash[p[1]].device]]

\* Fault: the agent polls on when the code has expired.
StatusRetrying(p) ==
    LET known == index[p[1]] /\ hash[p[1]].known
        approved == Approved(hash[p[1]], p[1])
    IN
    /\ poll[p].at = "status"
    /\ \/ ~known /\ EndPoll(p, "waiting")
       \/ known /\ ~approved /\ EndPoll(p, "waiting")
       \/ known /\ approved /\ Go(p) /\ UNCHANGED agent
    /\ UNCHANGED <<hash, flow, index, row, approval, checked>>

\* devcode_status: without the index the code has expired; without the hash, or
\* its device_code, the call fails.  The index is read again below.
Status(p) ==
    LET known == index[p[1]] /\ hash[p[1]].known
        approved == Approved(hash[p[1]], p[1])
    IN
    /\ poll[p].at = "status"
    /\ \/ ~known /\ EndPoll(p, "failed")
       \/ known /\ ~approved /\ EndPoll(p, "waiting")
       \/ known /\ approved /\ Go(p) /\ UNCHANGED agent
    /\ UNCHANGED <<hash, flow, index, row, approval, checked>>

\* devcode_consume reads the index for the name of the hash.
GetIndex(p) ==
    /\ poll[p].at = "get"
    /\ IF index[p[1]] THEN Goes(p, "del") ELSE EndPoll(p, "failed")
    /\ UNCHANGED <<hash, flow, index, row, approval, checked>>

\* Fault: a poll that has read the index counts as the winner.
DelIndexUncounted(p) ==
    /\ poll[p].at = "del"
    /\ Goes(p, "drop")
    /\ index' = [index EXCEPT ![p[1]] = FALSE]
    /\ UNCHANGED <<hash, flow, row, approval, checked>>

\* Of the polls that delete the index, the one that finds it has won.
DelIndex(p) ==
    /\ poll[p].at = "del"
    /\ Goes(p, IF index[p[1]] THEN "drop" ELSE "late")
    /\ index' = [index EXCEPT ![p[1]] = FALSE]
    /\ UNCHANGED <<hash, flow, row, approval, checked>>

\* Winner or not, the hash is deleted.  The winner of a sign-in is done: it gets a
\* session token, or none if the account cannot be read.
DropHash(p) ==
    /\ \/ poll[p].at = "drop" /\ flow[p[1]] = "enroll" /\ Goes(p, "store")
       \/ /\ poll[p].at = "drop" /\ flow[p[1]] = "signin"
          /\ EndPoll(p, "enrolled") \/ EndPoll(p, "failed")
       \/ poll[p].at = "late" /\ EndPoll(p, "failed")
    /\ hash' = [hash EXCEPT ![p[1]] = NoHash]
    /\ UNCHANGED <<flow, index, row, approval, checked>>

\* The token's nonce, drawn for it, replaces the one in the row, if the row is
\* still there; the token is sent in any case.
Store(p) ==
    /\ poll[p].at = "store"
    /\ row' = [row EXCEPT ![poll[p].device].token =
                  IF row[poll[p].device].at = "there" THEN p ELSE @]
    /\ poll' = [poll EXCEPT ![p].at = "done", ![p].mine = FALSE]
    /\ Tell(p, "enrolled")
    /\ UNCHANGED <<hash, flow, index, approval, checked>>

AbandonPoll(p) ==
    /\ poll[p].at \notin {"idle", "done"}
    /\ EndPoll(p, "failed")
    /\ UNCHANGED <<hash, flow, index, row, approval, checked>>

-----------------------------------------------------------------------------
(* Devices.                                                                *)

Disconnect(d) ==
    /\ row[d].at = "there"
    /\ row' = [row EXCEPT ![d].token = None, ![d].status = "pending"]
    /\ UNCHANGED <<hash, flow, index, approval, poll, agent, checked>>

DeleteDevice(d) ==
    /\ row[d].at = "there"
    /\ row' = Deleted(d)
    /\ UNCHANGED <<hash, flow, index, approval, poll, agent, checked>>

\* DeviceAuth: the token's nonce is that of the row.
Authenticate(p) ==
    /\ poll[p].at = "done" /\ row[poll[p].device].token = p
    /\ checked' = checked \cup {p}
    /\ UNCHANGED <<hash, flow, index, row, approval, poll, agent>>

\* device_config marks the device online, whatever came since the check.
Touch(p) ==
    /\ p \in checked
    /\ checked' = checked \ {p}
    /\ row' = IF row[poll[p].device].at = "there"
              THEN [row EXCEPT ![poll[p].device].status = "online"]
              ELSE row
    /\ UNCHANGED <<hash, flow, index, approval, poll, agent>>

Silent(d) == row[d].at = "there" /\ row[d].status = "online"

\* Fault: only devices that have a token are swept.
MarkStaleWithToken(D) ==
    /\ D # {} /\ \A d \in D : Silent(d) /\ row[d].token # None
    /\ row' = [d \in Devices |-> IF d \in D THEN [row[d] EXCEPT !.status = "offline"] ELSE row[d]]
    /\ UNCHANGED <<hash, flow, index, approval, poll, agent, checked>>

\* mark_stale_devices_offline, for the devices D whose grace period has run out,
\* which may be any that are online.
MarkStale(D) ==
    /\ D # {} /\ \A d \in D : Silent(d)
    /\ row' = [d \in Devices |-> IF d \in D THEN [row[d] EXCEPT !.status = "offline"] ELSE row[d]]
    /\ UNCHANGED <<hash, flow, index, approval, poll, agent, checked>>

-----------------------------------------------------------------------------
CodeStep(c) ==
    Start(c) \/ ExpireHash(c) \/ ExpireIndex(c) \/ SendPoll(c) \/ Duplicate(c) \/ LoseReply(c)

Begin(a) ==
    \/ \E c \in Codes, u \in Users, d \in Devices :
          ApproveNew(a, c, u, d) \/ ApproveOwned(a, c, u, d)
    \/ \E c \in Codes, u \in Users : ApproveSignIn(a, c, u)

ApprovalStep(a) == Begin(a) \/ Exists(a) \/ Write(a) \/ Undo(a) \/ AbandonApproval(a)

Serve(p) == Status(p) \/ GetIndex(p) \/ DelIndex(p) \/ DropHash(p) \/ Store(p)

PollStep(p) == Serve(p) \/ AbandonPoll(p) \/ Authenticate(p) \/ Touch(p)

DeviceStep(d) ==
    Disconnect(d) \/ DeleteDevice(d) \/ \E u \in Users : CreateDevice(d, u)

Next ==
    \/ \E c \in Codes : CodeStep(c)
    \/ \E a \in Approvals : ApprovalStep(a)
    \/ \E p \in Polls : PollStep(p)
    \/ \E d \in Devices : DeviceStep(d)
    \/ \E D \in SUBSET Devices : MarkStale(D)

Spec == Init /\ [][Next]_vars

\* Keys with a time to live expire, an agent that waits polls, requests that are
\* served go on, time passes and the sweep runs.  Nobody has to approve anything.
Fairness ==
    /\ \A c \in Codes : WF_vars(ExpireHash(c) \/ ExpireIndex(c)) /\ WF_vars(SendPoll(c))
    /\ \A p \in Polls : WF_vars(Serve(p)) /\ WF_vars(Touch(p))
    /\ \A d \in Devices : WF_vars(\E D \in SUBSET Devices : d \in D /\ MarkStale(D))

FairSpec == Spec /\ Fairness

-----------------------------------------------------------------------------
(* Properties.                                                             *)

\* The refinement: what a ticket is and who bears it, read off the requests, the
\* index and the rows.
Won(p) == poll[p].at \in {"drop", "store"}

TicketOf(c) ==
    IF agent[c] = "off" THEN "unused"
    ELSE IF index[c] THEN "issued"
    ELSE IF \E p \in {c} \X Tries : Won(p) THEN "redeemed" ELSE "spent"

BearerOf(d) == IF row[d].token = None THEN None ELSE row[d].token[1]

Tickets == INSTANCE DeviceTickets WITH
    ticket <- [c \in Codes |-> TicketOf(c)],
    bearer <- [d \in Devices |-> BearerOf(d)]

\* "Single-use: the first approved poll wins; replays see it gone" (devices.rs),
\* and a token once revoked or replaced is never accepted again: whichever polls,
\* approvals and disconnects overlap, a code is redeemed once and attaches one
\* device once.
ImplementsTickets == Tickets!Spec

\* The user a poll has read is the owner of the device it has read: approvals of
\* one code by two users are not mixed up, unless one of them is on the sign-in
\* page, which writes the user alone.
OwnersMatch ==
    ~Misfiled =>
        \A p \in Polls : poll[p].device # None => row[poll[p].device].owner = poll[p].user

\* A code that was won is gone from the index before the winner goes on, it has one
\* winner, and a code nobody has asked for has no polls: what makes codes single-use.
SingleUse ==
    /\ \A p \in Polls : poll[p].at # "idle" => agent[p[1]] # "off"
    /\ \A c \in Codes : agent[c] = "off" => ~index[c]
    /\ \A p \in Polls : Won(p) => ~index[p[1]]
    /\ \A p, q \in Polls : Won(p) /\ Won(q) /\ p[1] = q[1] => p = q

\* natforge enroll ends: in the end the agent is enrolled or told that it is not,
\* whatever approvals write into a code that has expired.
EnrolEnds == \A c \in Codes : agent[c] # "off" ~> agent[c] \in {"enrolled", "failed"}

\* "A device is online only while its agent is actually polling" (queries.rs): a
\* device that has no token any more is not shown online for ever, though a
\* request that was checked before may mark it so afterwards.
OnlineEnds == \A d \in Devices : []<>(row[d].status # "online" \/ row[d].token # None)
=============================================================================
