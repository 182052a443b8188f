------------------------------ MODULE MuxDriver ------------------------------
(***************************************************************************)
(* The task that owns a session's yamux connection and opens streams to    *)
(* the agent for the tasks that relay public connections:                  *)
(* run_client_driver (natforge-node/src/tunnel/mux.rs), spawned by         *)
(* handle_agent (tunnel/mod.rs).                                           *)
(*                                                                         *)
(* It is one poll function.  A poll never waits; it runs while other       *)
(* threads send requests and frames arrive, so its steps interleave with   *)
(* theirs.  What returns Pending has registered the task's waker with what *)
(* it polled, and an event there wakes the task once more.  yamux and the  *)
(* channel are external, modelled from how the driver uses them: a         *)
(* connection opens at most Backlog streams the agent has not acknowledged *)
(* and learns of acknowledgements when it is polled for inbound frames.    *)
(***************************************************************************)
EXTENDS Naturals, Sequences

CONSTANTS
    Requests,  \* OpenStream requests, each made once
    Capacity,  \* of the request channel
    Backlog    \* of streams the agent has not acknowledged

ASSUME CapacityAssumption == Capacity \in Nat \ {0}
ASSUME BacklogAssumption == Backlog \in Nat \ {0}

VARIABLES
    asking,    \* requests of tasks that are in open_tx.send
    chan,      \* the request channel
    queue,     \* replies accepted from it and still without a stream
    answer,    \* what became of a request
    handles,   \* some task still has a sender of the channel
    conn,      \* whether the connection is up
    acks,      \* acknowledgements that have arrived and were not read
    credit,    \* streams the connection opens without another one
    at,        \* the step of the poll the driver is at
    channel_open, made_progress,
    wakes,     \* what the task's waker is registered with
    woken

pollVars == <<channel_open, made_progress>>
connVars == <<conn, acks, credit>>
vars == <<asking, chan, queue, answer, handles, conn, acks, credit, at,
          channel_open, made_progress, wakes, woken>>

TypeOK ==
    /\ asking \subseteq Requests
    /\ chan \in Seq(Requests) /\ Len(chan) <= Capacity
    /\ queue \in Seq(Requests)
    /\ answer \in [Requests -> {"none", "stream", "refused", "dropped"}]
    /\ handles \in BOOLEAN
    /\ conn \in {"up", "lost"}
    /\ acks \in Nat /\ credit \in Nat /\ acks + credit <= Backlog
    /\ at \in {"inbound", "drain", "open", "decide", "parked", "return", "done"}
    /\ channel_open \in BOOLEAN /\ made_progress \in BOOLEAN
    /\ wakes \subseteq {"inbound", "request"}
    /\ woken \in BOOLEAN

Init ==
    /\ asking = {} /\ chan = <<>> /\ queue = <<>>
    /\ answer = [r \in Requests |-> "none"]
    /\ handles = TRUE
    /\ conn = "up" /\ acks = 0 /\ credit = Backlog
    /\ at = "inbound" /\ channel_open = TRUE /\ made_progress = FALSE
    /\ wakes = {} /\ woken = FALSE

\* An event on what wakes the task, if it was asked to.
Wakes(source) ==
    /\ wakes' = wakes \ {source}
    /\ woken' = (woken \/ source \in wakes)

In(r, s) == \E i \in 1..Len(s) : s[i] = r
Unasked(r) == answer[r] = "none" /\ r \notin asking /\ ~In(r, chan) /\ ~In(r, queue)

-----------------------------------------------------------------------------
(* The tasks that ask, and the agent at the other end.                     *)

Ask(r) ==
    /\ handles /\ Unasked(r)
    /\ asking' = asking \cup {r}
    /\ UNCHANGED <<chan, queue, answer, handles, connVars, at, pollVars, wakes, woken>>

\* Waits while the channel is full.
Send(r) ==
    /\ r \in asking /\ at # "done" /\ Len(chan) < Capacity
    /\ asking' = asking \ {r}
    /\ chan' = Append(chan, r)
    /\ Wakes("request")
    /\ UNCHANGED <<queue, answer, handles, connVars, at, pollVars>>

\* Fails once the driver has returned.
SendFails(r) ==
    /\ r \in asking /\ at = "done"
    /\ asking' = asking \ {r}
    /\ answer' = [answer EXCEPT ![r] = "dropped"]
    /\ UNCHANGED <<chan, queue, handles, connVars, at, pollVars, wakes, woken>>

\* The registries drop their handles and the tasks that hold one end.
HandlesGo ==
    /\ handles
    /\ handles' = FALSE
    /\ asking' = {}
    /\ Wakes("request")
    /\ UNCHANGED <<chan, queue, answer, connVars, at, pollVars>>

Unacknowledged == conn = "up" /\ acks + credit < Backlog

AckArrives ==
    /\ Unacknowledged
    /\ acks' = acks + 1
    /\ Wakes("inbound")
    /\ UNCHANGED <<asking, chan, queue, answer, handles, conn, credit, at, pollVars>>

\* The agent closes the connection, or keepalive finds it dead.
ConnectionFails ==
    /\ conn = "up"
    /\ conn' = "lost"
    /\ Wakes("inbound")
    /\ UNCHANGED <<asking, chan, queue, answer, handles, acks, credit, at, pollVars>>

-----------------------------------------------------------------------------
(* The driver's poll.                                                      *)

Goto(where) == at' = where

\* Fault: inbound frames are tried without the task's waker.
TryInbound ==
    /\ at = "inbound" /\ conn = "up"
    /\ credit' = credit + acks
    /\ acks' = 0
    /\ made_progress' = FALSE
    /\ Goto("drain")
    /\ UNCHANGED <<asking, chan, queue, answer, handles, conn, channel_open, wakes, woken>>

\* 1. Inbound frames are serviced until there are none.
PollInbound ==
    /\ at = "inbound" /\ conn = "up"
    /\ credit' = credit + acks
    /\ acks' = 0
    /\ wakes' = wakes \cup {"inbound"}
    /\ made_progress' = FALSE
    /\ Goto("drain")
    /\ UNCHANGED <<asking, chan, queue, answer, handles, conn, channel_open, woken>>

\* The connection is over: queued requests are answered with an error.
ConnectionLost ==
    /\ at = "inbound" /\ conn = "lost"
    /\ answer' = [r \in Requests |-> IF In(r, queue) THEN "refused" ELSE answer[r]]
    /\ queue' = <<>>
    /\ Goto("return")
    /\ UNCHANGED <<asking, chan, handles, connVars, pollVars, wakes, woken>>

\* Fault: one request is taken per round.
TakeOneRequest ==
    /\ at = "drain" /\ channel_open /\ chan # <<>>
    /\ queue' = Append(queue, Head(chan))
    /\ chan' = Tail(chan)
    /\ Goto("open")
    /\ UNCHANGED <<asking, answer, handles, connVars, pollVars, wakes, woken>>

\* 2. The channel is drained into the queue, however long that gets.
TakeRequest ==
    /\ at = "drain" /\ channel_open /\ chan # <<>>
    /\ queue' = Append(queue, Head(chan))
    /\ chan' = Tail(chan)
    /\ UNCHANGED <<asking, answer, handles, connVars, at, pollVars, wakes, woken>>

\* Fault: while requests are queued no more are taken.
DrainedWhileQueued ==
    /\ at = "drain" /\ (channel_open => chan = <<>> \/ queue # <<>>)
    /\ channel_open' = (channel_open /\ handles)
    /\ wakes' = IF channel_open /\ handles /\ chan = <<>>
                THEN wakes \cup {"request"} ELSE wakes
    /\ Goto("open")
    /\ UNCHANGED <<asking, chan, queue, answer, handles, connVars, made_progress, woken>>

\* An empty channel without senders is found closed.
Drained ==
    /\ at = "drain" /\ (channel_open => chan = <<>>)
    /\ channel_open' = (channel_open /\ handles)
    /\ wakes' = IF channel_open /\ handles THEN wakes \cup {"request"} ELSE wakes
    /\ Goto("open")
    /\ UNCHANGED <<asking, chan, queue, answer, handles, connVars, made_progress, woken>>

\* Fault: the request that came last is served first.
OpenNewest ==
    /\ at = "open" /\ queue # <<>> /\ credit > 0
    /\ answer' = [answer EXCEPT ![queue[Len(queue)]] = "stream"]
    /\ queue' = SubSeq(queue, 1, Len(queue) - 1)
    /\ credit' = credit - 1
    /\ made_progress' = TRUE
    /\ UNCHANGED <<asking, chan, handles, conn, acks, at, channel_open, wakes, woken>>

\* 3. Queued requests get as many streams as the connection gives.
Open ==
    /\ at = "open" /\ queue # <<>> /\ credit > 0
    /\ answer' = [answer EXCEPT ![Head(queue)] = "stream"]
    /\ queue' = Tail(queue)
    /\ credit' = credit - 1
    /\ made_progress' = TRUE
    /\ UNCHANGED <<asking, chan, handles, conn, acks, at, channel_open, wakes, woken>>

\* yamux answers with an error (too many streams).
OpenFails ==
    /\ at = "open" /\ queue # <<>>
    /\ answer' = [answer EXCEPT ![Head(queue)] = "refused"]
    /\ queue' = Tail(queue)
    /\ made_progress' = TRUE
    /\ UNCHANGED <<asking, chan, handles, connVars, at, channel_open, wakes, woken>>

Opened ==
    /\ at = "open" /\ (queue = <<>> \/ credit = 0)
    /\ Goto("decide")
    /\ UNCHANGED <<asking, chan, queue, answer, handles, connVars, pollVars, wakes, woken>>

\* 4. Finish, wait to be woken, or go round again.
Decide ==
    /\ at = "decide"
    /\ Goto(IF ~channel_open /\ queue = <<>> THEN "return"
            ELSE IF made_progress THEN "inbound" ELSE "parked")
    /\ UNCHANGED <<asking, chan, queue, answer, handles, connVars, pollVars, wakes, woken>>

Wake ==
    /\ at = "parked" /\ woken
    /\ woken' = FALSE
    /\ Goto("inbound")
    /\ UNCHANGED <<asking, chan, queue, answer, handles, connVars, pollVars, wakes>>

\* The function returns: the channel goes, and the replies in it.
Return ==
    /\ at = "return"
    /\ answer' = [r \in Requests |-> IF In(r, chan) THEN "dropped" ELSE answer[r]]
    /\ chan' = <<>>
    /\ Goto("done")
    /\ UNCHANGED <<asking, queue, handles, connVars, pollVars, wakes, woken>>

-----------------------------------------------------------------------------
Driver ==
    \/ PollInbound \/ ConnectionLost \/ TakeRequest \/ Drained
    \/ Open \/ OpenFails \/ Opened \/ Decide \/ Wake \/ Return

Next ==
    \/ Driver \/ HandlesGo \/ AckArrives \/ ConnectionFails
    \/ \E r \in Requests : Ask(r) \/ Send(r) \/ SendFails(r)

Spec == Init /\ [][Next]_vars

\* The runtime polls a task that was woken, and a sender that has room sends.
FairSpec ==
    /\ Spec
    /\ WF_vars(Driver)
    /\ \A r \in Requests : WF_vars(Send(r) \/ SendFails(r))

-----------------------------------------------------------------------------
(* Properties.                                                             *)

\* No lost wake-up: a driver that is parked and will not be woken has nothing to
\* do.  (mux.rs: "all three registered their wakers above".)
NoLostWakeup ==
    at = "parked" /\ ~woken =>
        /\ conn = "up" /\ acks = 0
        /\ channel_open => chan = <<>> /\ handles
        /\ queue # <<>> => credit = 0

\* The driver keeps the promise of OpenService: no accepted request is lost,
\* answered twice, or served before one accepted earlier.
OS == INSTANCE OpenService WITH line <- queue \o chan, serving <- at # "done"
ImplementsOpenService == OS!Spec

\* No head-of-line blocking: a task that asks gets its request accepted though
\* the agent acknowledges nothing (mux.rs: "a burst on one route must not stall
\* opens for another").
SendersProceed == \A r \in Requests : r \in asking ~> r \notin asking

\* Every accepted request is answered, as long as the agent keeps acknowledging
\* the streams it was opened or keepalive finds its connection dead.
Answered ==
    []<>(acks > 0 \/ ~Unacknowledged) =>
        \A r \in Requests : In(r, chan) \/ In(r, queue) ~> answer[r] # "none"
=============================================================================
