--------------------------- MODULE MuxDriver_proofs ---------------------------
(***************************************************************************)
(* Theorems about MuxDriver for any requests, channel capacity and backlog. *)
(***************************************************************************)
EXTENDS MuxDriver, SequenceTheorems, TLAPS

\* Taking a request from the channel into the queue leaves the line as it is.
LEMMA LineMove ==
    ASSUME NEW R, NEW q \in Seq(R), NEW c \in Seq(R), c # <<>>
    PROVE  Append(q, Head(c)) \o Tail(c) = q \o c
<1>1. /\ Head(c) \in R /\ Tail(c) \in Seq(R)
      /\ Len(Tail(c)) = Len(c) - 1 /\ Len(c) \in Nat \ {0} /\ Len(q) \in Nat
    OBVIOUS
<1>2. Append(q, Head(c)) \o Tail(c) \in Seq(R) /\ q \o c \in Seq(R)
    BY <1>1
<1>3. Len(Append(q, Head(c)) \o Tail(c)) = Len(q \o c)
    BY <1>1
<1>4. ASSUME NEW i \in 1..Len(q \o c)
      PROVE  (Append(q, Head(c)) \o Tail(c))[i] = (q \o c)[i]
    BY <1>1, <1>2
<1> QED BY <1>2, <1>3, <1>4, SeqEqual

\* The line begins with the queue.
LEMMA LineHead ==
    ASSUME NEW R, NEW q \in Seq(R), NEW c \in Seq(R), q # <<>>
    PROVE  /\ q \o c # <<>>
           /\ Head(q \o c) = Head(q)
           /\ Tail(q \o c) = Tail(q) \o c
<1>1. /\ Head(q) \in R /\ Tail(q) \in Seq(R)
      /\ Len(Tail(q)) = Len(q) - 1 /\ Len(q) \in Nat \ {0} /\ Len(c) \in Nat
    OBVIOUS
<1>2. q \o c \in Seq(R) /\ q \o c # <<>> /\ Len(q \o c) = Len(q) + Len(c)
    BY <1>1
<1>3. Tail(q \o c) \in Seq(R) /\ Len(Tail(q \o c)) = Len(Tail(q) \o c)
    BY <1>1, <1>2
<1>4. ASSUME NEW i \in 1..Len(Tail(q \o c))
      PROVE  Tail(q \o c)[i] = (Tail(q) \o c)[i]
    BY <1>1, <1>2, <1>3
<1>5. Tail(q) \o c \in Seq(R)
    BY <1>1
<1> QED BY <1>1, <1>2, <1>3, <1>4, <1>5, SeqEqual

\* A request joins the line at the end of the channel.
LEMMA LineAppend ==
    ASSUME NEW R, NEW q \in Seq(R), NEW c \in Seq(R), NEW r \in R
    PROVE  q \o Append(c, r) = Append(q \o c, r)
<1>1. /\ q \o Append(c, r) \in Seq(R) /\ Append(q \o c, r) \in Seq(R)
      /\ Len(q \o Append(c, r)) = Len(Append(q \o c, r))
    OBVIOUS
<1>2. ASSUME NEW i \in 1..Len(Append(q \o c, r))
      PROVE  (q \o Append(c, r))[i] = Append(q \o c, r)[i]
    OBVIOUS
<1> QED BY <1>1, <1>2, SeqEqual

\* What is left of the line without the queue is the channel.
LEMMA LineRest ==
    ASSUME NEW R, NEW q \in Seq(R), NEW c \in Seq(R)
    PROVE  /\ Len(q) \in 0..Len(q \o c)
           /\ SubSeq(q \o c, Len(q) + 1, Len(q \o c)) = c
<1>1. Len(q) \in Nat /\ Len(c) \in Nat /\ Len(q \o c) = Len(q) + Len(c)
    OBVIOUS
<1>2. /\ SubSeq(q \o c, Len(q) + 1, Len(q \o c)) \in Seq(R)
      /\ Len(SubSeq(q \o c, Len(q) + 1, Len(q \o c))) = Len(c)
    BY <1>1
<1>3. ASSUME NEW i \in 1..Len(c)
      PROVE  SubSeq(q \o c, Len(q) + 1, Len(q \o c))[i] = c[i]
    BY <1>1
<1> QED BY <1>1, <1>2, <1>3, SeqEqual

\* Who waits: the requests of the queue and those of the channel.
LEMMA LineIn ==
    ASSUME NEW R, NEW q \in Seq(R), NEW c \in Seq(R), NEW r
    PROVE  In(r, q \o c) <=> In(r, q) \/ In(r, c)
<1>1. Len(q) \in Nat /\ Len(c) \in Nat /\ Len(q \o c) = Len(q) + Len(c)
    OBVIOUS
<1>2. ASSUME NEW i \in 1..Len(q) PROVE (q \o c)[i] = q[i] /\ i \in 1..Len(q \o c)
    BY <1>1
<1>3. ASSUME NEW i \in 1..Len(c)
      PROVE  (q \o c)[Len(q) + i] = c[i] /\ Len(q) + i \in 1..Len(q \o c)
    BY <1>1
<1>4. ASSUME NEW i \in 1..Len(q \o c), i > Len(q)
      PROVE  (q \o c)[i] = c[i - Len(q)] /\ i - Len(q) \in 1..Len(c)
    <2>1. i \in 1..(Len(q) + Len(c)) /\ ~(i <= Len(q)) /\ i - Len(q) \in 1..Len(c)
        BY <1>1, <1>4
    <2> QED BY <2>1, ConcatProperties
<1>5. ASSUME In(r, q) \/ In(r, c) PROVE In(r, q \o c)
    <2>1. CASE In(r, q)
        <3>1. PICK i \in 1..Len(q) : q[i] = r
            BY <2>1 DEF In
        <3> QED BY <1>2, <3>1 DEF In
    <2>2. CASE In(r, c)
        <3>1. PICK i \in 1..Len(c) : c[i] = r
            BY <2>2 DEF In
        <3> QED BY <1>3, <3>1 DEF In
    <2> QED BY <1>5, <2>1, <2>2
<1>6. ASSUME In(r, q \o c) PROVE In(r, q) \/ In(r, c)
    <2>1. PICK i \in 1..Len(q \o c) : (q \o c)[i] = r
        BY <1>6 DEF In
    <2>2. CASE i > Len(q)
        BY <1>4, <2>1, <2>2 DEF In
    <2>3. CASE i <= Len(q)
        BY <1>1, <1>2, <2>1, <2>3 DEF In
    <2> QED BY <1>1, <2>2, <2>3
<1> QED BY <1>5, <1>6

-----------------------------------------------------------------------------
\* Type correctness: the channel never exceeds its capacity and the connection is
\* never believed to have more room than its backlog.
THEOREM TypeCorrect == Spec => []TypeOK
<1>1. Init => TypeOK
    <2>1. <<>> \in Seq(Requests) /\ Len(<<>>) = 0 /\ {} \subseteq Requests
        BY EmptySeq
    <2>2. 0 <= Capacity /\ 0 \in Nat /\ Backlog \in Nat /\ 0 + Backlog <= Backlog
        BY CapacityAssumption, BacklogAssumption
    <2> QED BY <2>1, <2>2 DEF Init, TypeOK
<1>2. TypeOK /\ [Next]_vars => TypeOK'
    <2> SUFFICES ASSUME TypeOK, [Next]_vars PROVE TypeOK'
        OBVIOUS
    <2> USE CapacityAssumption, BacklogAssumption DEF TypeOK, connVars, pollVars, Wakes, Goto
    <2>1. ASSUME NEW r \in Requests, Ask(r) PROVE TypeOK'
        BY <2>1 DEF Ask
    <2>2. ASSUME NEW r \in Requests, Send(r) PROVE TypeOK'
        BY <2>2 DEF Send
    <2>3. ASSUME NEW r \in Requests, SendFails(r) PROVE TypeOK'
        BY <2>3 DEF SendFails
    <2>4. CASE HandlesGo
        BY <2>4 DEF HandlesGo
    <2>5. CASE AckArrives
        BY <2>5 DEF AckArrives, Unacknowledged
    <2>6. CASE ConnectionFails
        BY <2>6 DEF ConnectionFails
    <2>7. CASE PollInbound
        <3>1. acks' \in Nat /\ credit' \in Nat /\ acks' + credit' <= Backlog
            BY <2>7 DEF PollInbound
        <3>2. wakes' \subseteq {"inbound", "request"}
            BY <2>7 DEF PollInbound
        <3> QED BY <2>7, <3>1, <3>2 DEF PollInbound
    <2>8. CASE ConnectionLost
        BY <2>8 DEF ConnectionLost
    <2>9. CASE TakeRequest
        BY <2>9 DEF TakeRequest
    <2>10. CASE Drained
        BY <2>10 DEF Drained
    <2>11. CASE Open
        BY <2>11 DEF Open
    <2>12. CASE OpenFails
        BY <2>12 DEF OpenFails
    <2>13. CASE Opened \/ Decide \/ Wake
        BY <2>13 DEF Opened, Decide, Wake
    <2>14. CASE Return
        BY <2>14 DEF Return
    <2>15. CASE UNCHANGED vars
        BY <2>15 DEF vars
    <2> QED BY <2>1, <2>2, <2>3, <2>4, <2>5, <2>6, <2>7, <2>8, <2>9, <2>10, <2>11, <2>12,
               <2>13, <2>14, <2>15 DEF Next, Driver
<1> QED BY <1>1, <1>2, PTL DEF Spec

-----------------------------------------------------------------------------
\* Why no wake-up is lost: from the point of the poll where a source was found
\* pending, either nothing has happened there or the task will be woken.
WakeInv ==
    /\ at \in {"drain", "open", "decide", "parked"} /\ ~woken =>
          "inbound" \in wakes /\ acks = 0 /\ conn = "up"
    /\ at \in {"open", "decide", "parked"} /\ ~woken /\ channel_open =>
          "request" \in wakes /\ chan = <<>> /\ handles
    /\ at \in {"decide", "parked"} /\ queue # <<>> => credit = 0

\* Every step keeps it: an event at a source uses up its registration and wakes.
LEMMA WakeStep == TypeOK /\ WakeInv /\ [Next]_vars => WakeInv'
<1> SUFFICES ASSUME TypeOK, WakeInv, [Next]_vars PROVE WakeInv'
    OBVIOUS
<1> USE DEF WakeInv, connVars, pollVars, Wakes, Goto
<1>1. ASSUME NEW r \in Requests, Ask(r) \/ SendFails(r) PROVE WakeInv'
    BY <1>1 DEF Ask, SendFails
<1>2. ASSUME NEW r \in Requests, Send(r) PROVE WakeInv'
    BY <1>2 DEF Send, TypeOK
<1>3. CASE HandlesGo
    BY <1>3 DEF HandlesGo, TypeOK
<1>4. CASE AckArrives \/ ConnectionFails
    BY <1>4 DEF AckArrives, ConnectionFails, TypeOK
<1>5. CASE PollInbound \/ ConnectionLost \/ TakeRequest
    BY <1>5 DEF PollInbound, ConnectionLost, TakeRequest
<1>6. CASE Drained
    BY <1>6 DEF Drained, TypeOK
<1>7. CASE Open \/ OpenFails
    BY <1>7 DEF Open, OpenFails
<1>8. CASE Opened
    BY <1>8 DEF Opened
<1>9. CASE Decide \/ Wake \/ Return
    BY <1>9 DEF Decide, Wake, Return
<1>10. CASE UNCHANGED vars
    BY <1>10 DEF vars
<1> QED BY <1>1, <1>2, <1>3, <1>4, <1>5, <1>6, <1>7, <1>8, <1>9, <1>10 DEF Next, Driver

\* No wake-up is lost: a driver that is parked and will not be woken has no request,
\* acknowledgement, loss or room to attend to.
THEOREM NoneLost == Spec => []NoLostWakeup
<1>1. Init => WakeInv
    BY DEF Init, WakeInv
<1>2. WakeInv => NoLostWakeup
    BY DEF WakeInv, NoLostWakeup
<1> QED BY <1>1, <1>2, WakeStep, TypeCorrect, PTL DEF Spec

-----------------------------------------------------------------------------
\* What the refinement needs: a task that asks is not in the line and has no
\* answer, the queue is empty when the driver returns, the line when it has.
AskInv ==
    /\ \A r \in asking : answer[r] = "none" /\ ~In(r, queue) /\ ~In(r, chan)
    /\ at \in {"return", "done"} => queue = <<>>
    /\ at = "done" => chan = <<>>

\* The elements of a sequence that was appended to, or lost its head.
LEMMA InAppend ==
    ASSUME NEW s \in Seq(Requests), NEW r \in Requests, NEW x
    PROVE  In(x, Append(s, r)) => In(x, s) \/ x = r
<1>1. Len(s) \in Nat /\ Len(Append(s, r)) = Len(s) + 1
    OBVIOUS
<1>2. SUFFICES ASSUME NEW i \in 1..Len(Append(s, r)), Append(s, r)[i] = x
               PROVE  In(x, s) \/ x = r
    BY DEF In
<1>3. CASE i = Len(s) + 1
    BY <1>2, <1>3
<1>4. CASE i # Len(s) + 1
    <2>1. i \in 1..Len(s) /\ s[i] = x
        BY <1>1, <1>2, <1>4
    <2> QED BY <2>1 DEF In
<1> QED BY <1>3, <1>4

LEMMA InTail ==
    ASSUME NEW s \in Seq(Requests), s # <<>>, NEW x
    PROVE  /\ In(x, Tail(s)) => In(x, s)
           /\ In(Head(s), s)
<1>1. /\ Len(s) \in Nat \ {0} /\ Len(Tail(s)) = Len(s) - 1 /\ Head(s) = s[1]
      /\ \A i \in 1..Len(Tail(s)) : Tail(s)[i] = s[i + 1]
    BY HeadTailProperties
<1>2. In(Head(s), s)
    BY <1>1 DEF In
<1>3. ASSUME In(x, Tail(s)) PROVE In(x, s)
    <2>1. PICK i \in 1..Len(Tail(s)) : Tail(s)[i] = x
        BY <1>3 DEF In
    <2>2. i + 1 \in 1..Len(s) /\ s[i + 1] = x
        BY <1>1, <2>1
    <2> QED BY <2>2 DEF In
<1> QED BY <1>2, <1>3

\* Every step keeps AskInv.
LEMMA AskStep == TypeOK /\ AskInv /\ [Next]_vars => AskInv'
<1> SUFFICES ASSUME TypeOK, AskInv, [Next]_vars PROVE AskInv'
    OBVIOUS
<1> USE DEF connVars, pollVars, Goto
<1>e. \A r : ~In(r, <<>>)
    BY DEF In
<1>1. ASSUME NEW r \in Requests, Ask(r) PROVE AskInv'
    BY <1>1 DEF Ask, AskInv, Unasked
<1>2. ASSUME NEW r \in Requests, Send(r) PROVE AskInv'
    <2>1. \A x \in asking' : x # r /\ x \in asking
        BY <1>2 DEF Send
    <2>2. \A x \in asking' : ~In(x, chan')
        BY <1>2, <2>1, InAppend DEF Send, AskInv, TypeOK
    <2> QED BY <1>2, <2>1, <2>2 DEF Send, AskInv
<1>3. ASSUME NEW r \in Requests, SendFails(r) PROVE AskInv'
    BY <1>3 DEF SendFails, AskInv, TypeOK
<1>4. CASE HandlesGo
    BY <1>4 DEF HandlesGo, AskInv
<1>5. CASE AckArrives \/ ConnectionFails \/ PollInbound \/ Drained \/ Opened \/ Wake
    BY <1>5 DEF AckArrives, ConnectionFails, PollInbound, Drained, Opened, Wake, AskInv
<1>6. CASE ConnectionLost
    BY <1>6, <1>e DEF ConnectionLost, AskInv, TypeOK
<1>7. CASE TakeRequest
    <2>1. Head(chan) \in Requests /\ In(Head(chan), chan)
          /\ \A x : In(x, Tail(chan)) => In(x, chan)
        BY <1>7, InTail DEF TakeRequest, TypeOK
    <2>2. \A x \in asking : ~In(x, queue') /\ ~In(x, chan')
        BY <1>7, <2>1, InAppend DEF TakeRequest, AskInv, TypeOK
    <2> QED BY <1>7, <2>2 DEF TakeRequest, AskInv
<1>8. CASE Open \/ OpenFails
    <2>1. In(Head(queue), queue) /\ \A x : In(x, Tail(queue)) => In(x, queue)
        BY <1>8, InTail DEF Open, OpenFails, TypeOK
    <2>2. \A x \in asking : answer'[x] = "none" /\ ~In(x, queue')
        BY <1>8, <2>1 DEF Open, OpenFails, AskInv, TypeOK
    <2> QED BY <1>8, <2>2 DEF Open, OpenFails, AskInv
<1>9. CASE Decide
    BY <1>9 DEF Decide, AskInv
<1>10. CASE Return
    BY <1>10, <1>e DEF Return, AskInv, TypeOK
<1>11. CASE UNCHANGED vars
    BY <1>11 DEF vars, AskInv
<1> QED BY <1>1, <1>2, <1>3, <1>4, <1>5, <1>6, <1>7, <1>8, <1>9, <1>10, <1>11
        DEF Next, Driver

-----------------------------------------------------------------------------
\* The driver implements OpenService: requests join the line when they are sent, the
\* first of the line is the first of the queue, and the line ends with the channel.
THEOREM Implements == Spec => ImplementsOpenService
<1> DEFINE line == queue \o chan
           serving == at # "done"
<1>1. Init => OS!Init
    <2> SUFFICES ASSUME Init PROVE OS!Init
        OBVIOUS
    <2>1. <<>> \o <<>> = <<>>
        BY EmptySeq, ConcatEmptySeq
    <2> QED BY <2>1 DEF Init, OS!Init
<1>2. TypeOK /\ AskInv /\ [Next]_vars => [OS!Next]_(OS!openVars)
    <2> SUFFICES ASSUME TypeOK, AskInv, [Next]_vars
                 PROVE  OS!Next \/ UNCHANGED OS!openVars
        OBVIOUS
    <2>t. queue \in Seq(Requests) /\ chan \in Seq(Requests)
        BY DEF TypeOK
    <2>w. \A r : OS!Waiting(r) <=> In(r, queue) \/ In(r, chan)
        <3>1. \A r : OS!Waiting(r) <=> In(r, line)
            BY DEF OS!Waiting, In
        <3> QED BY <2>t, <3>1, LineIn
    <2>e. chan \o <<>> = chan /\ <<>> \o chan = chan /\ <<>> \o <<>> = <<>>
        BY <2>t, EmptySeq, ConcatEmptySeq
    <2> USE DEF connVars, pollVars, Goto
    <2>1. CASE \/ \E r \in Requests : Ask(r)
               \/ HandlesGo \/ AckArrives \/ ConnectionFails \/ PollInbound \/ Drained
               \/ Opened \/ Decide \/ Wake
        BY <2>1 DEF Ask, HandlesGo, AckArrives, ConnectionFails, PollInbound, Drained,
                    Opened, Decide, Wake, OS!openVars
    <2>2. ASSUME NEW r \in Requests, Send(r) PROVE OS!Next
        <3>1. line' = Append(line, r)
            BY <2>2, <2>t, LineAppend DEF Send
        <3>2. OS!Accept(r)
            BY <2>2, <2>w, <3>1 DEF Send, OS!Accept, AskInv
        <3> QED BY <3>2 DEF OS!Next
    <2>3. ASSUME NEW r \in Requests, SendFails(r) PROVE OS!Next
        <3>1. OS!Late(r)
            BY <2>3 DEF SendFails, OS!Late, AskInv
        <3> QED BY <3>1 DEF OS!Next
    <2>4. CASE TakeRequest
        <3>1. line' = line
            BY <2>4, <2>t, LineMove DEF TakeRequest
        <3> QED BY <2>4, <3>1 DEF TakeRequest, OS!openVars
    <2>5. CASE Open \/ OpenFails
        <3>1. line # <<>> /\ Head(line) = Head(queue) /\ line' = Tail(line)
            BY <2>5, <2>t, LineHead DEF Open, OpenFails
        <3>2. OS!Answer
            BY <2>5, <3>1 DEF Open, OpenFails, OS!Answer
        <3> QED BY <3>2 DEF OS!Next
    <2>6. CASE ConnectionLost
        <3>1. Len(queue) \in 0..Len(line) /\ SubSeq(line, Len(queue) + 1, Len(line)) = chan
            BY <2>t, LineRest
        <3>2. line' = chan
            BY <2>6, <2>e DEF ConnectionLost
        <3>3. \A i \in 1..Len(queue) : line[i] = queue[i]
            BY <2>t
        <3>4. OS!Refuse(Len(queue))
            BY <2>6, <3>1, <3>2, <3>3 DEF ConnectionLost, OS!Refuse, In
        <3> QED BY <3>1, <3>4 DEF OS!Next
    <2>7. CASE Return
        <3>1. queue = <<>> /\ queue' = <<>> /\ line' = <<>>
            BY <2>7, <2>e DEF Return, AskInv
        <3>2. \A r : ~In(r, <<>>)
            BY DEF In
        <3>3. OS!Shut
            BY <2>7, <2>w, <3>1, <3>2 DEF Return, OS!Shut
        <3> QED BY <3>3 DEF OS!Next
    <2>8. CASE UNCHANGED vars
        BY <2>8 DEF vars, OS!openVars
    <2> QED BY <2>1, <2>2, <2>3, <2>4, <2>5, <2>6, <2>7, <2>8 DEF Next, Driver
<1>3. Init => AskInv
    BY DEF Init, AskInv
<1> QED BY <1>1, <1>2, <1>3, AskStep, TypeCorrect, PTL
        DEF Spec, ImplementsOpenService, OS!Spec
=============================================================================
