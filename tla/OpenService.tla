----------------------------- MODULE OpenService -----------------------------
(***************************************************************************)
(* What a session promises the tasks that ask it for streams to the agent: *)
(* those accepted are answered once and in the order they were accepted,   *)
(* and none is kept when the session ends.  An answer is a stream, an      *)
(* error, or the loss of the sending end of the reply.                     *)
(***************************************************************************)
EXTENDS Naturals, Sequences

CONSTANT Requests

VARIABLES
    line,     \* accepted and not answered, in order
    answer,
    serving

openVars == <<line, answer, serving>>

Answers == {"stream", "refused", "dropped"}

Init ==
    /\ line = <<>>
    /\ answer = [r \in Requests |-> "none"]
    /\ serving = TRUE

Waiting(r) == \E i \in 1..Len(line) : line[i] = r

Accept(r) ==
    /\ serving /\ answer[r] = "none" /\ ~Waiting(r)
    /\ line' = Append(line, r)
    /\ UNCHANGED <<answer, serving>>

\* The first of the line gets a stream or an error.
Answer ==
    /\ line # <<>>
    /\ \E a \in {"stream", "refused"} : answer' = [answer EXCEPT ![Head(line)] = a]
    /\ line' = Tail(line)
    /\ UNCHANGED serving

\* The connection is lost: the first n get an error.
Refuse(n) ==
    /\ answer' = [r \in Requests |->
                     IF \E i \in 1..n : line[i] = r THEN "refused" ELSE answer[r]]
    /\ line' = SubSeq(line, n + 1, Len(line))
    /\ UNCHANGED serving

\* The session ends, and what is left of the line with it.
Shut ==
    /\ serving
    /\ answer' = [r \in Requests |-> IF Waiting(r) THEN "dropped" ELSE answer[r]]
    /\ line' = <<>>
    /\ serving' = FALSE

\* A session that has ended accepts nothing.
Late(r) ==
    /\ ~serving /\ answer[r] = "none"
    /\ answer' = [answer EXCEPT ![r] = "dropped"]
    /\ UNCHANGED <<line, serving>>

Next ==
    \/ \E r \in Requests : Accept(r) \/ Late(r)
    \/ \E n \in 0..Len(line) : Refuse(n)
    \/ Answer \/ Shut

Spec == Init /\ [][Next]_openVars
=============================================================================
