--------------------------- MODULE MCSharedRouter ---------------------------
(* Small instances of SharedRouter. *)
EXTENDS SharedRouter

CONSTANTS ta, tb, a1, a2, b1, o1

\* Tunnel tb has a custom domain whose leftmost label is the subdomain of ta.
SubOf == [t \in Tunnels |-> IF t = ta THEN "a" ELSE "b"]
DomainOf == [t \in Tunnels |-> IF t = ta THEN None ELSE "a.own"]

\* Two sessions of ta may overlap, and a stop call.
OfSlot == [s \in Tasks |-> IF s = b1 THEN tb ELSE ta]

\* Every order of one or two host routes for ta; tb has both or only http.
OrdersOf ==
    [t \in Tunnels |-> IF t = ta THEN {<<"http">>, <<"http", "https">>, <<"https", "http">>}
                       ELSE {<<"http">>, <<"http", "https">>}]

\* Names are told apart by label and domain: what is read of "a.own" when a segment
\* ends within it is looked up as "a.apex" is.
Names == {"a.apex", "b.apex", "a.own", "apex"}
LabelOf ==
    [n \in Names |-> CASE n \in {"a.apex", "a.own"} -> "a"
                       [] n = "b.apex" -> "b" [] OTHER -> "apex"]

\* Each step moves only where the one connection can tell: sessions before its
\* look-ups and, of tunnels that its name may find, between them; certificates
\* before the look-up that asks for one; the policy while it is about to read a
\* list.  What is not about look-ups waits until the sessions rest.  Slots are
\* alike: a2 is taken while a1 is.
Resting == mixed = {} /\ \A s \in Tasks : phase[s] \in {"up", "down"}
Findable(t, k) ==
    \/ k.at = "new"
    \/ k.at \in LookUps /\ (Custom[t] = k.name \/ Sub[t] = Label[k.name])
LooksUp(c) ==
    \/ conn[c].at = "new"
    \/ conn[c].at = "peek" /\ conn'[c].at = "custom"
    \/ conn[c].at \in LookUps

\* What certificate there is and what tb registers matter to connections that no
\* https route of ta takes.
MCInit ==
    /\ Init /\ blocked = Kept /\ ~pulled
    /\ modes[ta] = <<"http">> \/ (wildcard /\ modes[tb] = <<"http", "https">>)

MCNext ==
    \/ /\ SessionStep
       /\ \A c \in Conns, s \in Tasks :
             phase[s] # phase'[s] \/ step[s] # step'[s] => Findable(Of[s], conn[c])
       /\ phase[a2] = "down" /\ phase'[a2] # "down" => phase[a1] # "down"
    \/ PolicyStep /\ Resting /\ \A c \in Conns : conn[c].at \in {"global", "tunnel"}
    \/ \E d \in Hosts : CertIssued(d) /\ \A c \in Conns : conn[c].at = "wildcard"
    \/ \E c \in Conns : ConnStep(c) /\ (Resting \/ LooksUp(c))

MCSpec == MCInit /\ [][MCNext]_vars /\ Fairness
=============================================================================
