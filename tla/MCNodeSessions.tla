--------------------------- MODULE MCNodeSessions ---------------------------
(* Small instances of NodeSessions. *)
EXTENDS NodeSessions

CONSTANTS s1, s2, t1, t2, da, db, cd

HttpRoute  == [mode |-> "http", port |-> None]
HttpsRoute == [mode |-> "https", port |-> None]
Tcp(p) == [mode |-> "tcp", port |-> p]
Udp(p) == [mode |-> "udp", port |-> p]

Token(t, d, c, rs) == [tid |-> t, sub |-> d, custom |-> c, routes |-> rs]

\* Tunnel t1 was renamed from da and its old token is still valid when t2
\* takes da; t1's https token is from before its routes were changed.
AnyTokens ==
    << Token(t1, da, cd, <<HttpRoute, Tcp(1)>>),
       Token(t1, da, None, <<Udp(1), HttpsRoute, Tcp(1)>>),
       Token(t2, da, None, <<Tcp(2), HttpRoute>>) >>

\* Every token of a subdomain carries one tcp port of it.  Port 2 moved from
\* t1 to t2 while t1's older token is still valid.
LockTokens ==
    << Token(t1, da, None, <<HttpsRoute, Tcp(1), Tcp(2)>>),
       Token(t2, db, None, <<Tcp(2), HttpRoute>>) >>

AllClaims ==
    {AnyTokens[i] : i \in DOMAIN AnyTokens} \cup {LockTokens[i] : i \in DOMAIN LockTokens}

\* One session has the first token of a set and the other any of it: its own
\* again, or one it was not meant to meet.
Pairs(tokens) ==
    {[s \in Sessions |-> IF s = s1 THEN tokens[1] ELSE tokens[i]] : i \in DOMAIN tokens}

MCInit == Init /\ claims \in Pairs(AnyTokens) \cup Pairs(LockTokens)
MCFairSpec == MCInit /\ [][Next]_vars /\ Fairness

\* One tunnel reachable by host name only.
HostClaims == { Token(t1, da, None, <<HttpRoute>>) }
=============================================================================
