------------------------- MODULE MCPoolTransactions -------------------------
(* Small instances of PoolTransactions. *)
EXTENDS PoolTransactions, TLC

CONSTANTS t1, t2, n1, n2, o1, d1, x1, x2

\* All tunnels are services of one device.
OneDevice == {[owner |-> o1, device |-> d1]}

Key(kind, local) == [kind |-> kind, local |-> local]

\* Two routes that clash on a device, of which a move claims for one only.
MixedKeys == {Key("tcp", 80), Key("both", 80)}
MixedRequests == {{k} : k \in MixedKeys}

Symmetry == Permutations({t1, t2}) \cup Permutations({x1, x2})

\* Without the steps that write the status only: they write no row of routes or
\* port_pool and wait for no lock.  The node that a session reports is one of
\* homes in any case.
MCNext ==
    \/ \E x \in Txs : TxStep(x)
    \/ Direct(AdminStep)
    \/ \E t \in Tunnels : Direct(DeleteTunnel(t))

MCSpec == TxInit /\ [][MCNext]_txvars
=============================================================================
