----------------------------- MODULE MCPortPool -----------------------------
(* Small instances of PortPool. *)
EXTENDS PortPool, TLC

CONSTANTS t1, t2, n1, n2, o1, o2, d1

\* A command line agent of one owner and a device of another.
OneOfEach == {[owner |-> o1, device |-> None], [owner |-> o2, device |-> d1]}

Key(kind, local) == [kind |-> kind, local |-> local]

\* A route of each sort; a request drops, keeps or adds some of them.
MixedKeys == {Key("http", 80), Key("tcp", 25565), Key("both", 27015)}
MixedRequests == {{}, {Key("tcp", 25565), Key("http", 80)}, {Key("tcp", 25565), Key("both", 27015)}}

Symmetry == Permutations({t1, t2})
=============================================================================
