--------------------------- MODULE UdpFlows_proofs ---------------------------
(***************************************************************************)
(* Theorems about UdpFlows for any peers, flows and capacities.            *)
(***************************************************************************)
EXTENDS UdpFlows, SequenceTheorems, FiniteSetTheorems, TLAPS

\* A flow that has not returned knows its peer: the notice it sends names one.
TypeInv ==
    /\ TypeOK
    /\ \A f \in Flows : pc[f] # "free" => peer[f] \in Peers

LEMMA TypeInvariant == Spec => []TypeInv
<1>1. Init => TypeInv
    <2>1. <<>> \in Seq(Peers) /\ Len(<<>>) = 0
        BY EmptySeq
    <2> QED BY <2>1, CapacityAssumption DEF Init, TypeOK, TypeInv
<1>2. TypeInv /\ [Next]_vars => TypeInv'
    <2> SUFFICES ASSUME TypeInv, [Next]_vars PROVE TypeInv'
        OBVIOUS
    <2> USE CapacityAssumption DEF TypeInv, TypeOK, listenerVars, Goto
    <2>1. CASE Forget
        <3>1. Tail(closed) \in Seq(Peers) /\ Len(Tail(closed)) = Len(closed) - 1
              /\ Len(closed) \in Nat
            BY <2>1, HeadTailProperties, LenProperties DEF Forget
        <3> QED BY <2>1, <3>1 DEF Forget
    <2>2. ASSUME NEW p \in Peers, Ride(p) PROVE TypeInv'
        BY <2>2 DEF Ride, Rides
    <2>3. ASSUME NEW p \in Peers, NewPeer(p) PROVE TypeInv'
        BY <2>3 DEF NewPeer
    <2>4. ASSUME NEW f \in Flows, OpenFlow(f) PROVE TypeInv'
        BY <2>4 DEF OpenFlow
    <2>5. CASE OpenFails
        BY <2>5 DEF OpenFails
    <2>6. CASE ListenerEnds
        <3>1. closed' \in Seq(Peers) /\ Len(closed') <= Notices
            BY <2>6, EmptySeq DEF ListenerEnds
        <3>2. flows' \in [Peers -> Flows \cup {None}]
            BY <2>6 DEF ListenerEnds
        <3> QED BY <2>6, <3>1, <3>2 DEF ListenerEnds
    <2>7. ASSUME NEW f \in Flows, WritePreamble(f) \/ PreambleFails(f) \/ Report(f)
          PROVE  TypeInv'
        BY <2>7 DEF WritePreamble, PreambleFails, Report
    <2>8. ASSUME NEW f \in Flows, Forward(f) PROVE TypeInv'
        BY <2>8 DEF Forward
    <2>9. ASSUME NEW f \in Flows, RelayEnds(f) PROVE TypeInv'
        BY <2>9 DEF RelayEnds
    <2>10. ASSUME NEW f \in Flows, Notify(f) PROVE TypeInv'
        <3>1. closed' \in Seq(Peers) /\ Len(closed') <= Notices
            <4>1. peer[f] \in Peers
                BY <2>10 DEF Notify
            <4>2. Len(closed) \in Nat /\ Notices \in Nat
                BY LenProperties, CapacityAssumption
            <4>3. CASE running /\ Len(closed) < Notices /\ closed' = Append(closed, peer[f])
                <5>1. Append(closed, peer[f]) \in Seq(Peers)
                    BY <4>1, AppendProperties
                <5>2. Len(Append(closed, peer[f])) = Len(closed) + 1
                    BY <4>1, AppendProperties
                <5> HIDE DEF TypeInv
                <5> QED BY <4>2, <4>3, <5>1, <5>2
            <4>4. CASE ~running /\ UNCHANGED closed
                BY <4>4
            <4> QED BY <2>10, <4>3, <4>4 DEF Notify
        <3> QED BY <2>10, <3>1 DEF Notify
    <2>11. CASE UNCHANGED vars
        BY <2>11 DEF vars
    <2> QED BY <2>1, <2>2, <2>3, <2>4, <2>5, <2>6, <2>7, <2>8, <2>9, <2>10, <2>11
            DEF Next, FlowStep, StreamAnswered
<1> QED BY <1>1, <1>2, PTL DEF Spec

\* Type correctness: mailboxes and the channel of notices keep their capacities.
THEOREM TypeCorrect == Spec => []TypeOK
<1>1. TypeInv => TypeOK
    BY DEF TypeInv
<1> QED BY <1>1, TypeInvariant, PTL

-----------------------------------------------------------------------------
\* Notices are kept in order: one more adds its peer, and taking the first leaves
\* those of the other peers.
LEMMA NoticeAdded ==
    ASSUME NEW s \in Seq(Peers), NEW q \in Peers
    PROVE  /\ In(q, Append(s, q))
           /\ \A p : In(p, s) => In(p, Append(s, q))
<1>1. /\ Len(s) \in Nat /\ Len(Append(s, q)) = Len(s) + 1
      /\ Append(s, q)[Len(s) + 1] = q
      /\ \A i \in 1..Len(s) : Append(s, q)[i] = s[i]
    BY AppendProperties, LenProperties
<1>2. Len(s) + 1 \in 1..Len(Append(s, q)) /\ 1..Len(s) \subseteq 1..Len(Append(s, q))
    BY <1>1
<1>3. In(q, Append(s, q))
    BY <1>1, <1>2 DEF In
<1>4. ASSUME NEW p, In(p, s) PROVE In(p, Append(s, q))
    <2>1. PICK i \in 1..Len(s) : s[i] = p
        BY <1>4 DEF In
    <2>2. i \in 1..Len(Append(s, q)) /\ Append(s, q)[i] = p
        BY <1>1, <1>2, <2>1
    <2> QED BY <2>2 DEF In
<1> QED BY <1>3, <1>4

LEMMA NoticeTaken ==
    ASSUME NEW s \in Seq(Peers), s # <<>>, NEW p, In(p, s), p # Head(s)
    PROVE  In(p, Tail(s))
<1>1. /\ Len(s) \in Nat \ {0} /\ Len(Tail(s)) = Len(s) - 1 /\ Head(s) = s[1]
      /\ \A i \in 1..Len(Tail(s)) : Tail(s)[i] = s[i + 1]
    BY HeadTailProperties
<1>2. PICK i \in 1..Len(s) : s[i] = p
    BY DEF In
<1>3. i - 1 \in 1..Len(Tail(s)) /\ (i - 1) + 1 = i
    BY <1>1, <1>2
<1>4. Tail(s)[i - 1] = p
    BY <1>1, <1>2, <1>3
<1> QED BY <1>3, <1>4 DEF In

\* The strengthening: a listener that has ended holds nothing.
EntryInv ==
    /\ NoDeadEntry
    /\ ~running => opening = None /\ \A p \in Peers : flows[p] = None

LEMMA EntryStep == TypeInv /\ EntryInv /\ [Next]_vars => EntryInv'
<1> SUFFICES ASSUME TypeInv, EntryInv, [Next]_vars PROVE EntryInv'
    OBVIOUS
<1> USE DEF listenerVars, Goto
<1>1. CASE Forget
    <2>1. ASSUME NEW p \in Peers, flows'[p] # None
          PROVE  flows[p] = flows'[p] /\ p # Head(closed)
        BY <1>1, <2>1 DEF Forget, TypeInv, TypeOK
    <2>2. ASSUME NEW p \in Peers, flows'[p] # None, In(p, closed) PROVE In(p, closed')
        BY <1>1, <2>1, <2>2, NoticeTaken DEF Forget, TypeInv, TypeOK
    <2> QED BY <1>1, <2>1, <2>2 DEF Forget, EntryInv, NoDeadEntry, Selecting
<1>2. ASSUME NEW p \in Peers, Ride(p) PROVE EntryInv'
    BY <1>2 DEF Ride, EntryInv, NoDeadEntry
<1>3. ASSUME NEW p \in Peers, NewPeer(p) PROVE EntryInv'
    BY <1>3 DEF NewPeer, EntryInv, NoDeadEntry, Selecting, TypeInv, TypeOK
<1>4. ASSUME NEW f \in Flows, OpenFlow(f) PROVE EntryInv'
    BY <1>4, NoneAssumption DEF OpenFlow, EntryInv, NoDeadEntry, TypeInv, TypeOK
<1>5. CASE OpenFails
    BY <1>5 DEF OpenFails, EntryInv, NoDeadEntry
<1>6. CASE ListenerEnds
    BY <1>6 DEF ListenerEnds, EntryInv, NoDeadEntry
<1>7. ASSUME NEW f \in Flows,
             WritePreamble(f) \/ PreambleFails(f) \/ Report(f) \/ RelayEnds(f) \/ Forward(f)
      PROVE  EntryInv'
    BY <1>7 DEF WritePreamble, PreambleFails, Report, RelayEnds, Forward,
                EntryInv, NoDeadEntry, TypeInv, TypeOK
<1>8. ASSUME NEW f \in Flows, Notify(f) PROVE EntryInv'
    <2>1. peer[f] \in Peers /\ pc[f] # "free" /\ closed \in Seq(Peers)
        BY <1>8 DEF Notify, TypeInv, TypeOK
    <2>2. CASE ~running
        BY <1>8, <2>2 DEF Notify, EntryInv, NoDeadEntry
    <2>3. CASE running
        <3>1. In(peer[f], closed') /\ \A p : In(p, closed) => In(p, closed')
            BY <1>8, <2>1, <2>3, NoticeAdded DEF Notify
        <3>2. ASSUME NEW p \in Peers, flows[p] # None
              PROVE  IF pc'[flows[p]] = "free" THEN In(p, closed') ELSE peer'[flows[p]] = p
            <4>1. CASE flows[p] = f
                BY <1>8, <2>1, <3>1, <3>2, <4>1 DEF Notify, EntryInv, NoDeadEntry, TypeInv, TypeOK
            <4>2. CASE flows[p] # f
                BY <1>8, <3>1, <3>2, <4>2 DEF Notify, EntryInv, NoDeadEntry, TypeInv, TypeOK
            <4> QED BY <4>1, <4>2
        <3> QED BY <1>8, <2>3, <3>2 DEF Notify, EntryInv, NoDeadEntry
    <2> QED BY <2>2, <2>3
<1>9. CASE UNCHANGED vars
    BY <1>9 DEF vars, EntryInv, NoDeadEntry
<1> QED BY <1>1, <1>2, <1>3, <1>4, <1>5, <1>6, <1>7, <1>8, <1>9 DEF Next, FlowStep, StreamAnswered

\* No dead entry: a table entry whose task has returned has a notice on its way, so
\* that the table's slots come back however flows end.
THEOREM NoneDead == Spec => []NoDeadEntry
<1>1. Init => EntryInv
    BY DEF Init, EntryInv, NoDeadEntry
<1>2. EntryInv => NoDeadEntry
    BY DEF EntryInv
<1> QED BY <1>1, <1>2, EntryStep, TypeInvariant, PTL DEF Spec

-----------------------------------------------------------------------------
\* The peers that have an entry.
Entries == {p \in Peers : flows[p] # None}

\* The strengthening: the table is finite whatever peers there are, and the
\* place of a flow that is being opened was free when its stream was asked for.
RoomInv == IsFiniteSet(Entries) /\ TableBounded

\* Places in a table of size c.
LEMMA Places ==
    ASSUME NEW a \in Nat, NEW b \in Nat, NEW c \in Nat, NEW d \in {0, 1}
    PROVE  /\ b + d <= c /\ a <= b => a + d <= c
           /\ b <= c /\ a <= b => a + 0 <= c
           /\ b + d <= c => b <= c
           /\ a < c => a + d <= c
OBVIOUS

\* A table that loses an entry, or none, stays as bounded.
LEMMA FewerEntries ==
    ASSUME IsFiniteSet(Entries), Entries' \subseteq Entries
    PROVE  IsFiniteSet(Entries') /\ Size \in Nat /\ Size' \in Nat /\ Size' <= Size
<1>1. IsFiniteSet(Entries') /\ Cardinality(Entries') <= Cardinality(Entries)
    BY FS_Subset
<1>2. Cardinality(Entries) \in Nat /\ Cardinality(Entries') \in Nat
    BY <1>1, FS_CardinalityType
<1> QED BY <1>1, <1>2 DEF Size, Entries

LEMMA RoomStep == TypeInv /\ RoomInv /\ [Next]_vars => RoomInv'
<1> SUFFICES ASSUME TypeInv, RoomInv, [Next]_vars PROVE RoomInv'
    OBVIOUS
<1> DEFINE Asked == IF opening # None THEN 1 ELSE 0
<1>0. /\ MaxFlows \in Nat /\ IsFiniteSet(Entries)
      /\ Asked \in {0, 1} /\ Size + Asked <= MaxFlows
      /\ Asked' \in {0, 1} /\ (opening' = None => Asked' = 0)
      /\ (UNCHANGED opening => Asked' = Asked)
    BY CapacityAssumption DEF RoomInv, TableBounded
<1>a. ASSUME IsFiniteSet(Entries'), Size' + Asked' <= MaxFlows PROVE RoomInv'
    BY <1>a DEF RoomInv, TableBounded
<1> HIDE DEF Asked
<1>1. ASSUME Entries' \subseteq Entries, opening' = None \/ UNCHANGED opening
      PROVE  RoomInv'
    <2>1. IsFiniteSet(Entries') /\ Size \in Nat /\ Size' \in Nat /\ Size' <= Size
        BY <1>0, <1>1, FewerEntries
    <2>2. CASE opening' = None
        <3>1. Asked' = 0 /\ Size <= MaxFlows
            BY <1>0, <2>1, <2>2, Places
        <3>2. Size' + 0 <= MaxFlows
            BY <1>0, <2>1, <3>1, Places
        <3> QED BY <1>a, <2>1, <3>1, <3>2
    <2>3. CASE UNCHANGED opening
        <3>1. Asked' = Asked
            BY <1>0, <2>3
        <3>2. Size' + Asked <= MaxFlows
            BY <1>0, <2>1, Places
        <3> QED BY <1>a, <2>1, <3>1, <3>2
    <2> QED BY <1>1, <2>2, <2>3
<1>2. CASE Forget
    BY <1>1, <1>2 DEF Forget, Entries, TypeInv, TypeOK
<1>3. ASSUME NEW p \in Peers, Ride(p) PROVE RoomInv'
    BY <1>1, <1>3 DEF Ride, listenerVars, Entries
<1>4. ASSUME NEW p \in Peers, NewPeer(p) PROVE RoomInv'
    <2>1. Entries' \subseteq Entries
        BY <1>4 DEF NewPeer, Entries, TypeInv, TypeOK
    <2>2. IsFiniteSet(Entries') /\ Size' \in Nat
        BY <1>0, <2>1, FewerEntries
    <2>3. CASE Size' < MaxFlows
        <3>1. Size' + Asked' <= MaxFlows
            BY <1>0, <2>2, <2>3, Places
        <3> QED BY <1>a, <2>2, <3>1
    <2>4. CASE ~(Size' < MaxFlows)
        <3>1. opening' = None
            BY <1>4, <2>4 DEF NewPeer, Size
        <3> QED BY <1>1, <2>1, <3>1
    <2> QED BY <2>3, <2>4
<1>5. ASSUME NEW f \in Flows, OpenFlow(f) PROVE RoomInv'
    <2>1. opening # None /\ opening' = None /\ Entries' = Entries \cup {opening}
        BY <1>5, NoneAssumption DEF OpenFlow, Entries, TypeInv, TypeOK
    <2>2. /\ IsFiniteSet(Entries \cup {opening})
          /\ Cardinality(Entries \cup {opening}) =
                IF opening \in Entries THEN Cardinality(Entries) ELSE Cardinality(Entries) + 1
        BY <1>0, FS_AddElement
    <2>3. Cardinality(Entries) \in Nat /\ Cardinality(Entries') \in Nat
        BY <1>0, <2>1, <2>2, FS_CardinalityType
    <2>4. Size = Cardinality(Entries) /\ Size' = Cardinality(Entries')
        BY DEF Size, Entries
    <2>5. Size + 1 <= MaxFlows
        BY <2>1 DEF RoomInv, TableBounded
    <2>6. Size' <= Size + 1
        BY <2>1, <2>2, <2>3, <2>4
    <2>7. Size' + 0 <= MaxFlows
        BY <1>0, <2>3, <2>4, <2>5, <2>6
    <2> QED BY <1>0, <1>a, <2>1, <2>2, <2>7
<1>6. CASE OpenFails
    BY <1>1, <1>6 DEF OpenFails, Entries
<1>7. CASE ListenerEnds
    BY <1>1, <1>7 DEF ListenerEnds, Entries
<1>8. ASSUME NEW f \in Flows, FlowStep(f) PROVE RoomInv'
    BY <1>1, <1>8
    DEF FlowStep, WritePreamble, PreambleFails, Forward, RelayEnds, Report, Notify,
        listenerVars, Entries
<1>9. CASE UNCHANGED vars
    BY <1>1, <1>9 DEF vars, Entries
<1> QED BY <1>2, <1>3, <1>4, <1>5, <1>6, <1>7, <1>8, <1>9 DEF Next, StreamAnswered

\* UDP_MAX_FLOWS bounds the flows in the table and the one being opened.
THEOREM Bounded == Spec => []TableBounded
<1>1. Init => RoomInv
    <2>1. ASSUME Init PROVE Entries = {} /\ opening = None
        BY <2>1 DEF Init, Entries
    <2>2. ASSUME Init PROVE Size = 0 /\ IsFiniteSet(Entries)
        BY <2>1, <2>2, FS_EmptySet DEF Size, Entries
    <2> QED BY <2>1, <2>2, CapacityAssumption DEF RoomInv, TableBounded
<1>2. RoomInv => TableBounded
    BY DEF RoomInv
<1> QED BY <1>1, <1>2, RoomStep, TypeInvariant, PTL DEF Spec
=============================================================================
