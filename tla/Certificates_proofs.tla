------------------------- MODULE Certificates_proofs -------------------------
(* Theorems about Certificates. *)
EXTENDS Certificates, TLAPS

\* The steps of a task and of the renewal loop, case by case.
LEMMA Steps ==
    ASSUME [Next]_vars
    PROVE  \/ \E r \in Runners : IssueStep(r)
           \/ \E t \in Tasks : Lock(t) \/ Unlock(t) \/ \E d \in Domains : EnsureCert(t, d)
           \/ RenewDue \/ RenewalRests \/ RenewalGoesOn \/ \E d \in Domains : RenewNext(d)
           \/ \E d \in Domains : Ages(d)
           \/ Restart
           \/ UNCHANGED vars
  BY DEF Next, TaskStep, RenewalStep, Runners

LEMMA Alphabet ==
    /\ States = {"idle", "lock", "scan", "end", "order", "publish", "ready", "poll", "clean",
                 "cert", "certdata", "key", "keydata", "insert"}
    /\ Tasks \subseteq Runners /\ Renewal \in Runners /\ Renewal \notin Tasks
    /\ \A q : Active(q) <=> at[q] \notin {"idle", "lock", "scan"} /\ at[q] \in States
  BY TasksAssumption DEF States, Issuing, Writing, Runners, Active

-----------------------------------------------------------------------------
(* Types.                                                                  *)

LEMMA InitTyped ==
    ASSUME Init
    PROVE  TypeOK
  BY DEF Init, TypeOK, States, Content, Absent, NoPair

LEMMA IssueTyped ==
    ASSUME TypeOK, NEW r \in Runners, IssueStep(r)
    PROVE  TypeOK'
<1>. USE Alphabet
<1>1. CASE Order(r)
  BY <1>1 DEF TypeOK, Order, Goto, diskVars
<1>2. CASE Publish(r)
  BY <1>2 DEF TypeOK, Publish, Goto, Token, diskVars
<1>3. CASE SetReady(r)
  BY <1>3 DEF TypeOK, SetReady, Goto, orderVars, diskVars
<1>4. CASE SetReadyFails(r)
  BY <1>4 DEF TypeOK, SetReadyFails, Goto, diskVars
<1>5. CASE Issued(r)
  BY <1>5 DEF TypeOK, Issued, Goto, diskVars
<1>6. CASE OrderFails(r)
  BY <1>6 DEF TypeOK, OrderFails, Goto, diskVars
<1>7. CASE DropToken(r)
  BY <1>7 DEF TypeOK, DropToken, Goto, diskVars
<1>8. CASE CreateCert(r)
  BY <1>8 DEF TypeOK, CreateCert, Goto, orderVars, Content
<1>9. CASE WriteCert(r)
  BY <1>9 DEF TypeOK, WriteCert, Goto, orderVars, Content, Contents
<1>10. CASE CreateKey(r)
  BY <1>10 DEF TypeOK, CreateKey, Goto, orderVars, Content
<1>11. CASE WriteKey(r)
  BY <1>11 DEF TypeOK, WriteKey, Goto, orderVars, Content, Contents
<1>12. CASE InsertPair(r)
  BY <1>12 DEF TypeOK, InsertPair, Goto, orderVars, Content
<1>13. CASE WriteFails(r)
  BY <1>13 DEF TypeOK, WriteFails, Goto
<1>. QED
  BY <1>1, <1>2, <1>3, <1>4, <1>5, <1>6, <1>7, <1>8, <1>9, <1>10, <1>11, <1>12, <1>13
     DEF IssueStep

LEMMA StepTyped ==
    ASSUME TypeOK, [Next]_vars
    PROVE  TypeOK'
<1>. USE Alphabet
<1>1. ASSUME NEW t \in Tasks, Lock(t) \/ Unlock(t) \/ \E d \in Domains : EnsureCert(t, d)
      PROVE  TypeOK'
  <2>1. CASE Lock(t)
    BY <2>1 DEF TypeOK, Lock, Goto, orderVars, diskVars
  <2>2. CASE Unlock(t)
    BY <2>2 DEF TypeOK, Unlock, Goto, orderVars, diskVars
  <2>3. CASE \E d \in Domains : EnsureCert(t, d)
    BY <2>3 DEF TypeOK, EnsureCert, Goto, orderVars, diskVars
  <2>. QED
    BY <1>1, <2>1, <2>2, <2>3
<1>2. CASE RenewDue \/ RenewalRests \/ RenewalGoesOn \/ \E d \in Domains : RenewNext(d)
  BY <1>2 DEF TypeOK, RenewDue, RenewalRests, RenewalGoesOn, RenewNext, Goto, orderVars, diskVars
<1>3. ASSUME NEW d \in Domains, Ages(d)
      PROVE  TypeOK'
  BY <1>3 DEF TypeOK, Ages, orderVars
<1>4. CASE Restart
  BY <1>4 DEF TypeOK, Restart, Loaded, NoPair, Absent, Content
<1>5. CASE UNCHANGED vars
  BY <1>5 DEF TypeOK, vars
<1>. QED
  BY <1>1, <1>2, <1>3, <1>4, <1>5, Steps, IssueTyped

\* A node's certificates keep their types.
THEOREM TypeCorrect == Spec => []TypeOK
  BY InitTyped, StepTyped, PTL DEF Spec

-----------------------------------------------------------------------------
(* One order for a domain.                                                 *)

\* A step inside an issuance changes neither who is issuing nor what for.
LEMMA ActiveKept ==
    ASSUME TypeOK, NEW r \in Runners, IssueStep(r)
    PROVE  UNCHANGED <<dom, issuing>> /\ \A q \in Runners : Active(q)' <=> Active(q)
<1>1. UNCHANGED <<dom, issuing>>
  BY DEF IssueStep, Order, Publish, SetReady, SetReadyFails, Issued, OrderFails, DropToken,
         CreateCert, WriteCert, CreateKey, WriteKey, InsertPair, WriteFails
<1>2. PICK s \in Issuing \cup Writing \cup {"end"} : Goto(r, s)
  BY DEF IssueStep, Order, Publish, SetReady, SetReadyFails, Issued, OrderFails, DropToken,
         CreateCert, WriteCert, CreateKey, WriteKey, InsertPair, WriteFails, Issuing, Writing
<1>3. Active(r)
  BY DEF IssueStep, Order, Publish, SetReady, SetReadyFails, Issued, OrderFails, DropToken,
         CreateCert, WriteCert, CreateKey, WriteKey, InsertPair, WriteFails, Issuing, Writing, Active
<1>4. at'[r] = s /\ \A q \in Runners \ {r} : at'[q] = at[q]
  BY <1>2 DEF Goto, TypeOK
<1>. QED
  BY <1>1, <1>3, <1>4 DEF Active

LEMMA OneKept ==
    ASSUME OneEnsured, UNCHANGED issuing,
           \A t \in Tasks : (Active(t)' <=> Active(t)) /\ (Active(t) => dom'[t] = dom[t])
    PROVE  OneEnsured'
  BY DEF OneEnsured

LEMMA OneStep ==
    ASSUME TypeOK, OneEnsured, [Next]_vars
    PROVE  OneEnsured'
<1>1. ASSUME NEW r \in Runners, IssueStep(r)
      PROVE  OneEnsured'
  BY <1>1, ActiveKept, OneKept, Alphabet
<1>2. ASSUME NEW t \in Tasks, NEW d \in Domains, EnsureCert(t, d)
      PROVE  OneEnsured'
  BY <1>2, OneKept, Alphabet DEF EnsureCert, Goto, TypeOK, Active, Issuing, Writing
<1>3. ASSUME NEW t \in Tasks, Lock(t)
      PROVE  OneEnsured'
  <2>1. UNCHANGED dom /\ at[t] = "lock" /\ ~Active(t)
    BY <1>3 DEF Lock, Active, Issuing, Writing
  <2>2. \A u \in Tasks \ {t} : Active(u)' <=> Active(u)
    BY <1>3, Alphabet DEF Lock, Goto, TypeOK, Active
  <2>3. CASE at'[t] = "idle" /\ UNCHANGED issuing
    BY <2>1, <2>2, <2>3, OneKept DEF Active, Issuing, Writing
  <2>4. CASE at'[t] = "order" /\ dom[t] \notin issuing /\ issuing' = issuing \cup {dom[t]}
    <3>1. Active(t)'
      BY <2>4 DEF Active, Issuing
    <3>2. \A u \in Tasks \ {t} : Active(u) => dom[u] # dom[t]
      BY <2>4 DEF OneEnsured
    <3>. QED
      BY <2>1, <2>2, <2>4, <3>1, <3>2 DEF OneEnsured
  <2>. QED
    BY <1>3, <2>3, <2>4, Alphabet DEF Lock, Goto, TypeOK
<1>4. ASSUME NEW t \in Tasks, Unlock(t)
      PROVE  OneEnsured'
  <2>1. UNCHANGED dom /\ Active(t) /\ issuing' = issuing \ {dom[t]}
    BY <1>4 DEF Unlock, Active
  <2>2. ~Active(t)' /\ \A u \in Tasks \ {t} : Active(u)' <=> Active(u)
    BY <1>4, Alphabet DEF Unlock, Goto, TypeOK, Active, Issuing, Writing
  <2>3. \A u \in Tasks \ {t} : Active(u) => dom[u] # dom[t]
    BY <2>1 DEF OneEnsured
  <2>. QED
    BY <2>1, <2>2, <2>3 DEF OneEnsured
<1>5. CASE RenewDue \/ RenewalRests \/ RenewalGoesOn \/ \E d \in Domains : RenewNext(d)
  <2>1. UNCHANGED issuing /\ \A t \in Tasks : at'[t] = at[t] /\ dom'[t] = dom[t]
    BY <1>5, Alphabet DEF RenewDue, RenewalRests, RenewalGoesOn, RenewNext, Goto, TypeOK
  <2>. QED
    BY <2>1, OneKept DEF Active
<1>6. ASSUME NEW d \in Domains, Ages(d)
      PROVE  OneEnsured'
  BY <1>6, OneKept DEF Ages, Active
<1>7. CASE Restart
  <2>1. issuing' = {} /\ \A t \in Tasks : ~Active(t)'
    BY <1>7, Alphabet DEF Restart, Active, Issuing, Writing
  <2>. QED
    BY <2>1 DEF OneEnsured
<1>8. CASE UNCHANGED vars
  BY <1>8, OneKept DEF vars, Active
<1>. QED
  BY <1>1, <1>2, <1>3, <1>4, <1>5, <1>6, <1>7, <1>8, Steps

\* However many sessions register at once, a domain has one order that they
\* asked for, and it is in the set of those in flight as long as it lasts.
THEOREM EnsuredOnce == Spec => []OneEnsured
<1>1. Init => OneEnsured
  BY Alphabet DEF Init, OneEnsured, Active, Issuing, Writing
<1>. QED
  BY <1>1, InitTyped, StepTyped, OneStep, PTL DEF Spec

-----------------------------------------------------------------------------
(* The tokens that are answered.                                           *)

\* The same, a token at a time, and without the bound on the orders.
TokenInv ==
    /\ \A r \in Runners : lost[r] \in 0..MaxLost
    /\ \A r \in Runners : \A n \in Nat :
          <<r, n>> \in challenges <=>
              \/ n < lost[r]
              \/ n = lost[r] /\ at[r] \in {"ready", "poll", "clean"}

LEMMA TokenKept ==
    ASSUME TokenInv, UNCHANGED <<challenges, lost>>,
           \A r \in Runners : at'[r] \in {"ready", "poll", "clean"} <=>
                              at[r] \in {"ready", "poll", "clean"}
    PROVE  TokenInv'
  BY DEF TokenInv

LEMMA TokenStep ==
    ASSUME TypeOK, TokenInv, [Next]_vars
    PROVE  TokenInv'
<1>1. ASSUME NEW r \in Runners, IssueStep(r)
      PROVE  TokenInv'
  <2>1. CASE Order(r) \/ CreateCert(r) \/ WriteCert(r) \/ CreateKey(r) \/ WriteKey(r)
             \/ InsertPair(r) \/ WriteFails(r) \/ SetReady(r) \/ Issued(r) \/ OrderFails(r)
    <3>1. UNCHANGED <<challenges, lost>>
      BY <2>1 DEF Order, CreateCert, WriteCert, CreateKey, WriteKey, InsertPair, WriteFails,
                  SetReady, Issued, OrderFails, orderVars
    <3>2. PICK s \in States :
             /\ Goto(r, s)
             /\ s \in {"ready", "poll", "clean"} <=> at[r] \in {"ready", "poll", "clean"}
      BY <2>1, Alphabet DEF Order, CreateCert, WriteCert, CreateKey, WriteKey, InsertPair,
                  WriteFails, SetReady, Issued, OrderFails
    <3>3. at'[r] = s /\ \A q \in Runners \ {r} : at'[q] = at[q]
      BY <3>2 DEF Goto, TypeOK
    <3>. QED
      BY <3>1, <3>2, <3>3, TokenKept
  <2>2. CASE Publish(r) \/ SetReadyFails(r) \/ DropToken(r)
    <3>1. /\ lost[r] \in Nat /\ lost'[r] \in 0..MaxLost
          /\ \A q \in Runners \ {r} : at'[q] = at[q] /\ lost'[q] = lost[q]
      BY <2>2, BoundsAssumption DEF Publish, SetReadyFails, DropToken, Goto, TypeOK, TokenInv
    <3>2. \A q \in Runners \ {r} : \A n \in Nat : <<q, n>> \in challenges' <=> <<q, n>> \in challenges
      BY <2>2 DEF Publish, SetReadyFails, DropToken, Token
    <3>3. ASSUME NEW n \in Nat
          PROVE  <<r, n>> \in challenges' <=>
                    \/ n < lost'[r]
                    \/ n = lost'[r] /\ at'[r] \in {"ready", "poll", "clean"}
      <4>1. CASE Publish(r)
        BY <3>1, <4>1 DEF Publish, Token, Goto, TypeOK, TokenInv
      <4>2. CASE SetReadyFails(r)
        <5>1. /\ at[r] = "ready" /\ at'[r] = "end" /\ lost'[r] = lost[r] + 1
              /\ challenges' = challenges
          BY <4>2 DEF SetReadyFails, Goto, TypeOK
        <5>2. n < lost'[r] <=> n < lost[r] \/ n = lost[r]
          BY <3>1, <5>1
        <5>. QED
          BY <5>1, <5>2 DEF TokenInv
      <4>3. CASE DropToken(r)
        <5>1. /\ at[r] = "clean" /\ at'[r] \in {"cert", "end"} /\ lost'[r] = lost[r]
              /\ challenges' = challenges \ {<<r, lost[r]>>}
          BY <4>3 DEF DropToken, Goto, Token, TypeOK
        <5>. QED
          BY <3>1, <5>1 DEF TokenInv
      <4>. QED
        BY <2>2, <4>1, <4>2, <4>3
    <3>. QED
      BY <3>1, <3>2, <3>3 DEF TokenInv
  <2>. QED
    BY <1>1, <2>1, <2>2 DEF IssueStep
<1>2. ASSUME NEW t \in Tasks, Lock(t) \/ Unlock(t) \/ \E d \in Domains : EnsureCert(t, d)
      PROVE  TokenInv'
  <2>1. UNCHANGED <<challenges, lost>> /\ at[t] \in {"idle", "lock", "end"}
    BY <1>2 DEF Lock, Unlock, EnsureCert, orderVars
  <2>2. PICK s \in {"idle", "lock", "order"} : Goto(t, s)
    BY <1>2 DEF Lock, Unlock, EnsureCert
  <2>3. at'[t] = s /\ \A q \in Runners \ {t} : at'[q] = at[q]
    BY <2>2, Alphabet DEF Goto, TypeOK
  <2>. QED
    BY <2>1, <2>3, TokenKept
<1>3. CASE RenewDue \/ RenewalRests \/ RenewalGoesOn \/ \E d \in Domains : RenewNext(d)
  <2>1. UNCHANGED <<challenges, lost>> /\ at[Renewal] \in {"idle", "scan", "end"}
    BY <1>3 DEF RenewDue, RenewalRests, RenewalGoesOn, RenewNext, orderVars
  <2>2. /\ at'[Renewal] \in {"idle", "scan", "order"}
        /\ \A q \in Runners \ {Renewal} : at'[q] = at[q]
    BY <1>3, Alphabet DEF RenewDue, RenewalRests, RenewalGoesOn, RenewNext, Goto, TypeOK
  <2>. QED
    BY <2>1, <2>2, TokenKept
<1>4. ASSUME NEW d \in Domains, Ages(d)
      PROVE  TokenInv'
  BY <1>4, TokenKept DEF Ages, orderVars
<1>5. CASE Restart
  BY <1>5, BoundsAssumption DEF Restart, TokenInv
<1>6. CASE UNCHANGED vars
  BY <1>6, TokenKept DEF vars
<1>. QED
  BY <1>1, <1>2, <1>3, <1>4, <1>5, <1>6, Steps

\* The :80 router answers for the orders there are and for those that were given
\* up between publishing and polling, which is the leak, and for no other.
THEOREM ChallengesKnown == Spec => []ChallengesOfOrders
<1>1. Init => TokenInv
  BY BoundsAssumption DEF Init, TokenInv
<1>2. ASSUME TypeOK, TokenInv
      PROVE  ChallengesOfOrders
  <2>. DEFINE known == {<<r, n>> : r \in Runners, n \in 0..MaxLost} \cap
                          {q \in Runners \X Nat :
                              \/ q[2] < lost[q[1]]
                              \/ q[2] = lost[q[1]] /\ at[q[1]] \in {"ready", "poll", "clean"}}
  <2>1. ASSUME NEW r \in Runners, NEW n \in Nat
        PROVE  <<r, n>> \in challenges <=> <<r, n>> \in known
    <3>1. <<r, n>> \in challenges <=>
              \/ n < lost[r]
              \/ n = lost[r] /\ at[r] \in {"ready", "poll", "clean"}
      BY <1>2 DEF TokenInv
    <3>2. lost[r] \in 0..MaxLost
      BY <1>2 DEF TokenInv
    <3>3. <<r, n>> \in challenges => n \in 0..MaxLost
      BY <3>1, <3>2, BoundsAssumption
    <3>. QED
      BY <3>1, <3>3
  <2>2. challenges \subseteq Runners \X Nat /\ known \subseteq Runners \X Nat
    BY <1>2 DEF TypeOK
  <2>. HIDE DEF known
  <2>3. challenges = known
    BY <2>1, <2>2
  <2>. QED
    BY <2>3 DEF ChallengesOfOrders, known
<1>. QED
  BY <1>1, <1>2, InitTyped, StepTyped, TokenStep, PTL DEF Spec

-----------------------------------------------------------------------------
(* The files and the store.                                                *)

\* A domain whose files nobody has disturbed: at most one runner is at them, what
\* it has written so far is its own pair, and otherwise they fit.
FilesOk(d) ==
    d \notin split =>
        /\ store[d][1] = store[d][2]
        /\ \A r, q \in WritersOf(d) : r = q
        /\ WritersOf(d) = {} => cert[d] = key[d] /\ cert[d] # Torn
        /\ \A r \in WritersOf(d) :
              /\ at[r] = "certdata" => cert[d] = Torn
              /\ at[r] \in {"key", "keydata"} => cert[d] = got[r]
              /\ at[r] = "keydata" => key[d] = Torn

\* A certificate that is written or served has a file from then on.
FileInv ==
    /\ \A d \in Domains : FilesOk(d) /\ (Has(d) => cert[d] # Absent)
    /\ \A r \in Runners :
          /\ at[r] \in Writing => got[r] # 0
          /\ at[r] \in MidWrite \cup {"insert"} => cert[dom[r]] # Absent

\* A step that leaves files and store alone, of a runner that is not at the files.
LEMMA FilesKept ==
    ASSUME FileInv, UNCHANGED <<cert, key, store, split>>,
           \A r \in Runners :
              \/ at'[r] = at[r] /\ dom'[r] = dom[r] /\ got'[r] = got[r]
              \/ /\ at[r] \notin MidWrite /\ at'[r] \notin MidWrite \cup {"insert"}
                 /\ at'[r] \in Writing => got'[r] # 0
    PROVE  FileInv'
<1>1. \A r \in Runners : at'[r] \in MidWrite \/ at[r] \in MidWrite =>
                            at'[r] = at[r] /\ dom'[r] = dom[r] /\ got'[r] = got[r]
  OBVIOUS
<1>2. \A d \in Domains : WritersOf(d)' = WritersOf(d)
  BY <1>1 DEF WritersOf
<1>3. \A d \in Domains : FilesOk(d)'
  BY <1>1, <1>2 DEF FileInv, FilesOk, WritersOf
<1>. QED
  BY <1>1, <1>3 DEF FileInv, Has, MidWrite

\* A step of a runner at its domain's files: what it has to show.
LEMMA FilesAt ==
    ASSUME TypeOK, FileInv, NEW r \in Runners, NEW s, Goto(r, s), UNCHANGED dom,
           \A q \in Runners \ {r} : got'[q] = got[q],
           s \in Writing => got'[r] # 0,
           cert'[dom[r]] # Absent,
           \A d \in Domains \ {dom[r]} :
              /\ cert'[d] = cert[d] /\ key'[d] = key[d] /\ store'[d] = store[d]
              /\ d \in split' <=> d \in split,
           FilesOk(dom[r])'
    PROVE  FileInv'
<1>1. at'[r] = s /\ \A q \in Runners \ {r} : at'[q] = at[q]
  BY DEF Goto, TypeOK
<1>2. ASSUME NEW d \in Domains
      PROVE  FilesOk(d)' /\ (Has(d)' => cert'[d] # Absent)
  <2>1. CASE d = dom[r]
    BY <2>1
  <2>2. CASE d # dom[r]
    <3>1. WritersOf(d)' = WritersOf(d)
      BY <1>1, <2>2 DEF WritersOf
    <3>2. \A q \in WritersOf(d) : at'[q] = at[q] /\ got'[q] = got[q]
      BY <1>1, <2>2 DEF WritersOf
    <3>. QED
      BY <2>2, <3>1, <3>2 DEF FileInv, FilesOk, Has
  <2>. QED
    BY <2>1, <2>2
<1>3. ASSUME NEW q \in Runners
      PROVE  /\ at'[q] \in Writing => got'[q] # 0
             /\ at'[q] \in MidWrite \cup {"insert"} => cert'[dom'[q]] # Absent
  <2>1. CASE q = r
    BY <1>1, <2>1
  <2>2. CASE q # r
    BY <1>1, <2>2 DEF FileInv, TypeOK
  <2>. QED
    BY <2>1, <2>2
<1>. QED
  BY <1>2, <1>3 DEF FileInv

LEMMA FileWrite ==
    ASSUME TypeOK, FileInv, NEW r \in Runners,
           CreateCert(r) \/ WriteCert(r) \/ CreateKey(r) \/ WriteKey(r) \/ InsertPair(r)
           \/ WriteFails(r)
    PROVE  FileInv'
<1>. DEFINE d == dom[r]
<1>0. /\ d \in Domains /\ FilesOk(d) /\ got[r] \in Nat
      /\ at[r] \in Writing => got[r] # 0
      /\ at[r] \in MidWrite \cup {"insert"} => cert[d] # Absent
  BY DEF TypeOK, FileInv
<1>1. CASE CreateCert(r)
  <2>1. /\ at[r] = "cert" /\ Goto(r, "certdata") /\ cert'[d] = Torn /\ UNCHANGED <<dom, got, key, store>>
        /\ split' = IF Alone(r) THEN split ELSE split \cup {d}
        /\ \A e \in Domains \ {d} : cert'[e] = cert[e]
    BY <1>0, <1>1 DEF CreateCert, TypeOK, orderVars
  <2>2. at'[r] = "certdata" /\ \A q \in Runners \ {r} : at'[q] = at[q]
    BY <2>1 DEF Goto, TypeOK
  <2>3. FilesOk(d)'
    <3>1. CASE Alone(r)
      <4>1. WritersOf(d) = {}
        BY <2>1, <3>1 DEF Alone, WritersOf, MidWrite
      <4>2. WritersOf(d)' = {r}
        BY <2>1, <2>2, <4>1 DEF WritersOf, MidWrite
      <4>. QED
        BY <1>0, <2>1, <2>2, <3>1, <4>2 DEF FilesOk
    <3>2. CASE ~Alone(r)
      BY <2>1, <3>2 DEF FilesOk
    <3>. QED
      BY <3>1, <3>2
  <2>4. "certdata" \in Writing /\ "cert" \in Writing /\ Torn # Absent
    BY DEF Writing, Torn, Absent
  <2>. QED
    BY <1>0, <2>1, <2>3, <2>4, FilesAt
<1>2. CASE WriteCert(r)
  <2>1. /\ at[r] = "certdata" /\ Goto(r, "key") /\ cert'[d] \in Contents(cert, r)
        /\ UNCHANGED <<dom, got, key, store, split>>
        /\ \A e \in Domains \ {d} : cert'[e] = cert[e]
    BY <1>0, <1>2 DEF WriteCert, TypeOK, orderVars
  <2>2. at'[r] = "key" /\ \A q \in Runners \ {r} : at'[q] = at[q]
    BY <2>1 DEF Goto, TypeOK
  <2>3. r \in WritersOf(d) /\ WritersOf(d)' = WritersOf(d)
    BY <2>1, <2>2 DEF WritersOf, MidWrite
  <2>4. FilesOk(d)'
    BY <1>0, <2>1, <2>2, <2>3 DEF FilesOk, Contents
  <2>5. "key" \in Writing /\ "certdata" \in Writing /\ cert'[d] # Absent
    BY <1>0, <2>1 DEF Writing, Contents, Torn, Absent
  <2>. QED
    BY <1>0, <2>1, <2>4, <2>5, FilesAt
<1>3. CASE CreateKey(r)
  <2>1. /\ at[r] = "key" /\ Goto(r, "keydata") /\ key'[d] = Torn
        /\ UNCHANGED <<dom, got, cert, store, split>>
        /\ \A e \in Domains \ {d} : key'[e] = key[e]
    BY <1>0, <1>3 DEF CreateKey, TypeOK, orderVars
  <2>2. at'[r] = "keydata" /\ \A q \in Runners \ {r} : at'[q] = at[q]
    BY <2>1 DEF Goto, TypeOK
  <2>3. r \in WritersOf(d) /\ WritersOf(d)' = WritersOf(d)
    BY <2>1, <2>2 DEF WritersOf, MidWrite
  <2>4. FilesOk(d)'
    BY <1>0, <2>1, <2>2, <2>3 DEF FilesOk
  <2>5. "keydata" \in Writing /\ "key" \in Writing /\ cert'[d] # Absent
    BY <1>0, <2>1 DEF Writing, MidWrite
  <2>. QED
    BY <1>0, <2>1, <2>4, <2>5, FilesAt
<1>4. CASE WriteKey(r)
  <2>1. /\ at[r] = "keydata" /\ Goto(r, "insert") /\ key'[d] \in Contents(key, r)
        /\ UNCHANGED <<dom, got, cert, store, split>>
        /\ \A e \in Domains \ {d} : key'[e] = key[e]
    BY <1>0, <1>4 DEF WriteKey, TypeOK, orderVars
  <2>2. at'[r] = "insert" /\ \A q \in Runners \ {r} : at'[q] = at[q]
    BY <2>1 DEF Goto, TypeOK
  <2>3. r \in WritersOf(d) /\ WritersOf(d)' = WritersOf(d) \ {r}
    BY <2>1, <2>2 DEF WritersOf, MidWrite
  <2>4. d \notin split => /\ WritersOf(d) = {r} /\ cert[d] = got[r] /\ key'[d] = got[r]
    BY <1>0, <2>1, <2>3 DEF FilesOk, Contents
  <2>5. FilesOk(d)'
    BY <1>0, <2>1, <2>3, <2>4 DEF FilesOk, Torn
  <2>6. "insert" \in Writing /\ "keydata" \in Writing /\ cert'[d] # Absent
    BY <1>0, <2>1 DEF Writing, MidWrite
  <2>. QED
    BY <1>0, <2>1, <2>5, <2>6, FilesAt
<1>5. CASE InsertPair(r)
  <2>1. /\ at[r] = "insert" /\ Goto(r, "end") /\ store'[d] = <<got[r], got[r]>>
        /\ UNCHANGED <<dom, got, cert, key>>
        /\ split' = IF Alone(r) /\ cert[d] = got[r] /\ key[d] = got[r]
                    THEN split \ {d} ELSE split
        /\ \A e \in Domains \ {d} : store'[e] = store[e]
    BY <1>0, <1>5 DEF InsertPair, TypeOK, orderVars
  <2>2. at'[r] = "end" /\ \A q \in Runners \ {r} : at'[q] = at[q]
    BY <2>1 DEF Goto, TypeOK
  <2>3. r \notin WritersOf(d) /\ WritersOf(d)' = WritersOf(d)
    BY <2>1, <2>2 DEF WritersOf, MidWrite
  <2>4. FilesOk(d)'
    <3>1. CASE Alone(r) /\ cert[d] = got[r] /\ key[d] = got[r]
      <4>1. WritersOf(d) = {}
        BY <2>3, <3>1 DEF Alone
      <4>. QED
        BY <1>0, <2>1, <2>3, <3>1, <4>1 DEF FilesOk, Torn
    <3>2. CASE ~(Alone(r) /\ cert[d] = got[r] /\ key[d] = got[r])
      <4>1. split' = split /\ UNCHANGED <<cert, key, got>>
        BY <2>1, <3>2
      <4>2. \A q \in WritersOf(d) : at'[q] = at[q]
        BY <2>2, <2>3 DEF WritersOf
      <4>3. store'[d][1] = store'[d][2]
        BY <2>1
      <4>. QED
        BY <1>0, <2>1, <2>3, <4>1, <4>2, <4>3 DEF FilesOk
    <3>. QED
      BY <3>1, <3>2
  <2>5. "end" \notin Writing /\ cert'[d] # Absent
    BY <1>0, <2>1 DEF Writing
  <2>. QED
    BY <1>0, <2>1, <2>4, <2>5, FilesAt
<1>6. CASE WriteFails(r)
  <2>1. /\ Goto(r, "end") /\ UNCHANGED <<dom, cert, key, store>>
        /\ \A q \in Runners \ {r} : got'[q] = got[q]
        /\ \/ at[r] = "cert" /\ UNCHANGED split
           \/ at[r] \in MidWrite /\ split' = split \cup {d}
    BY <1>6 DEF WriteFails, TypeOK, MidWrite
  <2>2. at'[r] = "end" /\ \A q \in Runners \ {r} : at'[q] = at[q]
    BY <2>1 DEF Goto, TypeOK
  <2>3. CASE at[r] = "cert" /\ UNCHANGED split
    BY <2>1, <2>2, <2>3, FilesKept DEF MidWrite, Writing
  <2>4. CASE at[r] \in MidWrite /\ split' = split \cup {d}
    <3>1. FilesOk(d)'
      BY <2>1, <2>4 DEF FilesOk
    <3>. QED
      BY <1>0, <2>1, <2>4, <3>1, FilesAt DEF Writing
  <2>. QED
    BY <2>1, <2>3, <2>4
<1>. QED
  BY <1>1, <1>2, <1>3, <1>4, <1>5, <1>6

LEMMA FileStep ==
    ASSUME TypeOK, FileInv, [Next]_vars
    PROVE  FileInv'
<1>1. ASSUME NEW r \in Runners, IssueStep(r)
      PROVE  FileInv'
  <2>1. CASE Order(r) \/ Publish(r) \/ SetReady(r) \/ SetReadyFails(r) \/ Issued(r)
             \/ OrderFails(r) \/ DropToken(r)
    <3>1. /\ UNCHANGED <<cert, key, store, split, dom>>
          /\ at[r] \in Issuing /\ at'[r] \in Issuing \cup {"cert", "end"}
          /\ at'[r] \in Writing => got'[r] # 0
          /\ \A q \in Runners \ {r} : at'[q] = at[q] /\ got'[q] = got[q]
      BY <2>1 DEF Order, Publish, SetReady, SetReadyFails, Issued, OrderFails, DropToken, Goto,
                  TypeOK, orderVars, diskVars, Issuing, Writing
    <3>. QED
      BY <3>1, FilesKept DEF Issuing, MidWrite
  <2>. QED
    BY <1>1, <2>1, FileWrite DEF IssueStep
<1>2. ASSUME NEW t \in Runners, UNCHANGED <<cert, key, store, split, got>>,
             at[t] \notin MidWrite, at'[t] \notin Writing,
             \A q \in Runners \ {t} : at'[q] = at[q] /\ dom'[q] = dom[q]
      PROVE  FileInv'
  BY <1>2, FilesKept DEF MidWrite, Writing
<1>3. ASSUME NEW t \in Tasks, Lock(t) \/ Unlock(t) \/ \E d \in Domains : EnsureCert(t, d)
      PROVE  FileInv'
  <2>1. /\ UNCHANGED <<cert, key, store, split, got>>
        /\ at[t] \notin MidWrite /\ at'[t] \notin Writing
        /\ \A q \in Runners \ {t} : at'[q] = at[q] /\ dom'[q] = dom[q]
    BY <1>3, Alphabet DEF Lock, Unlock, EnsureCert, Goto, TypeOK, MidWrite, Writing, orderVars,
                          diskVars
  <2>. QED
    BY <1>2, <2>1, Alphabet
<1>4. CASE RenewDue \/ RenewalRests \/ RenewalGoesOn \/ \E d \in Domains : RenewNext(d)
  <2>1. /\ UNCHANGED <<cert, key, store, split, got>>
        /\ at[Renewal] \notin MidWrite /\ at'[Renewal] \notin Writing
        /\ \A q \in Runners \ {Renewal} : at'[q] = at[q] /\ dom'[q] = dom[q]
    BY <1>4, Alphabet DEF RenewDue, RenewalRests, RenewalGoesOn, RenewNext, Goto, TypeOK,
                          MidWrite, Writing, orderVars, diskVars
  <2>. QED
    BY <1>2, <2>1, Alphabet
<1>5. ASSUME NEW d \in Domains, Ages(d)
      PROVE  FileInv'
  BY <1>5, FilesKept DEF Ages, orderVars
<1>6. CASE Restart
  <2>1. /\ \A r \in Runners : at'[r] = "idle"
        /\ \A d \in Domains : /\ store'[d] = Loaded(d)
                              /\ d \notin split' => d \notin split /\ WritersOf(d) = {}
        /\ UNCHANGED <<cert, key>>
    BY <1>6 DEF Restart, WritersOf
  <2>2. \A d \in Domains : WritersOf(d)' = {}
    BY <2>1 DEF WritersOf, MidWrite
  <2>3. ASSUME NEW d \in Domains
        PROVE  FilesOk(d)' /\ (Has(d)' => cert'[d] # Absent)
    <3>1. /\ cert'[d] = cert[d] /\ key'[d] = key[d] /\ cert[d] \in Content /\ key[d] \in Content
          /\ store'[d] = IF cert[d] > 0 /\ key[d] > 0 THEN <<cert[d], key[d]>> ELSE NoPair
      BY <2>1 DEF Loaded, TypeOK
    <3>2. d \notin split' => cert[d] = key[d] /\ cert[d] # Torn
      BY <2>1 DEF FileInv, FilesOk
    <3>3. d \notin split' => store'[d][1] = store'[d][2]
      BY <3>1, <3>2 DEF NoPair
    <3>4. FilesOk(d)'
      BY <2>2, <3>1, <3>2, <3>3 DEF FilesOk
    <3>5. cert[d] = Absent => store'[d] = NoPair
      BY <3>1 DEF Absent
    <3>. QED
      BY <3>1, <3>4, <3>5 DEF Has
  <2>. QED
    BY <2>1, <2>3 DEF FileInv, MidWrite, Writing
<1>7. CASE UNCHANGED vars
  BY <1>7, FilesKept DEF vars
<1>. QED
  BY <1>1, <1>3, <1>4, <1>5, <1>6, <1>7, Steps

LEMMA FilesAlways == Spec => [](TypeOK /\ FileInv)
<1>1. Init => FileInv
  BY DEF Init, FileInv, FilesOk, WritersOf, Has, NoPair, Absent, Torn, MidWrite, Writing
<1>. QED
  BY <1>1, InitTyped, StepTyped, FileStep, PTL DEF Spec

\* A certificate is never served with another's key but after its files were
\* disturbed.
THEOREM PairsKept == Spec => []PairsFit
<1>1. TypeOK /\ FileInv => PairsFit
  BY DEF FileInv, FilesOk, PairsFit
<1>. QED
  BY <1>1, FilesAlways, PTL

\* What is served survives restarts, but for files that a crash or a failure left
\* half written.
THEOREM DurableAlways == Spec => Durable
<1>1. ASSUME TypeOK, FileInv, Next, NEW d \in Domains, Has(d), store'[d] = NoPair
      PROVE  d \in split' \/ WritersOf(d) # {}
  <2>1. CASE Restart
    <3>. SUFFICES ASSUME d \notin split', WritersOf(d) = {} PROVE FALSE
      OBVIOUS
    <3>1. d \notin split /\ store'[d] = Loaded(d)
      BY <2>1 DEF Restart
    <3>2. cert[d] = key[d] /\ cert[d] # Torn /\ cert[d] # Absent /\ cert[d] \in Content
      BY <1>1, <3>1 DEF FileInv, FilesOk, TypeOK
    <3>3. cert[d] > 0
      BY <3>2 DEF Content, Torn, Absent
    <3>. QED
      BY <1>1, <3>1, <3>2, <3>3 DEF Loaded, NoPair, Absent
  <2>2. ASSUME NEW r \in Runners, InsertPair(r)
        PROVE  FALSE
    <3>1. store'[d] = store[d] \/ store'[d] = <<got[r], got[r]>>
      BY <1>1, <2>2 DEF InsertPair, TypeOK
    <3>2. got[r] # 0
      BY <1>1, <2>2 DEF InsertPair, FileInv, Writing
    <3>. QED
      BY <1>1, <3>1, <3>2 DEF Has, NoPair, Absent
  <2>3. CASE UNCHANGED store
    BY <1>1, <2>3 DEF Has
  <2>4. ASSUME NEW r \in Runners, IssueStep(r)
        PROVE  UNCHANGED store \/ InsertPair(r)
    BY <2>4 DEF IssueStep, Order, Publish, SetReady, SetReadyFails, Issued, OrderFails, DropToken,
                CreateCert, WriteCert, CreateKey, WriteKey, WriteFails
  <2>5. Restart \/ UNCHANGED store \/ \E r \in Runners : IssueStep(r)
    BY <1>1, Steps DEF Lock, Unlock, EnsureCert, RenewDue, RenewalRests, RenewalGoesOn, RenewNext,
                       Ages, vars
  <2>. QED
    BY <2>1, <2>2, <2>3, <2>4, <2>5
<1>2. TypeOK /\ FileInv /\ [Next]_vars =>
         [\A d \in Domains : Has(d) /\ store'[d] = NoPair => d \in split' \/ WritersOf(d) # {}]_vars
  BY <1>1
<1>. QED
  BY <1>2, FilesAlways, PTL DEF Spec, Durable
=============================================================================
