---------------------------- MODULE Certificates ----------------------------
(***************************************************************************)
(* Certificates for custom domains on a core node: AcmeState and           *)
(* issue_certificate (natforge-node/src/acme.rs), triggered by sessions    *)
(* that register (tunnel/mod.rs) and by the renewal loop of main.rs.       *)
(*                                                                         *)
(* A runner is a task that may be issuing: one spawned by ensure_cert, or  *)
(* the renewal loop, which handles its domains one after the other.  What  *)
(* a runner does between two awaits, or in one call of the file system, is *)
(* one action.  A certificate is abstracted to the number of its issuance, *)
(* and so is its key: they fit each other when the numbers are equal.      *)
(*                                                                         *)
(* The certificate authority and the network are external: any of its      *)
(* calls may fail, and it issues only if the challenge is being served.    *)
(* The file system fails or the process dies at any point; what was        *)
(* written before stays.  Left out: how the calls are retried and timed,   *)
(* accounts, permissions, a machine that loses what was written.           *)
(***************************************************************************)
EXTENDS Integers, FiniteSets

CONSTANTS
    Tasks,      \* tasks of ensure_cert that may run at the same time
    Domains,
    MaxMade,    \* bound: certificates ever issued for a domain
    MaxLost,    \* bound: orders of a runner whose set_ready fails
    MaxFaults   \* bound: crashes and failures of the file system

Renewal == "renewal"
Runners == Tasks \cup {Renewal}

ASSUME TasksAssumption == Renewal \notin Tasks
ASSUME BoundsAssumption ==
    /\ MaxMade \in Nat /\ MaxLost \in Nat /\ MaxFaults \in Nat

VARIABLES
    at,          \* where a runner stands
    dom,         \* the domain it is at
    made,        \* domain -> certificates issued for it so far
    got,         \* the certificate a runner's order ended with, 0 if it failed
    todo,        \* domains the renewal loop has still to look at
    issuing,     \* AcmeState.issuing
    challenges,  \* AcmeState.challenges: the tokens the :80 router answers
    lost,        \* a runner's orders that ended between publishing and polling
    cert, key,   \* domain -> content of cert.pem and key.pem
    due,         \* domains whose cert.pem is 60 days old
    store,       \* CertStore: domain -> pair of certificate and key
    split,       \* domains with one of two files rewritten without the other
    faults

orderVars == <<made, got, challenges, lost>>
diskVars == <<cert, key, due, split>>
vars == <<at, dom, made, got, todo, issuing, challenges, lost, cert, key, due,
          store, split, faults>>

Absent == 0
Torn == -1            \* created or truncated, and not written
Content == {Torn} \cup Nat
NoPair == <<Absent, Absent>>

Issuing  == {"order", "publish", "ready", "poll", "clean"}
Writing  == {"cert", "certdata", "key", "keydata", "insert"}
States   == {"idle", "lock", "scan", "end"} \cup Issuing \cup Writing

TypeOK ==
    /\ at \in [Runners -> States]
    /\ dom \in [Runners -> Domains]
    /\ made \in [Domains -> Nat]
    /\ got \in [Runners -> Nat]
    /\ todo \subseteq Domains
    /\ issuing \subseteq Domains
    /\ challenges \subseteq Runners \X Nat
    /\ lost \in [Runners -> Nat]
    /\ cert \in [Domains -> Content]
    /\ key \in [Domains -> Content]
    /\ due \subseteq Domains
    /\ store \in [Domains -> Content \X Content]
    /\ split \subseteq Domains
    /\ faults \in Nat

\* A node that has never issued anything.
Init ==
    /\ at = [r \in Runners |-> "idle"]
    /\ dom \in [Runners -> Domains]
    /\ made = [d \in Domains |-> 0]
    /\ got = [r \in Runners |-> 0]
    /\ todo = {} /\ issuing = {} /\ challenges = {}
    /\ lost = [r \in Runners |-> 0]
    /\ cert = [d \in Domains |-> Absent]
    /\ key = [d \in Domains |-> Absent]
    /\ due = {}
    /\ store = [d \in Domains |-> NoPair]
    /\ split = {} /\ faults = 0

Has(d) == store[d] # NoPair
Goto(r, where) == at' = [at EXCEPT ![r] = where]

\* A runner has a domain in hand: its order, its files, or the end of it.
Active(r) == at[r] \in Issuing \cup Writing \cup {"end"}

\* Runners that have touched a domain's files and are not through with them.
MidWrite == {"certdata", "key", "keydata"}
WritersOf(d) == {r \in Runners : dom[r] = d /\ at[r] \in MidWrite}

-----------------------------------------------------------------------------
(* The two callers.                                                        *)

\* A session with an http route and a custom domain registers.
EnsureCert(t, d) ==
    /\ at[t] = "idle" /\ ~Has(d)
    /\ Goto(t, "lock")
    /\ dom' = [dom EXCEPT ![t] = d]
    /\ UNCHANGED <<orderVars, todo, issuing, diskVars, store, faults>>

\* Fault: the set of issuances in flight is not looked at under its lock.
LockUnchecked(t) ==
    /\ at[t] = "lock"
    /\ Goto(t, "order")
    /\ issuing' = issuing \cup {dom[t]}
    /\ UNCHANGED <<dom, orderVars, todo, diskVars, store, faults>>

Lock(t) ==
    /\ at[t] = "lock"
    /\ IF Has(dom[t]) \/ dom[t] \in issuing
       THEN Goto(t, "idle") /\ UNCHANGED issuing
       ELSE Goto(t, "order") /\ issuing' = issuing \cup {dom[t]}
    /\ UNCHANGED <<dom, orderVars, todo, diskVars, store, faults>>

\* Fault: only an issuance that went well leaves the set.
UnlockIfStored(t) ==
    /\ at[t] = "end"
    /\ issuing' = IF got[t] # 0 THEN issuing \ {dom[t]} ELSE issuing
    /\ Goto(t, "idle")
    /\ UNCHANGED <<dom, orderVars, todo, diskVars, store, faults>>

Unlock(t) ==
    /\ at[t] = "end"
    /\ issuing' = issuing \ {dom[t]}
    /\ Goto(t, "idle")
    /\ UNCHANGED <<dom, orderVars, todo, diskVars, store, faults>>

\* A tick of the renewal loop: it lists the directory of domains.
RenewDue ==
    /\ at[Renewal] = "idle"
    /\ Goto(Renewal, "scan")
    /\ todo' = {d \in Domains : cert[d] # Absent}
    /\ UNCHANGED <<dom, orderVars, issuing, diskVars, store, faults>>

\* The next domain, in the order the directory lists them.  Its age is read
\* when its turn comes; the set of issuances in flight is not.
RenewNext(d) ==
    /\ at[Renewal] = "scan" /\ d \in todo
    /\ todo' = todo \ {d}
    /\ IF d \in due
       THEN Goto(Renewal, "order") /\ dom' = [dom EXCEPT ![Renewal] = d]
       ELSE UNCHANGED <<at, dom>>
    /\ UNCHANGED <<orderVars, issuing, diskVars, store, faults>>

RenewalRests ==
    /\ at[Renewal] = "scan" /\ todo = {}
    /\ Goto(Renewal, "idle")
    /\ UNCHANGED <<dom, orderVars, todo, issuing, diskVars, store, faults>>

\* An error is logged and the loop goes on.
RenewalGoesOn ==
    /\ at[Renewal] = "end"
    /\ Goto(Renewal, "scan")
    /\ UNCHANGED <<dom, orderVars, todo, issuing, diskVars, store, faults>>

-----------------------------------------------------------------------------
(* issue_certificate.                                                      *)

\* Every order has a token of its own.
Token(r) == <<r, lost[r]>>

\* The account is made and the order placed, or one of the two fails.
Order(r) ==
    /\ at[r] = "order"
    /\ \/ Goto(r, "publish") /\ UNCHANGED got
       \/ Goto(r, "end") /\ got' = [got EXCEPT ![r] = 0]
    /\ UNCHANGED <<dom, made, challenges, lost, todo, issuing, diskVars, store, faults>>

Publish(r) ==
    /\ at[r] = "publish"
    /\ challenges' = challenges \cup {Token(r)}
    /\ Goto(r, "ready")
    /\ UNCHANGED <<dom, made, got, lost, todo, issuing, diskVars, store, faults>>

SetReady(r) ==
    /\ at[r] = "ready"
    /\ Goto(r, "poll")
    /\ UNCHANGED <<dom, orderVars, todo, issuing, diskVars, store, faults>>

\* Telling the authority fails: the error returns from the function past the
\* removal of the token.
SetReadyFails(r) ==
    /\ at[r] = "ready" /\ lost[r] < MaxLost
    /\ lost' = [lost EXCEPT ![r] = @ + 1]
    /\ got' = [got EXCEPT ![r] = 0]
    /\ Goto(r, "end")
    /\ UNCHANGED <<dom, made, challenges, todo, issuing, diskVars, store, faults>>

\* The authority fetches the token's answer, the order is finalized and the
\* certificate downloaded.
Issued(r) ==
    /\ at[r] = "poll" /\ Token(r) \in challenges /\ made[dom[r]] < MaxMade
    /\ made' = [made EXCEPT ![dom[r]] = @ + 1]
    /\ got' = [got EXCEPT ![r] = made[dom[r]] + 1]
    /\ Goto(r, "clean")
    /\ UNCHANGED <<dom, challenges, lost, todo, issuing, diskVars, store, faults>>

OrderFails(r) ==
    /\ at[r] = "poll"
    /\ got' = [got EXCEPT ![r] = 0]
    /\ Goto(r, "clean")
    /\ UNCHANGED <<dom, made, challenges, lost, todo, issuing, diskVars, store, faults>>

\* Fault: a failed order returns before its token is dropped.
DropTokenOfIssued(r) ==
    /\ at[r] = "clean"
    /\ challenges' = IF got[r] # 0 THEN challenges \ {Token(r)} ELSE challenges
    /\ Goto(r, IF got[r] # 0 THEN "cert" ELSE "end")
    /\ UNCHANGED <<dom, made, got, lost, todo, issuing, diskVars, store, faults>>

\* Fault: the certificate is put into the store before it is in the files.
DropTokenAndStore(r) ==
    /\ at[r] = "clean"
    /\ challenges' = challenges \ {Token(r)}
    /\ store' = IF got[r] # 0 THEN [store EXCEPT ![dom[r]] = <<got[r], got[r]>>] ELSE store
    /\ Goto(r, IF got[r] # 0 THEN "cert" ELSE "end")
    /\ UNCHANGED <<dom, made, got, lost, todo, issuing, diskVars, faults>>

DropToken(r) ==
    /\ at[r] = "clean"
    /\ challenges' = challenges \ {Token(r)}
    /\ Goto(r, IF got[r] # 0 THEN "cert" ELSE "end")
    /\ UNCHANGED <<dom, made, got, lost, todo, issuing, diskVars, store, faults>>

-----------------------------------------------------------------------------
(* issue_and_store: two files, each truncated and then written, and then   *)
(* the store.                                                              *)

Alone(r) == WritersOf(dom[r]) \subseteq {r}

\* A file's content after write_all(v): both of two runners write from the
\* start of the file, so without a truncation in between the longer one's tail stays.
Contents(file, r) == {got[r]} \cup IF file[dom[r]] = Torn THEN {} ELSE {Torn}

CreateCert(r) ==
    /\ at[r] = "cert"
    /\ cert' = [cert EXCEPT ![dom[r]] = Torn]
    /\ due' = due \ {dom[r]}
    /\ split' = IF Alone(r) THEN split ELSE split \cup {dom[r]}
    /\ Goto(r, "certdata")
    /\ UNCHANGED <<dom, orderVars, todo, issuing, key, store, faults>>

WriteCert(r) ==
    /\ at[r] = "certdata"
    /\ \E c \in Contents(cert, r) : cert' = [cert EXCEPT ![dom[r]] = c]
    /\ Goto(r, "key")
    /\ UNCHANGED <<dom, orderVars, todo, issuing, key, due, split, store, faults>>

\* Fault: a key that is there is kept.
CreateKeyIfMissing(r) ==
    /\ at[r] = "key"
    /\ key' = IF key[dom[r]] > 0 THEN key ELSE [key EXCEPT ![dom[r]] = Torn]
    /\ Goto(r, IF key[dom[r]] > 0 THEN "insert" ELSE "keydata")
    /\ UNCHANGED <<dom, orderVars, todo, issuing, cert, due, split, store, faults>>

CreateKey(r) ==
    /\ at[r] = "key"
    /\ key' = [key EXCEPT ![dom[r]] = Torn]
    /\ Goto(r, "keydata")
    /\ UNCHANGED <<dom, orderVars, todo, issuing, cert, due, split, store, faults>>

WriteKey(r) ==
    /\ at[r] = "keydata"
    /\ \E k \in Contents(key, r) : key' = [key EXCEPT ![dom[r]] = k]
    /\ Goto(r, "insert")
    /\ UNCHANGED <<dom, orderVars, todo, issuing, cert, due, split, store, faults>>

\* The pair that is stored is the one in memory, whatever is in the files; a
\* sequence that nobody disturbed has left two files that fit.
InsertPair(r) ==
    /\ at[r] = "insert"
    /\ store' = [store EXCEPT ![dom[r]] = <<got[r], got[r]>>]
    /\ split' = IF Alone(r) /\ cert[dom[r]] = got[r] /\ key[dom[r]] = got[r]
                THEN split \ {dom[r]} ELSE split
    /\ Goto(r, "end")
    /\ UNCHANGED <<dom, orderVars, todo, issuing, cert, key, due, faults>>

\* The directory, the first or the second file cannot be opened, or a write
\* fails after it was truncated.
WriteFails(r) ==
    /\ at[r] \in {"cert", "certdata", "key", "keydata"} /\ faults < MaxFaults
    /\ faults' = faults + 1
    /\ split' = IF at[r] = "cert" THEN split ELSE split \cup {dom[r]}
    /\ got' = [got EXCEPT ![r] = 0]
    /\ Goto(r, "end")
    /\ UNCHANGED <<dom, made, challenges, lost, todo, issuing, cert, key, due, store>>

-----------------------------------------------------------------------------
(* Time and crashes.                                                       *)

\* No issuance takes sixty days.
Ages(d) ==
    /\ cert[d] # Absent /\ d \notin due
    /\ \A r \in Runners : Active(r) => dom[r] # d
    /\ due' = due \cup {d}
    /\ UNCHANGED <<at, dom, orderVars, todo, issuing, cert, key, split, store, faults>>

\* certified_key refuses what cannot be parsed and does not compare the
\* certificate with the key.
Loaded(d) == IF cert[d] > 0 /\ key[d] > 0 THEN <<cert[d], key[d]>> ELSE NoPair

\* The process dies wherever its tasks are, and starts again: load_existing.
Restart ==
    /\ faults < MaxFaults
    /\ faults' = faults + 1
    /\ split' = split \cup {dom[r] : r \in {q \in Runners : at[q] \in MidWrite}}
    /\ at' = [r \in Runners |-> "idle"]
    /\ todo' = {} /\ issuing' = {} /\ challenges' = {}
    /\ lost' = [r \in Runners |-> 0]
    /\ got' = [r \in Runners |-> 0]
    /\ store' = [d \in Domains |-> Loaded(d)]
    /\ UNCHANGED <<dom, made, cert, key, due>>

-----------------------------------------------------------------------------
IssueStep(r) ==
    \/ Order(r) \/ Publish(r) \/ SetReady(r) \/ SetReadyFails(r)
    \/ Issued(r) \/ OrderFails(r) \/ DropToken(r)
    \/ CreateCert(r) \/ WriteCert(r) \/ CreateKey(r) \/ WriteKey(r)
    \/ InsertPair(r) \/ WriteFails(r)

TaskStep(t) == Lock(t) \/ Unlock(t) \/ IssueStep(t)

RenewalStep ==
    \/ \E d \in Domains : RenewNext(d)
    \/ RenewalRests \/ RenewalGoesOn \/ IssueStep(Renewal)

Next ==
    \/ \E t \in Tasks : TaskStep(t) \/ \E d \in Domains : EnsureCert(t, d)
    \/ RenewDue \/ RenewalStep
    \/ \E d \in Domains : Ages(d)
    \/ Restart

Spec == Init /\ [][Next]_vars

\* The runtime goes on with a spawned task and with the renewal loop, whose
\* ticks keep coming; every call of the authority ends, well or not.
FairSpec ==
    /\ Spec
    /\ \A t \in Tasks : WF_vars(TaskStep(t))
    /\ WF_vars(RenewDue) /\ WF_vars(RenewalStep)

-----------------------------------------------------------------------------
(* Properties.                                                             *)

\* However many sessions of a domain register at once, one task at most has an
\* order for it, and the set of issuances in flight names exactly the domains
\* of these tasks (acme.rs: "concurrent triggers for the same domain issue only
\* once").
OneEnsured ==
    /\ \A t, u \in Tasks : Active(t) /\ Active(u) /\ dom[t] = dom[u] => t = u
    /\ issuing = {dom[t] : t \in {u \in Tasks : Active(u)}}

\* The :80 router answers the tokens of the orders the authority may be
\* validating and those of orders it could not be told of, and no other.
ChallengesOfOrders ==
    challenges = {<<r, n>> : r \in Runners, n \in 0..MaxLost} \cap
                 {q \in Runners \X Nat :
                     \/ q[2] < lost[q[1]]
                     \/ q[2] = lost[q[1]] /\ at[q[1]] \in {"ready", "poll", "clean"}}

\* A certificate is served with the key of another only after a restart that
\* found a domain's files rewritten by halves: by a crash or a failure between
\* the two files, or by a renewal and an ensured issuance at once.
PairsFit ==
    \A d \in Domains : store[d][1] # store[d][2] => d \in split

\* A domain that is served is served again after a restart, unless one of its
\* files was being written when the process died, or was left half written.
Durable ==
    [][\A d \in Domains : Has(d) /\ store'[d] = NoPair =>
          d \in split' \/ WritersOf(d) # {}]_vars

\* A domain does not stay in flight: an issuance that fails can be tried again
\* when its session reconnects (acme.rs: "will retry on reconnect").
EnsureEnds == \A d \in Domains : d \in issuing ~> d \notin issuing
=============================================================================
