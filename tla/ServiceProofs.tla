--------------------------- MODULE ServiceProofs ---------------------------
(***************************************************************************)
(* Proofs about Service, for any processes, connections, problems, forms   *)
(* and scenes: publishing is safe beside closing connections, starts leave *)
(* each other's database and workers alone, the alerter neither repeats    *)
(* itself nor keeps something to itself, and the bridge settings of a      *)
(* serving process agree with their row.  Each part of the service is      *)
(* proved from the steps that touch its variables; the composition shows   *)
(* that every step of the service is one of them or leaves them alone.     *)
(***************************************************************************)
EXTENDS Service, TLAPS, FiniteSetTheorems, SequenceTheorems

(* ------------------------------- the hub --------------------------------- *)

\* A channel within its buffer that holds events of the owner only.
Private(s, c) == s \in Seq(Users) /\ Len(s) <= Buffer /\ \A i \in 1..Len(s) : s[i] = Owner[c]

PubStates == [pc : {"idle", "walk", "evict"}, ev : SUBSET Events, todo : SUBSET Clients, slow : SUBSET Clients]

\* A publisher in its walk has only registered clients before it, and a
\* registered client's channel is open.
HInv ==
  /\ HubTypeOK /\ NoSendOnClosed
  /\ send \in [Clients -> Seq(Users)]
  /\ \A c \in Clients : Private(send[c], c)
  /\ pub \in [Pubs -> PubStates]
  /\ \A p \in Pubs : pub[p].pc = "walk" => pub[p].todo \subseteq clients
  /\ clients \cap gone = {}

LEMMA HInvSafe == HInv => HubSafe
BY DEF HInv, HubSafe, OwnEventsOnly, Private

LEMMA EmptyPrivate == \A c \in Clients : Private(<< >>, c)
BY RealtimeAssumption DEF Private

LEMMA AppendPrivate ==
  ASSUME NEW s, NEW c \in Clients, Private(s, c), Len(s) < Buffer
  PROVE  Private(Append(s, Owner[c]), c)
<1> DEFINE t == Append(s, Owner[c])
<1>1. Owner[c] \in Users
  BY RealtimeAssumption
<1>2. s \in Seq(Users) /\ Len(s) \in Nat
  BY DEF Private
<1>3. t \in Seq(Users) /\ Len(t) = Len(s) + 1
  BY <1>1, <1>2
<1>4. ASSUME NEW i \in 1..Len(t) PROVE t[i] = Owner[c]
  BY <1>1, <1>2, <1>3, <1>4 DEF Private
<1> QED
  BY <1>2, <1>3, <1>4, RealtimeAssumption DEF Private

LEMMA TailPrivate ==
  ASSUME NEW s, NEW c \in Clients, Private(s, c), s # << >>
  PROVE  Private(Tail(s), c)
<1> DEFINE t == Tail(s)
<1>1. s \in Seq(Users) /\ Len(s) \in Nat /\ Len(s) > 0
  BY EmptySeq DEF Private
<1>2. t \in Seq(Users) /\ Len(t) = Len(s) - 1
  BY <1>1
<1>3. \A i \in 1..Len(t) : t[i] = s[i + 1] /\ i + 1 \in 1..Len(s)
  BY <1>1, <1>2
<1> QED
  BY <1>1, <1>2, <1>3, RealtimeAssumption DEF Private

LEMMA HubInitInv == HubInit => HInv
<1> SUFFICES ASSUME HubInit PROVE HInv
  OBVIOUS
<1>1. HubTypeOK /\ NoSendOnClosed
  BY RealtimeAssumption DEF HubInit, HubTypeOK, NoSendOnClosed
<1>2. pub \in [Pubs -> PubStates] /\ \A p \in Pubs : pub[p].pc # "walk"
  BY DEF HubInit, PubStates, NoPub
<1> QED
  BY <1>1, <1>2, EmptyPrivate DEF HubInit, HInv

\* What a step does to the channels.
LEMMA SendOne ==
  ASSUME HInv, NEW c \in Clients, NEW s, Private(s, c), send' = [send EXCEPT ![c] = s]
  PROVE  /\ send' \in [Clients -> Seq(Users)]
         /\ \A d \in Clients : Private(send'[d], d) /\ Len(send'[d]) <= Buffer
<1>1. s \in Seq(Users) /\ send \in [Clients -> Seq(Users)]
  BY DEF HInv, Private
<1>2. \A d \in Clients : send'[d] = IF d = c THEN s ELSE send[d]
  BY <1>1
<1> QED
  BY <1>1, <1>2 DEF HInv, Private

LEMMA SendSame ==
  ASSUME HInv, send' = send
  PROVE  /\ send' \in [Clients -> Seq(Users)]
         /\ \A d \in Clients : Private(send'[d], d) /\ Len(send'[d]) <= Buffer
BY DEF HInv, Private

LEMMA HubInputInv == HInv /\ HubInput => HInv'
<1> SUFFICES ASSUME HInv, HubInput PROVE HInv'
  OBVIOUS
<1>1. ASSUME NEW c \in Clients, Register(c) PROVE HInv'
  <2>1. send' = send /\ pub' = pub /\ gone' = gone /\ panicked' = panicked
    BY <1>1 DEF Register
  <2>2. clients' \cap gone' = {} /\ clients \subseteq clients' /\ clients' \subseteq Clients
    BY <1>1 DEF Register, HInv, HubTypeOK
  <2>3. HubTypeOK'
    BY <1>1, <2>2, SendSame DEF Register, HInv, HubTypeOK
  <2> QED
    BY <2>1, <2>2, <2>3, SendSame DEF HInv, NoSendOnClosed, Private
<1>2. ASSUME NEW c \in Clients, Drop(c) PROVE HInv'
  BY <1>2 DEF Drop, HInv, HubTypeOK, NoSendOnClosed, Private
<1>3. ASSUME NEW c \in Clients, NEW chs \in SUBSET Channels, Receive(c, chs) PROVE HInv'
  BY <1>3 DEF Receive, HInv, HubTypeOK, NoSendOnClosed, Private
<1>4. ASSUME NEW p \in Pubs, NEW ev \in Events, BeginPublish(p, ev) PROVE HInv'
  <2> DEFINE x == [NoPub EXCEPT !.pc = "walk", !.ev = {ev}, !.todo = clients]
  <2>1. x \in PubStates /\ x.todo = clients
    BY DEF HInv, HubTypeOK, PubStates, NoPub
  <2>2. pub' = [pub EXCEPT ![p] = x]
    BY <1>4 DEF BeginPublish
  <2> HIDE DEF x
  <2>3. /\ pub' \in [Pubs -> PubStates]
        /\ \A q \in Pubs : pub'[q].pc = "walk" => pub'[q].todo \subseteq clients
    BY <2>1, <2>2 DEF HInv
  <2>4. UNCHANGED <<conn, clients, gone, send, reader, writer, panicked>>
    BY <1>4 DEF BeginPublish
  <2> QED
    BY <2>3, <2>4 DEF HInv, HubTypeOK, NoSendOnClosed, Private
<1> QED
  BY <1>1, <1>2, <1>3, <1>4 DEF HubInput

\* A client that leaves the hub: nobody is in a walk, and its channel closes.
LEMMA Leaves ==
  ASSUME HInv, NEW c \in Clients, WriteLock,
         clients' = clients \ {c}, gone' = (IF c \in clients THEN gone \cup {c} ELSE gone)
  PROVE  /\ clients' \subseteq Clients /\ gone' \subseteq Clients /\ clients' \cap gone' = {}
         /\ \A p \in Pubs : pub[p].pc # "walk"
BY DEF HInv, HubTypeOK, WriteLock, RLocked

LEMMA HubStepsInv == HInv /\ HubSteps => HInv'
<1> SUFFICES ASSUME HInv, HubSteps PROVE HInv'
  OBVIOUS
<1>1. ASSUME NEW c \in Clients, Run(c) PROVE HInv'
  BY <1>1 DEF Run, HInv, HubTypeOK, NoSendOnClosed, Private
<1>2. ASSUME NEW c \in Clients, trySend(c) PROVE HInv'
  <2>1. /\ send' \in [Clients -> Seq(Users)]
        /\ \A d \in Clients : Private(send'[d], d) /\ Len(send'[d]) <= Buffer
    <3>1. CASE send' = send
      BY <3>1, SendSame
    <3>2. CASE send' # send
      <4>1. ~Full(c) /\ send' = [send EXCEPT ![c] = Append(send[c], Owner[c])]
        BY <1>2, <3>2 DEF trySend
      <4>2. Private(send[c], c)
        BY DEF HInv
      <4>3. Len(send[c]) < Buffer
        BY <4>1, <4>2, RealtimeAssumption DEF Full, Private
      <4>4. Private(Append(send[c], Owner[c]), c)
        BY <4>2, <4>3, AppendPrivate
      <4> QED
        BY <4>1, <4>4, SendOne
    <3> QED
      BY <3>1, <3>2
  <2>2. ~panicked'
    BY <1>2 DEF trySend, MayAck, HInv, NoSendOnClosed
  <2>3. UNCHANGED <<conn, clients, gone, writer, pub>> /\ reader' \in [Clients -> {"off", "recv", "ack", "leave", "done"}]
    BY <1>2 DEF trySend, HInv, HubTypeOK
  <2> QED
    BY <2>1, <2>2, <2>3 DEF HInv, HubTypeOK, NoSendOnClosed
<1>3. ASSUME NEW c \in Clients, ReadFails(c) PROVE HInv'
  BY <1>3 DEF ReadFails, HInv, HubTypeOK, NoSendOnClosed, Private
<1>4. ASSUME NEW c \in Clients, ReaderLeaves(c) PROVE HInv'
  <2>1. /\ clients' \subseteq Clients /\ gone' \subseteq Clients /\ clients' \cap gone' = {}
        /\ \A p \in Pubs : pub[p].pc # "walk"
    BY <1>4, Leaves DEF ReaderLeaves
  <2>2. /\ reader' \in [Clients -> {"off", "recv", "ack", "leave", "done"}]
        /\ conn' \in [Clients -> {"none", "open", "closed"}]
        /\ UNCHANGED <<send, writer, pub, panicked>>
    BY <1>4 DEF ReaderLeaves, Closed, HInv, HubTypeOK
  <2> QED
    BY <2>1, <2>2 DEF HInv, HubTypeOK, NoSendOnClosed, Private
<1>5. ASSUME NEW c \in Clients, WriteOne(c) PROVE HInv'
  <2>1. Private(Tail(send[c]), c)
    BY <1>5, TailPrivate DEF WriteOne, HInv
  <2>2. /\ send' \in [Clients -> Seq(Users)]
        /\ \A d \in Clients : Private(send'[d], d) /\ Len(send'[d]) <= Buffer
    BY <1>5, <2>1, SendOne DEF WriteOne
  <2>3. UNCHANGED <<conn, clients, gone, reader, pub, panicked>> /\ writer' \in [Clients -> {"off", "loop", "done"}]
    BY <1>5 DEF WriteOne, HInv, HubTypeOK
  <2> QED
    BY <2>2, <2>3 DEF HInv, HubTypeOK, NoSendOnClosed
<1>6. ASSUME NEW c \in Clients, WriterLeaves(c) PROVE HInv'
  BY <1>6 DEF WriterLeaves, Closed, HInv, HubTypeOK, NoSendOnClosed, Private
<1>7. ASSUME NEW p \in Pubs, EndWalk(p) PROVE HInv'
  <2> DEFINE x == IF pub[p].slow = {} THEN NoPub ELSE [pub[p] EXCEPT !.pc = "evict"]
  <2>1. x \in PubStates /\ x.pc # "walk"
    BY DEF HInv, PubStates, NoPub
  <2>2. pub' = [pub EXCEPT ![p] = x]
    BY <1>7 DEF EndWalk
  <2> HIDE DEF x
  <2>3. /\ pub' \in [Pubs -> PubStates]
        /\ \A q \in Pubs : pub'[q].pc = "walk" => pub'[q].todo \subseteq clients
    BY <2>1, <2>2 DEF HInv
  <2>4. UNCHANGED <<conn, clients, gone, send, reader, writer, panicked>>
    BY <1>7 DEF EndWalk
  <2> QED
    BY <2>3, <2>4 DEF HInv, HubTypeOK, NoSendOnClosed, Private
<1>8. ASSUME NEW p \in Pubs, NEW c \in Clients, Visit(p, c) PROVE HInv'
  <2> DEFINE ev == CHOOSE e \in pub[p].ev : TRUE
             full == Full(c)
             x == [pub[p] EXCEPT !.todo = @ \ {c}, !.slow = IF Wanted(c, ev) /\ full THEN @ \cup {c} ELSE @]
  <2> HIDE DEF ev
  <2>1. /\ pub[p].pc = "walk" /\ c \in pub[p].todo
        /\ panicked' = (panicked \/ (Wanted(c, ev) /\ c \in gone))
        /\ send' = IF Wanted(c, ev) /\ ~Full(c) THEN [send EXCEPT ![c] = Append(@, ev.user)] ELSE send
        /\ pub' = [pub EXCEPT ![p] = x]
        /\ UNCHANGED <<conn, clients, gone, reader, writer>>
    BY <1>8 DEF Visit, ev
  <2>2. ~panicked'
    BY <2>1 DEF HInv, NoSendOnClosed
  <2>3. /\ send' \in [Clients -> Seq(Users)]
        /\ \A d \in Clients : Private(send'[d], d) /\ Len(send'[d]) <= Buffer
    <3>1. CASE Wanted(c, ev) /\ ~Full(c)
      <4>1. send' = [send EXCEPT ![c] = Append(send[c], Owner[c])]
        BY <3>1, <2>1 DEF Wanted
      <4>2. Private(send[c], c)
        BY DEF HInv
      <4>3. Len(send[c]) < Buffer
        BY <3>1, <4>2, RealtimeAssumption DEF Full, Private
      <4>4. Private(Append(send[c], Owner[c]), c)
        BY <4>2, <4>3, AppendPrivate
      <4> QED
        BY <4>1, <4>4, SendOne
    <3>2. CASE ~(Wanted(c, ev) /\ ~Full(c))
      BY <2>1, <3>2, SendSame
    <3> QED
      BY <3>1, <3>2
  <2>4. x \in PubStates /\ x.todo \subseteq pub[p].todo
    BY DEF HInv, PubStates
  <2> HIDE DEF x
  <2>5. /\ pub' \in [Pubs -> PubStates]
        /\ \A q \in Pubs : pub'[q].pc = "walk" => pub'[q].todo \subseteq clients
    BY <2>1, <2>4 DEF HInv
  <2> QED
    BY <2>1, <2>2, <2>3, <2>5 DEF HInv, HubTypeOK, NoSendOnClosed
<1>9. ASSUME NEW p \in Pubs, NEW c \in Clients, CloseSlow(p, c) PROVE HInv'
  BY <1>9 DEF CloseSlow, Closed, HInv, HubTypeOK, NoSendOnClosed, Private
<1>10. ASSUME NEW p \in Pubs, NEW c \in Clients, Evict(p, c) PROVE HInv'
  <2>1. /\ clients' \subseteq Clients /\ gone' \subseteq Clients /\ clients' \cap gone' = {}
        /\ \A q \in Pubs : pub[q].pc # "walk"
    BY <1>10, Leaves DEF Evict
  <2> DEFINE x == IF pub[p].slow = {c} THEN NoPub ELSE [pub[p] EXCEPT !.slow = @ \ {c}]
  <2>2. x \in PubStates /\ x.pc # "walk"
    BY <2>1 DEF HInv, PubStates, NoPub
  <2>3. pub' = [pub EXCEPT ![p] = x]
    BY <1>10 DEF Evict, EvictLeaves
  <2> HIDE DEF x
  <2>4. pub' \in [Pubs -> PubStates] /\ \A q \in Pubs : pub'[q].pc # "walk"
    BY <2>1, <2>2, <2>3 DEF HInv
  <2>5. UNCHANGED <<conn, send, reader, writer, panicked>>
    BY <1>10 DEF Evict
  <2> QED
    BY <2>1, <2>4, <2>5 DEF HInv, HubTypeOK, NoSendOnClosed, Private
<1> QED
  BY <1>1, <1>2, <1>3, <1>4, <1>5, <1>6, <1>7, <1>8, <1>9, <1>10 DEF HubSteps

LEMMA HubGoneInv == HInv /\ HubGone => HInv'
<1> SUFFICES ASSUME HInv, HubGone PROVE HInv'
  OBVIOUS
<1>1. pub' \in [Pubs -> PubStates] /\ \A p \in Pubs : pub'[p].pc # "walk"
  BY DEF HubGone, PubStates, NoPub
<1>2. /\ send' \in [Clients -> Seq(Users)]
      /\ \A d \in Clients : Private(send'[d], d) /\ Len(send'[d]) <= Buffer
  BY EmptyPrivate DEF HubGone, Private
<1>3. /\ reader' \in [Clients -> {"off", "recv", "ack", "leave", "done"}]
      /\ writer' \in [Clients -> {"off", "loop", "done"}]
      /\ conn' \in [Clients -> {"none", "open", "closed"}]
  BY DEF HubGone, HInv, HubTypeOK
<1>4. clients' = {} /\ gone' \subseteq Clients /\ panicked' = panicked
  BY DEF HubGone
<1> QED
  BY <1>1, <1>2, <1>3, <1>4 DEF HInv, HubTypeOK, NoSendOnClosed

LEMMA HubSameInv == HInv /\ UNCHANGED hubVars => HInv'
BY DEF HInv, HubTypeOK, NoSendOnClosed, Private, hubVars

(* ------------------------------- the starts ------------------------------ *)

\* The migrations of a database or of a snapshot are the first so many.
Initial(S) == \E k \in 0..Files : S = 1..k

Migrating == {"list", "apply", "commit", "unlock"}
Checked == {"unlock", "admin", "csrf", "newcsrf", "load", "up", "stopping"}

\* What holds of one process: its snapshot is a part of the database's rows,
\* its transaction is about the first migration it lacks, and it holds the
\* locks that it believes to hold unless a session was lost.
POK(p) ==
  /\ Initial(known[p]) /\ known[p] \subseteq recorded
  /\ pc[p] \in {"apply", "commit"} => Unapplied(p) # {}
  /\ pc[p] = "commit" => tx[p] = Min(Unapplied(p)) /\ tx[p] \notin Empty
  /\ pc[p] \in Checked => listSQLFiles(p) \subseteq recorded
  /\ ~migLost /\ pc[p] \in Migrating => migLock = p
  /\ ~migLost /\ pc[p] \in {"apply", "commit"} => known[p] = recorded
  /\ pc[p] = "conflict" => migLost
  /\ wk[p] = "running" /\ pc[p] # "stopping" => p \in lost \/ workLock = p

Ran == \A n \in 1..Files : ran[n] = (IF n \in recorded \ Empty THEN 1 ELSE 0)

BInv == BootTypeOK /\ Initial(recorded) /\ Ran /\ \A p \in Procs : POK(p)

LEMMA BInvSafe == BInv => StartsSafe
<1> SUFFICES ASSUME BInv PROVE StartsSafe
  OBVIOUS
<1>1. recorded = 1..Cardinality(recorded)
  <2>1. PICK k \in 0..Files : recorded = 1..k
    BY DEF BInv, Initial
  <2>2. k \in Nat
    BY BootAssumption
  <2>3. Cardinality(1..k) = k
    BY <2>2, FS_Interval
  <2> QED
    BY <2>1, <2>3
<1>2. MigratedOnce
  BY <1>1 DEF BInv, Ran, MigratedOnce
<1>3. ServingSchema /\ NoMigrationConflict
  BY DEF BInv, POK, Checked, ServingSchema, NoMigrationConflict
<1>4. OneWorker
  BY DEF BInv, POK, OneWorker
<1> QED
  BY <1>2, <1>3, <1>4 DEF BInv, StartsSafe

\* The first migration that a snapshot lacks is the one after its last.
LEMMA NextFile ==
  ASSUME NEW K, Initial(K), NEW v \in 0..Files, (1..v) \ K # {}
  PROVE  /\ Min((1..v) \ K) \in (1..v) \ K
         /\ Initial(K \cup {Min((1..v) \ K)})
         /\ \A i \in 1..Min((1..v) \ K) : i \in K \cup {Min((1..v) \ K)}
<1> DEFINE U == (1..v) \ K
           n == CHOOSE x \in U : \A y \in U : x <= y
<1>1. PICK j \in 0..Files : K = 1..j
  BY DEF Initial
<1>2. v \in Nat /\ j \in Nat /\ Files \in Nat
  BY BootAssumption
<1>3. j + 1 \in U /\ \A y \in U : j + 1 <= y
  BY <1>1, <1>2
<1>4. n \in U /\ \A y \in U : n <= y
  BY <1>3
<1>5. n = j + 1
  BY <1>2, <1>3, <1>4
<1>6. Min(U) = n
  BY DEF Min
<1> HIDE DEF n
<1>7. K \cup {n} = 1..(j + 1) /\ j + 1 \in 0..Files
  BY <1>1, <1>2, <1>4, <1>5
<1> QED
  BY <1>2, <1>4, <1>5, <1>6, <1>7 DEF Initial

LEMMA BootInitInv == BootInit => BInv
<1> SUFFICES ASSUME BootInit PROVE BInv
  OBVIOUS
<1>1. NotStarted \in Starts
  BY BootAssumption DEF NotStarted
<1>2. PICK k \in 0..Files : recorded = 1..k /\ ran = [n \in 1..Files |-> IF n <= k /\ n \notin Empty THEN 1 ELSE 0]
  BY DEF BootInit
<1>3. k \in Nat /\ Files \in Nat /\ k <= Files
  BY BootAssumption
<1>4. Initial(recorded) /\ recorded \subseteq 1..Files
  BY <1>2, <1>3 DEF Initial
<1>5. Initial({})
  BY <1>3 DEF Initial
<1>6. Ran
  BY <1>2, <1>3 DEF Ran
<1>7. ran \in [1..Files -> Nat]
  BY <1>2
<1>8. BootTypeOK
  <2>1. MaxStarts \in Nat /\ MaxErr \in Nat /\ 0 \in 0..Files /\ 0 \in 0..MaxStarts /\ 0 \in 0..MaxErr
    BY BootAssumption
  <2>2. pc \in [Procs -> Pcs] /\ how \in [Procs -> Starts] /\ wk \in [Procs -> Wks]
    BY <1>1 DEF BootInit, Pcs, Wks
  <2>3. known \in [Procs -> SUBSET (1..Files)] /\ tx \in [Procs -> 0..Files] /\ csrf \in [Procs -> Nat]
    BY <2>1 DEF BootInit
  <2> QED
    BY <1>4, <1>7, <2>1, <2>2, <2>3 DEF BootInit, BootTypeOK
<1>9. \A p \in Procs : POK(p)
  BY <1>5 DEF BootInit, POK, Checked, Migrating
<1> QED
  BY <1>4, <1>6, <1>8, <1>9 DEF BInv

\* A step of one process keeps what holds of another.
LEMMA OthersOK ==
  ASSUME NEW q \in Procs, POK(q),
         pc'[q] = pc[q], how'[q] = how[q], known'[q] = known[q], tx'[q] = tx[q], wk'[q] = wk[q],
         recorded \subseteq recorded',
         recorded' # recorded /\ ~migLost' => migLock # q,
         migLost => migLost',
         ~migLost' /\ migLock = q => migLock' = q,
         workLock = q => workLock' = q, q \in lost => q \in lost'
  PROVE  POK(q)'
BY DEF POK, Unapplied, listSQLFiles, Checked, Migrating

\* Another process's variables stay.
OnlyHere(p) ==
  \A q \in Procs \ {p} :
    /\ pc'[q] = pc[q] /\ how'[q] = how[q] /\ known'[q] = known[q] /\ tx'[q] = tx[q] /\ wk'[q] = wk[q]
    /\ migLock = q => migLock' = q
    /\ workLock = q => workLock' = q
    /\ q \in lost => q \in lost'

LEMMA Whole ==
  ASSUME BInv, NEW p \in Procs, BootTypeOK', Initial(recorded)', Ran', POK(p)', OnlyHere(p),
         recorded \subseteq recorded', recorded' # recorded /\ ~migLost' => migLock = p, migLost => migLost'
  PROVE  BInv'
<1>1. ASSUME NEW q \in Procs PROVE POK(q)'
  <2>1. CASE q = p
    BY <2>1
  <2>2. CASE q # p
    BY <2>2, OthersOK DEF BInv, OnlyHere
  <2> QED
    BY <2>1, <2>2
<1> QED
  BY <1>1 DEF BInv

\* A step that leaves the migrations alone.
LEMMA Elsewhere ==
  ASSUME BInv, NEW p \in Procs, BootTypeOK', POK(p)', OnlyHere(p), UNCHANGED <<ran, recorded>>, migLost => migLost'
  PROVE  BInv'
<1>1. Initial(recorded)' /\ Ran'
  BY DEF BInv, Ran, Initial
<1> QED
  BY <1>1, Whole

\* The simplest steps only move on.
LEMMA Moves ==
  ASSUME BInv, NEW p \in Procs, NEW to \in Pcs, pc' = [pc EXCEPT ![p] = to], pc[p] # "stopping",
         UNCHANGED <<how, known, tx, lockVars, wk, ran, recorded>>,
         to \notin Migrating \cup {"conflict"},
         to \in Checked => listSQLFiles(p) \subseteq recorded,
         admin' \in {"none", "real", "dev"}, csrfRow' \in Nat, csrf' \in [Procs -> Nat], UNCHANGED counters
  PROVE  BInv'
<1>1. BootTypeOK'
  BY DEF BInv, BootTypeOK, lockVars, counters
<1>2. OnlyHere(p)
  BY DEF BInv, BootTypeOK, OnlyHere, lockVars
<1>3. POK(p)'
  <2>1. pc'[p] = to /\ pc'[p] \notin {"apply", "commit", "conflict"} /\ pc'[p] \notin Migrating
    BY DEF BInv, BootTypeOK, Migrating
  <2>2. POK(p)
    BY DEF BInv
  <2> QED
    BY <2>1, <2>2 DEF POK, Unapplied, listSQLFiles, lockVars
<1> QED
  BY <1>1, <1>2, <1>3, Elsewhere DEF lockVars

LEMMA StartProcessInv == \A p \in Procs, s \in Starts : BInv /\ StartProcess(p, s) => BInv'
<1> SUFFICES ASSUME NEW p \in Procs, NEW s \in Starts, BInv, StartProcess(p, s) PROVE BInv'
  OBVIOUS
<1> DEFINE to == CASE s.mode = "plan" -> "plan" [] s.mode = "serve" -> "check" [] OTHER -> "lock"
<1>1. to \in {"plan", "check", "lock"} /\ pc' = [pc EXCEPT ![p] = to]
  BY DEF StartProcess
<1> HIDE DEF to
<1>2. BootTypeOK'
  <2>1. starts' \in 0..MaxStarts
    BY BootAssumption DEF StartProcess, BInv, BootTypeOK
  <2> QED
    BY <1>1, <2>1 DEF StartProcess, BInv, BootTypeOK, Pcs, lockVars, dbVars
<1>3. OnlyHere(p)
  BY <1>1 DEF StartProcess, BInv, BootTypeOK, OnlyHere, lockVars
<1>4. POK(p)'
  <2>1. pc'[p] = to
    BY <1>1 DEF BInv, BootTypeOK
  <2> QED
    BY <1>1, <2>1 DEF StartProcess, BInv, POK, Migrating, Checked, lockVars, dbVars
<1> QED
  BY <1>2, <1>3, <1>4, Elsewhere DEF StartProcess, lockVars, dbVars

LEMMA MigrationLockInv == \A p \in Procs : BInv /\ MigrationLock(p) => BInv'
<1> SUFFICES ASSUME NEW p \in Procs, BInv, MigrationLock(p) PROVE BInv'
  OBVIOUS
<1>1. BootTypeOK'
  BY DEF MigrationLock, Go, BInv, BootTypeOK, Pcs, dbVars, counters
<1>2. OnlyHere(p)
  BY BootAssumption DEF MigrationLock, Go, BInv, BootTypeOK, OnlyHere
<1>3. POK(p)'
  <2>1. pc'[p] = "list" /\ migLock' = p
    BY DEF MigrationLock, Go, BInv, BootTypeOK
  <2> QED
    BY <2>1 DEF MigrationLock, Go, BInv, POK, Checked, dbVars
<1> QED
  BY <1>1, <1>2, <1>3, Elsewhere DEF MigrationLock, dbVars

LEMMA loadAppliedInv == \A p \in Procs : BInv /\ loadApplied(p) => BInv'
<1> SUFFICES ASSUME NEW p \in Procs, BInv, loadApplied(p) PROVE BInv'
  OBVIOUS
<1> DEFINE to == IF listSQLFiles(p) \subseteq recorded THEN "unlock" ELSE "apply"
<1>1. pc' = [pc EXCEPT ![p] = to] /\ to \in Pcs /\ known' = [known EXCEPT ![p] = recorded]
  BY DEF loadApplied, Pcs
<1>2. BootTypeOK'
  BY <1>1 DEF loadApplied, BInv, BootTypeOK, lockVars, dbVars, counters
<1>3. OnlyHere(p)
  BY <1>1 DEF loadApplied, BInv, BootTypeOK, OnlyHere, lockVars
<1>4. POK(p)'
  <2>1. pc'[p] = to /\ known'[p] = recorded /\ recorded' = recorded /\ how' = how
    BY <1>1 DEF loadApplied, BInv, BootTypeOK, dbVars
  <2>2. POK(p) /\ pc[p] = "list" /\ Initial(recorded)
    BY DEF BInv, loadApplied
  <2>3. UNCHANGED <<migLost, migLock, workLock, lost, wk>>
    BY DEF loadApplied, lockVars
  <2>4. Initial(known[p])' /\ listSQLFiles(p)' = listSQLFiles(p) /\ Unapplied(p)' = listSQLFiles(p) \ recorded
    BY <2>1, <2>2 DEF Initial, listSQLFiles, Unapplied
  <2> QED
    BY <2>1, <2>2, <2>3, <2>4 DEF POK, Migrating, Checked
<1> QED
  BY <1>2, <1>3, <1>4, Elsewhere DEF loadApplied, lockVars, dbVars

\* The first migration that a process lacks, from its snapshot and its binary.
LEMMA FirstMissing ==
  ASSUME BInv, NEW p \in Procs, pc[p] \in {"apply", "commit"}
  PROVE  /\ Min(Unapplied(p)) \in Unapplied(p) /\ Min(Unapplied(p)) \in 1..Files
         /\ Initial(known[p] \cup {Min(Unapplied(p))})
         /\ Initial(recorded \cup {Min(Unapplied(p))})
<1> DEFINE v == how[p].ver
           n == Min(Unapplied(p))
<1>1. v \in 0..Files
  <2>1. how[p] \in Starts
    BY DEF BInv, BootTypeOK
  <2> QED
    BY <2>1, BootAssumption
<1>2. Initial(known[p]) /\ Unapplied(p) = (1..v) \ known[p] /\ Unapplied(p) # {} /\ known[p] \subseteq recorded
  BY DEF BInv, POK, Unapplied, listSQLFiles
<1> HIDE DEF v
<1>3. n \in Unapplied(p) /\ Initial(known[p] \cup {n}) /\ \A i \in 1..n : i \in known[p] \cup {n}
  BY <1>1, <1>2, NextFile
<1> HIDE DEF n
<1>4. n \in 1..Files /\ n \in Nat /\ Files \in Nat
  BY <1>1, <1>2, <1>3, BootAssumption
<1>5. PICK k \in 0..Files : recorded = 1..k
  BY DEF BInv, Initial
<1>6. Initial(recorded \cup {n})
  <2>1. CASE n \in recorded
    <3>1. recorded \cup {n} = recorded
      BY <2>1
    <3> QED
      BY <3>1 DEF BInv
  <2>2. CASE n \notin recorded
    <3>1. \A i \in 1..n : i = n \/ i \in 1..k
      BY <1>2, <1>3, <1>5
    <3>2. k \in Nat /\ ~(n <= k)
      BY <1>4, <1>5, <2>2
    <3>3. n = k + 1
      BY <1>4, <3>1, <3>2
    <3>4. recorded \cup {n} = 1..n
      BY <1>4, <1>5, <3>2, <3>3
    <3> QED
      BY <1>4, <3>4 DEF Initial
  <2> QED
    BY <2>1, <2>2
<1> QED
  BY <1>3, <1>4, <1>6 DEF n

\* Recording a migration, with or without statements.
LEMMA Records ==
  ASSUME BInv, NEW p \in Procs, pc[p] \in {"apply", "commit"}, BootTypeOK', OnlyHere(p), Ran',
         NEW n, n = Min(Unapplied(p)), recorded' = recorded \cup {n}, known' = [known EXCEPT ![p] = @ \cup {n}],
         pc' = [pc EXCEPT ![p] = IF Unapplied(p) = {n} THEN "unlock" ELSE "apply"],
         UNCHANGED <<how, lockVars, wk>>
  PROVE  BInv'
<1>1. n \in Unapplied(p) /\ Initial(known[p] \cup {n}) /\ Initial(recorded \cup {n})
  BY FirstMissing
<1>2. POK(p)
  BY DEF BInv
<1>3. /\ known'[p] = known[p] \cup {n}
      /\ pc'[p] = IF Unapplied(p) = {n} THEN "unlock" ELSE "apply"
      /\ UNCHANGED <<migLock, migLost, workLock, lost, wk>>
  BY DEF BInv, BootTypeOK, lockVars
<1>4. listSQLFiles(p)' = listSQLFiles(p) /\ Unapplied(p)' = Unapplied(p) \ {n}
  BY <1>3 DEF listSQLFiles, Unapplied
<1>5. Initial(recorded)' /\ Initial(known[p])'
  BY <1>1, <1>3 DEF Initial
<1>6. POK(p)'
  <2>1. known'[p] \subseteq recorded'
    BY <1>2, <1>3 DEF POK
  <2>2. pc'[p] \in {"apply", "commit"} => Unapplied(p)' # {}
    BY <1>1, <1>3, <1>4
  <2>3. pc'[p] \in Checked => listSQLFiles(p)' \subseteq recorded'
    BY <1>1, <1>2, <1>3, <1>4 DEF Checked, POK, Unapplied
  <2>4. ~migLost' => migLock' = p /\ known'[p] = recorded'
    BY <1>2, <1>3 DEF POK, Migrating
  <2>5. pc'[p] \notin {"commit", "conflict", "stopping"} /\ pc[p] # "stopping"
    BY <1>3
  <2> QED
    BY <1>2, <1>3, <1>5, <2>1, <2>2, <2>3, <2>4, <2>5 DEF POK
<1>7. ~migLost' => migLock = p
  BY <1>2, <1>3 DEF POK, Migrating
<1> QED
  BY <1>3, <1>5, <1>6, <1>7, Whole

LEMMA markAppliedInv == \A p \in Procs : BInv /\ markApplied(p) => BInv'
<1> SUFFICES ASSUME NEW p \in Procs, BInv, markApplied(p) PROVE BInv'
  OBVIOUS
<1> DEFINE n == Min(Unapplied(p))
           to == IF Unapplied(p) = {n} THEN "unlock" ELSE "apply"
<1>1. /\ pc[p] = "apply" /\ n \in Empty /\ recorded' = recorded \cup {n}
      /\ known' = [known EXCEPT ![p] = @ \cup {n}] /\ pc' = [pc EXCEPT ![p] = to] /\ to \in Pcs
      /\ UNCHANGED <<how, tx, ran, lockVars, wk, admin, csrfRow, csrf, counters>>
  BY DEF markApplied, Pcs
<1>2. n \in 1..Files
  BY <1>1, FirstMissing
<1> HIDE DEF n, to
<1>3. BootTypeOK'
  BY <1>1, <1>2 DEF BInv, BootTypeOK, lockVars, counters
<1>4. OnlyHere(p)
  BY <1>1 DEF BInv, BootTypeOK, OnlyHere, lockVars
<1>5. Ran'
  BY <1>1 DEF BInv, Ran
<1> QED
  BY <1>1, <1>3, <1>4, <1>5, Records DEF n, to

LEMMA ExecOneInv == \A p \in Procs : BInv /\ ExecOne(p) => BInv'
<1> SUFFICES ASSUME NEW p \in Procs, BInv, ExecOne(p) PROVE BInv'
  OBVIOUS
<1> DEFINE n == Min(Unapplied(p))
<1>1. /\ pc[p] = "apply" /\ n \notin Empty /\ pc' = [pc EXCEPT ![p] = "commit"] /\ tx' = [tx EXCEPT ![p] = n]
      /\ UNCHANGED <<how, known, lockVars, wk, dbVars, csrf, counters>>
  BY DEF ExecOne, Go
<1>2. n \in 1..Files /\ Unapplied(p)' = Unapplied(p)
  BY <1>1, FirstMissing DEF Unapplied, listSQLFiles
<1> HIDE DEF n
<1>3. BootTypeOK'
  BY <1>1, <1>2 DEF BInv, BootTypeOK, Pcs, lockVars, dbVars, counters
<1>4. OnlyHere(p)
  BY <1>1 DEF BInv, BootTypeOK, OnlyHere, lockVars
<1>5. POK(p)'
  <2>1. pc'[p] = "commit" /\ tx'[p] = n
    BY <1>1 DEF BInv, BootTypeOK
  <2>2. POK(p)
    BY DEF BInv
  <2>3. Min(Unapplied(p)') = n
    BY <1>2 DEF n
  <2> QED
    BY <1>1, <1>2, <2>1, <2>2, <2>3 DEF POK, Migrating, Checked, lockVars, dbVars
<1> QED
  BY <1>1, <1>3, <1>4, <1>5, Elsewhere DEF lockVars, dbVars

LEMMA Counts == \A S : \A f \in [S -> Nat], n \in S : [f EXCEPT ![n] = @ + 1] \in [S -> Nat]
OBVIOUS

LEMMA CommitOneInv == \A p \in Procs : BInv /\ CommitOne(p) => BInv'
<1> SUFFICES ASSUME NEW p \in Procs, BInv, CommitOne(p) PROVE BInv'
  OBVIOUS
<1> DEFINE n == tx[p]
<1>1. /\ pc[p] = "commit" /\ tx' = [tx EXCEPT ![p] = 0]
      /\ UNCHANGED <<how, workLock, lost, migLost, wk, admin, csrfRow, csrf, counters>>
  BY DEF CommitOne
<1>2. n = Min(Unapplied(p)) /\ n \notin Empty /\ POK(p)
  BY <1>1 DEF BInv, POK
<1>3. n \in 1..Files /\ n \in Unapplied(p)
  BY <1>1, <1>2, FirstMissing
<1>4. 0 \in 0..Files
  BY BootAssumption
<1> HIDE DEF n
<1>5. CASE n \in recorded
  <2>1. /\ pc' = [pc EXCEPT ![p] = "conflict"] /\ migLock' = (IF migLock = p THEN Free ELSE migLock)
        /\ UNCHANGED <<ran, recorded, known>>
    BY <1>5 DEF CommitOne, n
  <2>2. BootTypeOK'
    BY <1>1, <1>4, <2>1 DEF BInv, BootTypeOK, Pcs, counters
  <2>3. OnlyHere(p)
    BY <1>1, <2>1 DEF BInv, BootTypeOK, OnlyHere
  <2>4. migLost
    BY <1>1, <1>2, <1>3, <1>5 DEF POK, Unapplied
  <2>5. POK(p)'
    <3>1. pc'[p] = "conflict"
      BY <2>1 DEF BInv, BootTypeOK
    <3> QED
      BY <1>1, <1>2, <2>1, <2>4, <3>1 DEF POK, Checked
  <2> QED
    BY <1>1, <2>1, <2>2, <2>3, <2>5, Elsewhere
<1>6. CASE n \notin recorded
  <2> DEFINE to == IF Unapplied(p) = {n} THEN "unlock" ELSE "apply"
  <2>1. /\ ran' = [ran EXCEPT ![n] = @ + 1] /\ recorded' = recorded \cup {n}
        /\ known' = [known EXCEPT ![p] = @ \cup {n}] /\ pc' = [pc EXCEPT ![p] = to] /\ to \in Pcs
        /\ migLock' = migLock
    BY <1>6 DEF CommitOne, n, Pcs
  <2> HIDE DEF to
  <2>2. BootTypeOK'
    <3>1. ran' \in [1..Files -> Nat]
      BY <1>3, <2>1, Counts DEF BInv, BootTypeOK
    <3>2. recorded' \subseteq 1..Files /\ known' \in [Procs -> SUBSET (1..Files)]
      BY <1>3, <2>1 DEF BInv, BootTypeOK
    <3> QED
      BY <1>1, <1>4, <2>1, <3>1, <3>2 DEF BInv, BootTypeOK, counters
  <2>3. OnlyHere(p)
    BY <1>1, <2>1 DEF BInv, BootTypeOK, OnlyHere
  <2>4. Ran'
    <3>1. \A m \in 1..Files : ran'[m] = IF m = n THEN ran[n] + 1 ELSE ran[m]
      BY <1>3, <2>1 DEF BInv, BootTypeOK
    <3> QED
      BY <1>2, <1>3, <1>6, <2>1, <3>1 DEF BInv, Ran
  <2> QED
    BY <1>1, <1>2, <2>1, <2>2, <2>3, <2>4, Records DEF to, lockVars
<1> QED
  BY <1>5, <1>6

\* Giving back the locks and the transaction.
LEMMA ApplyReturnsInv == \A p \in Procs : BInv /\ ApplyReturns(p) => BInv'
<1> SUFFICES ASSUME NEW p \in Procs, BInv, ApplyReturns(p) PROVE BInv'
  OBVIOUS
<1> DEFINE to == IF how[p].mode = "migrate" THEN "exit" ELSE "admin"
<1>1. /\ pc[p] = "unlock" /\ pc' = [pc EXCEPT ![p] = to] /\ to \in {"exit", "admin"}
      /\ migLock' = (IF migLock = p THEN Free ELSE migLock)
      /\ UNCHANGED <<how, known, tx, workLock, lost, migLost, wk, dbVars, csrf, counters>>
  BY DEF ApplyReturns, Go
<1> HIDE DEF to
<1>2. BootTypeOK'
  BY <1>1 DEF BInv, BootTypeOK, Pcs, dbVars, counters
<1>3. OnlyHere(p)
  BY <1>1 DEF BInv, BootTypeOK, OnlyHere
<1>4. POK(p)'
  <2>1. pc'[p] = to /\ POK(p)
    BY <1>1 DEF BInv, BootTypeOK
  <2> QED
    BY <1>1, <2>1 DEF POK, listSQLFiles, Migrating, Checked, dbVars
<1> QED
  BY <1>1, <1>2, <1>3, <1>4, Elsewhere DEF dbVars

LEMMA StartFailsInv == \A p \in Procs : BInv /\ StartFails(p) => BInv'
<1> SUFFICES ASSUME NEW p \in Procs, BInv, StartFails(p) PROVE BInv'
  OBVIOUS
<1>1. /\ pc[p] # "stopping" /\ pc' = [pc EXCEPT ![p] = "exit"] /\ tx' = [tx EXCEPT ![p] = 0]
      /\ migLock' = (IF migLock = p THEN Free ELSE migLock)
      /\ errs < MaxErr /\ errs' = errs + 1
      /\ UNCHANGED <<how, known, workLock, lost, migLost, wk, dbVars, csrf, starts>>
  BY DEF StartFails
<1>2. BootTypeOK'
  <2>1. errs' \in 0..MaxErr /\ 0 \in 0..Files
    BY <1>1, BootAssumption DEF BInv, BootTypeOK
  <2> QED
    BY <1>1, <2>1 DEF BInv, BootTypeOK, Pcs, dbVars
<1>3. OnlyHere(p)
  BY <1>1 DEF BInv, BootTypeOK, OnlyHere
<1>4. POK(p)'
  <2>1. pc'[p] = "exit" /\ POK(p)
    BY <1>1 DEF BInv, BootTypeOK
  <2> QED
    BY <1>1, <2>1 DEF POK, Migrating, Checked, dbVars
<1> QED
  BY <1>1, <1>2, <1>3, <1>4, Elsewhere DEF dbVars

\* The steps of main() that only read or write their own rows.
LEMMA MainInv ==
  \A p \in Procs : BInv /\ (CheckPending(p) \/ MigratePlan(p) \/ FirstAdmin(p) \/ ReadSecret(p) \/ WriteSecret(p)) => BInv'
<1> SUFFICES ASSUME NEW p \in Procs, BInv,
                    CheckPending(p) \/ MigratePlan(p) \/ FirstAdmin(p) \/ ReadSecret(p) \/ WriteSecret(p)
             PROVE  BInv'
  OBVIOUS
<1> USE DEF Pcs, Migrating, Checked
<1>0. POK(p) /\ admin \in {"none", "real", "dev"} /\ csrfRow \in Nat /\ csrf \in [Procs -> Nat]
  BY DEF BInv, BootTypeOK
<1>1. CASE CheckPending(p)
  BY <1>0, <1>1, Moves DEF CheckPending, Go, dbVars
<1>2. CASE MigratePlan(p)
  BY <1>0, <1>2, Moves DEF MigratePlan, Go, dbVars
<1>3. CASE FirstAdmin(p)
  <2> DEFINE refused == how[p].pass = "placeholder" /\ admin = "none"
             to == IF refused THEN "exit" ELSE "csrf"
  <2>1. /\ pc[p] = "admin" /\ pc' = [pc EXCEPT ![p] = to] /\ to \in {"exit", "csrf"}
        /\ UNCHANGED <<how, known, tx, ran, recorded, lockVars, wk, csrfRow, csrf, counters>>
    BY <1>3 DEF FirstAdmin, Go
  <2>2. how[p].pass \in {"none", "real", "placeholder", "dev"}
    <3>1. how[p] \in Starts
      BY DEF BInv, BootTypeOK
    <3> QED
      BY <3>1, BootAssumption
  <2>3. admin' \in {"none", "real", "dev"}
    BY <1>0, <1>3, <2>2 DEF FirstAdmin
  <2> HIDE DEF to
  <2>4. listSQLFiles(p) \subseteq recorded
    BY <1>0, <2>1 DEF POK
  <2> QED
    BY <1>0, <2>1, <2>3, <2>4, Moves
<1>4. CASE ReadSecret(p)
  <2> DEFINE to == IF csrfRow = 0 /\ ~how[p].env THEN "newcsrf" ELSE "load"
  <2>1. /\ pc[p] = "csrf" /\ pc' = [pc EXCEPT ![p] = to] /\ to \in {"newcsrf", "load"}
        /\ UNCHANGED <<how, known, tx, lockVars, wk, ran, recorded, admin, csrfRow, counters>>
    BY <1>4 DEF ReadSecret, Go, dbVars
  <2>2. csrf' \in [Procs -> Nat]
    BY <1>0, <1>4 DEF ReadSecret
  <2> HIDE DEF to
  <2>3. listSQLFiles(p) \subseteq recorded
    BY <1>0, <2>1 DEF POK
  <2> QED
    BY <1>0, <2>1, <2>2, <2>3, Moves
<1>5. CASE WriteSecret(p)
  <2>1. /\ pc[p] = "newcsrf" /\ pc' = [pc EXCEPT ![p] = "load"]
        /\ UNCHANGED <<how, known, tx, lockVars, wk, ran, recorded, admin, counters>>
    BY <1>5 DEF WriteSecret, Go
  <2>2. csrf' \in [Procs -> Nat] /\ csrfRow' \in Nat
    BY <1>0, <1>5 DEF WriteSecret
  <2>3. listSQLFiles(p) \subseteq recorded
    BY <1>0, <2>1 DEF POK
  <2> QED
    BY <1>0, <2>1, <2>2, <2>3, Moves
<1> QED
  BY <1>1, <1>2, <1>3, <1>4, <1>5

LEMMA ServeInv == \A p \in Procs : BInv /\ Serve(p) => BInv'
<1> SUFFICES ASSUME NEW p \in Procs, BInv, Serve(p) PROVE BInv'
  OBVIOUS
<1>1. /\ pc[p] = "load" /\ pc' = [pc EXCEPT ![p] = "up"] /\ wk' = [wk EXCEPT ![p] = "starting"]
      /\ UNCHANGED <<how, known, tx, lockVars, dbVars, csrf, counters>>
  BY DEF Serve, Go
<1>2. BootTypeOK'
  BY <1>1 DEF BInv, BootTypeOK, Pcs, Wks, lockVars, dbVars, counters
<1>3. OnlyHere(p)
  BY <1>1 DEF BInv, BootTypeOK, OnlyHere, lockVars
<1>4. POK(p)'
  <2>1. pc'[p] = "up" /\ wk'[p] = "starting" /\ POK(p)
    BY <1>1 DEF BInv, BootTypeOK
  <2> QED
    BY <1>1, <2>1 DEF POK, listSQLFiles, Migrating, Checked, lockVars, dbVars
<1> QED
  BY <1>1, <1>2, <1>3, <1>4, Elsewhere DEF lockVars, dbVars

LEMMA TryWorkerLockInv == \A p \in Procs : BInv /\ TryWorkerLock(p) => BInv'
<1> SUFFICES ASSUME NEW p \in Procs, BInv, TryWorkerLock(p) PROVE BInv'
  OBVIOUS
<1>1. UNCHANGED <<pc, how, known, tx, migLock, lost, migLost, dbVars, csrf, counters>>
  BY DEF TryWorkerLock
<1>2. /\ workLock' \in Procs \cup {Free} /\ wk' \in [Procs -> Wks]
      /\ \A q \in Procs \ {p} : wk'[q] = wk[q] /\ (workLock = q => workLock' = q)
      /\ wk'[p] = "running" => workLock' = p
  BY BootAssumption DEF TryWorkerLock, BInv, BootTypeOK, Wks
<1>3. BootTypeOK'
  BY <1>1, <1>2 DEF BInv, BootTypeOK, dbVars, counters
<1>4. OnlyHere(p)
  BY <1>1, <1>2 DEF OnlyHere
<1>5. POK(p)'
  BY <1>1, <1>2 DEF BInv, POK, Unapplied, listSQLFiles, dbVars
<1> QED
  BY <1>1, <1>3, <1>4, <1>5, Elsewhere DEF dbVars

LEMMA ShutdownInv == \A p \in Procs : BInv /\ Shutdown(p) => BInv'
<1> SUFFICES ASSUME NEW p \in Procs, BInv, Shutdown(p) PROVE BInv'
  OBVIOUS
<1>1. /\ pc[p] = "up" /\ pc' = [pc EXCEPT ![p] = "stopping"]
      /\ workLock' = (IF workLock = p THEN Free ELSE workLock)
      /\ UNCHANGED <<how, known, tx, migLock, lost, migLost, wk, dbVars, csrf, counters>>
  BY DEF Shutdown, Go
<1>2. BootTypeOK'
  BY <1>1 DEF BInv, BootTypeOK, Pcs, dbVars, counters
<1>3. OnlyHere(p)
  BY <1>1 DEF BInv, BootTypeOK, OnlyHere
<1>4. POK(p)'
  <2>1. pc'[p] = "stopping" /\ POK(p)
    BY <1>1 DEF BInv, BootTypeOK
  <2> QED
    BY <1>1, <2>1 DEF POK, listSQLFiles, Migrating, Checked, dbVars
<1> QED
  BY <1>1, <1>2, <1>3, <1>4, Elsewhere DEF dbVars

LEMMA ProcessGoneInv == \A p \in Procs : BInv /\ ProcessGone(p) => BInv'
<1> SUFFICES ASSUME NEW p \in Procs, BInv, ProcessGone(p) PROVE BInv'
  OBVIOUS
<1>1. NotStarted \in Starts /\ 0 \in 0..Files /\ Initial({})
  <2>1. 0 \in 0..Files /\ 1..0 = {}
    BY BootAssumption
  <2> QED
    BY <2>1, BootAssumption DEF NotStarted, Initial
<1>2. BootTypeOK'
  <2>1. pc' \in [Procs -> Pcs] /\ tx' \in [Procs -> 0..Files] /\ wk' \in [Procs -> Wks]
    BY <1>1 DEF ProcessGone, BInv, BootTypeOK, Pcs, Wks
  <2>2. how' \in [Procs -> Starts] /\ known' \in [Procs -> SUBSET (1..Files)] /\ csrf' \in [Procs -> Nat]
    BY <1>1 DEF ProcessGone, BInv, BootTypeOK
  <2> QED
    BY <2>1, <2>2 DEF ProcessGone, BInv, BootTypeOK, dbVars, counters
<1>3. OnlyHere(p)
  BY DEF ProcessGone, BInv, BootTypeOK, OnlyHere
<1>4. POK(p)'
  <2>1. pc'[p] = "off" /\ wk'[p] = "none" /\ known'[p] = {}
    BY DEF ProcessGone, BInv, BootTypeOK
  <2>2. Initial(known[p])'
    BY <1>1, <2>1 DEF Initial
  <2> QED
    BY <2>1, <2>2 DEF POK, Migrating, Checked
<1> QED
  BY <1>2, <1>3, <1>4, Elsewhere DEF ProcessGone, dbVars

LEMMA LockLostInv == \A p \in Procs : BInv /\ LockLost(p) => BInv'
<1> SUFFICES ASSUME NEW p \in Procs, BInv, LockLost(p) PROVE BInv'
  OBVIOUS
<1>1. /\ ~migLost /\ lost' = (IF workLock = p THEN lost \cup {p} ELSE lost) /\ migLost' = (migLock = p)
      /\ migLock' = (IF migLock = p THEN Free ELSE migLock)
      /\ workLock' = (IF workLock = p THEN Free ELSE workLock)
      /\ UNCHANGED <<pc, how, known, tx, wk, dbVars, csrf, counters>>
  BY DEF LockLost
<1>2. BootTypeOK'
  BY <1>1 DEF BInv, BootTypeOK, dbVars, counters
<1>3. OnlyHere(p)
  BY <1>1 DEF OnlyHere
<1>4. POK(p)'
  BY <1>1 DEF BInv, POK, Unapplied, listSQLFiles, dbVars
<1> QED
  BY <1>1, <1>2, <1>3, <1>4, Elsewhere DEF dbVars

LEMMA BootStepsInv == \A p \in Procs : BInv /\ BootSteps(p) => BInv'
BY MigrationLockInv, loadAppliedInv, markAppliedInv, ExecOneInv, CommitOneInv, ApplyReturnsInv, MainInv DEF BootSteps

LEMMA BootSameInv == BInv /\ UNCHANGED bootVars => BInv'
<1> SUFFICES ASSUME BInv, UNCHANGED bootVars PROVE BInv'
  OBVIOUS
<1>1. BootTypeOK' /\ Ran' /\ Initial(recorded)'
  BY DEF BInv, BootTypeOK, Ran, Initial, bootVars
<1>2. ASSUME NEW q \in Procs PROVE POK(q)'
  BY OthersOK DEF BInv, bootVars
<1> QED
  BY <1>1, <1>2 DEF BInv

(* ------------------------------- the alerter ----------------------------- *)

Present(i) == i \in broken \/ (i = Layout /\ bad > 0)

\* What an alerter has in its state was heard of, but for what it still sends.
LOK(p) ==
  /\ al[p].pc # "send" => al[p].msgs = {}
  /\ al[p].pc = "send" => al[p].seeded
  /\ al[p].msgs \ {"recovered"} \subseteq al[p].state
  /\ al[p].state \ al[p].msgs \subseteq heard

\* A problem that lasts and was announced is remembered: in the state of the
\* alerter that runs, or of one that will only record what it finds, and in
\* the saved state unless the save is still to come.
Said(i) ==
  /\ told[i] <= 1
  /\ \A p \in AProcs : i \in al[p].msgs => told[i] = 0
  /\ told[i] # 0 /\ Present(i) =>
       /\ \A p \in AProcs : al[p].pc # "off" => i \in al[p].state \/ (~al[p].seeded /\ i # Layout)
       /\ (\A p \in AProcs : al[p].pc # "send") => saved # NoState /\ i \in saved

LInv ==
  /\ AlertsTypeOK /\ NothingSilenced
  /\ ~OneAlerter => excused = All
  /\ \A p \in AProcs : LOK(p)
  /\ \A i \in All \ excused : Said(i)

LEMMA LInvFaithful == LInv => AlertsFaithful
BY DEF LInv, AlertsFaithful, AlertedOnce, Said

LEMMA NoAlerterType == NoAlerter \in Alerters
BY DEF NoAlerter, Alerters

LEMMA AlertsInitInv == AlertsInit => LInv
<1> SUFFICES ASSUME AlertsInit PROVE LInv
  OBVIOUS
<1>1. AlertsTypeOK
  BY NoAlerterType, AlertsAssumption DEF AlertsInit, AlertsTypeOK
<1>2. \A p \in AProcs : al[p].pc = "off" /\ al[p].msgs = {} /\ al[p].state = {}
  BY DEF AlertsInit, NoAlerter
<1>3. \A i \in All : told[i] = 0
  BY DEF AlertsInit
<1>4. OneAlerter
  BY <1>2 DEF OneAlerter
<1> QED
  BY <1>1, <1>2, <1>3, <1>4 DEF LInv, NothingSilenced, AlertsInit, LOK, Said

\* A step of the surroundings: the alerters stay, and only problems whose
\* announcements count from 0 again appear, go or lose their excuse.
LEMMA Outside ==
  ASSUME LInv, AlertsTypeOK', UNCHANGED <<al, saved, heard>>, ~OneAlerter => excused' = excused,
         \A i \in All \ excused' :
            told'[i] = 0 \/ (i \notin excused /\ told'[i] = told[i] /\ (Present(i)' => Present(i)))
  PROVE  LInv'
<1>1. NothingSilenced' /\ (~OneAlerter' => excused' = All)
  BY DEF LInv, NothingSilenced, OneAlerter
<1>2. \A p \in AProcs : LOK(p)'
  BY DEF LInv, LOK
<1>3. ASSUME NEW i \in All \ excused' PROVE Said(i)'
  <2>1. CASE told'[i] = 0
    BY <2>1 DEF Said
  <2>2. CASE told'[i] # 0
    <3>1. i \notin excused /\ told'[i] = told[i] /\ (Present(i)' => Present(i))
      BY <2>2
    <3>2. Said(i)
      BY <3>1 DEF LInv
    <3> QED
      BY <3>1, <3>2 DEF Said
  <2> QED
    BY <2>1, <2>2
<1> QED
  BY <1>1, <1>2, <1>3 DEF LInv

LEMMA SurroundingsInv == LInv /\ Surroundings => LInv'
<1> SUFFICES ASSUME LInv, Surroundings PROVE LInv'
  OBVIOUS
<1>0. told \in [All -> Nat] /\ excused \subseteq All /\ broken \subseteq Items /\ Layout \in All /\ Items \subseteq All
  BY DEF LInv, AlertsTypeOK, All
<1>1. ASSUME NEW i \in Items, Break(i) PROVE LInv'
  <2>1. AlertsTypeOK'
    BY <1>0, <1>1 DEF Break, LInv, AlertsTypeOK
  <2>2. \A j \in All : told'[j] = (IF j = i THEN 0 ELSE told[j]) /\ (j # i => (Present(j)' <=> Present(j)))
    BY <1>0, <1>1 DEF Break, Present
  <2> QED
    BY <1>1, <2>1, <2>2, Outside DEF Break
<1>2. ASSUME NEW i \in Items, Repair(i) PROVE LInv'
  <2>1. excused' = (IF OneAlerter THEN excused \ {i} ELSE excused)
    BY <1>2 DEF Repair, EndExcuse
  <2>2. AlertsTypeOK'
    BY <1>0, <1>2, <2>1 DEF Repair, LInv, AlertsTypeOK
  <2>3. \A j \in All : told'[j] = (IF j = i THEN 0 ELSE told[j]) /\ (j # i => (Present(j)' <=> Present(j)))
    BY <1>0, <1>2 DEF Repair, Present
  <2> QED
    BY <1>2, <2>1, <2>2, <2>3, Outside DEF Repair
<1>3. ASSUME NEW n \in 0..Total, Markup(n) PROVE LInv'
  <2>1. IF n = 0 THEN excused' = (IF OneAlerter THEN excused \ {Layout} ELSE excused) ELSE excused' = excused
    BY <1>3 DEF Markup, EndExcuse
  <2>2. told' \in [All -> Nat]
    BY <1>0, <1>3 DEF Markup
  <2>3. AlertsTypeOK'
    BY <1>0, <1>3, <2>1, <2>2 DEF Markup, LInv, AlertsTypeOK
  <2>4. \A j \in All \ {Layout} : told'[j] = told[j] /\ (Present(j)' <=> Present(j))
    BY <1>0, <1>3 DEF Markup, Present
  <2>5. told'[Layout] = 0 \/ (n # 0 /\ told'[Layout] = told[Layout] /\ Present(Layout))
    <3>1. bad \in Nat
      BY AlertsAssumption DEF LInv, AlertsTypeOK
    <3> QED
      BY <1>0, <1>3, <3>1 DEF Markup, Present
  <2> QED
    BY <1>3, <2>1, <2>3, <2>4, <2>5, Outside DEF Markup
<1>4. ASSUME NEW h \in Hooks, Subscribe(h) \/ Unsubscribe(h) PROVE LInv'
  <2>1. AlertsTypeOK' /\ UNCHANGED <<broken, bad, told, excused, al, saved, heard>>
    BY <1>4 DEF Subscribe, Unsubscribe, LInv, AlertsTypeOK
  <2> QED
    BY <2>1, Outside DEF Present
<1> QED
  BY <1>1, <1>2, <1>3, <1>4 DEF Surroundings

\* A step of one alerter: the others stay.
LEMMA Inside ==
  ASSUME LInv, NEW p \in AProcs, NEW x \in Alerters, al' = [al EXCEPT ![p] = x], AlertsTypeOK', NothingSilenced',
         x.pc # "send" => x.msgs = {}, x.pc = "send" => x.seeded, x.msgs \ {"recovered"} \subseteq x.state,
         x.state \ x.msgs \subseteq heard',
         \A q \in AProcs \ {p} : al[q].state \ al[q].msgs \subseteq heard',
         ~OneAlerter' => excused' = All,
         \A i \in All \ excused' : Said(i)'
  PROVE  LInv'
<1>1. al'[p] = x /\ \A q \in AProcs \ {p} : al'[q] = al[q]
  BY DEF LInv, AlertsTypeOK
<1>2. ASSUME NEW q \in AProcs PROVE LOK(q)'
  <2>1. CASE q = p
    BY <1>1, <2>1 DEF LOK
  <2>2. CASE q # p
    BY <1>1, <2>2 DEF LInv, LOK
  <2> QED
    BY <2>1, <2>2
<1> QED
  BY <1>2 DEF LInv

\* Beside an alerter that runs there is no other, where nothing is excused.
LEMMA NoOther ==
  ASSUME LInv, NEW p \in AProcs, al[p].pc # "off", NEW i \in All \ excused
  PROVE  OneAlerter /\ Said(i) /\ \A q \in AProcs \ {p} : al[q].pc = "off" /\ al[q].msgs = {}
BY DEF LInv, OneAlerter, LOK

LEMMA ListSubscribersInv == \A p \in AProcs : LInv /\ ListSubscribers(p) => LInv'
<1> SUFFICES ASSUME NEW p \in AProcs, LInv, ListSubscribers(p) PROVE LInv'
  OBVIOUS
<1> DEFINE x == [al[p] EXCEPT !.pc = "diff", !.to = hooks]
<1>1. al[p] \in Alerters /\ al[p].pc = "idle" /\ LOK(p) /\ hooks \subseteq Hooks
  BY DEF LInv, AlertsTypeOK, ListSubscribers
<1>2. /\ x \in Alerters /\ x.pc = "diff" /\ x.state = al[p].state /\ x.msgs = al[p].msgs /\ x.seeded = al[p].seeded
  BY <1>1 DEF Alerters
<1>3. al' = [al EXCEPT ![p] = x] /\ UNCHANGED <<broken, bad, hooks, saved, told, heard, excused, changes, aerrs>>
  BY DEF ListSubscribers, ghosts
<1> HIDE DEF x
<1>4. AlertsTypeOK' /\ NothingSilenced'
  BY <1>2, <1>3 DEF LInv, AlertsTypeOK, NothingSilenced
<1>5. al'[p] = x /\ \A q \in AProcs \ {p} : al'[q] = al[q]
  BY <1>3 DEF LInv, AlertsTypeOK
<1>6. ~OneAlerter' => excused' = All
  BY <1>1, <1>2, <1>3, <1>5 DEF LInv, OneAlerter
<1>7. ASSUME NEW i \in All \ excused' PROVE Said(i)'
  BY <1>1, <1>2, <1>3, <1>5 DEF LInv, Said, Present
<1> QED
  BY <1>1, <1>2, <1>3, <1>4, <1>6, <1>7, Inside DEF LOK, LInv

LEMMA ForgetInv == \A p \in AProcs : LInv /\ Forget(p) => LInv'
<1> SUFFICES ASSUME NEW p \in AProcs, LInv, Forget(p) PROVE LInv'
  OBVIOUS
<1> DEFINE x == [al[p] EXCEPT !.seeded = FALSE, !.state = {}]
<1>1. al[p] \in Alerters /\ al[p].pc = "idle" /\ LOK(p)
  BY DEF LInv, AlertsTypeOK, Forget
<1>2. /\ x \in Alerters /\ x.pc = "idle" /\ x.state = {} /\ x.msgs = {}
  BY <1>1 DEF Alerters, LOK
<1>3. al' = [al EXCEPT ![p] = x] /\ UNCHANGED <<broken, bad, hooks, heard, excused, changes, aerrs>>
  BY DEF Forget
<1>4. saved' = {} \/ saved' = saved
  BY DEF Forget
<1>5. told' \in [All -> Nat] /\ \A i \in All : told'[i] = 0
  BY DEF Forget
<1> HIDE DEF x
<1>6. AlertsTypeOK' /\ NothingSilenced'
  BY <1>2, <1>3, <1>4, <1>5 DEF LInv, AlertsTypeOK, NothingSilenced
<1>7. al'[p] = x /\ \A q \in AProcs \ {p} : al'[q] = al[q]
  BY <1>3 DEF LInv, AlertsTypeOK
<1>8. ~OneAlerter' => excused' = All
  BY <1>1, <1>2, <1>3, <1>7 DEF LInv, OneAlerter
<1>9. \A i \in All \ excused' : Said(i)'
  BY <1>5 DEF Said
<1> QED
  BY <1>2, <1>3, <1>6, <1>8, <1>9, Inside DEF LOK, LInv

LEMMA CollectFailsInv == \A p \in AProcs : LInv /\ CollectFails(p) => LInv'
<1> SUFFICES ASSUME NEW p \in AProcs, LInv, CollectFails(p) PROVE LInv'
  OBVIOUS
<1> DEFINE x == [al[p] EXCEPT !.pc = "idle"]
<1>1. al[p] \in Alerters /\ al[p].pc = "diff" /\ LOK(p)
  BY DEF LInv, AlertsTypeOK, CollectFails
<1>2. /\ x \in Alerters /\ x.pc = "idle" /\ x.state = al[p].state /\ x.msgs = al[p].msgs /\ x.seeded = al[p].seeded
  BY <1>1 DEF Alerters
<1>3. al' = [al EXCEPT ![p] = x] /\ UNCHANGED <<broken, bad, hooks, saved, told, heard, excused, changes>>
  BY DEF CollectFails, ghosts
<1> HIDE DEF x
<1>4. AlertsTypeOK' /\ NothingSilenced'
  BY <1>2, <1>3 DEF LInv, AlertsTypeOK, NothingSilenced
<1>5. al'[p] = x /\ \A q \in AProcs \ {p} : al'[q] = al[q]
  BY <1>3 DEF LInv, AlertsTypeOK
<1>6. ~OneAlerter' => excused' = All
  BY <1>1, <1>2, <1>3, <1>5 DEF LInv, OneAlerter
<1>7. ASSUME NEW i \in All \ excused' PROVE Said(i)'
  BY <1>1, <1>2, <1>3, <1>5 DEF LInv, Said, Present
<1> QED
  BY <1>1, <1>2, <1>3, <1>4, <1>6, <1>7, Inside DEF LOK, LInv

LEMMA SendInv == \A p \in AProcs, i \in All \cup {"recovered"} : LInv /\ Send(p, i) => LInv'
<1> SUFFICES ASSUME NEW p \in AProcs, NEW i \in All \cup {"recovered"}, LInv, Send(p, i) PROVE LInv'
  OBVIOUS
<1> DEFINE x == [al[p] EXCEPT !.msgs = @ \ {i}]
<1>1. al[p] \in Alerters /\ al[p].pc = "send" /\ i \in al[p].msgs /\ LOK(p)
  BY DEF LInv, AlertsTypeOK, Send
<1>2. x \in Alerters /\ x.pc = "send" /\ x.state = al[p].state /\ x.msgs = al[p].msgs \ {i} /\ x.seeded = al[p].seeded
  BY <1>1 DEF Alerters
<1>3. /\ al' = [al EXCEPT ![p] = x] /\ heard' = heard \cup ({i} \cap All)
      /\ UNCHANGED <<broken, bad, hooks, saved, excused, changes, aerrs>>
  BY DEF Send
<1> HIDE DEF x
<1>4. told' \in [All -> Nat] /\ \A j \in All : told'[j] = IF j = i THEN told[j] + 1 ELSE told[j]
  BY DEF Send, LInv, AlertsTypeOK
<1>5. AlertsTypeOK' /\ NothingSilenced'
  BY <1>2, <1>3, <1>4 DEF LInv, AlertsTypeOK, NothingSilenced
<1>6. al'[p] = x /\ \A q \in AProcs \ {p} : al'[q] = al[q]
  BY <1>3 DEF LInv, AlertsTypeOK
<1>7. ~OneAlerter' => excused' = All
  BY <1>1, <1>2, <1>3, <1>6 DEF LInv, OneAlerter
<1>8. ASSUME NEW j \in All \ excused' PROVE Said(j)'
  <2>1. Said(j) /\ \A q \in AProcs \ {p} : al[q].pc = "off" /\ al[q].msgs = {}
    BY <1>1, <1>3, NoOther
  <2>2. \A q \in AProcs : j \in al'[q].msgs => told'[j] = 0
    BY <1>2, <1>4, <1>6, <2>1 DEF Said
  <2>3. told'[j] <= 1
    BY <1>1, <1>4, <2>1 DEF Said, LInv, AlertsTypeOK
  <2>4. ASSUME told'[j] # 0, Present(j)', NEW q \in AProcs, al'[q].pc # "off"
        PROVE  j \in al'[q].state \/ (~al'[q].seeded /\ j # Layout)
    <3>1. q = p
      BY <1>6, <2>1, <2>4
    <3>2. CASE j = i
      <4>1. j # "recovered"
        BY AlertsAssumption DEF All
      <4> QED
        BY <1>1, <1>2, <1>6, <3>1, <3>2, <4>1 DEF LOK
    <3>3. CASE j # i
      BY <1>1, <1>2, <1>3, <1>4, <1>6, <2>1, <2>4, <3>1, <3>3 DEF Said, Present
    <3> QED
      BY <3>2, <3>3
  <2>5. al'[p].pc = "send"
    BY <1>2, <1>6
  <2> QED
    BY <2>2, <2>3, <2>4, <2>5 DEF Said
<1> QED
  <2>1. x.state \ x.msgs \subseteq heard'
    <3>1. x.state \subseteq All
      BY <1>2 DEF Alerters
    <3> QED
      BY <1>1, <1>2, <1>3, <3>1 DEF LOK
  <2>2. \A q \in AProcs \ {p} : al[q].state \ al[q].msgs \subseteq heard'
    BY <1>3 DEF LInv, LOK
  <2> QED
    BY <1>1, <1>2, <1>3, <1>5, <1>7, <1>8, <2>1, <2>2, Inside DEF LOK

LEMMA CollectInv == \A p \in AProcs : LInv /\ Collect(p) => LInv'
<1> SUFFICES ASSUME NEW p \in AProcs, LInv, Collect(p) PROVE LInv'
  OBVIOUS
<1> DEFINE next == diff(p)
           new == IF al[p].seeded THEN next \ al[p].state ELSE {}
           over == al[p].seeded /\ Layout \in al[p].state \ next
           msgs == new \cup (IF over THEN {"recovered"} ELSE {})
           changed == ~al[p].seeded \/ new # {} \/ next # al[p].state
           x == [al[p] EXCEPT !.seeded = TRUE, !.state = next, !.msgs = msgs, !.pc = IF changed THEN "send" ELSE "idle"]
<1>1. al[p] \in Alerters /\ al[p].pc = "diff" /\ LOK(p) /\ al[p].msgs = {}
  BY DEF LInv, AlertsTypeOK, Collect, LOK
<1>2. next \subseteq All /\ new \subseteq next
  BY DEF LInv, AlertsTypeOK, diff, All
<1>3. \A i \in next : Present(i)
  BY DEF diff, InIncident, Present
<1>4. \A i \in All : Present(i) /\ (i \in al[p].state \/ i # Layout) => i \in next
  BY DEF diff, InIncident, Present
<1>5. al' = [al EXCEPT ![p] = x]
  BY DEF Collect
<1>6. heard' = IF al[p].seeded THEN heard ELSE heard \cup next
  BY DEF Collect
<1>7. UNCHANGED <<broken, bad, hooks, saved, told, excused, changes, aerrs>>
  BY DEF Collect
<1> HIDE DEF next
<1>8. /\ x \in Alerters /\ x.seeded = TRUE /\ x.state = next /\ x.msgs = msgs
      /\ x.pc = IF changed THEN "send" ELSE "idle"
  BY <1>1, <1>2 DEF Alerters
<1>9. ~changed => msgs = {}
  OBVIOUS
<1>10. msgs \ {"recovered"} \subseteq next /\ msgs \cap All \subseteq new
  BY <1>2, AlertsAssumption DEF All
<1>11. next \ msgs \subseteq heard'
  BY <1>1, <1>2, <1>6 DEF LOK
<1> HIDE DEF x, msgs, over
<1>12. AlertsTypeOK' /\ NothingSilenced'
  <2>1. heard' \subseteq All /\ heard \subseteq heard'
    BY <1>2, <1>6 DEF LInv, AlertsTypeOK
  <2> QED
    BY <1>5, <1>7, <1>8, <2>1 DEF LInv, AlertsTypeOK, NothingSilenced
<1>13. al'[p] = x /\ \A q \in AProcs \ {p} : al'[q] = al[q]
  BY <1>5 DEF LInv, AlertsTypeOK
<1>14. ~OneAlerter' => excused' = All
  BY <1>1, <1>7, <1>13 DEF LInv, OneAlerter
<1>15. ASSUME NEW i \in All \ excused' PROVE Said(i)'
  <2>1. Said(i) /\ \A q \in AProcs \ {p} : al[q].pc = "off" /\ al[q].msgs = {}
    BY <1>1, <1>7, NoOther
  <2>2. Present(i)' <=> Present(i)
    BY <1>7 DEF Present
  <2>3. i \in new => told[i] = 0
    BY <1>1, <1>2, <1>3, <2>1 DEF Said
  <2>4. \A q \in AProcs : i \in al'[q].msgs => told'[i] = 0
    BY <1>7, <1>8, <1>10, <1>13, <2>1, <2>3
  <2>5. told[i] # 0 /\ Present(i) => i \in next
    BY <1>1, <1>4, <2>1 DEF Said
  <2>6. told[i] # 0 /\ Present(i) => saved # NoState /\ i \in saved
    BY <1>1, <2>1 DEF Said
  <2> QED
    BY <1>7, <1>8, <1>13, <2>1, <2>2, <2>4, <2>5, <2>6 DEF Said
<1> QED
  <2>1. \A q \in AProcs \ {p} : al[q].state \ al[q].msgs \subseteq heard'
    BY <1>6 DEF LInv, LOK
  <2>2. x.pc # "send" => x.msgs = {}
    BY <1>8, <1>9
  <2> QED
    BY <1>5, <1>8, <1>10, <1>11, <1>12, <1>14, <1>15, <2>1, <2>2, Inside

LEMMA SaveInv == \A p \in AProcs : LInv /\ Save(p) => LInv'
<1> SUFFICES ASSUME NEW p \in AProcs, LInv, Save(p) PROVE LInv'
  OBVIOUS
<1> DEFINE x == [al[p] EXCEPT !.pc = "idle", !.msgs = {}]
<1>1. al[p] \in Alerters /\ al[p].pc = "send" /\ LOK(p) /\ al[p].msgs = {}
  BY DEF LInv, AlertsTypeOK, Save, AllSent
<1>2. x \in Alerters /\ x.pc = "idle" /\ x.state = al[p].state /\ x.msgs = {} /\ x.seeded = al[p].seeded
  BY <1>1 DEF Alerters
<1>3. /\ al' = [al EXCEPT ![p] = x] /\ saved' = al[p].state
      /\ heard' = {i \in heard : \E q \in AProcs : i \in al[q].state}
      /\ UNCHANGED <<broken, bad, hooks, told, excused, changes, aerrs>>
  BY DEF Save
<1> HIDE DEF x
<1>4. \A q \in AProcs : al[q].state \ al[q].msgs \subseteq heard'
  BY <1>3 DEF LInv, LOK
<1>5. al[p].state \subseteq heard' /\ al[p].state \subseteq All
  BY <1>1, <1>4 DEF Alerters
<1>6. AlertsTypeOK' /\ NothingSilenced'
  BY <1>2, <1>3, <1>5 DEF LInv, AlertsTypeOK, NothingSilenced
<1>7. al'[p] = x /\ \A q \in AProcs \ {p} : al'[q] = al[q]
  BY <1>3 DEF LInv, AlertsTypeOK
<1>8. ~OneAlerter' => excused' = All
  BY <1>1, <1>2, <1>3, <1>7 DEF LInv, OneAlerter
<1>9. ASSUME NEW i \in All \ excused' PROVE Said(i)'
  <2>1. Said(i) /\ \A q \in AProcs \ {p} : al[q].pc = "off" /\ al[q].msgs = {}
    BY <1>1, <1>3, NoOther
  <2>2. told'[i] = told[i] /\ (Present(i)' <=> Present(i))
    BY <1>3 DEF Present
  <2>3. told[i] # 0 /\ Present(i) => i \in al[p].state
    BY <1>1, <2>1 DEF Said, LOK
  <2>4. saved' # NoState
    BY <1>3, <1>5, AlertsAssumption DEF All
  <2> QED
    BY <1>2, <1>3, <1>7, <2>1, <2>2, <2>3, <2>4 DEF Said
<1> QED
  BY <1>2, <1>3, <1>4, <1>5, <1>6, <1>8, <1>9, Inside

\* An announcement that is not saved is excused.
LEMMA Unsaved ==
  ASSUME LInv, NEW p \in AProcs, al[p].pc = "send", NEW i \in All \ (excused \cup al[p].state)
  PROVE  Said(i) /\ ~(told[i] # 0 /\ Present(i))
BY NoOther DEF Said, LInv, LOK

LEMMA SaveStateFailsInv == \A p \in AProcs : LInv /\ SaveStateFails(p) => LInv'
<1> SUFFICES ASSUME NEW p \in AProcs, LInv, SaveStateFails(p) PROVE LInv'
  OBVIOUS
<1> DEFINE x == [al[p] EXCEPT !.pc = "idle"]
<1>1. al[p] \in Alerters /\ al[p].pc = "send" /\ LOK(p) /\ al[p].msgs = {}
  BY DEF LInv, AlertsTypeOK, SaveStateFails, AllSent
<1>2. x \in Alerters /\ x.pc = "idle" /\ x.state = al[p].state /\ x.msgs = {} /\ x.seeded = al[p].seeded
  BY <1>1 DEF Alerters
<1>3. /\ al' = [al EXCEPT ![p] = x] /\ excused' = excused \cup al[p].state
      /\ UNCHANGED <<broken, bad, hooks, saved, told, heard, changes>>
  BY DEF SaveStateFails
<1> HIDE DEF x
<1>4. AlertsTypeOK' /\ NothingSilenced'
  <2>1. excused' \subseteq All
    BY <1>1, <1>3 DEF LInv, AlertsTypeOK, Alerters
  <2> QED
    BY <1>2, <1>3, <2>1 DEF LInv, AlertsTypeOK, NothingSilenced
<1>5. al'[p] = x /\ \A q \in AProcs \ {p} : al'[q] = al[q]
  BY <1>3 DEF LInv, AlertsTypeOK
<1>6. ~OneAlerter' => excused' = All
  <2>1. ~OneAlerter' => ~OneAlerter
    BY <1>1, <1>5 DEF OneAlerter
  <2> QED
    BY <1>3, <1>4, <2>1 DEF LInv, AlertsTypeOK
<1>7. ASSUME NEW i \in All \ excused' PROVE Said(i)'
  <2>1. Said(i) /\ ~(told[i] # 0 /\ Present(i))
    BY <1>1, <1>3, Unsaved
  <2>2. told'[i] = told[i] /\ (Present(i)' <=> Present(i))
    BY <1>3 DEF Present
  <2> QED
    BY <1>2, <1>5, <2>1, <2>2 DEF Said
<1> QED
  BY <1>1, <1>2, <1>3, <1>4, <1>6, <1>7, Inside DEF LOK, LInv

LEMMA AlerterGoneInv == \A p \in AProcs : LInv /\ AlerterGone(p) => LInv'
<1> SUFFICES ASSUME NEW p \in AProcs, LInv, AlerterGone(p) PROVE LInv'
  OBVIOUS
<1> DEFINE x == NoAlerter
<1>1. al[p] \in Alerters /\ LOK(p)
  BY DEF LInv, AlertsTypeOK
<1>2. x \in Alerters /\ x.pc = "off" /\ x.state = {} /\ x.msgs = {}
  BY NoAlerterType DEF NoAlerter
<1>3. /\ al' = [al EXCEPT ![p] = x] /\ excused' = (IF al[p].pc = "send" THEN excused \cup al[p].state ELSE excused)
      /\ UNCHANGED <<broken, bad, hooks, saved, told, heard, changes, aerrs>>
  BY DEF AlerterGone
<1> HIDE DEF x
<1>4. AlertsTypeOK' /\ NothingSilenced'
  <2>1. excused' \subseteq All
    BY <1>1, <1>3 DEF LInv, AlertsTypeOK, Alerters
  <2> QED
    BY <1>2, <1>3, <2>1 DEF LInv, AlertsTypeOK, NothingSilenced
<1>5. al'[p] = x /\ \A q \in AProcs \ {p} : al'[q] = al[q]
  BY <1>3 DEF LInv, AlertsTypeOK
<1>6. ~OneAlerter' => excused' = All
  <2>1. ~OneAlerter' => ~OneAlerter
    BY <1>2, <1>5 DEF OneAlerter
  <2> QED
    BY <1>3, <1>4, <2>1 DEF LInv, AlertsTypeOK
<1>7. ASSUME NEW i \in All \ excused' PROVE Said(i)'
  <2>1. Said(i) /\ told'[i] = told[i] /\ (Present(i)' <=> Present(i))
    BY <1>3 DEF Present, LInv
  <2>2. CASE al[p].pc = "send"
    <3>1. ~(told[i] # 0 /\ Present(i))
      BY <1>3, <2>2, Unsaved
    <3> QED
      BY <1>2, <1>5, <2>1, <3>1 DEF Said
  <2>3. CASE al[p].pc # "send"
    <3>1. (\A q \in AProcs : al'[q].pc # "send") => \A q \in AProcs : al[q].pc # "send"
      BY <1>5, <2>3
    <3> QED
      BY <1>2, <1>3, <1>5, <2>1, <3>1 DEF Said
  <2> QED
    BY <2>2, <2>3
<1> QED
  BY <1>2, <1>3, <1>4, <1>6, <1>7, Inside DEF LOK, LInv

LEMMA loadInv == \A p \in AProcs : LInv /\ load(p) => LInv'
<1> SUFFICES ASSUME NEW p \in AProcs, LInv, load(p) PROVE LInv'
  OBVIOUS
<1> DEFINE kept == IF saved = NoState THEN {} ELSE saved
           seeded == saved # NoState
           x == [NoAlerter EXCEPT !.pc = "idle", !.seeded = seeded, !.state = kept]
           y == [NoAlerter EXCEPT !.pc = "idle"]
<1>1. x \in Alerters /\ x.pc = "idle" /\ x.state = kept /\ x.msgs = {} /\ x.seeded = seeded
  BY DEF NoAlerter, Alerters, LInv, AlertsTypeOK
<1>2. y \in Alerters /\ y.pc = "idle" /\ y.state = {} /\ y.msgs = {} /\ y.seeded = FALSE
  BY DEF NoAlerter, Alerters
<1>3. PICK z \in {x, y} : /\ al' = [al EXCEPT ![p] = z]
                          /\ excused' \in {Doubled, Doubled \cup {Layout}}
                          /\ z = x \/ Layout \in excused'
                          /\ UNCHANGED <<broken, bad, hooks, saved, told, heard, changes>>
  BY DEF load
<1>4. z \in Alerters /\ z.pc = "idle" /\ z.msgs = {} /\ z.state \subseteq kept /\ kept \subseteq heard
  BY <1>1, <1>2, <1>3 DEF LInv, NothingSilenced
<1>5. excused' \subseteq All /\ Doubled \subseteq excused'
  BY <1>3 DEF Doubled, LInv, AlertsTypeOK, All
<1> HIDE DEF x, y
<1>6. AlertsTypeOK' /\ NothingSilenced'
  BY <1>3, <1>4, <1>5 DEF LInv, AlertsTypeOK, NothingSilenced
<1>7. al'[p] = z /\ \A q \in AProcs \ {p} : al'[q] = al[q]
  BY <1>3 DEF LInv, AlertsTypeOK
<1>8. (\E q \in AProcs : al[q].pc # "off") => excused' = All
  BY <1>5 DEF Doubled
<1>9. ~OneAlerter' => excused' = All
  BY <1>7, <1>8 DEF OneAlerter
<1>10. ASSUME NEW i \in All \ excused' PROVE Said(i)'
  <2>1. \A q \in AProcs : al[q].pc = "off"
    BY <1>8
  <2>2. i \notin excused /\ told'[i] = told[i] /\ (Present(i)' <=> Present(i))
    BY <1>3, <1>5, <2>1 DEF Doubled, Present
  <2>3. Said(i)
    BY <2>2 DEF LInv
  <2>4. told[i] # 0 /\ Present(i) => saved # NoState /\ i \in saved
    BY <2>1, <2>3 DEF Said
  <2>5. told[i] # 0 /\ Present(i) => i \in z.state \/ (~z.seeded /\ i # Layout)
    BY <1>1, <1>2, <1>3, <2>4
  <2> QED
    BY <1>3, <1>4, <1>7, <2>1, <2>2, <2>3, <2>4, <2>5 DEF Said, LInv, LOK
<1> QED
  BY <1>3, <1>4, <1>6, <1>9, <1>10, Inside DEF LInv, LOK

LEMMA AlertStepsInv == \A p \in AProcs : LInv /\ AlertSteps(p) => LInv'
BY ListSubscribersInv, ForgetInv, CollectInv, CollectFailsInv, SaveInv, SaveStateFailsInv, SendInv DEF AlertSteps

LEMMA AlertsSameInv == LInv /\ UNCHANGED alertVars => LInv'
<1> SUFFICES ASSUME LInv, UNCHANGED alertVars PROVE LInv'
  OBVIOUS
<1>1. AlertsTypeOK'
  BY DEF LInv, AlertsTypeOK, alertVars
<1> QED
  BY <1>1, Outside DEF Present, alertVars

(* ---------------------------- the bridge settings ------------------------ *)

Values == [AllFields -> Int]
Order == <<"telegram", "max", "vk", "rutube">>
Todos == {<<>>, Order, <<"max", "vk", "rutube">>, <<"vk", "rutube">>, <<"rutube">>}
SaveStates ==
  [pc : {"idle", "row", "runtime", "snap", "apply"}, p : BProcs \cup {Null}, bridge : Bridges \cup {Null},
   stored : Values \cup {Null}, snap : Values \cup {Null}, todo : Todos]

\* The bridges that apply has still to hand their settings.
Rest(todo) == {todo[i] : i \in 1..Len(todo)}

\* A save in progress has what it needs, and what it did not ask for is what
\* the runtime has.
SOK(s) ==
  LET q == sv[s] IN
  q.pc # "idle" =>
    /\ q.p \in BProcs /\ q.bridge \in Bridges /\ q.stored \in Values
    /\ q.pc = "apply" => q.snap \in Values /\ q.todo # <<>>
    /\ q.pc \in {"row", "runtime"} /\ q.p \notin stale => \A f \in AllFields \ Fields[q.bridge] : q.stored[f] = rt[q.p][f]
    /\ q.pc # "row" => BProcs \ {q.p} \subseteq stale
    /\ \A o \in Saves : o # s /\ sv[o].pc # "idle" => q.p \in stale

RowOK(p) == rt[p] = MergeEnv(Env, ParseStored(row))
HdOK(p, bs) == \A b \in bs : Takes(b, rt[p]) => \A f \in Fields[b] : hd[p][f] = rt[p][f]

\* How far the settings of a process agree while one of its saves is on its way.
Agrees(p) ==
  /\ (\A s \in Saves : sv[s].p = p => sv[s].pc \in {"idle", "row"}) => RowOK(p) /\ HdOK(p, Bridges)
  /\ \A s \in Saves : sv[s].p = p =>
       /\ sv[s].pc \in {"runtime", "snap", "apply"} => row = sv[s].stored
       /\ sv[s].pc \in {"snap", "apply"} => RowOK(p)
       /\ sv[s].pc = "apply" => sv[s].snap = rt[p] /\ HdOK(p, Bridges \ Rest(sv[s].todo))

GInv ==
  /\ BridgeTypeOK
  /\ sv \in [Saves -> SaveStates]
  /\ \A p \in BProcs : MergeEnv(Env, rt[p]) = rt[p]
  /\ \A s \in Saves : SOK(s)
  /\ \A p \in Up \ stale : Agrees(p)

LEMMA GInvAgree == GInv => BridgesAgree
BY ServiceAssumption DEF GInv, BridgesAgree, SettingsAgree, Agrees, Active, RowOK, HdOK

LEMMA FieldsAre ==
  /\ Fields["telegram"] = {"service", "useProxy", "timeout", "retry", "pages"}
  /\ Fields["max"] = {"base", "limit", "private"}
  /\ Fields["vk"] = {"token"} /\ Fields["rutube"] = {"url"}
BY DEF Fields

LEMMA AllFieldsAre ==
  /\ AllFields = {"service", "useProxy", "timeout", "retry", "pages", "base", "limit", "private", "token", "url"}
  /\ \A b \in Bridges : Fields[b] \subseteq AllFields
  /\ \A b, c \in Bridges : b # c => Fields[b] \cap Fields[c] = {}
  /\ \A f \in AllFields : \E b \in Bridges : f \in Fields[b]
BY FieldsAre DEF AllFields, Bridges

\* What MergeEnv gives, field by field.
Choice(e, s, f) ==
  CASE f \in {"service", "base", "token", "url"} -> (IF s[f] # 0 THEN s[f] ELSE e[f])
    [] f \in {"timeout", "retry"} -> (IF s[f] >= 0 THEN s[f] ELSE e[f])
    [] f \in {"pages", "limit"} -> (IF s[f] > 0 THEN s[f] ELSE e[f])
    [] f = "private" -> s[f]
    [] f = "useProxy" -> (IF s["useProxy"] # 0 \/ s["service"] # 0 \/ e["service"] # 0 THEN 1 ELSE 0)

LEMMA MergeIs ==
  ASSUME NEW e, NEW s
  PROVE  MergeEnv(e, s) = [f \in AllFields |-> Choice(e, s, f)]
<1>1. ASSUME NEW f \in AllFields PROVE MergeEnv(e, s)[f] = Choice(e, s, f)
  BY FieldsAre, AllFieldsAre
     DEF MergeEnv, Choice, applyTelegramStored, applyMaxStored, applyVKStored, applyRutubeStored, Over
<1> QED
  BY <1>1 DEF MergeEnv

LEMMA MergeType == \A s \in Values : MergeEnv(Env, s) \in Values
<1> SUFFICES ASSUME NEW s \in Values PROVE MergeEnv(Env, s) \in Values
  OBVIOUS
<1>1. \A f \in AllFields : s[f] \in Int /\ Env[f] \in Int
  BY BridgeAssumption DEF Values
<1>2. \A f \in AllFields : Choice(Env, s, f) \in Int
  BY <1>1, AllFieldsAre DEF Choice
<1> QED
  BY <1>2, MergeIs DEF Values

\* Settings that were merged once stay as they are.
LEMMA MergeAgain == \A s \in Values : MergeEnv(Env, MergeEnv(Env, s)) = MergeEnv(Env, s)
<1> SUFFICES ASSUME NEW s \in Values PROVE MergeEnv(Env, MergeEnv(Env, s)) = MergeEnv(Env, s)
  OBVIOUS
<1> DEFINE m == MergeEnv(Env, s)
<1>1. \A f \in AllFields : s[f] \in Int /\ Env[f] \in Nat /\ m[f] = Choice(Env, s, f)
  BY BridgeAssumption, MergeIs DEF Values
<1> HIDE DEF m
<1>2. ASSUME NEW f \in AllFields PROVE Choice(Env, m, f) = m[f]
  <2>1. "service" \in AllFields
    BY AllFieldsAre
  <2>2. /\ m["service"] = IF s["service"] # 0 THEN s["service"] ELSE Env["service"]
        /\ s["service"] \in Int /\ Env["service"] \in Nat
    BY <1>1, <2>1 DEF Choice
  <2> QED
    BY <1>1, <2>2, AllFieldsAre DEF Choice
<1> QED
  BY <1>1, <1>2, MergeIs DEF m

\* What one bridge gets depends on its own fields only.
LEMMA MergeOwn ==
  ASSUME NEW s, NEW t, NEW b \in Bridges, \A f \in Fields[b] : s[f] = t[f]
  PROVE  \A f \in Fields[b] : MergeEnv(Env, s)[f] = MergeEnv(Env, t)[f]
<1>1. ASSUME NEW f \in Fields[b] PROVE Choice(Env, s, f) = Choice(Env, t, f)
  BY FieldsAre DEF Choice, Bridges
<1> QED
  BY <1>1, MergeIs, AllFieldsAre

LEMMA NoSaveType == NoSave \in SaveStates /\ NoSave.pc = "idle"
BY DEF NoSave, SaveStates, Todos

LEMMA Stored0Type == Stored0 \in Values /\ Env \in Values
BY BridgeAssumption DEF Stored0, Values

LEMMA BridgeInitInv == BridgeInit /\ Up = {} => GInv
<1> SUFFICES ASSUME BridgeInit, Up = {} PROVE GInv
  OBVIOUS
<1> DEFINE m == MergeEnv(Env, Stored0)
<1>1. m \in Values /\ MergeEnv(Env, m) = m
  BY Stored0Type, MergeType, MergeAgain
<1> HIDE DEF m
<1>2. \A p \in BProcs : rt[p] = m
  BY DEF BridgeInit, m
<1>3. \A s \in Saves : sv[s] = NoSave
  BY DEF BridgeInit
<1>4. sv \in [Saves -> SaveStates] /\ \A s \in Saves : sv[s].pc = "idle"
  BY <1>3, NoSaveType DEF BridgeInit
<1>5. rt \in [BProcs -> Values] /\ hd \in [BProcs -> Values]
  BY <1>1, Stored0Type DEF BridgeInit, m
<1>6. BridgeTypeOK
  BY <1>4, <1>5, BridgeAssumption DEF BridgeInit, BridgeTypeOK, Values
<1> QED
  BY <1>1, <1>2, <1>4, <1>6 DEF GInv, SOK

\* A save is alone with its process's settings unless the process is stale.
LEMMA AloneHere ==
  ASSUME GInv, NEW s \in Saves, sv[s].pc # "idle", sv[s].p \notin stale
  PROVE  \A o \in Saves \ {s} : sv[o].pc = "idle"
BY DEF GInv, SOK

\* A step of one save.
LEMMA SaveStep ==
  ASSUME GInv, NEW s \in Saves, NEW x \in SaveStates, sv' = [sv EXCEPT ![s] = x]
  PROVE  /\ sv' \in [Saves -> SaveStates] /\ sv'[s] = x /\ \A o \in Saves \ {s} : sv'[o] = sv[o]
         /\ \A o \in Saves : sv'[o].pc \in {"idle", "row", "runtime", "snap", "apply"}
<1>1. sv' \in [Saves -> SaveStates] /\ sv'[s] = x /\ \A o \in Saves \ {s} : sv'[o] = sv[o]
  BY DEF GInv
<1>2. \A o \in Saves : sv'[o] \in SaveStates
  BY <1>1
<1> QED
  BY <1>1, <1>2 DEF SaveStates

\* Another save keeps its part where the settings it knows stay.
LEMMA OtherSave ==
  ASSUME NEW o \in Saves, SOK(o), sv'[o] = sv[o], stale \subseteq stale',
         sv[o].pc # "idle" /\ sv[o].p \notin stale' => rt'[sv[o].p] = rt[sv[o].p],
         \A s \in Saves \ {o} : sv'[s].pc # "idle" => sv[s].pc # "idle" \/ sv[o].pc = "idle" \/ sv[o].p \in stale'
  PROVE  SOK(o)'
BY DEF SOK

LEMMA BeginSaveInv ==
  ASSUME GInv, NEW s \in Saves, NEW p \in BProcs, NEW form \in Forms, BeginSave(s, p, form), Up' = Up
  PROVE  GInv'
<1> DEFINE stored == Filled(form, RuntimeToStored(rt[p]))
           x == [NoSave EXCEPT !.pc = "row", !.p = p, !.bridge = form.bridge, !.stored = stored]
<1>1. form.bridge \in Bridges /\ form.values \in [Fields[form.bridge] -> Int]
  BY BridgeAssumption
<1>2. rt[p] \in Values
  BY DEF GInv, BridgeTypeOK, Values
<1>3. stored \in Values /\ \A f \in AllFields \ Fields[form.bridge] : stored[f] = rt[p][f]
  <2> DEFINE cur == RuntimeToStored(rt[p])
  <2>1. cur = rt[p]
    BY <1>2 DEF RuntimeToStored, Values
  <2> HIDE DEF cur
  <2>2. \A f \in AllFields : cur[f] \in Int
    BY <1>2, <2>1 DEF Values
  <2>3. \A f \in Fields[form.bridge] : form.values[f] \in Int
    BY <1>1
  <2>4. Filled(form, cur) \in Values /\ \A f \in AllFields \ Fields[form.bridge] : Filled(form, cur)[f] = cur[f]
    BY <2>2, <2>3 DEF Filled, Values
  <2> QED
    BY <2>1, <2>4 DEF cur
<1> HIDE DEF stored
<1>4. /\ x \in SaveStates /\ x.pc = "row" /\ x.p = p /\ x.bridge = form.bridge /\ x.stored = stored
  BY <1>1, <1>3 DEF NoSave, SaveStates, Todos
<1>5. /\ sv[s].pc = "idle" /\ sv' = [sv EXCEPT ![s] = x]
      /\ stale' = (IF Active = {} THEN stale ELSE stale \cup {p} \cup {sv[o].p : o \in Active})
      /\ UNCHANGED <<row, rt, hd>>
  BY DEF BeginSave, stored
<1>6. saves' \in 0..MaxSaves
  BY BridgeAssumption DEF BeginSave, GInv, BridgeTypeOK
<1> HIDE DEF x
<1>7. /\ sv' \in [Saves -> SaveStates] /\ sv'[s] = x /\ \A o \in Saves \ {s} : sv'[o] = sv[o]
      /\ \A o \in Saves : sv'[o].pc \in {"idle", "row", "runtime", "snap", "apply"}
  BY <1>4, <1>5, SaveStep
<1>8. stale \subseteq stale' /\ stale' \subseteq BProcs /\ \A o \in Saves : sv[o].pc # "idle" => sv[o].p \in stale' /\ p \in stale'
  BY <1>5 DEF Active, GInv, BridgeTypeOK, SOK
<1>9. BridgeTypeOK'
  BY <1>5, <1>6, <1>7, <1>8 DEF GInv, BridgeTypeOK
<1>10. SOK(s)'
  BY <1>1, <1>3, <1>4, <1>5, <1>7, <1>8 DEF SOK
<1>11. ASSUME NEW o \in Saves \ {s} PROVE SOK(o)'
  <2>1. \A t \in Saves \ {o} : sv'[t].pc # "idle" => sv[t].pc # "idle" \/ sv[o].pc = "idle" \/ sv[o].p \in stale'
    BY <1>8
  <2> QED
    BY <1>5, <1>7, <1>8, <2>1, OtherSave DEF GInv
<1>12. ASSUME NEW q \in Up' \ stale' PROVE Agrees(q)'
  <2>1. Agrees(q)
    BY <1>8 DEF GInv
  <2> QED
    BY <1>4, <1>5, <1>7, <2>1 DEF Agrees, RowOK, HdOK
<1> QED
  BY <1>5, <1>7, <1>9, <1>10, <1>11, <1>12 DEF GInv

LEMMA SaveRowInv ==
  ASSUME GInv, NEW s \in Saves, SaveRow(s), Up' = Up
  PROVE  GInv'
<1> DEFINE x == [sv[s] EXCEPT !.pc = "runtime"]
           p == sv[s].p
<1>1. sv[s] \in SaveStates /\ sv[s].pc = "row" /\ SOK(s) /\ p \in BProcs /\ sv[s].stored \in Values
  BY DEF GInv, SaveRow, SOK
<1>2. /\ x \in SaveStates /\ x.pc = "runtime" /\ x.p = p /\ x.bridge = sv[s].bridge /\ x.stored = sv[s].stored
  BY <1>1 DEF SaveStates
<1>3. /\ sv' = [sv EXCEPT ![s] = x] /\ row' = sv[s].stored
      /\ stale' = stale \cup (BProcs \ {p}) /\ UNCHANGED <<rt, hd, saves>>
  BY DEF SaveRow
<1> HIDE DEF x
<1>4. /\ sv' \in [Saves -> SaveStates] /\ sv'[s] = x /\ \A o \in Saves \ {s} : sv'[o] = sv[o]
      /\ \A o \in Saves : sv'[o].pc \in {"idle", "row", "runtime", "snap", "apply"}
  BY <1>2, <1>3, SaveStep
<1>5. BridgeTypeOK'
  BY <1>1, <1>3, <1>4 DEF GInv, BridgeTypeOK, Values
<1>6. SOK(s)'
  BY <1>1, <1>2, <1>3, <1>4 DEF SOK
<1>7. ASSUME NEW o \in Saves \ {s} PROVE SOK(o)'
  BY <1>1, <1>3, <1>4, OtherSave DEF GInv
<1>8. ASSUME NEW q \in Up' \ stale' PROVE Agrees(q)'
  <2>1. q = p /\ q \notin stale
    BY <1>3, ServiceAssumption DEF Up
  <2>2. \A o \in Saves \ {s} : sv'[o].pc = "idle"
    BY <1>1, <1>4, <2>1, AloneHere
  <2> QED
    BY <1>2, <1>3, <1>4, <2>1, <2>2 DEF Agrees
<1> QED
  BY <1>3, <1>4, <1>5, <1>6, <1>7, <1>8 DEF GInv

LEMMA SaveFailsInv ==
  ASSUME GInv, NEW s \in Saves, SaveFails(s), Up' = Up
  PROVE  GInv'
<1>1. sv[s].pc = "row" /\ sv' = [sv EXCEPT ![s] = NoSave] /\ UNCHANGED <<row, rt, hd, stale, saves>>
  BY DEF SaveFails
<1>2. /\ sv' \in [Saves -> SaveStates] /\ sv'[s] = NoSave /\ \A o \in Saves \ {s} : sv'[o] = sv[o]
      /\ \A o \in Saves : sv'[o].pc \in {"idle", "row", "runtime", "snap", "apply"}
  BY <1>1, NoSaveType, SaveStep
<1>3. BridgeTypeOK'
  BY <1>1, <1>2 DEF GInv, BridgeTypeOK
<1>4. SOK(s)'
  BY <1>2, NoSaveType DEF SOK
<1>5. ASSUME NEW o \in Saves \ {s} PROVE SOK(o)'
  BY <1>1, <1>2, NoSaveType, OtherSave DEF GInv
<1>6. ASSUME NEW q \in Up' \ stale' PROVE Agrees(q)'
  <2>1. Agrees(q)
    BY <1>1 DEF GInv
  <2> QED
    BY <1>1, <1>2, <2>1, NoSaveType DEF Agrees, RowOK, HdOK
<1> QED
  BY <1>1, <1>2, <1>3, <1>4, <1>5, <1>6 DEF GInv

LEMMA SaveRuntimeInv ==
  ASSUME GInv, NEW s \in Saves, SaveRuntime(s), Up' = Up
  PROVE  GInv'
<1> DEFINE x == [sv[s] EXCEPT !.pc = "snap"]
           p == sv[s].p
           m == MergeEnv(Env, sv[s].stored)
<1>1. /\ sv[s] \in SaveStates /\ sv[s].pc = "runtime" /\ SOK(s) /\ p \in BProcs /\ sv[s].stored \in Values
      /\ BProcs \ {p} \subseteq stale
  BY DEF GInv, SaveRuntime, SOK
<1>2. /\ x \in SaveStates /\ x.pc = "snap" /\ x.p = p /\ x.bridge = sv[s].bridge /\ x.stored = sv[s].stored
  BY <1>1 DEF SaveStates
<1>3. /\ sv' = [sv EXCEPT ![s] = x] /\ rt' = [rt EXCEPT ![p] = m] /\ UNCHANGED <<row, hd, stale, saves>>
  BY DEF SaveRuntime
<1>4. m \in Values /\ MergeEnv(Env, m) = m
  BY <1>1, MergeType, MergeAgain
<1> HIDE DEF x, m
<1>5. /\ sv' \in [Saves -> SaveStates] /\ sv'[s] = x /\ \A o \in Saves \ {s} : sv'[o] = sv[o]
      /\ \A o \in Saves : sv'[o].pc \in {"idle", "row", "runtime", "snap", "apply"}
  BY <1>2, <1>3, SaveStep
<1>6. rt' \in [BProcs -> Values] /\ \A q \in BProcs : rt'[q] = IF q = p THEN m ELSE rt[q]
  BY <1>1, <1>3, <1>4 DEF GInv, BridgeTypeOK, Values
<1>7. BridgeTypeOK'
  BY <1>3, <1>5, <1>6 DEF GInv, BridgeTypeOK, Values
<1>8. \A q \in BProcs : MergeEnv(Env, rt'[q]) = rt'[q]
  BY <1>4, <1>6 DEF GInv
<1>9. SOK(s)'
  BY <1>1, <1>2, <1>3, <1>5 DEF SOK
<1>10. ASSUME NEW o \in Saves \ {s} PROVE SOK(o)'
  <2>1. sv[o].pc # "idle" => sv[o].p \in stale
    BY <1>1 DEF GInv, SOK
  <2> QED
    BY <1>1, <1>3, <1>5, <2>1, OtherSave DEF GInv
<1>11. ASSUME NEW q \in Up' \ stale' PROVE Agrees(q)'
  <2>1. q = p /\ q \notin stale /\ Agrees(q)
    BY <1>1, <1>3, ServiceAssumption DEF Up, GInv
  <2>2. \A o \in Saves \ {s} : sv'[o].pc = "idle"
    BY <1>1, <1>5, <2>1, AloneHere
  <2>3. row' = sv'[s].stored /\ row' # Null
    BY <1>1, <1>2, <1>3, <1>5, <2>1, BridgeAssumption DEF Agrees, Values
  <2>4. RowOK(q)'
    BY <1>1, <1>2, <1>5, <1>6, <2>1, <2>3 DEF RowOK, ParseStored, m
  <2> QED
    BY <1>2, <1>5, <2>1, <2>2, <2>3, <2>4 DEF Agrees
<1> QED
  BY <1>3, <1>5, <1>7, <1>8, <1>9, <1>10, <1>11 DEF GInv

LEMMA ApplySnapInv ==
  ASSUME GInv, NEW s \in Saves, ApplySnap(s), Up' = Up
  PROVE  GInv'
<1> DEFINE p == sv[s].p
           x == [sv[s] EXCEPT !.pc = "apply", !.snap = rt[p], !.todo = Order]
<1>1. sv[s] \in SaveStates /\ sv[s].pc = "snap" /\ SOK(s) /\ p \in BProcs /\ sv[s].stored \in Values /\ rt[p] \in Values
  BY DEF GInv, ApplySnap, SOK, BridgeTypeOK, Values
<1>2. /\ x \in SaveStates /\ x.pc = "apply" /\ x.p = p /\ x.bridge = sv[s].bridge /\ x.stored = sv[s].stored
      /\ x.snap = rt[p] /\ x.todo = Order
  BY <1>1 DEF SaveStates, Todos
<1>3. Order # <<>> /\ Bridges \ Rest(Order) = {}
  <2>1. Len(Order) = 4 /\ Order[1] = "telegram" /\ Order[2] = "max" /\ Order[3] = "vk" /\ Order[4] = "rutube"
    BY DEF Order
  <2>2. 1 \in 1..Len(Order) /\ 2 \in 1..Len(Order) /\ 3 \in 1..Len(Order) /\ 4 \in 1..Len(Order)
    BY <2>1
  <2> QED
    BY <2>1, <2>2 DEF Rest, Bridges
<1>4. sv' = [sv EXCEPT ![s] = x] /\ UNCHANGED <<row, rt, hd, stale, saves>>
  BY DEF ApplySnap, Order
<1> HIDE DEF x
<1>5. /\ sv' \in [Saves -> SaveStates] /\ sv'[s] = x /\ \A o \in Saves \ {s} : sv'[o] = sv[o]
      /\ \A o \in Saves : sv'[o].pc \in {"idle", "row", "runtime", "snap", "apply"}
  BY <1>2, <1>4, SaveStep
<1>6. BridgeTypeOK'
  BY <1>4, <1>5 DEF GInv, BridgeTypeOK
<1>7. SOK(s)'
  BY <1>1, <1>2, <1>3, <1>4, <1>5 DEF SOK
<1>8. ASSUME NEW o \in Saves \ {s} PROVE SOK(o)'
  BY <1>1, <1>4, <1>5, OtherSave DEF GInv
<1>9. ASSUME NEW q \in Up' \ stale' PROVE Agrees(q)'
  <2>1. Agrees(q) /\ RowOK(q)' = RowOK(q)
    BY <1>4 DEF GInv, RowOK
  <2>2. CASE q = p
    <3>1. \A o \in Saves \ {s} : sv'[o].pc = "idle"
      BY <1>1, <1>4, <1>5, <2>2, AloneHere
    <3>2. row = sv[s].stored /\ RowOK(q)
      BY <1>1, <2>1, <2>2 DEF Agrees
    <3>3. HdOK(q, Bridges \ Rest(sv[s].todo))'
      BY <1>2, <1>3, <1>5 DEF HdOK
    <3> QED
      BY <1>2, <1>4, <1>5, <2>1, <2>2, <3>1, <3>2, <3>3 DEF Agrees
  <2>3. CASE q # p
    BY <1>1, <1>2, <1>4, <1>5, <2>1, <2>3 DEF Agrees, RowOK, HdOK
  <2> QED
    BY <2>2, <2>3
<1> QED
  BY <1>4, <1>5, <1>6, <1>7, <1>8, <1>9 DEF GInv

\* The bridges are served in their order.
LEMMA HandOut ==
  ASSUME NEW todo \in Todos, todo # <<>>
  PROVE  /\ Head(todo) \in Bridges /\ Tail(todo) \in Todos
         /\ Rest(todo) = Rest(Tail(todo)) \cup {Head(todo)}
         /\ Len(todo) = 1 => Rest(Tail(todo)) = {}
         /\ Len(todo) # 1 => Tail(todo) # <<>>
<1> DEFINE t1 == Order
           t2 == <<"max", "vk", "rutube">>
           t3 == <<"vk", "rutube">>
           t4 == <<"rutube">>
<1>0. {t2, t3, t4, <<>>} \subseteq Todos /\ {"telegram", "max", "vk", "rutube"} \subseteq Bridges
  BY DEF Todos, Bridges
<1>5. t2 # <<>> /\ t3 # <<>> /\ t4 # <<>>
  OBVIOUS
<1>1. CASE todo = t1
  <2>1. Head(todo) = "telegram" /\ Tail(todo) = t2 /\ Len(todo) = 4
    BY <1>1 DEF Order
  <2>2. Rest(t2) = {"max", "vk", "rutube"} /\ Rest(todo) = {"telegram", "max", "vk", "rutube"}
    BY <1>1 DEF Rest, Order
  <2> HIDE DEF t2, t3, t4
  <2>3. Head(todo) \in Bridges /\ Tail(todo) \in Todos
    BY <1>0, <2>1
  <2>4. Rest(todo) = Rest(Tail(todo)) \cup {Head(todo)}
    BY <2>1, <2>2
  <2>5. Len(todo) = 1 => Rest(Tail(todo)) = {}
    BY <2>1, <2>2
  <2>6. Len(todo) # 1 => Tail(todo) # <<>>
    BY <1>5, <2>1
  <2> QED
    BY <2>3, <2>4, <2>5, <2>6
<1>2. CASE todo = t2
  <2>1. Head(todo) = "max" /\ Tail(todo) = t3 /\ Len(todo) = 3
    BY <1>2
  <2>2. Rest(t3) = {"vk", "rutube"} /\ Rest(todo) = {"max", "vk", "rutube"}
    BY <1>2 DEF Rest
  <2> HIDE DEF t2, t3, t4
  <2>3. Head(todo) \in Bridges /\ Tail(todo) \in Todos
    BY <1>0, <2>1
  <2>4. Rest(todo) = Rest(Tail(todo)) \cup {Head(todo)}
    BY <2>1, <2>2
  <2>5. Len(todo) = 1 => Rest(Tail(todo)) = {}
    BY <2>1, <2>2
  <2>6. Len(todo) # 1 => Tail(todo) # <<>>
    BY <1>5, <2>1
  <2> QED
    BY <2>3, <2>4, <2>5, <2>6
<1>3. CASE todo = t3
  <2>1. Head(todo) = "vk" /\ Tail(todo) = t4 /\ Len(todo) = 2
    BY <1>3
  <2>2. Rest(t4) = {"rutube"} /\ Rest(todo) = {"vk", "rutube"}
    BY <1>3 DEF Rest
  <2> HIDE DEF t2, t3, t4
  <2>3. Head(todo) \in Bridges /\ Tail(todo) \in Todos
    BY <1>0, <2>1
  <2>4. Rest(todo) = Rest(Tail(todo)) \cup {Head(todo)}
    BY <2>1, <2>2
  <2>5. Len(todo) = 1 => Rest(Tail(todo)) = {}
    BY <2>1, <2>2
  <2>6. Len(todo) # 1 => Tail(todo) # <<>>
    BY <1>5, <2>1
  <2> QED
    BY <2>3, <2>4, <2>5, <2>6
<1>4. CASE todo = t4
  <2>1. Head(todo) = "rutube" /\ Tail(todo) = <<>> /\ Len(todo) = 1
    BY <1>4
  <2>2. Rest(<<>>) = {} /\ Rest(todo) = {"rutube"}
    BY <1>4 DEF Rest
  <2> HIDE DEF t2, t3, t4
  <2>3. Head(todo) \in Bridges /\ Tail(todo) \in Todos
    BY <1>0, <2>1
  <2>4. Rest(todo) = Rest(Tail(todo)) \cup {Head(todo)}
    BY <2>1, <2>2
  <2>5. Len(todo) = 1 => Rest(Tail(todo)) = {}
    BY <2>1, <2>2
  <2>6. Len(todo) # 1 => Tail(todo) # <<>>
    BY <1>5, <2>1
  <2> QED
    BY <2>3, <2>4, <2>5, <2>6
<1> QED
  BY <1>1, <1>2, <1>3, <1>4 DEF Todos

LEMMA ApplyToInv ==
  ASSUME GInv, NEW s \in Saves, ApplyTo(s), Up' = Up
  PROVE  GInv'
<1> DEFINE p == sv[s].p
           todo == sv[s].todo
           b == Head(todo)
           x == IF Len(todo) = 1 THEN NoSave ELSE [sv[s] EXCEPT !.todo = Tail(todo)]
           h == Adopt(hd[p], b, sv[s].snap)
<1>1. /\ sv[s] \in SaveStates /\ sv[s].pc = "apply" /\ SOK(s) /\ p \in BProcs /\ sv[s].stored \in Values
      /\ sv[s].snap \in Values /\ todo # <<>> /\ todo \in Todos /\ hd[p] \in Values
      /\ BProcs \ {p} \subseteq stale
  BY DEF GInv, ApplyTo, SOK, SaveStates, BridgeTypeOK, Values
<1>2. /\ b \in Bridges /\ Tail(todo) \in Todos /\ Rest(todo) = Rest(Tail(todo)) \cup {b}
      /\ Len(todo) = 1 => Rest(Tail(todo)) = {}
      /\ Len(todo) # 1 => Tail(todo) # <<>>
  BY <1>1, HandOut
<1>3. /\ x \in SaveStates
      /\ Len(todo) = 1 => x.pc = "idle"
      /\ Len(todo) # 1 => /\ x.pc = "apply" /\ x.p = p /\ x.bridge = sv[s].bridge /\ x.stored = sv[s].stored
                          /\ x.snap = sv[s].snap /\ x.todo = Tail(todo)
  BY <1>1, <1>2, NoSaveType DEF SaveStates
<1>4. sv' = [sv EXCEPT ![s] = x] /\ hd' = [hd EXCEPT ![p] = h] /\ UNCHANGED <<row, rt, stale, saves>>
  BY DEF ApplyTo
<1>5. h \in Values /\ \A f \in AllFields : h[f] = IF f \in Fields[b] /\ Takes(b, sv[s].snap) THEN sv[s].snap[f] ELSE hd[p][f]
  BY <1>1 DEF Adopt, Values
<1> HIDE DEF x, h, b
<1>6. /\ sv' \in [Saves -> SaveStates] /\ sv'[s] = x /\ \A o \in Saves \ {s} : sv'[o] = sv[o]
      /\ \A o \in Saves : sv'[o].pc \in {"idle", "row", "runtime", "snap", "apply"}
  BY <1>3, <1>4, SaveStep
<1>7. hd' \in [BProcs -> Values] /\ hd'[p] = h
  BY <1>1, <1>4, <1>5 DEF GInv, BridgeTypeOK, Values
<1>8. BridgeTypeOK'
  BY <1>4, <1>6, <1>7 DEF GInv, BridgeTypeOK, Values
<1>9. SOK(s)'
  BY <1>1, <1>2, <1>3, <1>4, <1>6 DEF SOK
<1>10. ASSUME NEW o \in Saves \ {s} PROVE SOK(o)'
  BY <1>1, <1>4, <1>6, OtherSave DEF GInv
<1>11. ASSUME NEW q \in Up' \ stale' PROVE Agrees(q)'
  <2>1. q = p /\ q \notin stale /\ Agrees(q)
    BY <1>1, <1>4, ServiceAssumption DEF Up, GInv
  <2>2. \A o \in Saves \ {s} : sv'[o].pc = "idle"
    BY <1>1, <1>6, <2>1, AloneHere
  <2>3. row = sv[s].stored /\ RowOK(q) /\ sv[s].snap = rt[p] /\ HdOK(p, Bridges \ Rest(todo))
    BY <1>1, <2>1 DEF Agrees
  <2>4. RowOK(q)'
    BY <1>4, <2>3 DEF RowOK
  <2>5. \A c \in Bridges \ Rest(Tail(todo)) : Takes(c, rt'[q]) => \A f \in Fields[c] : hd'[q][f] = rt'[q][f]
    <3>1. ASSUME NEW c \in Bridges \ Rest(Tail(todo)), Takes(c, rt[p]), NEW f \in Fields[c] PROVE h[f] = rt[p][f]
      <4>1. f \in AllFields
        BY AllFieldsAre
      <4>2. CASE c = b
        BY <1>5, <2>3, <3>1, <4>1, <4>2
      <4>3. CASE c # b
        <5>1. f \notin Fields[b]
          BY <1>2, <4>3, AllFieldsAre
        <5>2. c \in Bridges \ Rest(todo)
          BY <1>2, <4>3
        <5> QED
          BY <1>5, <2>3, <3>1, <4>1, <5>1, <5>2 DEF HdOK
      <4> QED
        BY <4>2, <4>3
    <3> QED
      BY <1>4, <1>7, <2>1, <3>1
  <2>6. CASE Len(todo) = 1
    <3>1. HdOK(q, Bridges)' /\ \A o \in Saves : sv'[o].pc = "idle"
      BY <1>2, <1>3, <1>6, <2>2, <2>5, <2>6 DEF HdOK
    <3> QED
      BY <2>4, <3>1 DEF Agrees
  <2>7. CASE Len(todo) # 1
    <3>1. /\ sv'[s].pc = "apply" /\ sv'[s].p = q /\ sv'[s].todo = Tail(todo)
          /\ row' = sv'[s].stored /\ sv'[s].snap = rt'[q]
      BY <1>3, <1>4, <1>6, <2>1, <2>3, <2>7
    <3>2. HdOK(q, Bridges \ Rest(sv[s].todo))'
      BY <2>5, <3>1 DEF HdOK
    <3> QED
      BY <2>2, <2>4, <3>1, <3>2 DEF Agrees
  <2> QED
    BY <2>6, <2>7
<1> QED
  BY <1>4, <1>6, <1>8, <1>9, <1>10, <1>11 DEF GInv

LEMMA SavesGoneInv ==
  ASSUME GInv, NEW p \in BProcs, SavesGone(p), Up' \subseteq Up
  PROVE  GInv'
<1>1. /\ sv' = [s \in Saves |-> IF sv[s].p = p THEN NoSave ELSE sv[s]] /\ stale' = stale \cup {p}
      /\ UNCHANGED <<row, rt, hd, saves>>
  BY DEF SavesGone
<1>2. \A s \in Saves : sv'[s] = IF sv[s].p = p THEN NoSave ELSE sv[s]
  BY <1>1
<1>3. sv' \in [Saves -> SaveStates]
  BY <1>1, NoSaveType DEF GInv
<1>4. \A o \in Saves : sv'[o].pc \in {"idle", "row", "runtime", "snap", "apply"}
  BY <1>2, NoSaveType DEF GInv, BridgeTypeOK
<1>5. BridgeTypeOK'
  BY <1>1, <1>4 DEF GInv, BridgeTypeOK
<1>6. ASSUME NEW o \in Saves PROVE SOK(o)'
  <2>1. CASE sv[o].p = p
    BY <1>2, <2>1, NoSaveType DEF SOK
  <2>2. CASE sv[o].p # p
    <3>1. \A s \in Saves \ {o} : sv'[s].pc # "idle" => sv[s].pc # "idle"
      BY <1>2, NoSaveType
    <3> QED
      BY <1>1, <1>2, <2>2, <3>1, OtherSave DEF GInv
  <2> QED
    BY <2>1, <2>2
<1>7. ASSUME NEW q \in Up' \ stale' PROVE Agrees(q)'
  <2>1. Agrees(q) /\ q # p
    BY <1>1 DEF GInv
  <2>2. \A s \in Saves : sv'[s].pc # "idle" => sv'[s] = sv[s]
    BY <1>2, NoSaveType
  <2>3. \A s \in Saves : sv[s].p = q => sv'[s] = sv[s]
    BY <1>2, <2>1
  <2> QED
    BY <1>1, <1>4, <2>1, <2>2, <2>3 DEF Agrees, RowOK, HdOK
<1> QED
  BY <1>1, <1>3, <1>5, <1>6, <1>7 DEF GInv

LEMMA LoadBridgesInv ==
  ASSUME GInv, NEW p \in BProcs, LoadBridges(p), Up' \subseteq Up \cup {p}
  PROVE  GInv'
<1> DEFINE st == ParseStored(row)
           r == MergeEnv(Env, st)
           h == ApplyAll(Env, r)
<1>1. st \in Values
  BY Stored0Type DEF ParseStored, GInv, BridgeTypeOK, Values
<1>2. r \in Values /\ MergeEnv(Env, r) = r
  BY <1>1, MergeType, MergeAgain
<1>3. /\ rt' = [rt EXCEPT ![p] = r] /\ hd' = [hd EXCEPT ![p] = h]
      /\ stale' = (IF Active = {} THEN stale \ {p} ELSE stale \cup {p})
      /\ UNCHANGED <<row, sv, saves>>
  BY DEF LoadBridges
<1> HIDE DEF r
<1>4. h \in Values /\ \A b \in Bridges : Takes(b, r) => \A f \in Fields[b] : h[f] = r[f]
  <2> DEFINE Of(f) == CHOOSE y \in Bridges : f \in Fields[y]
  <2>1. \A f \in AllFields : h[f] = IF Takes(Of(f), r) THEN r[f] ELSE Env[f]
    BY DEF ApplyAll
  <2>2. \A f \in AllFields : r[f] \in Int /\ Env[f] \in Int
    BY <1>2, BridgeAssumption DEF Values
  <2>3. h \in Values
    BY <2>2 DEF ApplyAll, Values
  <2>4. \A b \in Bridges : \A f \in Fields[b] : f \in AllFields /\ Of(f) = b
    BY AllFieldsAre
  <2> HIDE DEF h, Of
  <2> QED
    BY <2>1, <2>3, <2>4
<1> HIDE DEF h
<1>5. /\ rt' \in [BProcs -> Values] /\ rt'[p] = r /\ \A q \in BProcs \ {p} : rt'[q] = rt[q]
      /\ hd' \in [BProcs -> Values] /\ hd'[p] = h /\ \A q \in BProcs \ {p} : hd'[q] = hd[q]
  BY <1>2, <1>3, <1>4 DEF GInv, BridgeTypeOK, Values
<1>6. BridgeTypeOK'
  BY <1>3, <1>5 DEF GInv, BridgeTypeOK, Values
<1>7. \A q \in BProcs : MergeEnv(Env, rt'[q]) = rt'[q]
  BY <1>2, <1>5 DEF GInv
<1>8. ASSUME NEW o \in Saves PROVE SOK(o)'
  <2>1. CASE Active = {}
    BY <1>3, <2>1 DEF Active, SOK
  <2>2. CASE Active # {}
    <3>1. SOK(o) /\ stale' = stale \cup {p}
      BY <1>3, <2>2 DEF GInv
    <3>2. sv[o].pc # "idle" /\ sv[o].p \notin stale' => rt'[sv[o].p] = rt[sv[o].p]
      BY <1>5, <3>1 DEF SOK
    <3> QED
      BY <1>3, <3>1, <3>2, OtherSave
  <2> QED
    BY <2>1, <2>2
<1>9. ASSUME NEW q \in Up' \ stale' PROVE Agrees(q)'
  <2>1. CASE q = p
    <3>1. \A s \in Saves : sv'[s].pc = "idle"
      BY <1>3, <2>1 DEF Active
    <3>2. RowOK(p)'
      BY <1>3, <1>5 DEF RowOK, r
    <3>3. HdOK(p, Bridges)'
      BY <1>4, <1>5 DEF HdOK
    <3> QED
      BY <2>1, <3>1, <3>2, <3>3 DEF Agrees
  <2>2. CASE q # p
    <3>1. Agrees(q) /\ q \in BProcs
      BY <1>3, <2>2, ServiceAssumption DEF GInv, Up
    <3> QED
      BY <1>3, <1>5, <2>2, <3>1 DEF Agrees, RowOK, HdOK
  <2> QED
    BY <2>1, <2>2
<1> QED
  BY <1>3, <1>6, <1>7, <1>8, <1>9 DEF GInv

LEMMA BridgeSameInv ==
  ASSUME GInv, UNCHANGED bridgeVars, Up' \subseteq Up
  PROVE  GInv'
<1>1. BridgeTypeOK' /\ sv' = sv /\ rt' = rt /\ stale' = stale
  BY DEF GInv, BridgeTypeOK, bridgeVars
<1>2. ASSUME NEW o \in Saves PROVE SOK(o)'
  BY <1>1, OtherSave DEF GInv
<1>3. ASSUME NEW q \in Up' \ stale' PROVE Agrees(q)'
  BY DEF GInv, Agrees, RowOK, HdOK, bridgeVars
<1> QED
  BY <1>1, <1>2, <1>3 DEF GInv

(* ----------------------------- the composition --------------------------- *)

SInv == scene \in Scenes /\ HInv /\ BInv /\ LInv /\ GInv

LEMMA ServiceInit == Init => SInv
<1> SUFFICES ASSUME Init PROVE SInv
  OBVIOUS
<1>1. HInv /\ BInv /\ LInv
  BY HubInitInv, BootInitInv, AlertsInitInv DEF Init
<1>2. Up = {}
  BY DEF Init, BootInit, Up
<1>3. GInv
  BY <1>2, BridgeInitInv DEF Init
<1> QED
  BY <1>1, <1>3 DEF Init, SInv

\* Only Serve makes a process serve.
LEMMA NoneServes ==
  ASSUME BInv, NEW p \in Procs, BootSteps(p) \/ StartFails(p) \/ LockLost(p) \/ \E s \in Starts : StartProcess(p, s)
  PROVE  Up' \subseteq Up
<1>1. pc \in [Procs -> Pcs]
  BY DEF BInv, BootTypeOK
<1>2. SUFFICES pc' = pc \/ \E to \in Pcs \ {"up"} : pc' = [pc EXCEPT ![p] = to]
  BY <1>1, <1>2 DEF Up
<1>3. ASSUME NEW s \in Starts, StartProcess(p, s) PROVE \E to \in Pcs \ {"up"} : pc' = [pc EXCEPT ![p] = to]
  <2> DEFINE to == CASE s.mode = "plan" -> "plan" [] s.mode = "serve" -> "check" [] OTHER -> "lock"
  <2>1. to \in Pcs \ {"up"} /\ pc' = [pc EXCEPT ![p] = to]
    BY <1>3 DEF StartProcess, Pcs
  <2> QED
    BY <2>1
<1>4. CASE LockLost(p)
  BY <1>4 DEF LockLost
<1>5. CASE MigrationLock(p) \/ ExecOne(p) \/ MigratePlan(p) \/ WriteSecret(p) \/ StartFails(p)
  BY <1>5 DEF MigrationLock, ExecOne, MigratePlan, WriteSecret, StartFails, Go, Pcs
<1>6. CASE loadApplied(p) \/ markApplied(p) \/ CommitOne(p)
  BY <1>6 DEF loadApplied, markApplied, CommitOne, Pcs
<1>7. CASE ApplyReturns(p) \/ CheckPending(p) \/ FirstAdmin(p) \/ ReadSecret(p)
  BY <1>7 DEF ApplyReturns, CheckPending, FirstAdmin, ReadSecret, Go, Pcs
<1> QED
  BY <1>3, <1>4, <1>5, <1>6, <1>7 DEF BootSteps

LEMMA ServiceStep == SInv /\ [Next]_svcVars => SInv'
<1> SUFFICES ASSUME SInv, [Next]_svcVars PROVE SInv'
  OBVIOUS
<1>0. scene.procs \subseteq Procs /\ scene.starts \subseteq Starts /\ scene.forms \subseteq Forms /\ AProcs = Procs /\ BProcs = Procs
  BY ServiceAssumption DEF SInv
<1>1. ASSUME NEW p \in scene.procs, Booting(p) PROVE SInv'
  <2>1. p \in Procs /\ (BootSteps(p) \/ StartFails(p) \/ LockLost(p) \/ \E s \in Starts : StartProcess(p, s))
    BY <1>0, <1>1 DEF Booting
  <2>2. UNCHANGED <<alertVars, hubVars, bridgeVars, scene>>
    BY <1>1 DEF Booting
  <2>3. BInv'
    BY <2>1, BootStepsInv, StartFailsInv, LockLostInv, StartProcessInv DEF SInv
  <2>4. Up' \subseteq Up
    BY <2>1, NoneServes DEF SInv
  <2> QED
    BY <2>2, <2>3, <2>4, AlertsSameInv, HubSameInv, BridgeSameInv DEF SInv
<1>2. ASSUME NEW p \in scene.procs, GoUp(p) PROVE SInv'
  <2>1. p \in Procs /\ Serve(p) /\ LoadBridges(p) /\ UNCHANGED <<alertVars, hubVars, scene>>
    BY <1>0, <1>2 DEF GoUp
  <2>2. Up' \subseteq Up \cup {p}
    BY <2>1 DEF Serve, Go, Up, SInv, BInv, BootTypeOK
  <2>3. GInv'
    BY <1>0, <2>1, <2>2, LoadBridgesInv DEF SInv
  <2> QED
    BY <2>1, <2>3, ServeInv, AlertsSameInv, HubSameInv DEF SInv
<1>3. ASSUME NEW p \in scene.procs, RunWorkers(p) PROVE SInv'
  <2>1. p \in Procs /\ TryWorkerLock(p) /\ (load(p) \/ UNCHANGED alertVars) /\ UNCHANGED <<hubVars, bridgeVars, scene>>
    BY <1>0, <1>3 DEF RunWorkers
  <2>2. Up' = Up
    BY <2>1 DEF TryWorkerLock, Up
  <2>3. LInv'
    BY <1>0, <2>1, loadInv, AlertsSameInv DEF SInv
  <2> QED
    BY <2>1, <2>2, <2>3, TryWorkerLockInv, HubSameInv, BridgeSameInv DEF SInv
<1>4. ASSUME NEW p \in scene.procs, GoDown(p) PROVE SInv'
  <2>1. p \in Procs /\ Shutdown(p) /\ AlerterGone(p) /\ UNCHANGED <<hubVars, bridgeVars, scene>>
    BY <1>0, <1>4 DEF GoDown
  <2>2. Up' \subseteq Up
    BY <2>1 DEF Shutdown, Go, Up, SInv, BInv, BootTypeOK
  <2>3. LInv'
    BY <1>0, <2>1, AlerterGoneInv DEF SInv
  <2> QED
    BY <2>1, <2>2, <2>3, ShutdownInv, HubSameInv, BridgeSameInv DEF SInv
<1>5. ASSUME NEW p \in scene.procs, Gone(p) PROVE SInv'
  <2>1. p \in Procs /\ ProcessGone(p) /\ AlerterGone(p) /\ SavesGone(p) /\ (HubGone \/ UNCHANGED hubVars) /\ scene' = scene
    BY <1>0, <1>5 DEF Gone
  <2>2. Up' \subseteq Up
    BY <2>1 DEF ProcessGone, Up, SInv, BInv, BootTypeOK
  <2>3. GInv' /\ LInv'
    BY <1>0, <2>1, <2>2, SavesGoneInv, AlerterGoneInv DEF SInv
  <2>4. HInv'
    BY <2>1, HubGoneInv, HubSameInv DEF SInv
  <2> QED
    BY <2>1, <2>3, <2>4, ProcessGoneInv DEF SInv
<1>6. ASSUME NEW p \in scene.procs, Alerting(p) PROVE SInv'
  <2>1. p \in Procs /\ AlertSteps(p) /\ UNCHANGED <<bootVars, hubVars, bridgeVars, scene>>
    BY <1>0, <1>6 DEF Alerting
  <2>2. Up' = Up
    BY <2>1 DEF bootVars, Up
  <2>3. LInv'
    BY <1>0, <2>1, AlertStepsInv DEF SInv
  <2> QED
    BY <2>1, <2>2, <2>3, BootSameInv, HubSameInv, BridgeSameInv DEF SInv
<1>7. CASE Around
  <2>1. Surroundings /\ UNCHANGED <<bootVars, hubVars, bridgeVars, scene>>
    BY <1>7 DEF Around
  <2>2. Up' = Up
    BY <2>1 DEF bootVars, Up
  <2> QED
    BY <2>1, <2>2, SurroundingsInv, BootSameInv, HubSameInv, BridgeSameInv DEF SInv
<1>8. CASE Publishing
  <2>1. (HubInput \/ HubSteps) /\ UNCHANGED <<bootVars, alertVars, bridgeVars, scene>>
    BY <1>8 DEF Publishing
  <2>2. Up' = Up
    BY <2>1 DEF bootVars, Up
  <2> QED
    BY <2>1, <2>2, HubInputInv, HubStepsInv, BootSameInv, AlertsSameInv, BridgeSameInv DEF SInv
<1>9. ASSUME NEW s \in Saves, Configuring(s) PROVE SInv'
  <2>1. /\ (\E p \in Procs, form \in Forms : BeginSave(s, p, form)) \/ BridgeSteps(s)
        /\ UNCHANGED <<bootVars, alertVars, hubVars, scene>>
    BY <1>0, <1>9 DEF Configuring
  <2>2. Up' = Up
    BY <2>1 DEF bootVars, Up
  <2>3. GInv'
    BY <1>0, <2>1, <2>2, BeginSaveInv, SaveRowInv, SaveFailsInv, SaveRuntimeInv, ApplySnapInv, ApplyToInv DEF SInv, BridgeSteps
  <2> QED
    BY <2>1, <2>3, BootSameInv, AlertsSameInv, HubSameInv DEF SInv
<1>10. CASE UNCHANGED svcVars
  <2>1. UNCHANGED <<bootVars, alertVars, hubVars, bridgeVars, scene>>
    BY <1>10 DEF svcVars
  <2>2. Up' = Up
    BY <2>1 DEF bootVars, Up
  <2> QED
    BY <2>1, <2>2, BootSameInv, AlertsSameInv, HubSameInv, BridgeSameInv DEF SInv
<1> QED
  BY <1>1, <1>2, <1>3, <1>4, <1>5, <1>6, <1>7, <1>8, <1>9, <1>10 DEF Next

LEMMA ServiceInv == Spec => []SInv
<1> QED
  BY ServiceInit, ServiceStep, PTL DEF Spec

\* Whatever connections open, fail and are evicted while events are published,
\* no goroutine sends on a channel that Unregister closed, no channel holds
\* more than its buffer, and what waits in it belongs to its user.
THEOREM HubSafeHolds == Spec => []HubSafe
<1>1. SInv => HubSafe
  BY HInvSafe DEF SInv
<1> QED
  BY <1>1, ServiceInv, PTL

\* Whatever processes of whatever versions start, fail, crash and lose their
\* lock sessions, every recorded migration took effect exactly once and in
\* order, no process serves on a schema it does not know, no start fails
\* because of another, and one process has the workers.
THEOREM StartsSafeHolds == Spec => []StartsSafe
<1>1. SInv => StartsSafe
  BY BInvSafe DEF SInv
<1> QED
  BY <1>1, ServiceInv, PTL

\* The alerter announces a lasting problem once, restarts and lost locks
\* included, unless the announcement could not be saved; and what it saved as
\* announced was announced.
THEOREM AlertsFaithfulHolds == Spec => []AlertsFaithful
<1>1. SInv => AlertsFaithful
  BY LInvFaithful DEF SInv
<1> QED
  BY <1>1, ServiceInv, PTL

\* The row, the runtime and the handlers of every serving process agree once
\* its saves are done, unless saves overlapped or another process saved.
THEOREM BridgesAgreeHolds == Spec => []BridgesAgree
<1>1. SInv => BridgesAgree
  BY GInvAgree DEF SInv
<1> QED
  BY <1>1, ServiceInv, PTL

\* Of the bridge steps only SaveRuntime replaces a runtime for a save.
LEMMA KeptBySteps ==
  ASSUME SInv, Next, NEW s \in Saves, sv[s].pc = "runtime", sv'[s].pc = "snap"
  PROVE  SaveRuntime(s)
<1>1. sv \in [Saves -> SaveStates] /\ sv' # sv
  BY DEF SInv, GInv
<1>2. PICK t \in Saves : Configuring(t)
  <2>1. ASSUME NEW p \in scene.procs, Booting(p) \/ GoUp(p) \/ RunWorkers(p) \/ GoDown(p) \/ Alerting(p) PROVE FALSE
    BY <1>1, <2>1 DEF Booting, GoUp, LoadBridges, RunWorkers, GoDown, Alerting, bridgeVars
  <2>2. ASSUME NEW p \in scene.procs, Gone(p) PROVE FALSE
    <3>1. sv'[s] = NoSave \/ sv'[s] = sv[s]
      BY <2>2 DEF Gone, SavesGone
    <3> QED
      BY <3>1, NoSaveType
  <2>3. CASE Around \/ Publishing
    BY <1>1, <2>3 DEF Around, Publishing, bridgeVars
  <2> QED
    BY <2>1, <2>2, <2>3 DEF Next
<1>3. CASE t # s
  <2>1. \E x : sv' = [sv EXCEPT ![t] = x]
    BY <1>2 DEF Configuring, BeginSave, BridgeSteps, SaveRow, SaveFails, SaveRuntime, ApplySnap, ApplyTo
  <2> QED
    BY <1>1, <1>3, <2>1
<1>4. CASE t = s
  BY <1>2, <1>4 DEF Configuring, BeginSave, BridgeSteps, SaveRow, SaveFails, ApplySnap, ApplyTo
<1> QED
  BY <1>3, <1>4

\* Saving one bridge's form changes nothing of the others, although all of
\* them are written out and merged again.
THEOREM OthersKeptHolds == Spec => OthersKept
<1> DEFINE Kept == \A s \in Saves : sv[s].pc = "runtime" /\ sv'[s].pc = "snap" /\ sv[s].p \notin stale =>
                     \A f \in AllFields \ Fields[sv[s].bridge] : rt'[sv[s].p][f] = rt[sv[s].p][f]
<1>1. SInv /\ [Next]_svcVars => [Kept]_bridgeVars
  <2> SUFFICES ASSUME SInv, [Next]_svcVars, ~UNCHANGED bridgeVars PROVE Kept
    OBVIOUS
  <2>1. Next
    BY DEF svcVars
  <2>2. SUFFICES ASSUME NEW s \in Saves, sv[s].pc = "runtime", sv'[s].pc = "snap", sv[s].p \notin stale,
                        NEW f \in AllFields \ Fields[sv[s].bridge]
                 PROVE  rt'[sv[s].p][f] = rt[sv[s].p][f]
    OBVIOUS
  <2> DEFINE p == sv[s].p
             m == MergeEnv(Env, sv[s].stored)
  <2>3. rt' = [rt EXCEPT ![p] = m]
    BY <2>1, <2>2, KeptBySteps DEF SaveRuntime
  <2>4. /\ p \in BProcs /\ sv[s].bridge \in Bridges
        /\ \A g \in AllFields \ Fields[sv[s].bridge] : sv[s].stored[g] = rt[p][g]
    BY <2>2 DEF SInv, GInv, SOK
  <2>5. MergeEnv(Env, rt[p]) = rt[p] /\ rt'[p] = m
    BY <2>3, <2>4 DEF SInv, GInv, BridgeTypeOK
  <2> HIDE DEF m
  <2>6. PICK b \in Bridges : f \in Fields[b]
    BY AllFieldsAre
  <2>7. \A g \in Fields[b] : sv[s].stored[g] = rt[p][g]
    <3>1. b # sv[s].bridge
      BY <2>2, <2>6
    <3> QED
      BY <2>4, <3>1, AllFieldsAre
  <2>8. m[f] = MergeEnv(Env, rt[p])[f]
    BY <2>6, <2>7, MergeOwn DEF m
  <2> QED
    BY <2>5, <2>8
<1> QED
  BY <1>1, ServiceInv, PTL DEF Spec, OthersKept
=============================================================================
