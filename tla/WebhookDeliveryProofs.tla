----------------------- MODULE WebhookDeliveryProofs -----------------------
(***************************************************************************)
(* Proofs about WebhookDelivery, for all constants: the types, that a      *)
(* webhook's deliveries go out one at a time, that a webhook waiting out a *)
(* 429 is left alone, and that what webhook_logs says of the deliveries is *)
(* true of them: a row is delivered again only when a status write was     *)
(* lost, an entry stays as long as a delivery of it is owed, a relay entry *)
(* goes with its last delivery, and retryable failures kill a row only     *)
(* after its last attempt.                                                 *)
(***************************************************************************)
EXTENDS WebhookDelivery, SequenceTheorems, TLAPS

(***************************************************************************)
(* Why one at a time holds: whatever the channel or a worker holds is      *)
(* marked busy in inflightHooks, whatever the dispatcher may still claim   *)
(* or has claimed and not yet sent is free there, and only the dispatcher  *)
(* marks a webhook busy.                                                   *)
(***************************************************************************)
HeldIsBusy ==
  /\ \A i \in 1..Len(chan) : inflight[chan[i].hook] = "busy"
  /\ \A k \in Workers : Working(k) => inflight[worker[k].job.hook] = "busy"

ClaimableIsFree ==
  /\ disp.pc \in {"paused", "claim"} =>
       \A w \in Webhooks : w \notin disp.exclude => inflight[w] = "free"
  /\ \A j \in disp.batch : inflight[j.hook] = "free"
  /\ disp.pc \notin {"peers", "send"} => disp.batch = {}

Unique ==
  /\ \A j1, j2 \in disp.batch : j1.hook = j2.hook => j1 = j2
  /\ \A i1, i2 \in 1..Len(chan) : chan[i1].hook = chan[i2].hook => i1 = i2
  /\ \A k1, k2 \in Workers :
       Working(k1) /\ Working(k2) /\ worker[k1].job.hook = worker[k2].job.hook => k1 = k2
  /\ \A i \in 1..Len(chan), k \in Workers : Working(k) => chan[i].hook # worker[k].job.hook

Hold == HeldIsBusy /\ ClaimableIsFree /\ Unique

(***************************************************************************)
(* Why a pause is respected: a claim is only made past the pauses the      *)
(* dispatcher has seen, and a webhook whose worker may still be answered   *)
(* with a 429 is busy, so the dispatcher cannot hold a claim of it.        *)
(***************************************************************************)
PausesExcluded == disp.pc = "claim" => flood \subseteq disp.exclude

Unanswered == \A k \in Workers : worker[k].pc \in {"load", "send"} => worker[k].out = "none"

FInv == FloodRespected /\ PausesExcluded /\ Unanswered

(***************************************************************************)
(* Types                                                                   *)
(***************************************************************************)
LEMMA IdleTyped == IdleWorker \in WorkerStates
BY DEF IdleWorker, WorkerStates, NoClaim

LEMMA TypeInit == Init => TypeOK
BY IdleTyped DEF Init, TypeOK, DbTypeOK, MemTypeOK, NoLog, LogRows, Working, IdleWorker

LEMMA FrameDb  == DbTypeOK /\ UNCHANGED dbVars => DbTypeOK'
BY DEF DbTypeOK, dbVars

LEMMA FrameMem == MemTypeOK /\ UNCHANGED memVars => MemTypeOK'
BY DEF MemTypeOK, memVars, Working

LEMMA FaultTyped == ASSUME TypeOK, NEW f, NoFault \/ Fault(f) PROVE faults' \in Nat
BY DEF TypeOK, NoFault, Fault

LEMMA OlderTyped ==
  ASSUME DbTypeOK, NEW S \in SUBSET Rows
  PROVE  /\ OlderAfterDue(S) \in SUBSET (Rows \X Rows)
         /\ OlderWithout(S) \in SUBSET (Rows \X Rows)
BY DEF DbTypeOK, OlderAfterDue, OlderWithout, DueRows

LEMMA DeleteEntryTyped ==
  ASSUME DbTypeOK, NEW e, DeleteEntry(e), UNCHANGED <<hook, log, older>>
  PROVE  DbTypeOK'
BY DEF DbTypeOK, DeleteEntry

LEMMA PollerTyped == ASSUME TypeOK, Poller PROVE TypeOK'
<1>1. ASSUME NEW e \in Entries, StoreEntry(e) PROVE TypeOK'
  <2>1. DbTypeOK'
    BY <1>1 DEF TypeOK, DbTypeOK, StoreEntry
  <2>2. MemTypeOK'
    BY <1>1, FrameMem DEF TypeOK, StoreEntry
  <2>. QED
    BY <1>1, <2>1, <2>2, ConstantsAssumption DEF TypeOK, StoreEntry, NoFault, histVars
<1>2. ASSUME NEW e \in Entries, DropUndeliveredRelayEntries(e) PROVE TypeOK'
  <2>1. DbTypeOK'
    BY <1>2, DeleteEntryTyped, FrameDb DEF TypeOK, DropUndeliveredRelayEntries, dbVars
  <2>2. MemTypeOK'
    BY <1>2, FrameMem DEF TypeOK, DropUndeliveredRelayEntries
  <2>3. faults' \in Nat
    BY <1>2, FaultTyped DEF DropUndeliveredRelayEntries
  <2>4. poll' \in [Entries -> [stage : {"new", "fanout", "done"},
                              todo : SUBSET (Webhooks \X {"filter", "feed"})]]
    BY <1>2 DEF TypeOK, DropUndeliveredRelayEntries
  <2>. QED
    BY <1>2, <2>1, <2>2, <2>3, <2>4 DEF TypeOK, DropUndeliveredRelayEntries, histVars
<1>3. ASSUME NEW e \in Entries, NEW route \in Routes[e], EnqueueWebhookLogs(e, route)
      PROVE TypeOK'
  <2>. DEFINE r == <<route[1], e>>
  <2>1. r \in Rows /\ {r} \in SUBSET Rows
    BY ConstantsAssumption DEF Rows
  <2>2. older' \in SUBSET (Rows \X Rows)
    BY <1>3, <2>1, OlderTyped DEF EnqueueWebhookLogs, TypeOK, DbTypeOK
  <2>3. log' \in [Rows -> LogRows]
    <3>1. NewRow(route[1]) \in LogRows
      BY DEF NewRow, LogRows
    <3>2. log' = [log EXCEPT ![r] = NewRow(route[1])] \/ log' = log
      BY <1>3 DEF EnqueueWebhookLogs
    <3>. QED
      BY <3>1, <3>2 DEF TypeOK, DbTypeOK
  <2>4. DbTypeOK'
    BY <1>3, <2>2, <2>3 DEF EnqueueWebhookLogs, TypeOK, DbTypeOK
  <2>5. MemTypeOK'
    BY <1>3, FrameMem DEF TypeOK, EnqueueWebhookLogs
  <2>6. faults' \in Nat
    BY <1>3, FaultTyped DEF EnqueueWebhookLogs
  <2>7. poll' \in [Entries -> [stage : {"new", "fanout", "done"},
                              todo : SUBSET (Webhooks \X {"filter", "feed"})]]
    BY <1>3 DEF TypeOK, EnqueueWebhookLogs
  <2>. QED
    BY <1>3, <2>4, <2>5, <2>6, <2>7 DEF TypeOK, EnqueueWebhookLogs, histVars
<1>. QED BY <1>1, <1>2, <1>3 DEF Poller

LEMMA ClaimTyped == ASSUME TypeOK, NEW r \in Rows, NEW S \in SUBSET Rows
                    PROVE  Claim(r, S) \in Claims
BY DEF Claim, Claims, TypeOK, DbTypeOK, LogRows, Rows, HookOf

LEMMA DispatcherTyped == ASSUME TypeOK, Dispatcher PROVE TypeOK'
<1>. DEFINE D == [pc : {"start", "paused", "claim", "peers", "send"},
                  exclude : SUBSET Webhooks, batch : SUBSET Claims]
<1>0. disp \in D
  BY DEF TypeOK, MemTypeOK
<1>1. CASE DispatchExclude \/ DispatchPaused
  <2>0. \A c \in {"paused", "claim"}, X \in SUBSET Webhooks :
          [disp EXCEPT !.pc = c, !.exclude = X] \in D
    BY <1>0
  <2>1. disp' \in D
    <3>1. CASE DispatchExclude
      BY <3>1, <2>0 DEF DispatchExclude
    <3>2. CASE DispatchPaused
      <4>1. disp.exclude \cup flood \in SUBSET Webhooks
        BY <1>0 DEF TypeOK, MemTypeOK
      <4>. QED
        BY <3>2, <4>1, <2>0 DEF DispatchPaused
    <3>. QED BY <1>1, <3>1, <3>2
  <2>. QED
    BY <1>1, <2>1, FrameDb
       DEF TypeOK, MemTypeOK, DispatchExclude, DispatchPaused, NoFault, histVars, Working
<1>2. CASE DispatchClaim
  <2>1. disp' \in D
    <3>1. \A S \in SUBSET Rows : {Claim(r, {r}) : r \in S} \in SUBSET Claims
      BY ClaimTyped
    <3>2. \A c \in {"start", "peers"}, B \in SUBSET Claims :
            [pc |-> c, exclude |-> {}, batch |-> B] \in D
      OBVIOUS
    <3>3. \/ \E S \in SUBSET Rows :
               disp' = [pc |-> IF S = {} THEN "start" ELSE "peers",
                        exclude |-> {}, batch |-> {Claim(r, {r}) : r \in S}]
          \/ disp' = [pc |-> "start", exclude |-> {}, batch |-> {}]
      BY <1>2 DEF DispatchClaim
    <3>4. CASE disp' = [pc |-> "start", exclude |-> {}, batch |-> {}]
      BY <3>4, <3>2
    <3>5. ASSUME NEW S \in SUBSET Rows,
                 disp' = [pc |-> IF S = {} THEN "start" ELSE "peers",
                          exclude |-> {}, batch |-> {Claim(r, {r}) : r \in S}]
          PROVE disp' \in D
      BY <3>5, <3>1, <3>2
    <3>. QED BY <3>3, <3>4, <3>5
  <2>2. faults' \in Nat
    BY <1>2, FaultTyped DEF DispatchClaim
  <2>. QED
    BY <1>2, <2>1, <2>2, FrameDb DEF TypeOK, MemTypeOK, DispatchClaim, histVars, Working
<1>3. CASE DispatchPeers
  <2>1. PICK P \in [disp.batch -> SUBSET Rows] :
          disp' = [disp EXCEPT !.pc = "send",
                     !.batch = {[j EXCEPT !.rows = @ \cup P[j]] : j \in disp.batch}]
    BY <1>3 DEF DispatchPeers
  <2>2. \A j \in disp.batch : [j EXCEPT !.rows = @ \cup P[j]] \in Claims
    BY <1>0 DEF Claims
  <2>3. disp' \in D
    <3>. DEFINE B == {[j EXCEPT !.rows = @ \cup P[j]] : j \in disp.batch}
    <3>1. B \in SUBSET Claims
      BY <2>2
    <3>2. disp' = [disp EXCEPT !.pc = "send", !.batch = B]
      BY <2>1
    <3>. HIDE DEF B
    <3>. QED BY <3>1, <3>2, <1>0
  <2>4. faults' \in Nat
    BY <1>3, FaultTyped DEF DispatchPeers
  <2>. QED
    BY <1>3, <2>3, <2>4, FrameDb DEF TypeOK, MemTypeOK, DispatchPeers, histVars, Working
<1>4. CASE DispatchSend
  <2>1. PICK j \in disp.batch : /\ inflight' = [inflight EXCEPT ![j.hook] = "busy"]
                                /\ chan' = Append(chan, j)
                                /\ disp' = [disp EXCEPT !.batch = @ \ {j},
                                     !.pc = IF disp.batch = {j} THEN "start" ELSE "send"]
    BY <1>4 DEF DispatchSend
  <2>2. disp' \in D /\ j \in Claims
    BY <2>1, <1>0
  <2>2a. j.hook \in Webhooks
    BY <2>2 DEF Claims
  <2>3. chan' \in Seq(Claims)
    <3>1. chan \in Seq(Claims)
      BY DEF TypeOK, MemTypeOK
    <3>. QED
      BY <2>1, <2>2, <3>1, AppendProperties
  <2>4. inflight' \in [Webhooks -> {"free", "busy", "grace"}]
    BY <2>1, <2>2a DEF TypeOK, MemTypeOK
  <2>. QED
    BY <1>4, <2>2, <2>3, <2>4, FrameDb DEF TypeOK, MemTypeOK, DispatchSend, NoFault, histVars, Working
<1>. QED BY <1>1, <1>2, <1>3, <1>4 DEF Dispatcher

LEMMA SetRowsTyped ==
  ASSUME NEW S, NEW g, g \in [S -> LogRows], DbTypeOK,
         log' = [r \in Rows |-> IF r \in S THEN g[r] ELSE log[r]]
  PROVE  log' \in [Rows -> LogRows]
BY DEF DbTypeOK

LEMMA MarkedTyped ==
  ASSUME TypeOK, NEW j \in Claims \cup {NoClaim}, NEW r \in Rows, NEW o
  PROVE  MarkedRow(j, r, o) \in LogRows
<1>1. j.attempt \in Nat /\ log[r] \in LogRows /\ log[r].attempt \in Nat
  BY DEF TypeOK, DbTypeOK, Claims, NoClaim, LogRows
<1>2. NextAttempt(j, r, o) \in Nat
  BY <1>1 DEF NextAttempt
<1>3. FailStatus(o, j.attempt + 1) \in {"dead", "failed"}
  BY DEF FailStatus
<1>. QED
  BY <1>1, <1>2, <1>3 DEF MarkedRow, LogRows

(***************************************************************************)
(* Every step of a delivery but the first and the last changes the worker  *)
(* record only: it keeps its job, goes on, and is answered at most once.   *)
(***************************************************************************)
Advances(k) ==
  /\ worker[k].pc # "idle"
  /\ \E v \in WorkerStates : /\ worker' = [worker EXCEPT ![k] = v]
                             /\ v.job = worker[k].job
                             /\ v.pc # "idle"
                             /\ v.out = worker[k].out \/ worker[k].pc \in {"load", "send"}
                             /\ v.pc \in {"load", "send"} =>
                                  worker[k].pc = "load" /\ v.out = worker[k].out
  /\ UNCHANGED <<inflight, disp, chan>>

MidSteps(k) == \/ WorkerLoad(k) \/ WorkerSend(k) \/ WorkerMark(k) \/ OnSuccessBegin(k)
               \/ OnSuccessOutcome(k) \/ OnSuccessHash(k) \/ OnSuccessDelete(k)

LEMMA MidStepsAdvance == ASSUME TypeOK, NEW k \in Workers, MidSteps(k) PROVE Advances(k)
<1>. DEFINE w == worker[k]
<1>0. /\ w \in WorkerStates /\ w.job \in Claims \cup {NoClaim} /\ w.todo \in SUBSET Rows
      /\ worker \in [Workers -> WorkerStates]
  BY DEF TypeOK, MemTypeOK, WorkerStates
<1>1. CASE WorkerLoad(k)
  <2>1. Loaded(w.job) \in SUBSET Rows
    BY <1>0 DEF Loaded, Claims, NoClaim
  <2>2. \A o \in {"retry", "dead", "park"} :
          LET v == [w EXCEPT !.pc = "mark", !.out = o]
          IN v \in WorkerStates /\ v.job = w.job /\ v.pc = "mark"
    BY <1>0 DEF WorkerStates, Verdicts
  <2>3. LET v == [w EXCEPT !.pc = "send", !.todo = Loaded(w.job)]
        IN v \in WorkerStates /\ v.job = w.job /\ v.pc = "send" /\ v.out = w.out
    BY <1>0, <2>1 DEF WorkerStates
  <2>4. \/ \E o \in {"retry", "dead", "park"} :
             worker' = [worker EXCEPT ![k] = [w EXCEPT !.pc = "mark", !.out = o]]
        \/ worker' = [worker EXCEPT ![k] = [w EXCEPT !.pc = "send", !.todo = Loaded(w.job)]]
    BY <1>1 DEF WorkerLoad
  <2>. QED
    BY <1>1, <2>2, <2>3, <2>4 DEF Advances, WorkerLoad
<1>2. CASE WorkerSend(k)
  <2>1. PICK o \in {"sent", "retry", "flood", "dead"} :
          worker' = [worker EXCEPT ![k] = [w EXCEPT !.pc = "mark", !.out = o]]
    BY <1>2 DEF WorkerSend
  <2>2. LET v == [w EXCEPT !.pc = "mark", !.out = o]
        IN v \in WorkerStates /\ v.job = w.job /\ v.pc = "mark"
    BY <1>0 DEF WorkerStates, Verdicts
  <2>. QED
    BY <1>2, <2>1, <2>2 DEF Advances, WorkerSend
<1>3. CASE WorkerMark(k)
  <2>1. PICK ok \in BOOLEAN : worker' = [worker EXCEPT ![k] =
          [w EXCEPT !.pc = IF w.out = "sent" THEN "after" ELSE "free", !.stored = ok]]
    BY <1>3 DEF WorkerMark
  <2>2. LET v == [w EXCEPT !.pc = IF w.out = "sent" THEN "after" ELSE "free", !.stored = ok]
        IN v \in WorkerStates /\ v.job = w.job /\ v.pc \notin {"idle", "load", "send"} /\ v.out = w.out
    BY <1>0 DEF WorkerStates
  <2>. QED
    BY <1>3, <2>1, <2>2 DEF Advances, WorkerMark
<1>4. CASE OnSuccessBegin(k)
  <2>1. \/ worker' = [worker EXCEPT ![k] = [w EXCEPT !.pc = "free"]]
        \/ \E r \in w.todo :
             \/ worker' = [worker EXCEPT ![k] = [w EXCEPT !.todo = w.todo \ {r}]]
             \/ worker' = [worker EXCEPT ![k] = [w EXCEPT !.pc = "outcome", !.row = r]]
    BY <1>4, Zenon DEF OnSuccessBegin
  <2>2. LET v == [w EXCEPT !.pc = "free"]
        IN v \in WorkerStates /\ v.job = w.job /\ v.pc \notin {"idle", "load", "send"} /\ v.out = w.out
    BY <1>0 DEF WorkerStates
  <2>0. w.pc = "after"
    BY <1>4 DEF OnSuccessBegin
  <2>3. \A r \in w.todo : LET v == [w EXCEPT !.todo = w.todo \ {r}]
                          IN v \in WorkerStates /\ v.job = w.job /\ v.pc = "after" /\ v.out = w.out
    BY <1>0, <2>0 DEF WorkerStates
  <2>4. \A r \in w.todo : LET v == [w EXCEPT !.pc = "outcome", !.row = r]
                          IN v \in WorkerStates /\ v.job = w.job /\ v.pc \notin {"idle", "load", "send"} /\ v.out = w.out
    BY <1>0 DEF WorkerStates
  <2>. QED
    BY <1>4, <2>1, <2>2, <2>3, <2>4 DEF Advances, OnSuccessBegin
<1>5. \E v \in WorkerStates : /\ NextRow(k) = [worker EXCEPT ![k] = v]
                              /\ v.job = w.job /\ v.pc = "after" /\ v.out = w.out
  <2>. DEFINE v == [w EXCEPT !.pc = "after", !.todo = w.todo \ {w.row}, !.row = <<>>]
  <2>1. v \in WorkerStates /\ v.job = w.job /\ v.pc = "after" /\ v.out = w.out
    BY <1>0 DEF WorkerStates
  <2>2. NextRow(k) = [worker EXCEPT ![k] = v]
    BY DEF NextRow
  <2>. QED BY <2>1, <2>2
<1>6. CASE OnSuccessOutcome(k)
  <2>1. \A c \in {"hash", "delete"} : LET v == [w EXCEPT !.pc = c]
                                      IN v \in WorkerStates /\ v.job = w.job /\ v.pc \notin {"idle", "load", "send"} /\ v.out = w.out
    BY <1>0 DEF WorkerStates
  <2>2. \/ worker' = NextRow(k)
        \/ \E c \in {"hash", "delete"} : worker' = [worker EXCEPT ![k] = [w EXCEPT !.pc = c]]
    BY <1>6 DEF OnSuccessOutcome
  <2>. QED
    BY <1>5, <1>6, <2>1, <2>2 DEF Advances, OnSuccessOutcome
<1>7. CASE OnSuccessHash(k)
  BY <1>5, <1>7 DEF Advances, OnSuccessHash
<1>8. CASE OnSuccessDelete(k)
  BY <1>5, <1>8 DEF Advances, OnSuccessDelete
<1>. QED
  BY <1>1, <1>2, <1>3, <1>4, <1>6, <1>7, <1>8 DEF MidSteps

LEMMA MarkTyped ==
  ASSUME TypeOK, NEW k \in Workers, WorkerMark(k)
  PROVE  DbTypeOK' /\ lostMarks' \in [Rows -> Nat] /\ faults' \in Nat
<1>. DEFINE j == worker[k].job
            o == worker[k].out
<1>1. j \in Claims \cup {NoClaim} /\ j.rows \in SUBSET Rows
  BY DEF TypeOK, MemTypeOK, WorkerStates, Claims, NoClaim
<1>2. \/ UNCHANGED <<log, older>>
      \/ /\ log' = [r \in Rows |-> IF r \in j.rows THEN MarkedRow(j, r, o) ELSE log[r]]
         /\ older' = OlderWithout(j.rows)
  BY DEF WorkerMark, SetRows
<1>3. \A r \in Rows : MarkedRow(j, r, o) \in LogRows /\ log[r] \in LogRows
  BY <1>1, MarkedTyped DEF TypeOK, DbTypeOK
<1>4. log' \in [Rows -> LogRows]
  BY <1>2, <1>3 DEF TypeOK, DbTypeOK
<1>5. older' \in SUBSET (Rows \X Rows)
  BY <1>1, <1>2, OlderTyped DEF TypeOK, DbTypeOK
<1>6. lostMarks' \in [Rows -> Nat]
  BY DEF WorkerMark, TypeOK
<1>7. faults' \in Nat
  BY FaultTyped DEF WorkerMark
<1>. QED
  BY <1>4, <1>5, <1>6, <1>7 DEF WorkerMark, TypeOK, DbTypeOK

LEMMA OnSuccessTyped ==
  ASSUME TypeOK, NEW k \in Workers,
         OnSuccessBegin(k) \/ OnSuccessOutcome(k) \/ OnSuccessHash(k) \/ OnSuccessDelete(k)
  PROVE  DbTypeOK' /\ faults' \in Nat /\ UNCHANGED <<poll, sends, lostMarks>>
<1>. DEFINE Seen == {"none", "unread", "read", "removed"}
<1>0. uentry \in [Users \X Entries -> Seen]
  BY DEF TypeOK, DbTypeOK
<1>1. CASE OnSuccessBegin(k)
  <2>1. \/ UNCHANGED <<entry, uentry>>
        \/ \E e : DeleteEntry(e)
        \/ UNCHANGED entry /\ \E p : uentry' = [uentry EXCEPT ![p] = "read"]
    BY <1>1 DEF OnSuccessBegin
  <2>2. ASSUME UNCHANGED <<entry, uentry>> PROVE DbTypeOK'
    BY <1>1, <2>2, FrameDb DEF TypeOK, OnSuccessBegin, dbVars
  <2>3. ASSUME NEW e, DeleteEntry(e) PROVE DbTypeOK'
    BY <1>1, <2>3, DeleteEntryTyped DEF TypeOK, OnSuccessBegin
  <2>4. ASSUME NEW p, uentry' = [uentry EXCEPT ![p] = "read"], UNCHANGED entry
        PROVE DbTypeOK'
    <3>1. uentry' \in [Users \X Entries -> Seen]
      BY <1>0, <2>4
    <3>. QED
      BY <1>1, <2>4, <3>1 DEF TypeOK, DbTypeOK, OnSuccessBegin
  <2>5. DbTypeOK'
    BY <1>1, <2>1, <2>2, <2>3, <2>4
  <2>6. faults' \in Nat
    BY <1>1, FaultTyped DEF OnSuccessBegin
  <2>. QED
    BY <1>1, <2>5, <2>6 DEF OnSuccessBegin, histVars
<1>2. CASE OnSuccessOutcome(k)
  BY <1>2, FrameDb, FaultTyped DEF TypeOK, OnSuccessOutcome, histVars
<1>3. CASE OnSuccessHash(k)
  <2>. DEFINE e == EntryOf(worker[k].row)
  <2>0. \/ UNCHANGED <<entry, uentry>>
        \/ /\ entry' = [entry EXCEPT ![e] = "stripped"]
           /\ uentry' = [p \in Users \X Entries |-> IF p[2] = e THEN "removed" ELSE uentry[p]]
    BY <1>3 DEF OnSuccessHash
  <2>. HIDE DEF e
  <2>1. entry' \in [Entries -> {"absent", "full", "stripped", "deleted"}]
    BY <2>0 DEF TypeOK, DbTypeOK
  <2>2. uentry' \in [Users \X Entries -> Seen]
    BY <1>0, <2>0
  <2>3. faults' \in Nat
    BY <1>3, FaultTyped DEF OnSuccessHash
  <2>. QED
    BY <1>3, <2>1, <2>2, <2>3 DEF TypeOK, DbTypeOK, OnSuccessHash, histVars
<1>4. CASE OnSuccessDelete(k)
  <2>1. uentry' \in [Users \X Entries -> Seen]
    BY <1>0, <1>4 DEF OnSuccessDelete
  <2>2. faults' \in Nat
    BY <1>4, FaultTyped DEF OnSuccessDelete
  <2>. QED
    BY <1>4, <2>1, <2>2 DEF TypeOK, DbTypeOK, OnSuccessDelete, histVars
<1>. QED BY <1>1, <1>2, <1>3, <1>4

LEMMA DeliveryTyped == ASSUME TypeOK, NEW k \in Workers, Delivery(k) PROVE TypeOK'
<1>1. CASE WorkerTake(k)
  <2>1. chan \in Seq(Claims) /\ chan # <<>>
    BY <1>1 DEF WorkerTake, TypeOK, MemTypeOK
  <2>2. Head(chan) \in Claims /\ chan' \in Seq(Claims)
    BY <1>1, <2>1, HeadTailProperties DEF WorkerTake
  <2>3. [IdleWorker EXCEPT !.pc = "load", !.job = Head(chan)] \in WorkerStates
    BY <2>2, IdleTyped DEF WorkerStates
  <2>4. worker' \in [Workers -> WorkerStates]
    BY <1>1, <2>3 DEF WorkerTake, TypeOK, MemTypeOK
  <2>5. \A q \in Workers : worker'[q].pc # "idle" => worker'[q].job \in Claims
    BY <1>1, <2>2, <2>3 DEF WorkerTake, TypeOK, MemTypeOK, Working, WorkerStates
  <2>. QED
    BY <1>1, <2>2, <2>4, <2>5, FrameDb
       DEF WorkerTake, TypeOK, MemTypeOK, NoFault, histVars, Working
<1>2. CASE MidSteps(k)
  <2>1. Advances(k)
    BY <1>2, MidStepsAdvance
  <2>2. worker' \in [Workers -> WorkerStates] /\ UNCHANGED <<inflight, disp, chan>>
    BY <2>1 DEF Advances, TypeOK, MemTypeOK
  <2>3. flood' \in SUBSET Webhooks
    <3>1. CASE WorkerSend(k)
      <4>1. UNCHANGED flood \/ flood' = flood \cup {worker[k].job.hook}
        BY <3>1 DEF WorkerSend
      <4>2. worker[k].job.hook \in Webhooks
        BY <3>1 DEF WorkerSend, TypeOK, MemTypeOK, Working, Claims
      <4>. QED
        BY <4>1, <4>2 DEF TypeOK, MemTypeOK
    <3>2. CASE ~WorkerSend(k)
      BY <1>2, <3>2 DEF MidSteps, WorkerLoad, WorkerMark, OnSuccessBegin, OnSuccessOutcome,
            OnSuccessHash, OnSuccessDelete, TypeOK, MemTypeOK
    <3>. QED BY <3>1, <3>2
  <2>4. MemTypeOK'
    <3>1. \A q \in Workers : Working(q)' => worker'[q].job \in Claims
      BY <2>1 DEF Advances, TypeOK, MemTypeOK, Working
    <3>. QED
      BY <2>2, <2>3, <3>1 DEF TypeOK, MemTypeOK
  <2>5. /\ DbTypeOK' /\ faults' \in Nat /\ UNCHANGED poll
        /\ sends' \in [Rows -> Nat] /\ lostMarks' \in [Rows -> Nat]
    <3>1. CASE WorkerLoad(k)
      BY <3>1, FrameDb, FaultTyped DEF WorkerLoad, TypeOK, histVars
    <3>2. CASE WorkerSend(k)
      BY <3>2, FrameDb DEF WorkerSend, TypeOK, NoFault
    <3>3. CASE WorkerMark(k)
      BY <3>3, MarkTyped DEF WorkerMark, TypeOK
    <3>4. CASE ~WorkerLoad(k) /\ ~WorkerSend(k) /\ ~WorkerMark(k)
      BY <1>2, <3>4, OnSuccessTyped DEF MidSteps, TypeOK
    <3>. QED BY <3>1, <3>2, <3>3, <3>4
  <2>. QED
    BY <2>4, <2>5 DEF TypeOK
<1>3. CASE WorkerFree(k)
  <2>1. Freed(k) \in {"free", "grace"}
    BY DEF Freed
  <2>2. inflight' \in [Webhooks -> {"free", "busy", "grace"}]
    BY <1>3, <2>1 DEF WorkerFree, TypeOK, MemTypeOK
  <2>3. worker' \in [Workers -> WorkerStates]
    BY <1>3, IdleTyped DEF WorkerFree, TypeOK, MemTypeOK
  <2>4. \A q \in Workers : Working(q)' => worker'[q].job \in Claims
    BY <1>3 DEF WorkerFree, TypeOK, MemTypeOK, Working, IdleWorker
  <2>. QED
    BY <1>3, <2>2, <2>3, <2>4, FrameDb DEF WorkerFree, TypeOK, MemTypeOK, NoFault, histVars
<1>. QED
  BY <1>1, <1>2, <1>3 DEF Delivery, MidSteps

LEMMA TimeTyped == ASSUME TypeOK, Time PROVE TypeOK'
<1>1. ASSUME NEW r \in Rows, RowDue(r) PROVE TypeOK'
  <2>1. log' \in [Rows -> LogRows]
    <3>1. log[r] \in LogRows
      BY DEF TypeOK, DbTypeOK
    <3>2. [log[r] EXCEPT !.due = "now"] \in LogRows
      BY <3>1 DEF LogRows
    <3>3. log' = [log EXCEPT ![r] = [log[r] EXCEPT !.due = "now"]]
      BY <1>1 DEF RowDue
    <3>. QED
      BY <3>2, <3>3 DEF TypeOK, DbTypeOK
  <2>2. older' \in SUBSET (Rows \X Rows)
    BY <1>1, OlderTyped DEF RowDue, TypeOK
  <2>3. DbTypeOK' /\ MemTypeOK'
    BY <1>1, <2>1, <2>2, FrameMem DEF RowDue, TypeOK, DbTypeOK
  <2>. QED
    BY <1>1, <2>3 DEF RowDue, TypeOK, NoFault, histVars
<1>2. ASSUME NEW w \in Webhooks, GraceEnds(w) PROVE TypeOK'
  BY <1>2, FrameDb DEF GraceEnds, TypeOK, MemTypeOK, NoFault, histVars, Working
<1>3. ASSUME NEW w \in Webhooks, FloodEnds(w) PROVE TypeOK'
  BY <1>3, FrameDb DEF FloodEnds, TypeOK, MemTypeOK, NoFault, histVars, Working
<1>. QED BY <1>1, <1>2, <1>3 DEF Time

LEMMA RequeueTyped ==
  ASSUME TypeOK, NEW S \in SUBSET Rows, Requeue(S), faults' \in Nat
  PROVE  TypeOK'
<1>. DEFINE q(r) == [log[r] EXCEPT !.status = "pending", !.due = "now"]
<1>0. \A r \in Rows : log[r] \in LogRows
  BY DEF TypeOK, DbTypeOK
<1>1. \A r \in Rows : q(r) \in LogRows
  BY <1>0 DEF LogRows
<1>2. log' = [r \in Rows |-> IF r \in S THEN q(r) ELSE log[r]]
  BY DEF Requeue, SetRows
<1>. HIDE DEF q
<1>3. log' \in [Rows -> LogRows]
  BY <1>0, <1>1, <1>2
<1>4. older' \in SUBSET (Rows \X Rows)
  BY OlderTyped DEF Requeue, TypeOK
<1>5. DbTypeOK' /\ MemTypeOK'
  BY <1>3, <1>4, FrameMem DEF Requeue, TypeOK, DbTypeOK
<1>. QED
  BY <1>5 DEF Requeue, TypeOK, histVars

LEMMA DeleteRowsTyped ==
  ASSUME TypeOK, NEW S \in SUBSET Rows, DeleteRows(S)
  PROVE  log' \in [Rows -> LogRows] /\ older' \in SUBSET (Rows \X Rows)
<1>1. NoLog \in LogRows /\ \A r \in Rows : log[r] \in LogRows
  BY DEF NoLog, LogRows, TypeOK, DbTypeOK
<1>2. log' = [r \in Rows |-> IF r \in S THEN NoLog ELSE log[r]]
  BY DEF DeleteRows, SetRows
<1>3. older' \in SUBSET (Rows \X Rows)
  BY OlderTyped DEF DeleteRows, TypeOK
<1>. QED BY <1>1, <1>2, <1>3

LEMMA EnvironmentTyped == ASSUME TypeOK, Environment PROVE TypeOK'
<1>1. ASSUME NEW r \in Rows, RetryWebhookLogNow(r) PROVE TypeOK'
  BY <1>1, RequeueTyped, FaultTyped DEF RetryWebhookLogNow
<1>2. ASSUME NEW w \in Webhooks, RetryAllWebhookLogs(w) PROVE TypeOK'
  <2>. DEFINE S == {r \in Rows : HookOf(r) = w /\ log[r].status \in {"failed", "dead"}}
  <2>1. S \in SUBSET Rows /\ Requeue(S) /\ faults' \in Nat
    BY <1>2, FaultTyped DEF RetryAllWebhookLogs
  <2>. QED BY <2>1, RequeueTyped
<1>3. ASSUME NEW r \in Rows, PurgeLog(r) PROVE TypeOK'
  <2>1. log' \in [Rows -> LogRows] /\ older' \in SUBSET (Rows \X Rows)
    BY <1>3, DeleteRowsTyped DEF PurgeLog
  <2>2. faults' \in Nat
    BY <1>3, FaultTyped DEF PurgeLog
  <2>3. DbTypeOK' /\ MemTypeOK'
    BY <1>3, <2>1, FrameMem DEF PurgeLog, TypeOK, DbTypeOK
  <2>. QED
    BY <1>3, <2>2, <2>3 DEF PurgeLog, TypeOK, histVars
<1>4. ASSUME NEW w \in Webhooks, SetWebhookEnabled(w) PROVE TypeOK'
  <2>1. DbTypeOK' /\ MemTypeOK'
    BY <1>4, FrameMem DEF SetWebhookEnabled, TypeOK, DbTypeOK
  <2>2. faults' \in Nat
    BY <1>4, FaultTyped DEF SetWebhookEnabled
  <2>. QED
    BY <1>4, <2>1, <2>2 DEF SetWebhookEnabled, TypeOK, histVars
<1>5. ASSUME NEW w \in Webhooks, DeleteWebhook(w) PROVE TypeOK'
  <2>. DEFINE S == {r \in Rows : HookOf(r) = w}
  <2>1. S \in SUBSET Rows /\ DeleteRows(S)
    BY <1>5 DEF DeleteWebhook
  <2>. HIDE DEF S
  <2>2. log' \in [Rows -> LogRows] /\ older' \in SUBSET (Rows \X Rows)
    BY <2>1, DeleteRowsTyped
  <2>3. DbTypeOK' /\ MemTypeOK'
    BY <1>5, <2>2, FrameMem DEF DeleteWebhook, TypeOK, DbTypeOK
  <2>4. faults' \in Nat
    BY <1>5, FaultTyped DEF DeleteWebhook
  <2>. QED
    BY <1>5, <2>3, <2>4 DEF DeleteWebhook, TypeOK, histVars
<1>6. ASSUME NEW e \in Entries, PurgeEntry(e) PROVE TypeOK'
  <2>1. DbTypeOK' /\ MemTypeOK'
    BY <1>6, DeleteEntryTyped, FrameMem DEF PurgeEntry, TypeOK
  <2>2. faults' \in Nat
    BY <1>6, FaultTyped DEF PurgeEntry
  <2>. QED
    BY <1>6, <2>1, <2>2 DEF PurgeEntry, TypeOK, histVars
<1>7. CASE Crash
  <2>1. DbTypeOK' /\ faults' \in Nat
    BY <1>7, FrameDb, FaultTyped DEF Crash, TypeOK
  <2>2. MemTypeOK'
    BY <1>7, IdleTyped DEF Crash, MemTypeOK, Working, IdleWorker
  <2>3. lostMarks' \in [Rows -> Nat] /\ sends' \in [Rows -> Nat]
    BY <1>7 DEF Crash, TypeOK
  <2>4. poll' \in [Entries -> [stage : {"new", "fanout", "done"},
                              todo : SUBSET (Webhooks \X {"filter", "feed"})]]
    BY <1>7 DEF Crash, TypeOK
  <2>. QED
    BY <2>1, <2>2, <2>3, <2>4 DEF TypeOK
<1>. QED
  BY <1>1, <1>2, <1>3, <1>4, <1>5, <1>6, <1>7 DEF Environment

\* Every reachable state of the pipeline is well typed, whatever the webhooks,
\* entries, routes, pool sizes and faults.
THEOREM TypeCorrect == Spec => []TypeOK
<1>1. ASSUME TypeOK, [Next]_vars PROVE TypeOK'
  <2>1. CASE UNCHANGED vars
    BY <1>1, <2>1, FrameDb, FrameMem DEF TypeOK, vars, histVars
  <2>. QED
    BY <1>1, <2>1, PollerTyped, DispatcherTyped, DeliveryTyped, TimeTyped,
       EnvironmentTyped DEF Next
<1>. QED
  BY <1>1, TypeInit, PTL DEF Spec

(***************************************************************************)
(* One delivery of a webhook at a time                                     *)
(***************************************************************************)
\* The types Hold speaks about.
LEMMA HoldTypes ==
  ASSUME TypeOK
  PROVE  /\ \A i \in 1..Len(chan) : chan[i] \in Claims /\ chan[i].hook \in Webhooks
         /\ \A j \in disp.batch : j \in Claims /\ j.hook \in Webhooks
         /\ \A k \in Workers : Working(k) => worker[k].job.hook \in Webhooks
         /\ chan \in Seq(Claims) /\ Len(chan) \in Nat
         /\ worker \in [Workers -> WorkerStates]
         /\ inflight \in [Webhooks -> {"free", "busy", "grace"}]
<1>1. /\ chan \in Seq(Claims) /\ Len(chan) \in Nat
      /\ worker \in [Workers -> WorkerStates]
      /\ inflight \in [Webhooks -> {"free", "busy", "grace"}]
      /\ disp.batch \in SUBSET Claims
      /\ \A k \in Workers : Working(k) => worker[k].job \in Claims
  BY DEF TypeOK, MemTypeOK
<1>2. \A i \in 1..Len(chan) : chan[i] \in Claims
  BY <1>1
<1>3. \A c \in Claims : c.hook \in Webhooks
  BY DEF Claims
<1>. QED BY <1>1, <1>2, <1>3

LEMMA HoldFrame == ASSUME Hold, UNCHANGED <<inflight, disp, chan, worker>> PROVE Hold'
BY DEF Hold, HeldIsBusy, ClaimableIsFree, Unique, Working

LEMMA HoldDispatcher == ASSUME TypeOK, Hold, Dispatcher PROVE Hold'
<1>0. disp \in [pc : {"start", "paused", "claim", "peers", "send"},
                exclude : SUBSET Webhooks, batch : SUBSET Claims]
  BY DEF TypeOK, MemTypeOK
<1>1. CASE DispatchExclude
  BY <1>0, <1>1 DEF DispatchExclude, Hold, HeldIsBusy, ClaimableIsFree, Unique, Working
<1>2. CASE DispatchPaused
  BY <1>0, <1>2 DEF DispatchPaused, Hold, HeldIsBusy, ClaimableIsFree, Unique, Working
<1>3. CASE DispatchClaim
  <2>1. UNCHANGED <<inflight, chan, worker>> /\ disp.pc = "claim"
    BY <1>3 DEF DispatchClaim
  <2>2. \/ disp' = [pc |-> "start", exclude |-> {}, batch |-> {}]
        \/ \E S \in SUBSET Rows :
             /\ ClaimDueWebhookLogs(S)
             /\ disp' = [pc |-> IF S = {} THEN "start" ELSE "peers",
                         exclude |-> {}, batch |-> {Claim(r, {r}) : r \in S}]
    BY <1>3 DEF DispatchClaim
  <2>3. CASE disp' = [pc |-> "start", exclude |-> {}, batch |-> {}]
    BY <2>1, <2>3 DEF Hold, HeldIsBusy, ClaimableIsFree, Unique, Working
  <2>4. ASSUME NEW S \in SUBSET Rows, ClaimDueWebhookLogs(S),
               disp' = [pc |-> IF S = {} THEN "start" ELSE "peers",
                        exclude |-> {}, batch |-> {Claim(r, {r}) : r \in S}]
        PROVE Hold'
    <3>1. /\ \A r \in S : HookOf(r) \in Webhooks /\ HookOf(r) \notin disp.exclude
          /\ \A r, s \in S : HookOf(r) = HookOf(s) => r = s
      BY <2>4 DEF ClaimDueWebhookLogs, Rows, HookOf
    <3>2. \A r \in S : inflight[HookOf(r)] = "free"
      BY <2>1, <3>1 DEF Hold, ClaimableIsFree
    <3>3. \A j \in disp'.batch : \E r \in S : j = Claim(r, {r}) /\ j.hook = HookOf(r)
      BY <2>4 DEF Claim
    <3>4. disp'.pc \in {"start", "peers"} /\ (disp'.pc = "start" => disp'.batch = {})
      BY <2>4
    <3>5. HeldIsBusy'
      BY <2>1 DEF Hold, HeldIsBusy, Working
    <3>6. ClaimableIsFree'
      BY <2>1, <3>2, <3>3, <3>4 DEF ClaimableIsFree
    <3>7. \A j1, j2 \in disp'.batch : j1.hook = j2.hook => j1 = j2
      BY <3>1, <3>3
    <3>8. Unique'
      BY <2>1, <3>7 DEF Hold, Unique, Working
    <3>. QED BY <3>5, <3>6, <3>8 DEF Hold
  <2>. QED BY <2>2, <2>3, <2>4
<1>4. CASE DispatchPeers
  <2>1. PICK P \in [disp.batch -> SUBSET Rows] :
          disp' = [disp EXCEPT !.pc = "send",
                     !.batch = {[j EXCEPT !.rows = @ \cup P[j]] : j \in disp.batch}]
    BY <1>4 DEF DispatchPeers
  <2>2. UNCHANGED <<inflight, chan, worker>> /\ disp.pc = "peers"
    BY <1>4 DEF DispatchPeers
  <2>3. \A j \in disp.batch : [j EXCEPT !.rows = @ \cup P[j]].hook = j.hook
    BY <1>0 DEF Claims
  <2>4. disp'.pc = "send"
        /\ disp'.batch = {[j EXCEPT !.rows = @ \cup P[j]] : j \in disp.batch}
    BY <1>0, <2>1
  <2>5. \A i \in disp'.batch : \E j \in disp.batch :
           i = [j EXCEPT !.rows = @ \cup P[j]] /\ i.hook = j.hook
    BY <2>3, <2>4
  <2>6. HeldIsBusy'
    BY <2>2 DEF Hold, HeldIsBusy, Working
  <2>7. ClaimableIsFree'
    BY <2>2, <2>4, <2>5 DEF Hold, ClaimableIsFree
  <2>8. \A j1, j2 \in disp'.batch : j1.hook = j2.hook => j1 = j2
    <3>1. \A j1, j2 \in disp.batch : j1.hook = j2.hook => j1 = j2
      BY DEF Hold, Unique
    <3>2. ASSUME NEW i1 \in disp'.batch, NEW i2 \in disp'.batch, i1.hook = i2.hook
          PROVE  i1 = i2
      <4>1. PICK j1 \in disp.batch : i1 = [j1 EXCEPT !.rows = @ \cup P[j1]] /\ i1.hook = j1.hook
        BY <2>5
      <4>2. PICK j2 \in disp.batch : i2 = [j2 EXCEPT !.rows = @ \cup P[j2]] /\ i2.hook = j2.hook
        BY <2>5
      <4>3. j1 = j2
        BY <3>1, <3>2, <4>1, <4>2
      <4>. QED BY <4>1, <4>2, <4>3, Zenon
    <3>. QED BY <3>2
  <2>9. Unique'
    BY <2>2, <2>8 DEF Hold, Unique, Working
  <2>. QED BY <2>6, <2>7, <2>9 DEF Hold
<1>5. CASE DispatchSend
  <2>1. PICK j \in disp.batch : /\ inflight' = [inflight EXCEPT ![j.hook] = "busy"]
                                /\ chan' = Append(chan, j)
                                /\ disp' = [disp EXCEPT !.batch = @ \ {j},
                                     !.pc = IF disp.batch = {j} THEN "start" ELSE "send"]
    BY <1>5 DEF DispatchSend
  <2>2. UNCHANGED worker /\ disp.pc = "send"
    BY <1>5 DEF DispatchSend
  <2>3. j.hook \in Webhooks /\ j \in Claims /\ inflight[j.hook] = "free"
    BY HoldTypes DEF Hold, ClaimableIsFree
  <2>4. /\ disp'.batch = disp.batch \ {j}
        /\ disp'.pc \in {"start", "send"} /\ (disp'.pc = "start" => disp'.batch = {})
    BY <1>0, <2>1
  <2>5. /\ chan' \in Seq(Claims) /\ Len(chan') = Len(chan) + 1
        /\ \A i \in 1..Len(chan) : chan'[i] = chan[i]
        /\ chan'[Len(chan) + 1] = j
    BY <2>1, <2>3, HoldTypes, AppendProperties
  <2>6. \A i \in 1..Len(chan') : (i \in 1..Len(chan) /\ chan'[i] = chan[i])
                                 \/ (i = Len(chan) + 1 /\ chan'[i] = j)
    BY <2>5, HoldTypes
  <2>7. inflight'[j.hook] = "busy" /\ \A w \in Webhooks : w # j.hook => inflight'[w] = inflight[w]
    BY <2>1, <2>3, HoldTypes
  <2>8. HeldIsBusy'
    BY <2>2, <2>3, <2>6, <2>7, HoldTypes DEF Hold, HeldIsBusy, Working
  <2>9. ClaimableIsFree'
    BY <2>3, <2>4, <2>7, HoldTypes DEF Hold, ClaimableIsFree, Unique
  <2>10. Unique'
    BY <2>2, <2>3, <2>4, <2>6, HoldTypes DEF Hold, HeldIsBusy, Unique, Working
  <2>. QED BY <2>8, <2>9, <2>10 DEF Hold
<1>. QED
  BY <1>1, <1>2, <1>3, <1>4, <1>5 DEF Dispatcher

LEMMA HoldDelivery == ASSUME TypeOK, Hold, NEW k \in Workers, Delivery(k) PROVE Hold'
<1>1. CASE WorkerTake(k)
  <2>1. /\ Head(chan) = chan[1] /\ chan # <<>>
        /\ chan' = Tail(chan) /\ UNCHANGED <<inflight, disp>>
        /\ worker' = [worker EXCEPT ![k] =
             [IdleWorker EXCEPT !.pc = "load", !.job = Head(chan)]]
    BY <1>1 DEF WorkerTake
  <2>2. /\ Len(chan') = Len(chan) - 1 /\ Len(chan') \in Nat /\ 1 \in 1..Len(chan)
        /\ \A i \in 1..Len(chan') : chan'[i] = chan[i + 1] /\ i + 1 \in 1..Len(chan) /\ i + 1 # 1
    <3>1. Len(chan) \in Nat /\ Len(chan) # 0
      BY <2>1, HoldTypes, EmptySeq
    <3>. QED
      BY <2>1, <3>1, HoldTypes, HeadTailProperties
  <2>3. /\ worker'[k].job = chan[1] /\ worker'[k].pc = "load"
        /\ \A q \in Workers : q # k => worker'[q] = worker[q]
    BY <2>1, HoldTypes DEF IdleWorker
  <2>4. HeldIsBusy'
    BY <2>1, <2>2, <2>3 DEF Hold, HeldIsBusy, Working
  <2>5. ClaimableIsFree'
    BY <2>1 DEF Hold, ClaimableIsFree
  <2>6. Unique'
    BY <2>1, <2>2, <2>3 DEF Hold, Unique, Working
  <2>. QED BY <2>4, <2>5, <2>6 DEF Hold
<1>2. CASE MidSteps(k)
  <2>1. Advances(k)
    BY <1>2, MidStepsAdvance
  <2>2. /\ UNCHANGED <<inflight, disp, chan>> /\ Working(k)
        /\ \A q \in Workers : worker'[q].job = worker[q].job /\ (Working(q)' <=> Working(q))
    BY <2>1, HoldTypes DEF Advances, Working
  <2>. QED
    BY <2>2 DEF Hold, HeldIsBusy, ClaimableIsFree, Unique
<1>3. CASE WorkerFree(k)
  <2>. DEFINE w == worker[k].job.hook
  <2>1. /\ Working(k) /\ w \in Webhooks /\ UNCHANGED <<disp, chan>>
        /\ ~Working(k)'
        /\ \A q \in Workers : q # k => worker'[q] = worker[q]
        /\ \A x \in Webhooks : x # w => inflight'[x] = inflight[x]
    BY <1>3, HoldTypes DEF WorkerFree, Working, IdleWorker
  <2>2. inflight[w] = "busy"
    BY <2>1 DEF Hold, HeldIsBusy
  <2>. HIDE DEF w
  <2>3. \A i \in 1..Len(chan) : chan[i].hook # w
    BY <2>1 DEF Hold, Unique, w
  <2>4. \A q \in Workers : q # k /\ Working(q) => worker[q].job.hook # w
    BY <2>1 DEF Hold, Unique, w
  <2>5. HeldIsBusy'
    BY <2>1, <2>3, <2>4, HoldTypes DEF Hold, HeldIsBusy, Working
  <2>6. ClaimableIsFree'
    BY <2>1, <2>2, HoldTypes DEF Hold, ClaimableIsFree
  <2>7. Unique'
    BY <2>1 DEF Hold, Unique, Working
  <2>. QED BY <2>5, <2>6, <2>7 DEF Hold
<1>. QED
  BY <1>1, <1>2, <1>3 DEF Delivery, MidSteps

LEMMA HoldNext == ASSUME TypeOK, Hold, [Next]_vars PROVE Hold'
<1>1. CASE UNCHANGED vars
  BY <1>1, HoldFrame DEF vars, memVars
<1>2. CASE Poller
  BY <1>2, HoldFrame DEF Poller, StoreEntry, EnqueueWebhookLogs, DropUndeliveredRelayEntries,
     memVars
<1>3. CASE Time
  <2>1. ASSUME NEW r \in Rows, RowDue(r) PROVE Hold'
    BY <2>1, HoldFrame DEF RowDue, memVars
  <2>2. ASSUME NEW w \in Webhooks, GraceEnds(w) PROVE Hold'
    BY <2>2, HoldTypes DEF GraceEnds, Hold, HeldIsBusy, ClaimableIsFree, Unique, Working
  <2>3. ASSUME NEW w \in Webhooks, FloodEnds(w) PROVE Hold'
    BY <2>3, HoldFrame DEF FloodEnds
  <2>. QED BY <1>3, <2>1, <2>2, <2>3 DEF Time
<1>4. CASE Environment
  <2>1. CASE Crash
    BY <2>1 DEF Crash, Hold, HeldIsBusy, ClaimableIsFree, Unique, Working, IdleWorker
  <2>2. CASE ~Crash
    BY <1>4, <2>2, HoldFrame DEF Environment, RetryWebhookLogNow, RetryAllWebhookLogs, Requeue,
       PurgeLog, SetWebhookEnabled, DeleteWebhook, PurgeEntry, memVars
  <2>. QED BY <2>1, <2>2
<1>. QED
  BY <1>1, <1>2, <1>3, <1>4, HoldDispatcher, HoldDelivery DEF Next

LEMMA HoldInit == Init => Hold
BY DEF Init, Hold, HeldIsBusy, ClaimableIsFree, Unique, Working, IdleWorker

\* Deliveries of a webhook go out one at a time, for every number of webhooks,
\* workers and faults: the in-flight set is what guarantees it.
THEOREM OneAtATimeHolds == Spec => []OneAtATime
<1>1. TypeOK /\ Hold => OneAtATime
  BY HoldTypes DEF Hold, HeldIsBusy, ClaimableIsFree, Unique, OneAtATime
<1>. QED
  BY <1>1, HoldInit, HoldNext, TypeCorrect, PTL DEF Spec

(***************************************************************************)
(* A pause after a 429 is respected                                        *)
(***************************************************************************)
LEMMA FInvFrame ==
  ASSUME FInv, UNCHANGED <<disp, chan, worker>>, flood' \subseteq flood PROVE FInv'
BY DEF FInv, FloodRespected, PausesExcluded, Unanswered, Working

LEMMA FInvDispatcher == ASSUME TypeOK, Hold, FInv, Dispatcher PROVE FInv'
<1>0. disp \in [pc : {"start", "paused", "claim", "peers", "send"},
                exclude : SUBSET Webhooks, batch : SUBSET Claims]
  BY DEF TypeOK, MemTypeOK
<1>1. CASE DispatchExclude
  BY <1>0, <1>1 DEF DispatchExclude, FInv, FloodRespected, PausesExcluded, Unanswered, Working
<1>2. CASE DispatchPaused
  BY <1>0, <1>2 DEF DispatchPaused, FInv, FloodRespected, PausesExcluded, Unanswered, Working
<1>3. CASE DispatchClaim
  <2>1. UNCHANGED <<flood, chan, worker>> /\ flood \subseteq disp.exclude
    BY <1>3 DEF DispatchClaim, FInv, PausesExcluded
  <2>2. disp'.pc # "claim" /\ \A j \in disp'.batch : j.hook \notin disp.exclude
    <3>1. CASE disp' = [pc |-> "start", exclude |-> {}, batch |-> {}]
      BY <3>1
    <3>2. ASSUME NEW S \in SUBSET Rows, ClaimDueWebhookLogs(S),
                 disp' = [pc |-> IF S = {} THEN "start" ELSE "peers",
                          exclude |-> {}, batch |-> {Claim(r, {r}) : r \in S}]
          PROVE disp'.pc # "claim" /\ \A j \in disp'.batch : j.hook \notin disp.exclude
      <4>1. \A r \in S : HookOf(r) \notin disp.exclude
        BY <3>2 DEF ClaimDueWebhookLogs
      <4>2. \A j \in disp'.batch : \E r \in S : j.hook = HookOf(r)
        BY <3>2 DEF Claim
      <4>. QED BY <3>2, <4>1, <4>2
    <3>. QED BY <1>3, <3>1, <3>2 DEF DispatchClaim
  <2>. QED
    BY <2>1, <2>2 DEF FInv, FloodRespected, PausesExcluded, Unanswered, Working
<1>4. CASE DispatchPeers
  <2>1. PICK P \in [disp.batch -> SUBSET Rows] :
          disp' = [disp EXCEPT !.pc = "send",
                     !.batch = {[j EXCEPT !.rows = @ \cup P[j]] : j \in disp.batch}]
    BY <1>4 DEF DispatchPeers
  <2>2. UNCHANGED <<flood, chan, worker>>
    BY <1>4 DEF DispatchPeers
  <2>3. \A j \in disp.batch : [j EXCEPT !.rows = @ \cup P[j]].hook = j.hook
    BY <1>0 DEF Claims
  <2>4. disp'.pc = "send"
        /\ disp'.batch = {[j EXCEPT !.rows = @ \cup P[j]] : j \in disp.batch}
    BY <1>0, <2>1
  <2>5. \A i \in disp'.batch : \E j \in disp.batch : i.hook = j.hook
    BY <2>3, <2>4
  <2>. QED
    BY <2>2, <2>4, <2>5 DEF FInv, FloodRespected, PausesExcluded, Unanswered, Working
<1>5. CASE DispatchSend
  <2>1. PICK j \in disp.batch : /\ chan' = Append(chan, j)
                                /\ disp' = [disp EXCEPT !.batch = @ \ {j},
                                     !.pc = IF disp.batch = {j} THEN "start" ELSE "send"]
    BY <1>5 DEF DispatchSend
  <2>2. UNCHANGED <<flood, worker>>
    BY <1>5 DEF DispatchSend
  <2>3. disp'.batch \subseteq disp.batch /\ disp'.pc # "claim"
    BY <1>0, <2>1
  <2>4. \A i \in 1..Len(chan') : (i \in 1..Len(chan) /\ chan'[i] = chan[i]) \/ chan'[i] = j
    <3>1. /\ Len(chan') = Len(chan) + 1 /\ Len(chan) \in Nat
          /\ \A i \in 1..Len(chan) : chan'[i] = chan[i]
          /\ chan'[Len(chan) + 1] = j
      BY <2>1, HoldTypes, AppendProperties
    <3>. QED BY <3>1
  <2>. QED
    BY <2>2, <2>3, <2>4 DEF FInv, FloodRespected, PausesExcluded, Unanswered, Working
<1>. QED
  BY <1>1, <1>2, <1>3, <1>4, <1>5 DEF Dispatcher

LEMMA FInvDelivery == ASSUME TypeOK, Hold, FInv, NEW k \in Workers, Delivery(k) PROVE FInv'
<1>1. CASE WorkerTake(k)
  <2>1. /\ Head(chan) = chan[1] /\ chan # <<>>
        /\ chan' = Tail(chan) /\ UNCHANGED <<flood, disp>>
        /\ worker' = [worker EXCEPT ![k] =
             [IdleWorker EXCEPT !.pc = "load", !.job = Head(chan)]]
    BY <1>1 DEF WorkerTake
  <2>2. 1 \in 1..Len(chan)
        /\ \A i \in 1..Len(chan') : chan'[i] = chan[i + 1] /\ i + 1 \in 1..Len(chan)
    <3>1. Len(chan) \in Nat /\ Len(chan) # 0
      BY <2>1, HoldTypes, EmptySeq
    <3>. QED
      BY <2>1, <3>1, HoldTypes, HeadTailProperties
  <2>3. /\ worker'[k].job = chan[1] /\ worker'[k].out = "none"
        /\ \A q \in Workers : q # k => worker'[q] = worker[q]
    BY <2>1, HoldTypes DEF IdleWorker
  <2>. QED
    BY <2>1, <2>2, <2>3 DEF FInv, FloodRespected, PausesExcluded, Unanswered, Working
<1>2. CASE WorkerSend(k)
  <2>. DEFINE w == worker[k].job.hook
  <2>1. PICK o \in {"sent", "retry", "flood", "dead"} :
          /\ worker' = [worker EXCEPT ![k] = [@ EXCEPT !.pc = "mark", !.out = o]]
          /\ flood' = IF o = "flood" THEN flood \cup {w} ELSE flood
    BY <1>2 DEF WorkerSend
  <2>2. Working(k) /\ worker[k].out = "none" /\ UNCHANGED <<disp, chan>>
    BY <1>2 DEF WorkerSend, FInv, Unanswered, Working
  <2>3. worker[k] \in WorkerStates
    BY HoldTypes
  <2>4. /\ worker'[k].job = worker[k].job /\ worker'[k].out = o /\ worker'[k].pc = "mark"
        /\ \A q \in Workers : q # k => worker'[q] = worker[q]
    BY <2>1, <2>3, HoldTypes DEF WorkerStates
  <2>5. w \notin flood
    BY <2>2 DEF FInv, FloodRespected
  <2>6. w \in Webhooks /\ inflight[w] = "busy"
    BY <2>2, HoldTypes DEF Hold, HeldIsBusy
  <2>7. /\ \A j \in disp.batch : j.hook # w
        /\ \A i \in 1..Len(chan) : chan[i].hook # w
        /\ \A q \in Workers : Working(q) /\ worker[q].job.hook = w => q = k
        /\ disp.pc = "claim" => w \in disp.exclude
    <3>1. \A j \in disp.batch : j.hook # w
      BY <2>6 DEF Hold, ClaimableIsFree
    <3>2. \A i \in 1..Len(chan) : chan[i].hook # w
      BY <2>2 DEF Hold, Unique
    <3>3. \A q \in Workers : Working(q) /\ worker[q].job.hook = w => q = k
      BY <2>2 DEF Hold, Unique
    <3>4. disp.pc = "claim" => w \in disp.exclude
      BY <2>6 DEF Hold, ClaimableIsFree
    <3>. QED BY <3>1, <3>2, <3>3, <3>4
  <2>. HIDE DEF w
  <2>8. PausesExcluded' /\ Unanswered'
    BY <2>1, <2>2, <2>4, <2>7 DEF FInv, PausesExcluded, Unanswered
  <2>9. FloodRespected'
    <3>1. ASSUME NEW x \in flood', NEW q \in Workers, Working(q)', worker'[q].job.hook = x
          PROVE  worker'[q].out = "flood"
      <4>1. CASE q = k
        BY <2>1, <2>4, <2>5, <3>1, <4>1 DEF w
      <4>2. CASE q # k
        BY <2>1, <2>4, <2>7, <3>1, <4>2 DEF FInv, FloodRespected, Working
      <4>. QED BY <4>1, <4>2
    <3>2. \A x \in flood' : /\ \A j \in disp'.batch : j.hook # x
                            /\ \A i \in 1..Len(chan') : chan'[i].hook # x
      BY <2>1, <2>2, <2>7 DEF FInv, FloodRespected
    <3>. QED BY <3>1, <3>2 DEF FloodRespected
  <2>. QED BY <2>8, <2>9 DEF FInv
<1>3. CASE MidSteps(k) /\ ~WorkerSend(k)
  <2>1. Advances(k) /\ UNCHANGED flood /\ worker[k].pc # "send"
    <3>1. UNCHANGED flood /\ worker[k].pc # "send"
      BY <1>3 DEF MidSteps, WorkerLoad, WorkerMark, OnSuccessBegin, OnSuccessOutcome,
           OnSuccessHash, OnSuccessDelete
    <3>. QED BY <1>3, <3>1, MidStepsAdvance
  <2>2. /\ UNCHANGED <<disp, chan>> /\ Working(k)
        /\ \A q \in Workers : worker'[q].job = worker[q].job /\ (Working(q)' <=> Working(q))
        /\ \A q \in Workers : q # k => worker'[q] = worker[q]
        /\ worker'[k].out = worker[k].out \/ worker[k].pc = "load"
        /\ worker'[k].pc \in {"load", "send"} =>
             worker[k].pc = "load" /\ worker'[k].out = worker[k].out
    BY <2>1, HoldTypes DEF Advances, Working
  <2>3. worker[k].pc = "load" => worker[k].out = "none"
    BY DEF FInv, Unanswered
  <2>4. PausesExcluded' /\ Unanswered'
    BY <2>1, <2>2, <2>3 DEF FInv, PausesExcluded, Unanswered
  <2>5. FloodRespected'
    BY <2>1, <2>2, <2>3 DEF FInv, FloodRespected
  <2>. QED BY <2>4, <2>5 DEF FInv
<1>4. CASE WorkerFree(k)
  <2>1. /\ UNCHANGED <<flood, disp, chan>> /\ ~Working(k)' /\ worker'[k].pc = "idle"
        /\ \A q \in Workers : q # k => worker'[q] = worker[q]
    BY <1>4, HoldTypes DEF WorkerFree, Working, IdleWorker
  <2>. QED
    BY <2>1 DEF FInv, FloodRespected, PausesExcluded, Unanswered, Working
<1>. QED
  BY <1>1, <1>2, <1>3, <1>4 DEF Delivery, MidSteps

LEMMA FInvNext == ASSUME TypeOK, Hold, FInv, [Next]_vars PROVE FInv'
<1>1. CASE UNCHANGED vars
  BY <1>1, FInvFrame DEF vars, memVars
<1>2. CASE Poller
  BY <1>2, FInvFrame DEF Poller, StoreEntry, EnqueueWebhookLogs, DropUndeliveredRelayEntries,
     memVars
<1>3. CASE Time
  BY <1>3, FInvFrame DEF Time, RowDue, GraceEnds, FloodEnds, memVars
<1>4. CASE Environment
  <2>1. CASE Crash
    BY <2>1 DEF Crash, FInv, FloodRespected, PausesExcluded, Unanswered, Working, IdleWorker
  <2>2. CASE ~Crash
    BY <1>4, <2>2, FInvFrame DEF Environment, RetryWebhookLogNow, RetryAllWebhookLogs, Requeue,
       PurgeLog, SetWebhookEnabled, DeleteWebhook, PurgeEntry, memVars
  <2>. QED BY <2>1, <2>2
<1>. QED
  BY <1>1, <1>2, <1>3, <1>4, FInvDispatcher, FInvDelivery DEF Next

LEMMA FInvInit == Init => FInv
BY DEF Init, FInv, FloodRespected, PausesExcluded, Unanswered, Working, IdleWorker

\* A webhook waiting out a 429 is left alone: no claim of it is queued or sent
\* as long as the pause lasts, whenever the dispatcher looked.
THEOREM FloodRespectedHolds == Spec => []FloodRespected
<1>1. FInv => FloodRespected
  BY DEF FInv
<1>2. Spec => []Hold
  BY HoldInit, HoldNext, TypeCorrect, PTL DEF Spec
<1>. QED
  BY <1>1, <1>2, FInvInit, FInvNext, TypeCorrect, PTL DEF Spec

(***************************************************************************)
(* Why a row is not delivered twice unless a status write was lost: a row  *)
(* is in at most one claim, the claim holds it as long as it is open, and  *)
(* a row that may still be sent has been accepted only as often as its     *)
(* status was lost.                                                        *)
(***************************************************************************)
\* r in the hands of a worker v: not settled yet; perhaps still to be sent;
\* accepted by the receiver, and the row does not say so yet; in any claim.
HeldBy(v, r)     == v.pc \in {"load", "send", "mark"} /\ r \in v.job.rows
AwaitedBy(v, r)  == \/ v.pc = "load" /\ r \in v.job.rows
                    \/ v.pc = "send" /\ r \in v.todo
AcceptedBy(v, r) == v.pc = "mark" /\ v.out = "sent" /\ r \in v.todo
ClaimedBy(v, r)  == v.pc # "idle" /\ r \in v.job.rows

Queued(r)   == \/ \E j \in disp.batch : r \in j.rows
               \/ \E i \in 1..Len(chan) : r \in chan[i].rows
Held(r)     == Queued(r) \/ \E k \in Workers : HeldBy(worker[k], r)
Awaited(r)  == Queued(r) \/ \E k \in Workers : AwaitedBy(worker[k], r)
Accepted(r) == \E k \in Workers : AcceptedBy(worker[k], r)
Claimed(r)  == Queued(r) \/ \E k \in Workers : ClaimedBy(worker[k], r)

\* The poller may still insert r.
Fresh(r) == log[r].status = "none" /\ hook[HookOf(r)] # "deleted" /\ poll[EntryOf(r)].stage # "done"

OwnRows ==
  /\ \A j \in disp.batch : j.carrier \in j.rows /\ \A r \in j.rows : HookOf(r) = j.hook
  /\ \A i \in 1..Len(chan) : \A r \in chan[i].rows : HookOf(r) = chan[i].hook
  /\ \A k \in Workers : \A r \in worker[k].job.rows : HookOf(r) = worker[k].job.hook

TodoHeld == \A k \in Workers : /\ worker[k].todo \subseteq worker[k].job.rows
                               /\ worker[k].pc = "idle" => worker[k].job.rows = {}

Ledger(r) ==
  /\ log[r].due = "now" => log[r].status \in Open
  /\ Held(r) => log[r].status \in Open \cup {"none"}
  /\ Fresh(r) => ~Claimed(r) /\ sends[r] <= lostMarks[r]
  /\ sends[r] <= 1 + lostMarks[r]
  /\ Awaited(r) => sends[r] <= lostMarks[r]
  /\ log[r].status \in Open \cup {"dead"} /\ ~Accepted(r) => sends[r] <= lostMarks[r]

DInv == OwnRows /\ TodoHeld /\ \A r \in Rows : Ledger(r)

LEMMA DInvInit == Init => DInv
<1>. SUFFICES ASSUME Init PROVE DInv
  OBVIOUS
<1>1. OwnRows /\ TodoHeld
  BY DEF Init, OwnRows, TodoHeld, IdleWorker, NoClaim
<1>2. ASSUME NEW r \in Rows PROVE Ledger(r)
  <2>1. log[r] = NoLog /\ sends[r] = 0 /\ lostMarks[r] = 0
    BY DEF Init
  <2>2. ~Claimed(r) /\ ~Held(r) /\ ~Awaited(r)
    BY DEF Init, Claimed, Held, Awaited, Queued, ClaimedBy, HeldBy, AwaitedBy, IdleWorker
  <2>. QED
    BY <2>1, <2>2 DEF Ledger, NoLog, Open
<1>. QED BY <1>1, <1>2 DEF DInv

(***************************************************************************)
(* Steps that leave the claims and the history alone                       *)
(***************************************************************************)
\* A step that adds r to no claim, forgets no acceptance of it and leaves its
\* row alone, opens it again or deletes it for good keeps the ledger of r.
LEMMA LedgerKept ==
  ASSUME NEW r, Ledger(r), sends'[r] = sends[r], lostMarks'[r] = lostMarks[r],
         Held(r)' => Held(r), Claimed(r)' => Claimed(r), Awaited(r)' => Awaited(r),
         Accepted(r) => Accepted(r)',
         \/ log'[r] = log[r] /\ (Fresh(r)' => Fresh(r))
         \/ log'[r].status \in Open /\ (log[r].status \in Open \cup {"dead"} \/ Fresh(r))
         \/ log'[r] = NoLog /\ ~Fresh(r)'
  PROVE  Ledger(r)'
<1>1. CASE log'[r] = log[r] /\ (Fresh(r)' => Fresh(r))
  BY <1>1 DEF Ledger
<1>2. CASE log'[r].status \in Open /\ (log[r].status \in Open \cup {"dead"} \/ Fresh(r))
  <2>1. ~Fresh(r)'
    BY <1>2 DEF Fresh, Open
  <2>2. log[r].status \in Open \cup {"dead"} /\ ~Accepted(r)' => sends[r] <= lostMarks[r]
    BY DEF Ledger
  <2>3. Fresh(r) => sends[r] <= lostMarks[r]
    BY DEF Ledger
  <2>. QED
    BY <1>2, <2>1, <2>2, <2>3 DEF Ledger
<1>3. CASE log'[r] = NoLog /\ ~Fresh(r)'
  BY <1>3 DEF Ledger, NoLog, Open
<1>. QED BY <1>1, <1>2, <1>3

LEMMA ClaimsKept ==
  ASSUME UNCHANGED <<disp, chan, worker>>
  PROVE  /\ OwnRows => OwnRows'
         /\ TodoHeld => TodoHeld'
         /\ \A r \in Rows : /\ Held(r)' <=> Held(r)
                            /\ Claimed(r)' <=> Claimed(r)
                            /\ Awaited(r)' <=> Awaited(r)
                            /\ Accepted(r)' <=> Accepted(r)
                            /\ Queued(r)' <=> Queued(r)
BY DEF OwnRows, TodoHeld, Held, Claimed, Awaited, Accepted, Queued,
       HeldBy, ClaimedBy, AwaitedBy, AcceptedBy

\* What a step outside the runner does to a row.
Touched(r) ==
  \/ log'[r] = log[r] /\ (Fresh(r)' => Fresh(r))
  \/ log'[r].status \in Open /\ (log[r].status \in Open \cup {"dead"} \/ Fresh(r))
  \/ log'[r] = NoLog /\ ~Fresh(r)'

LEMMA DInvOutside ==
  ASSUME DInv, UNCHANGED <<disp, chan, worker, sends, lostMarks>>, \A r \in Rows : Touched(r)
  PROVE  DInv'
<1>1. OwnRows' /\ TodoHeld'
  BY ClaimsKept DEF DInv
<1>2. ASSUME NEW r \in Rows PROVE Ledger(r)'
  <2>1. Ledger(r) /\ Touched(r)
    BY DEF DInv
  <2>. QED
    BY <2>1, ClaimsKept, LedgerKept DEF Touched
<1>. QED BY <1>1, <1>2 DEF DInv

\* The entries' stages only advance, deleted webhooks stay deleted.
LEMMA FreshOld ==
  ASSUME NEW r \in Rows, log'[r] = log[r],
         hook[HookOf(r)] = "deleted" => hook'[HookOf(r)] = "deleted",
         poll[EntryOf(r)].stage = "done" => poll'[EntryOf(r)].stage = "done"
  PROVE  Touched(r)
BY DEF Touched, Fresh

LEMMA PollerTouches == ASSUME TypeOK, Poller PROVE \A r \in Rows : Touched(r)
<1>0. \A r \in Rows : HookOf(r) \in Webhooks /\ EntryOf(r) \in Entries
  BY DEF Rows, HookOf, EntryOf
<1>1. ASSUME NEW e \in Entries, StoreEntry(e) PROVE \A r \in Rows : Touched(r)
  <2>1. /\ UNCHANGED <<hook, log>>
        /\ \A x \in Entries : poll[x].stage = "done" => poll'[x].stage = "done"
    BY <1>1 DEF StoreEntry, TypeOK
  <2>. QED BY <2>1, <1>0, FreshOld
<1>2. ASSUME NEW e \in Entries, DropUndeliveredRelayEntries(e) PROVE \A r \in Rows : Touched(r)
  <2>1. /\ UNCHANGED <<hook, log>>
        /\ \A x \in Entries : poll[x].stage = "done" => poll'[x].stage = "done"
    BY <1>2 DEF DropUndeliveredRelayEntries, TypeOK
  <2>. QED BY <2>1, <1>0, FreshOld
<1>3. ASSUME NEW e \in Entries, NEW route \in Routes[e], EnqueueWebhookLogs(e, route)
      PROVE \A r \in Rows : Touched(r)
  <2>. DEFINE n == <<route[1], e>>
  <2>1. n \in Rows /\ HookOf(n) = route[1] /\ EntryOf(n) = e
    BY ConstantsAssumption DEF Rows, HookOf, EntryOf
  <2>2. /\ UNCHANGED hook
        /\ poll[e].stage = "fanout"
        /\ \A x \in Entries : poll[x].stage = "done" => poll'[x].stage = "done"
        /\ log' = log \/ (Inserts(n) /\ log' = [log EXCEPT ![n] = NewRow(route[1])])
    BY <1>3 DEF EnqueueWebhookLogs, TypeOK
  <2>. HIDE DEF n
  <2>3. CASE log' = log
    BY <2>2, <2>3, <1>0, FreshOld
  <2>4. CASE Inserts(n) /\ log' = [log EXCEPT ![n] = NewRow(route[1])]
    <3>1. \A r \in Rows : r # n => log'[r] = log[r]
      BY <2>4 DEF TypeOK, DbTypeOK
    <3>2. log'[n].status \in Open
      BY <2>1, <2>4 DEF TypeOK, DbTypeOK, NewRow, Open
    <3>3. Fresh(n)
      BY <2>1, <2>2, <2>4 DEF Inserts, Fresh
    <3>4. Touched(n)
      BY <3>2, <3>3 DEF Touched
    <3>5. \A r \in Rows : r # n => Touched(r)
      BY <3>1, <2>2, <1>0, FreshOld
    <3>. QED BY <3>4, <3>5
  <2>. QED BY <2>2, <2>3, <2>4
<1>. QED BY <1>1, <1>2, <1>3 DEF Poller

LEMMA RequeueTouches ==
  ASSUME TypeOK, NEW S \in SUBSET Rows, Requeue(S),
         \A r \in S : log[r].status \in Open \cup {"dead"}
  PROVE  \A r \in Rows : Touched(r)
<1>1. /\ log' = [r \in Rows |-> IF r \in S THEN [log[r] EXCEPT !.status = "pending", !.due = "now"] ELSE log[r]]
      /\ UNCHANGED <<hook, poll>>
  BY DEF Requeue, SetRows
<1>2. \A r \in Rows : log[r] \in LogRows
  BY DEF TypeOK, DbTypeOK
<1>3. \A r \in S : log'[r].status = "pending"
  BY <1>1, <1>2 DEF LogRows
<1>4. \A r \in Rows \ S : log'[r] = log[r]
  BY <1>1
<1>5. \A r \in S : Touched(r)
  BY <1>3 DEF Touched, Open
<1>6. \A r \in Rows \ S : Touched(r)
  BY <1>1, <1>4, FreshOld
<1>. QED BY <1>5, <1>6

LEMMA OutsideTouches ==
  ASSUME TypeOK, Poller \/ Time \/ (Environment /\ ~Crash)
  PROVE  \A r \in Rows : Touched(r)
<1>0. \A r \in Rows : HookOf(r) \in Webhooks /\ EntryOf(r) \in Entries
  BY DEF Rows, HookOf, EntryOf
<1>1. ASSUME NEW s \in Rows, RowDue(s) PROVE \A r \in Rows : Touched(r)
  <2>1. /\ \A r \in Rows : r # s => log'[r] = log[r]
        /\ log[s].status \in Open /\ UNCHANGED <<hook, poll>>
    BY <1>1 DEF RowDue, TypeOK, DbTypeOK
  <2>2. log'[s].status = log[s].status
    BY <1>1 DEF RowDue, TypeOK, DbTypeOK, LogRows
  <2>3. Touched(s)
    BY <2>1, <2>2 DEF Touched
  <2>4. \A r \in Rows : r # s => Touched(r)
    BY <2>1, FreshOld
  <2>. QED BY <2>3, <2>4
<1>2. ASSUME NEW w \in Webhooks, GraceEnds(w) \/ FloodEnds(w) PROVE \A r \in Rows : Touched(r)
  BY <1>2, FreshOld DEF GraceEnds, FloodEnds, dbVars
<1>3. ASSUME NEW s \in Rows, RetryWebhookLogNow(s) PROVE \A r \in Rows : Touched(r)
  BY <1>3, RequeueTouches DEF RetryWebhookLogNow, Open
<1>4. ASSUME NEW w \in Webhooks, RetryAllWebhookLogs(w) PROVE \A r \in Rows : Touched(r)
  <2>. DEFINE S == {r \in Rows : HookOf(r) = w /\ log[r].status \in {"failed", "dead"}}
  <2>1. Requeue(S) /\ S \in SUBSET Rows /\ \A r \in S : log[r].status \in Open \cup {"dead"}
    BY <1>4 DEF RetryAllWebhookLogs, Open
  <2>. HIDE DEF S
  <2>. QED BY <2>1, RequeueTouches
<1>5. ASSUME NEW s \in Rows, PurgeLog(s) PROVE \A r \in Rows : Touched(r)
  <2>1. /\ log' = [r \in Rows |-> IF r \in {s} THEN NoLog ELSE log[r]]
        /\ poll[EntryOf(s)].stage = "done" /\ UNCHANGED <<hook, poll>>
    BY <1>5 DEF PurgeLog, DeleteRows, SetRows
  <2>2. Touched(s)
    BY <2>1 DEF Touched, Fresh
  <2>3. \A r \in Rows : r # s => Touched(r)
    BY <2>1, FreshOld
  <2>. QED BY <2>2, <2>3
<1>6. ASSUME NEW w \in Webhooks, SetWebhookEnabled(w) PROVE \A r \in Rows : Touched(r)
  <2>1. UNCHANGED <<log, poll>> /\ \A x \in Webhooks : hook[x] = "deleted" => hook'[x] = "deleted"
    BY <1>6 DEF SetWebhookEnabled, TypeOK, DbTypeOK
  <2>. QED BY <2>1, <1>0, FreshOld
<1>7. ASSUME NEW w \in Webhooks, DeleteWebhook(w) PROVE \A r \in Rows : Touched(r)
  <2>1. log' = [r \in Rows |-> IF r \in {s \in Rows : HookOf(s) = w} THEN NoLog ELSE log[r]]
    BY <1>7 DEF DeleteWebhook, DeleteRows, SetRows
  <2>2. /\ hook'[w] = "deleted" /\ UNCHANGED poll
        /\ \A x \in Webhooks : hook[x] = "deleted" => hook'[x] = "deleted"
    BY <1>7 DEF DeleteWebhook, TypeOK, DbTypeOK
  <2>3. \A r \in Rows : HookOf(r) = w => Touched(r)
    BY <2>1, <2>2 DEF Touched, Fresh
  <2>4. \A r \in Rows : HookOf(r) # w => Touched(r)
    BY <2>1, <2>2, <1>0, FreshOld
  <2>. QED BY <2>3, <2>4
<1>8. ASSUME NEW e \in Entries, PurgeEntry(e) PROVE \A r \in Rows : Touched(r)
  BY <1>8, FreshOld DEF PurgeEntry
<1>. QED
  BY <1>1, <1>2, <1>3, <1>4, <1>5, <1>6, <1>7, <1>8, PollerTouches DEF Time, Environment

(***************************************************************************)
(* The dispatcher: what it claims is open and in nobody else's hands       *)
(***************************************************************************)
\* A row of a webhook the in-flight set does not hold is in no worker's hands.
LEMMA FreeUnheld ==
  ASSUME TypeOK, Hold, OwnRows, TodoHeld, NEW r \in Rows, inflight[HookOf(r)] = "free"
  PROVE  /\ \A k \in Workers : r \notin worker[k].job.rows
         /\ \A i \in 1..Len(chan) : r \notin chan[i].rows
         /\ ~Accepted(r)
<1>1. \A i \in 1..Len(chan) : r \notin chan[i].rows
  BY DEF OwnRows, Hold, HeldIsBusy
<1>2. \A k \in Workers : r \notin worker[k].job.rows
  BY DEF OwnRows, TodoHeld, Hold, HeldIsBusy, Working
<1>3. ~Accepted(r)
  BY <1>2 DEF TodoHeld, Accepted, AcceptedBy
<1>. QED BY <1>1, <1>2, <1>3

\* Claiming an open row whose webhook is free keeps the ledger.
LEMMA LedgerClaims ==
  ASSUME DInv, NEW r \in Rows, UNCHANGED <<log, hook, poll, chan, worker, sends, lostMarks>>,
         Queued(r)' => Queued(r) \/ (log[r].status \in Open /\ ~Accepted(r))
  PROVE  Ledger(r)'
<1>1. Ledger(r)
  BY DEF DInv
<1>2. /\ Fresh(r)' <=> Fresh(r)
      /\ Accepted(r)' <=> Accepted(r)
      /\ Held(r)' => Held(r) \/ Queued(r)'
      /\ Awaited(r)' => Awaited(r) \/ Queued(r)'
      /\ Claimed(r)' => Claimed(r) \/ Queued(r)'
      /\ Queued(r) => Held(r) /\ Awaited(r) /\ Claimed(r)
  BY DEF Fresh, Accepted, Held, Awaited, Claimed, AcceptedBy, HeldBy, AwaitedBy, ClaimedBy
<1>3. CASE Queued(r)' => Queued(r)
  BY <1>1, <1>2, <1>3, LedgerKept
<1>4. CASE log[r].status \in Open /\ ~Accepted(r)
  <2>1. ~Fresh(r)
    BY <1>4 DEF Fresh, Open
  <2>2. sends[r] <= lostMarks[r]
    BY <1>1, <1>4 DEF Ledger
  <2>3. /\ Ledger(r) => (log[r].due = "now" => log[r].status \in Open)
        /\ Ledger(r) => sends[r] <= 1 + lostMarks[r]
    BY DEF Ledger
  <2>. QED
    BY <1>1, <1>2, <1>4, <2>1, <2>2, <2>3 DEF Ledger
<1>. QED BY <1>3, <1>4

LEMMA DInvDispatcher == ASSUME TypeOK, Hold, DInv, Dispatcher PROVE DInv'
<1>0. disp \in [pc : {"start", "paused", "claim", "peers", "send"},
                exclude : SUBSET Webhooks, batch : SUBSET Claims]
  BY DEF TypeOK, MemTypeOK
<1>a. OwnRows /\ TodoHeld /\ (\A r \in Rows : Ledger(r))
  BY DEF DInv
<1>b. UNCHANGED <<log, hook, poll, worker, sends, lostMarks>>
  BY DEF Dispatcher, DispatchExclude, DispatchPaused, DispatchClaim, DispatchPeers, DispatchSend,
         dbVars, histVars
<1>c. TodoHeld'
  BY <1>a, <1>b DEF TodoHeld
<1>1. CASE DispatchExclude \/ DispatchPaused
  <2>1. disp'.batch = disp.batch /\ UNCHANGED chan
    BY <1>0, <1>1 DEF DispatchExclude, DispatchPaused
  <2>2. OwnRows' /\ \A r \in Rows : Queued(r)' <=> Queued(r)
    BY <1>a, <1>b, <2>1 DEF OwnRows, Queued
  <2>. QED
    BY <1>a, <1>b, <1>c, <2>1, <2>2, LedgerClaims DEF DInv
<1>2. CASE DispatchClaim
  <2>1. UNCHANGED <<inflight, chan>> /\ disp.pc = "claim"
    BY <1>2 DEF DispatchClaim
  <2>2. ASSUME NEW j \in disp'.batch
        PROVE  \E r \in Rows : /\ j = Claim(r, {r}) /\ log[r].due = "now"
                               /\ HookOf(r) \in Webhooks /\ HookOf(r) \notin disp.exclude
    <3>1. CASE disp' = [pc |-> "start", exclude |-> {}, batch |-> {}]
      BY <2>2, <3>1
    <3>2. CASE \E S \in SUBSET Rows :
                 /\ ClaimDueWebhookLogs(S)
                 /\ disp' = [pc |-> IF S = {} THEN "start" ELSE "peers",
                             exclude |-> {}, batch |-> {Claim(r, {r}) : r \in S}]
      <4>0. PICK S \in SUBSET Rows :
              /\ ClaimDueWebhookLogs(S)
              /\ disp' = [pc |-> IF S = {} THEN "start" ELSE "peers",
                          exclude |-> {}, batch |-> {Claim(r, {r}) : r \in S}]
        BY <3>2
      <4>1. disp'.batch = {Claim(r, {r}) : r \in S}
        BY <4>0
      <4>2. PICK r \in S : j = Claim(r, {r})
        BY <2>2, <4>1
      <4>3. r \in Rows /\ HookOf(r) \notin disp.exclude /\ IsOldestOf(r)
        BY <4>0, <4>2 DEF ClaimDueWebhookLogs
      <4>4. log[r].due = "now" /\ HookOf(r) \in Webhooks
        BY <4>3 DEF IsOldestOf, Rows, HookOf
      <4>. QED BY <4>2, <4>3, <4>4
    <3>. QED BY <1>2, <3>1, <3>2 DEF DispatchClaim
  <2>3. \A j \in disp'.batch : j.carrier \in j.rows /\ \A r \in j.rows : HookOf(r) = j.hook
    BY <2>2 DEF Claim
  <2>4. OwnRows'
    BY <1>a, <1>b, <2>1, <2>3 DEF OwnRows
  <2>5. ASSUME NEW r \in Rows, Queued(r)' PROVE Queued(r) \/ (log[r].status \in Open /\ ~Accepted(r))
    <3>1. CASE \E i \in 1..Len(chan) : r \in chan[i].rows
      BY <3>1 DEF Queued
    <3>2. CASE \E j \in disp'.batch : r \in j.rows
      <4>1. log[r].due = "now" /\ HookOf(r) \in Webhooks /\ HookOf(r) \notin disp.exclude
        BY <2>2, <3>2 DEF Claim
      <4>2. inflight[HookOf(r)] = "free"
        BY <2>1, <4>1 DEF Hold, ClaimableIsFree
      <4>3. ~Accepted(r)
        BY <1>a, <4>2, FreeUnheld
      <4>4. log[r].status \in Open
        BY <1>a, <4>1 DEF Ledger
      <4>. QED BY <4>3, <4>4
    <3>. QED BY <2>1, <2>5, <3>1, <3>2 DEF Queued
  <2>. QED
    BY <1>b, <1>c, <2>1, <2>4, <2>5, LedgerClaims DEF DInv
<1>3. CASE DispatchPeers
  <2>1. PICK P \in [disp.batch -> SUBSET Rows] :
          /\ \A j \in disp.batch : WithPeers(j, P[j]) \/ P[j] = {}
          /\ disp' = [disp EXCEPT !.pc = "send",
                     !.batch = {[j EXCEPT !.rows = @ \cup P[j]] : j \in disp.batch}]
    BY <1>3 DEF DispatchPeers
  <2>2. UNCHANGED <<inflight, chan>>
    BY <1>3 DEF DispatchPeers
  <2>3. \A j \in disp.batch : /\ [j EXCEPT !.rows = @ \cup P[j]].hook = j.hook
                              /\ [j EXCEPT !.rows = @ \cup P[j]].rows = j.rows \cup P[j]
    BY <1>0 DEF Claims
  <2>4. disp'.batch = {[j EXCEPT !.rows = @ \cup P[j]] : j \in disp.batch}
    BY <1>0, <2>1
  <2>5. \A b \in disp'.batch : \E j \in disp.batch : b.hook = j.hook /\ b.rows = j.rows \cup P[j]
    BY <2>3, <2>4
  <2>6. ASSUME NEW j \in disp.batch, NEW r \in P[j]
        PROVE  r \in Rows /\ log[r].due = "now" /\ HookOf(r) = j.hook
    <3>1. WithPeers(j, P[j])
      BY <2>1, <2>6
    <3>2. r \in DigestPeers(j.carrier)
      BY <3>1, <2>6 DEF WithPeers
    <3>. QED BY <1>a, <3>2 DEF DigestPeers, DueRows, OwnRows
  <2>6a. \A b \in disp'.batch : b.carrier \in b.rows
    <3>1. \A j \in disp.batch : [j EXCEPT !.rows = @ \cup P[j]].carrier = j.carrier
      BY <1>0 DEF Claims
    <3>2. \A j \in disp.batch : j.carrier \in j.rows \cup P[j]
      BY <1>a DEF OwnRows
    <3>3. \A b \in disp'.batch : \E j \in disp.batch : b.carrier = j.carrier /\ b.rows = j.rows \cup P[j]
      BY <2>3, <2>4, <3>1, ZenonT(40)
    <3>. QED
      BY <3>2, <3>3
  <2>7. OwnRows'
    BY <1>a, <1>b, <2>2, <2>5, <2>6, <2>6a DEF OwnRows
  <2>8. ASSUME NEW r \in Rows, Queued(r)' PROVE Queued(r) \/ (log[r].status \in Open /\ ~Accepted(r))
    <3>1. CASE \E i \in 1..Len(chan) : r \in chan[i].rows
      BY <3>1 DEF Queued
    <3>2. CASE \E b \in disp'.batch : r \in b.rows
      <4>1. PICK j \in disp.batch : r \in j.rows \/ r \in P[j]
        BY <2>5, <3>2
      <4>2. CASE r \in j.rows
        BY <4>2 DEF Queued
      <4>3. CASE r \in P[j]
        <5>1. log[r].due = "now" /\ inflight[HookOf(r)] = "free"
          BY <2>6, <4>3 DEF Hold, ClaimableIsFree
        <5>2. ~Accepted(r)
          BY <1>a, <5>1, FreeUnheld
        <5>3. log[r].status \in Open
          BY <1>a, <5>1 DEF Ledger
        <5>. QED BY <5>2, <5>3
      <4>. QED BY <4>1, <4>2, <4>3
    <3>. QED BY <2>2, <2>8, <3>1, <3>2 DEF Queued
  <2>. QED
    BY <1>b, <1>c, <2>2, <2>7, <2>8, LedgerClaims DEF DInv
<1>4. CASE DispatchSend
  <2>1. PICK j \in disp.batch : /\ chan' = Append(chan, j)
                                /\ disp' = [disp EXCEPT !.batch = @ \ {j},
                                     !.pc = IF disp.batch = {j} THEN "start" ELSE "send"]
    BY <1>4 DEF DispatchSend
  <2>2. disp'.batch = disp.batch \ {j}
    BY <1>0, <2>1
  <2>3. /\ Len(chan') = Len(chan) + 1 /\ Len(chan) \in Nat
        /\ \A i \in 1..Len(chan) : chan'[i] = chan[i]
        /\ chan'[Len(chan) + 1] = j
    BY <2>1, HoldTypes, AppendProperties
  <2>4. \A i \in 1..Len(chan') : (i \in 1..Len(chan) /\ chan'[i] = chan[i]) \/ chan'[i] = j
    BY <2>3
  <2>5. OwnRows'
    BY <1>a, <1>b, <2>2, <2>4 DEF OwnRows
  <2>6. \A r \in Rows : Queued(r)' => Queued(r)
    BY <2>2, <2>4 DEF Queued
  <2>7. ASSUME NEW r \in Rows PROVE Ledger(r)'
    <3>0. Queued(r)' => Queued(r)
      BY <2>6
    <3>1. (Held(r)' => Held(r)) /\ (Claimed(r)' => Claimed(r))
      BY <1>b, <3>0 DEF Held, Claimed, HeldBy, ClaimedBy
    <3>2. Awaited(r)' => Awaited(r)
      BY <1>b, <3>0 DEF Awaited, AwaitedBy
    <3>3. (Accepted(r) => Accepted(r)') /\ (Fresh(r)' => Fresh(r))
      BY <1>b DEF Accepted, AcceptedBy, Fresh
    <3>. QED
      BY <1>a, <1>b, <3>1, <3>2, <3>3, LedgerKept
  <2>. QED
    BY <1>c, <2>5, <2>7 DEF DInv
<1>. QED
  BY <1>1, <1>2, <1>3, <1>4 DEF Dispatcher

(***************************************************************************)
(* The workers, in terms of the fields they change                         *)
(***************************************************************************)
\* Only worker k moves, and keeps its claim.
Moves(k) ==
  /\ worker'[k].job = worker[k].job
  /\ \A q \in Workers : q # k => worker'[q] = worker[q]
  /\ UNCHANGED <<disp, chan>>

LEMMA MovesIf ==
  ASSUME TypeOK, NEW k \in Workers, NEW v, worker' = [worker EXCEPT ![k] = v],
         v.job = worker[k].job, UNCHANGED <<disp, chan>>
  PROVE  Moves(k) /\ worker'[k] = v
BY DEF TypeOK, MemTypeOK, Moves

LEMMA LoadMoves ==
  ASSUME TypeOK, NEW k \in Workers, WorkerLoad(k)
  PROVE  /\ Moves(k) /\ worker[k].pc = "load" /\ UNCHANGED <<dbVars, poll, histVars>>
         /\ \/ /\ worker'[k].pc = "mark" /\ worker'[k].out \in {"retry", "dead", "park"}
               /\ worker'[k].todo = worker[k].todo
            \/ /\ worker'[k].pc = "send" /\ worker'[k].todo = Loaded(worker[k].job)
               /\ hook[worker[k].job.hook] # "deleted"
<1>. DEFINE w == worker[k]
<1>0. w \in WorkerStates
  BY DEF TypeOK, MemTypeOK
<1>1. UNCHANGED <<disp, chan, dbVars, poll, histVars>> /\ w.pc = "load"
  BY DEF WorkerLoad
<1>2. ASSUME NEW o \in {"retry", "dead", "park"},
             worker' = [worker EXCEPT ![k] = [w EXCEPT !.pc = "mark", !.out = o]]
      PROVE  /\ Moves(k) /\ worker'[k].pc = "mark" /\ worker'[k].out = o
             /\ worker'[k].todo = worker[k].todo
  <2>. DEFINE v == [w EXCEPT !.pc = "mark", !.out = o]
  <2>1. v.job = w.job /\ v.pc = "mark" /\ v.out = o /\ v.todo = w.todo
    BY <1>0 DEF WorkerStates
  <2>. HIDE DEF v
  <2>. QED BY <1>1, <1>2, <2>1, MovesIf DEF v
<1>3. ASSUME worker' = [worker EXCEPT ![k] = [w EXCEPT !.pc = "send", !.todo = Loaded(w.job)]]
      PROVE  Moves(k) /\ worker'[k].pc = "send" /\ worker'[k].todo = Loaded(worker[k].job)
  <2>. DEFINE v == [w EXCEPT !.pc = "send", !.todo = Loaded(w.job)]
  <2>1. v.job = w.job /\ v.pc = "send" /\ v.todo = Loaded(w.job)
    BY <1>0 DEF WorkerStates
  <2>. HIDE DEF v
  <2>. QED BY <1>1, <1>3, <2>1, MovesIf DEF v
<1>4. \/ \E o \in {"retry", "dead", "park"} :
           worker' = [worker EXCEPT ![k] = [w EXCEPT !.pc = "mark", !.out = o]]
      \/ /\ hook[w.job.hook] # "deleted"
         /\ worker' = [worker EXCEPT ![k] = [w EXCEPT !.pc = "send", !.todo = Loaded(w.job)]]
  BY DEF WorkerLoad
<1>. QED
  BY <1>1, <1>2, <1>3, <1>4

LEMMA SendMoves ==
  ASSUME TypeOK, NEW k \in Workers, WorkerSend(k)
  PROVE  /\ Moves(k) /\ worker[k].pc = "send" /\ worker'[k].pc = "mark"
         /\ worker'[k].todo = worker[k].todo
         /\ worker'[k].out \in {"sent", "retry", "flood", "dead"}
         /\ sends' = IF worker'[k].out = "sent"
                     THEN [r \in Rows |-> IF r \in worker[k].todo THEN sends[r] + 1 ELSE sends[r]]
                     ELSE sends
         /\ UNCHANGED <<dbVars, poll, lostMarks, faults>>
<1>. DEFINE w == worker[k]
<1>0. w \in WorkerStates
  BY DEF TypeOK, MemTypeOK
<1>1. UNCHANGED <<disp, chan, dbVars, poll, lostMarks, faults>> /\ w.pc = "send"
  BY DEF WorkerSend, NoFault
<1>2. PICK o \in {"sent", "retry", "flood", "dead"} :
        /\ worker' = [worker EXCEPT ![k] = [w EXCEPT !.pc = "mark", !.out = o]]
        /\ sends' = IF o = "sent"
                    THEN [r \in Rows |-> IF r \in worker[k].todo THEN sends[r] + 1 ELSE sends[r]]
                    ELSE sends
  BY DEF WorkerSend
<1>. DEFINE v == [w EXCEPT !.pc = "mark", !.out = o]
<1>3. v.job = w.job /\ v.pc = "mark" /\ v.out = o /\ v.todo = w.todo
  BY <1>0 DEF WorkerStates
<1>. HIDE DEF v
<1>4. Moves(k) /\ worker'[k] = v
  BY <1>1, <1>2, <1>3, MovesIf DEF v
<1>. QED BY <1>1, <1>2, <1>3, <1>4

\* The write of the status: done, or failed and ignored.
LEMMA MarkMoves ==
  ASSUME TypeOK, NEW k \in Workers, WorkerMark(k)
  PROVE  /\ Moves(k) /\ worker[k].pc = "mark" /\ worker'[k].todo = worker[k].todo
         /\ worker'[k].out = worker[k].out
         /\ worker'[k].pc = IF worker[k].out = "sent" THEN "after" ELSE "free"
         /\ UNCHANGED <<entry, uentry, hook, poll, sends>>
         /\ \/ /\ UNCHANGED <<lostMarks, faults>>
               /\ log' = [r \in Rows |-> IF r \in worker[k].job.rows
                            THEN MarkedRow(worker[k].job, r, worker[k].out) ELSE log[r]]
            \/ /\ UNCHANGED log /\ Fault("dbfail")
               /\ lostMarks' = IF worker[k].out = "sent"
                    THEN [r \in Rows |-> IF r \in worker[k].todo
                                         THEN lostMarks[r] + 1 ELSE lostMarks[r]]
                    ELSE lostMarks
<1>. DEFINE w == worker[k]
<1>0. w \in WorkerStates
  BY DEF TypeOK, MemTypeOK
<1>1. UNCHANGED <<disp, chan, entry, uentry, hook, poll, sends>> /\ w.pc = "mark"
  BY DEF WorkerMark
<1>2. PICK ok \in BOOLEAN :
        /\ worker' = [worker EXCEPT ![k] =
             [w EXCEPT !.pc = IF w.out = "sent" THEN "after" ELSE "free", !.stored = ok]]
        /\ ok => /\ UNCHANGED <<lostMarks, faults>>
                 /\ log' = [r \in Rows |-> IF r \in worker[k].job.rows
                            THEN MarkedRow(worker[k].job, r, worker[k].out) ELSE log[r]]
        /\ ~ok => /\ UNCHANGED log /\ Fault("dbfail")
                  /\ lostMarks' = IF worker[k].out = "sent"
                    THEN [r \in Rows |-> IF r \in worker[k].todo
                                         THEN lostMarks[r] + 1 ELSE lostMarks[r]]
                    ELSE lostMarks
  BY DEF WorkerMark, SetRows, NoFault
<1>. DEFINE v == [w EXCEPT !.pc = IF w.out = "sent" THEN "after" ELSE "free", !.stored = ok]
<1>3. v.job = w.job /\ v.pc = (IF w.out = "sent" THEN "after" ELSE "free") /\ v.todo = w.todo /\ v.out = w.out
  BY <1>0 DEF WorkerStates
<1>3a. worker' = [worker EXCEPT ![k] = v]
  BY <1>2
<1>. HIDE DEF v
<1>4. Moves(k) /\ worker'[k] = v
  BY <1>1, <1>3, <1>3a, MovesIf
<1>. QED BY <1>1, <1>2, <1>3, <1>4

Closing == {"after", "outcome", "hash", "delete"}
OnSuccessSteps(k) == \/ OnSuccessBegin(k) \/ OnSuccessOutcome(k)
                     \/ OnSuccessHash(k) \/ OnSuccessDelete(k)

\* The next row, and what is known of the row in hand.
LEMMA NextRowMoves ==
  ASSUME TypeOK, NEW k \in Workers, worker' = NextRow(k), UNCHANGED <<disp, chan>>
  PROVE  /\ Moves(k) /\ worker'[k].pc = "after" /\ worker'[k].out = worker[k].out
         /\ worker'[k].todo = worker[k].todo \ {worker[k].row}
<1>. DEFINE w == worker[k]
            v == [w EXCEPT !.pc = "after", !.todo = w.todo \ {w.row}, !.row = <<>>]
<1>0. w \in WorkerStates
  BY DEF TypeOK, MemTypeOK
<1>1. v.job = w.job /\ v.pc = "after" /\ v.todo = w.todo \ {w.row} /\ v.out = w.out
  BY <1>0 DEF WorkerStates
<1>2. worker' = [worker EXCEPT ![k] = v]
  BY DEF NextRow
<1>. HIDE DEF v
<1>. QED BY <1>1, <1>2, MovesIf

LEMMA BeginMoves ==
  ASSUME TypeOK, NEW k \in Workers, OnSuccessBegin(k)
  PROVE  /\ Moves(k) /\ worker[k].pc = "after"
         /\ UNCHANGED <<hook, log, poll, sends, lostMarks>>
         /\ \/ /\ worker[k].todo = {} /\ worker'[k].todo = {} /\ worker'[k].pc = "free"
               /\ UNCHANGED <<entry, faults>>
            \/ \E r \in worker[k].todo :
                 \/ /\ DeletesOnSuccess(EntryOf(r))
                    /\ worker'[k].pc = "after" /\ worker'[k].todo = worker[k].todo \ {r}
                    /\ \/ /\ UNCHANGED faults
                          /\ IF Exists(EntryOf(r)) /\ ~Incomplete(r)
                             THEN DeleteEntry(EntryOf(r)) ELSE UNCHANGED entry
                       \/ Fault("dbfail") /\ UNCHANGED entry
                 \/ /\ ~DeletesOnSuccess(EntryOf(r))
                    /\ worker'[k].pc = "outcome" /\ worker'[k].todo = worker[k].todo
                    /\ worker'[k].row = r
                    /\ UNCHANGED entry /\ (UNCHANGED faults \/ Fault("dbfail"))
<1>. DEFINE w == worker[k]
<1>0. w \in WorkerStates
  BY DEF TypeOK, MemTypeOK
<1>1. UNCHANGED <<disp, chan, hook, log, poll, sends, lostMarks>> /\ w.pc = "after"
  BY DEF OnSuccessBegin, histVars
<1>2. ASSUME worker' = [worker EXCEPT ![k] = [w EXCEPT !.pc = "free"]]
      PROVE  Moves(k) /\ worker'[k].pc = "free" /\ worker'[k].todo = w.todo
  <2>. DEFINE v == [w EXCEPT !.pc = "free"]
  <2>1. v.job = w.job /\ v.pc = "free" /\ v.todo = w.todo
    BY <1>0 DEF WorkerStates
  <2>. HIDE DEF v
  <2>. QED BY <1>1, <1>2, <2>1, MovesIf DEF v
<1>3. ASSUME NEW r, worker' = [worker EXCEPT ![k] = [w EXCEPT !.todo = w.todo \ {r}]]
      PROVE  Moves(k) /\ worker'[k].pc = "after" /\ worker'[k].todo = w.todo \ {r}
  <2>. DEFINE v == [w EXCEPT !.todo = w.todo \ {r}]
  <2>1. v.job = w.job /\ v.pc = "after" /\ v.todo = w.todo \ {r}
    BY <1>0, <1>1 DEF WorkerStates
  <2>. HIDE DEF v
  <2>. QED BY <1>1, <1>3, <2>1, MovesIf DEF v
<1>4. ASSUME NEW r, worker' = [worker EXCEPT ![k] = [w EXCEPT !.pc = "outcome", !.row = r]]
      PROVE  Moves(k) /\ worker'[k].pc = "outcome" /\ worker'[k].todo = w.todo /\ worker'[k].row = r
  <2>. DEFINE v == [w EXCEPT !.pc = "outcome", !.row = r]
  <2>1. v.job = w.job /\ v.pc = "outcome" /\ v.todo = w.todo /\ v.row = r
    BY <1>0 DEF WorkerStates
  <2>. HIDE DEF v
  <2>. QED BY <1>1, <1>4, <2>1, MovesIf DEF v
<1>5. \/ /\ w.todo = {} /\ UNCHANGED <<entry, faults>>
         /\ worker' = [worker EXCEPT ![k] = [w EXCEPT !.pc = "free"]]
      \/ \E r \in w.todo :
           \/ /\ DeletesOnSuccess(EntryOf(r))
              /\ worker' = [worker EXCEPT ![k] = [w EXCEPT !.todo = w.todo \ {r}]]
              /\ \/ /\ UNCHANGED faults
                    /\ IF Exists(EntryOf(r)) /\ ~Incomplete(r)
                       THEN DeleteEntry(EntryOf(r)) ELSE UNCHANGED entry
                 \/ Fault("dbfail") /\ UNCHANGED entry
           \/ /\ ~DeletesOnSuccess(EntryOf(r))
              /\ worker' = [worker EXCEPT ![k] = [w EXCEPT !.pc = "outcome", !.row = r]]
              /\ UNCHANGED entry /\ (UNCHANGED faults \/ Fault("dbfail"))
  BY Zenon DEF OnSuccessBegin, NoFault
<1>6. CASE /\ w.todo = {} /\ UNCHANGED <<entry, faults>>
           /\ worker' = [worker EXCEPT ![k] = [w EXCEPT !.pc = "free"]]
  BY <1>1, <1>2, <1>6
<1>7. ASSUME NEW r \in w.todo, DeletesOnSuccess(EntryOf(r)),
             worker' = [worker EXCEPT ![k] = [w EXCEPT !.todo = w.todo \ {r}]]
      PROVE  Moves(k) /\ worker'[k].pc = "after" /\ worker'[k].todo = w.todo \ {r}
  BY <1>3, <1>7
<1>. HIDE DEF w
<1>. QED
  BY <1>1, <1>2, <1>4, <1>5, <1>6, <1>7 DEF w

LEMMA OnSuccessMoves ==
  ASSUME TypeOK, NEW k \in Workers,
         OnSuccessOutcome(k) \/ OnSuccessHash(k) \/ OnSuccessDelete(k)
  PROVE  /\ Moves(k) /\ worker[k].pc \in {"outcome", "hash", "delete"}
         /\ \/ /\ worker'[k].pc = "after"
               /\ worker'[k].todo = worker[k].todo \ {worker[k].row}
            \/ /\ worker'[k].pc \in {"hash", "delete"}
               /\ worker'[k].todo = worker[k].todo /\ worker'[k].row = worker[k].row
         /\ UNCHANGED <<hook, log, poll, sends, lostMarks>>
         /\ UNCHANGED entry \/ (\E e : Exists(e) /\ entry' = [entry EXCEPT ![e] = "stripped"])
         /\ UNCHANGED faults \/ Fault("dbfail")
<1>. DEFINE w == worker[k]
<1>0. w \in WorkerStates
  BY DEF TypeOK, MemTypeOK
<1>1. /\ UNCHANGED <<disp, chan, hook, log, poll, sends, lostMarks>>
      /\ w.pc \in {"outcome", "hash", "delete"}
      /\ UNCHANGED faults \/ Fault("dbfail")
      /\ UNCHANGED entry \/ (\E e : Exists(e) /\ entry' = [entry EXCEPT ![e] = "stripped"])
  BY DEF OnSuccessOutcome, OnSuccessHash, OnSuccessDelete, NoFault, histVars, dbVars
<1>2. \/ worker' = NextRow(k)
      \/ \E c \in {"hash", "delete"} : worker' = [worker EXCEPT ![k] = [w EXCEPT !.pc = c]]
  BY DEF OnSuccessOutcome, OnSuccessHash, OnSuccessDelete
<1>3. ASSUME NEW c \in {"hash", "delete"}, worker' = [worker EXCEPT ![k] = [w EXCEPT !.pc = c]]
      PROVE  Moves(k) /\ worker'[k].pc = c /\ worker'[k].todo = w.todo /\ worker'[k].row = w.row
  <2>. DEFINE v == [w EXCEPT !.pc = c]
  <2>1. v.job = w.job /\ v.pc = c /\ v.todo = w.todo /\ v.row = w.row
    BY <1>0 DEF WorkerStates
  <2>. HIDE DEF v
  <2>. QED BY <1>1, <1>3, <2>1, MovesIf DEF v
<1>4. CASE worker' = NextRow(k)
  BY <1>1, <1>4, NextRowMoves
<1>5. CASE \E c \in {"hash", "delete"} : worker' = [worker EXCEPT ![k] = [w EXCEPT !.pc = c]]
  BY <1>1, <1>3, <1>5
<1>. QED BY <1>2, <1>4, <1>5

(***************************************************************************)
(* The workers keep the ledger                                             *)
(***************************************************************************)
\* A claimed row is in one claim only.
LEMMA Sole ==
  ASSUME TypeOK, Hold, DInv, NEW k \in Workers, NEW r \in worker[k].job.rows
  PROVE  /\ r \in Rows /\ ~Queued(r) /\ worker[k].pc # "idle" /\ ClaimedBy(worker[k], r)
         /\ \A q \in Workers : q # k => r \notin worker[q].job.rows
<1>1. worker[k].pc # "idle" /\ HookOf(r) = worker[k].job.hook
  BY DEF DInv, TodoHeld, OwnRows
<1>2. r \in Rows /\ HookOf(r) \in Webhooks
  BY <1>1 DEF TypeOK, MemTypeOK, Working, Claims, Rows, HookOf
<1>3. inflight[HookOf(r)] = "busy"
  BY <1>1 DEF Hold, HeldIsBusy, Working
<1>4. \A j \in disp.batch : r \notin j.rows
  BY <1>3 DEF DInv, OwnRows, Hold, ClaimableIsFree
<1>5. \A i \in 1..Len(chan) : r \notin chan[i].rows
  BY <1>1 DEF DInv, OwnRows, Hold, Unique, Working
<1>6. \A q \in Workers : q # k => r \notin worker[q].job.rows
  BY <1>1 DEF DInv, OwnRows, TodoHeld, Hold, Unique, Working
<1>. QED BY <1>1, <1>2, <1>4, <1>5, <1>6 DEF Queued, ClaimedBy

\* What the predicates on r owe to the worker that moves.
LEMMA MovesRow ==
  ASSUME NEW k \in Workers, Moves(k), NEW r
  PROVE  /\ Queued(r)' <=> Queued(r)
         /\ Held(r)' => Held(r) \/ HeldBy(worker'[k], r)
         /\ Awaited(r)' => Awaited(r) \/ AwaitedBy(worker'[k], r)
         /\ Claimed(r)' => Claimed(r) \/ ClaimedBy(worker'[k], r)
         /\ Accepted(r) => Accepted(r)' \/ AcceptedBy(worker[k], r)
         /\ Accepted(r)' => Accepted(r) \/ AcceptedBy(worker'[k], r)
         /\ AcceptedBy(worker'[k], r) => Accepted(r)'
<1>1. Queued(r)' <=> Queued(r)
  BY DEF Moves, Queued
<1>2. \A q \in Workers : q # k => worker'[q] = worker[q]
  BY DEF Moves
<1>3. Held(r)' => Held(r) \/ HeldBy(worker'[k], r)
  BY <1>1, <1>2 DEF Held, HeldBy
<1>4. Awaited(r)' => Awaited(r) \/ AwaitedBy(worker'[k], r)
  BY <1>1, <1>2 DEF Awaited, AwaitedBy
<1>5. Claimed(r)' => Claimed(r) \/ ClaimedBy(worker'[k], r)
  BY <1>1, <1>2 DEF Claimed, ClaimedBy
<1>6. /\ Accepted(r) => Accepted(r)' \/ AcceptedBy(worker[k], r)
      /\ Accepted(r)' => Accepted(r) \/ AcceptedBy(worker'[k], r)
      /\ AcceptedBy(worker'[k], r) => Accepted(r)'
  BY <1>2 DEF Accepted, AcceptedBy
<1>. QED BY <1>1, <1>3, <1>4, <1>5, <1>6

\* A row of the worker that moves is in no other hands.
LEMMA MovesOwnRow ==
  ASSUME TypeOK, Hold, DInv, NEW k \in Workers, Moves(k), NEW r \in worker[k].job.rows
  PROVE  /\ Held(r)' => HeldBy(worker'[k], r)
         /\ Awaited(r)' => AwaitedBy(worker'[k], r)
         /\ Accepted(r) => AcceptedBy(worker[k], r)
         /\ (HeldBy(worker[k], r) => Held(r)) /\ (AwaitedBy(worker[k], r) => Awaited(r))
         /\ Claimed(r)
<1>1. /\ r \in Rows /\ ~Queued(r) /\ ClaimedBy(worker[k], r)
      /\ \A q \in Workers : q # k => r \notin worker[q].job.rows
  BY Sole
<1>2. \A q \in Workers : worker[q].todo \subseteq worker[q].job.rows
  BY DEF DInv, TodoHeld
<1>3. ~Queued(r)'
  BY <1>1, MovesRow
<1>4. \A q \in Workers : q # k => worker'[q] = worker[q]
  BY DEF Moves
<1>5. Held(r)' => HeldBy(worker'[k], r)
  BY <1>1, <1>3, <1>4 DEF Held, HeldBy
<1>6. Awaited(r)' => AwaitedBy(worker'[k], r)
  BY <1>1, <1>2, <1>3, <1>4 DEF Awaited, AwaitedBy
<1>7. Accepted(r) => AcceptedBy(worker[k], r)
  BY <1>1, <1>2 DEF Accepted, AcceptedBy
<1>8. (HeldBy(worker[k], r) => Held(r)) /\ (AwaitedBy(worker[k], r) => Awaited(r)) /\ Claimed(r)
  BY <1>1 DEF Held, Awaited, Claimed
<1>. QED BY <1>5, <1>6, <1>7, <1>8

\* The claims stay in order as long as the worker keeps to its own.
LEMMA MovesOwn ==
  ASSUME DInv, NEW k \in Workers, Moves(k), worker[k].pc # "idle", worker'[k].pc # "idle",
         worker'[k].todo \subseteq worker[k].job.rows
  PROVE  OwnRows' /\ TodoHeld'
<1>1. \A q \in Workers : worker'[q].job = worker[q].job /\ (q # k => worker'[q] = worker[q])
  BY DEF Moves
<1>2. TodoHeld'
  BY <1>1 DEF DInv, TodoHeld
<1>3. OwnRows'
  BY <1>1 DEF DInv, OwnRows, Moves
<1>. QED BY <1>2, <1>3

LEMMA LedgerMoves ==
  ASSUME DInv, NEW k \in Workers, Moves(k), NEW r \in Rows,
         sends'[r] = sends[r], lostMarks'[r] = lostMarks[r], log'[r] = log[r],
         UNCHANGED <<hook, poll>>,
         HeldBy(worker'[k], r) => Held(r), AwaitedBy(worker'[k], r) => Awaited(r),
         ClaimedBy(worker'[k], r) => Claimed(r),
         AcceptedBy(worker[k], r) => AcceptedBy(worker'[k], r)
  PROVE  Ledger(r)'
<1>1. Ledger(r) /\ (Fresh(r)' => Fresh(r))
  BY DEF DInv, Fresh
<1>. QED
  BY <1>1, MovesRow, LedgerKept

LEMMA DInvTake == ASSUME TypeOK, Hold, DInv, NEW k \in Workers, WorkerTake(k) PROVE DInv'
<1>1. /\ Head(chan) = chan[1] /\ chan # <<>> /\ worker[k].pc = "idle"
      /\ chan' = Tail(chan)
      /\ worker' = [worker EXCEPT ![k] =
           [IdleWorker EXCEPT !.pc = "load", !.job = Head(chan)]]
  BY DEF WorkerTake
<1>1a. UNCHANGED <<disp, log, hook, poll, sends, lostMarks>>
  BY DEF WorkerTake, dbVars, histVars
<1>2. 1 \in 1..Len(chan)
      /\ \A i \in 1..Len(chan') : chan'[i] = chan[i + 1] /\ i + 1 \in 1..Len(chan)
  <2>1. Len(chan) \in Nat /\ Len(chan) # 0
    BY <1>1, HoldTypes, EmptySeq
  <2>. QED
    BY <1>1, <2>1, HoldTypes, HeadTailProperties
<1>3. /\ worker'[k].job = chan[1] /\ worker'[k].pc = "load" /\ worker'[k].todo = {}
      /\ \A q \in Workers : q # k => worker'[q] = worker[q]
  BY <1>1, HoldTypes DEF IdleWorker
<1>4. OwnRows' /\ TodoHeld'
  <2>1. OwnRows'
    BY <1>1a, <1>2, <1>3 DEF DInv, OwnRows
  <2>2. TodoHeld'
    BY <1>3 DEF DInv, TodoHeld
  <2>. QED BY <2>1, <2>2
<1>5. ASSUME NEW r \in Rows PROVE Ledger(r)'
  <2>1. (Queued(r)' => Queued(r)) /\ (r \in chan[1].rows => Queued(r))
    BY <1>1a, <1>2 DEF Queued
  <2>2. Held(r)' => Held(r)
    BY <1>3, <2>1 DEF Held, HeldBy
  <2>3. Awaited(r)' => Awaited(r)
    BY <1>3, <2>1 DEF Awaited, AwaitedBy
  <2>4. Claimed(r)' => Claimed(r)
    BY <1>3, <2>1 DEF Claimed, ClaimedBy
  <2>5. Accepted(r) => Accepted(r)'
    BY <1>1, <1>3 DEF Accepted, AcceptedBy
  <2>6. Ledger(r) /\ (Fresh(r)' => Fresh(r))
    BY <1>1a DEF DInv, Fresh
  <2>. QED
    BY <1>1a, <2>2, <2>3, <2>4, <2>5, <2>6, LedgerKept
<1>. QED BY <1>4, <1>5 DEF DInv

LEMMA DInvLoad == ASSUME TypeOK, Hold, DInv, NEW k \in Workers, WorkerLoad(k) PROVE DInv'
<1>. DEFINE w == worker[k]
            v == worker'[k]
<1>1. /\ Moves(k) /\ w.pc = "load" /\ v.job = w.job
      /\ v.pc = "mark" \/ v.pc = "send"
      /\ v.pc = "mark" => v.out \in {"retry", "dead", "park"}
      /\ v.todo \in {w.todo, Loaded(w.job)}
      /\ UNCHANGED <<log, hook, poll, sends, lostMarks>>
  BY LoadMoves DEF Moves, dbVars, histVars
<1>2. v.todo \subseteq w.job.rows
  BY <1>1 DEF Loaded, DInv, TodoHeld
<1>. HIDE DEF w, v
<1>3. OwnRows' /\ TodoHeld'
  BY <1>1, <1>2, MovesOwn DEF w, v
<1>4. ASSUME NEW r \in Rows PROVE Ledger(r)'
  <2>1. HeldBy(v, r) \/ AwaitedBy(v, r) \/ ClaimedBy(v, r) =>
          HeldBy(w, r) /\ AwaitedBy(w, r) /\ ClaimedBy(w, r)
    BY <1>1, <1>2 DEF HeldBy, AwaitedBy, ClaimedBy
  <2>2. HeldBy(w, r) /\ AwaitedBy(w, r) /\ ClaimedBy(w, r) => Held(r) /\ Awaited(r) /\ Claimed(r)
    BY DEF w, Held, Awaited, Claimed
  <2>3. ~AcceptedBy(w, r)
    BY <1>1 DEF AcceptedBy
  <2>. QED
    BY <1>1, <2>1, <2>2, <2>3, LedgerMoves DEF w, v
<1>. QED BY <1>3, <1>4 DEF DInv

LEMMA DInvSend == ASSUME TypeOK, Hold, DInv, NEW k \in Workers, WorkerSend(k) PROVE DInv'
<1>. DEFINE w == worker[k]
            v == worker'[k]
<1>1. /\ Moves(k) /\ w.pc = "send" /\ v.pc = "mark" /\ v.job = w.job /\ v.todo = w.todo
      /\ sends' = IF v.out = "sent"
                  THEN [r \in Rows |-> IF r \in w.todo THEN sends[r] + 1 ELSE sends[r]]
                  ELSE sends
      /\ UNCHANGED <<log, hook, poll, lostMarks>>
  BY SendMoves DEF Moves, dbVars
<1>2. w.todo \subseteq w.job.rows
  BY DEF DInv, TodoHeld
<1>. HIDE DEF w, v
<1>3. OwnRows' /\ TodoHeld'
  BY <1>1, <1>2, MovesOwn DEF w, v
<1>4. ASSUME NEW r \in Rows PROVE Ledger(r)'
  <2>1. CASE v.out = "sent" /\ r \in w.todo
    <3>1. /\ AwaitedBy(w, r) /\ AcceptedBy(v, r) /\ ~AwaitedBy(v, r)
          /\ HeldBy(w, r) /\ r \in w.job.rows
      BY <1>1, <1>2, <2>1 DEF AwaitedBy, AcceptedBy, HeldBy
    <3>2. Held(r) /\ Awaited(r) /\ Claimed(r) /\ ~Awaited(r)'
      BY <1>1, <3>1, MovesOwnRow DEF w, v
    <3>3. Accepted(r)'
      BY <1>1, <3>1, MovesRow DEF v
    <3>4. Ledger(r)
      BY DEF DInv
    <3>5. sends[r] <= lostMarks[r] /\ log[r].status \in Open \cup {"none"} /\ ~Fresh(r)
      BY <3>2, <3>4 DEF Ledger
    <3>6. sends'[r] <= 1 + lostMarks'[r]
      <4>1. sends'[r] = sends[r] + 1 /\ lostMarks'[r] = lostMarks[r]
        BY <1>1, <2>1
      <4>2. sends[r] \in Nat /\ lostMarks[r] \in Nat
        BY DEF TypeOK
      <4>. QED BY <3>5, <4>1, <4>2
    <3>7. ~Fresh(r)' /\ log' = log
      BY <1>1, <3>5 DEF Fresh
    <3>. QED
      BY <3>2, <3>3, <3>4, <3>5, <3>6, <3>7 DEF Ledger
  <2>2. CASE ~(v.out = "sent" /\ r \in w.todo)
    <3>1. sends'[r] = sends[r]
      BY <1>1, <2>2
    <3>2. ~AwaitedBy(v, r) /\ ~AcceptedBy(w, r)
      BY <1>1 DEF AwaitedBy, AcceptedBy
    <3>3. (HeldBy(v, r) => HeldBy(w, r)) /\ (ClaimedBy(v, r) => ClaimedBy(w, r))
      BY <1>1 DEF HeldBy, ClaimedBy
    <3>4. (HeldBy(w, r) => Held(r)) /\ (ClaimedBy(w, r) => Claimed(r))
      BY DEF w, Held, Claimed
    <3>. QED
      BY <1>1, <3>1, <3>2, <3>3, <3>4, LedgerMoves DEF w, v
  <2>. QED BY <2>1, <2>2
<1>. QED BY <1>3, <1>4 DEF DInv

LEMMA DInvMark == ASSUME TypeOK, Hold, DInv, NEW k \in Workers, WorkerMark(k) PROVE DInv'
<1>. DEFINE w == worker[k]
            v == worker'[k]
<1>1. /\ Moves(k) /\ w.pc = "mark" /\ v.job = w.job /\ v.todo = w.todo
      /\ v.pc \in {"after", "free"}
      /\ UNCHANGED <<hook, poll, sends>>
  BY MarkMoves DEF Moves
<1>1a. \/ /\ UNCHANGED lostMarks
          /\ log' = [r \in Rows |-> IF r \in w.job.rows
                            THEN MarkedRow(w.job, r, w.out) ELSE log[r]]
       \/ /\ UNCHANGED log
          /\ lostMarks' = IF w.out = "sent"
                    THEN [r \in Rows |-> IF r \in w.todo
                                         THEN lostMarks[r] + 1 ELSE lostMarks[r]]
                    ELSE lostMarks
  BY MarkMoves
<1>2. w.todo \subseteq w.job.rows
  BY DEF DInv, TodoHeld
<1>. HIDE DEF w, v
<1>3. OwnRows' /\ TodoHeld'
  BY <1>1, <1>2, MovesOwn DEF w, v
<1>4. ASSUME NEW r \in Rows PROVE Ledger(r)'
  <2>0. ~HeldBy(v, r) /\ ~AwaitedBy(v, r) /\ (ClaimedBy(v, r) => ClaimedBy(w, r))
    BY <1>1 DEF HeldBy, AwaitedBy, ClaimedBy
  <2>1. Ledger(r) /\ sends[r] \in Nat /\ lostMarks[r] \in Nat
    BY DEF DInv, TypeOK
  <2>2. CASE r \notin w.job.rows
    <3>1. log'[r] = log[r] /\ lostMarks'[r] = lostMarks[r]
      BY <1>1a, <1>2, <2>2
    <3>2. ~AcceptedBy(w, r)
      BY <1>2, <2>2 DEF AcceptedBy
    <3>3. ClaimedBy(w, r) => Claimed(r)
      BY DEF w, Claimed
    <3>. QED
      BY <1>1, <2>0, <3>1, <3>2, <3>3, LedgerMoves DEF w, v
  <2>3. CASE r \in w.job.rows
    <3>1. /\ Held(r) /\ Claimed(r) /\ ~Held(r)' /\ ~Awaited(r)'
          /\ Accepted(r) => AcceptedBy(w, r)
      <4>1. HeldBy(w, r)
        BY <1>1, <2>3 DEF HeldBy
      <4>. QED
        BY <1>1, <2>0, <2>3, <4>1, MovesOwnRow DEF w, v
    <3>2. log[r].status \in Open \cup {"none"} /\ ~Fresh(r) /\ sends[r] <= 1 + lostMarks[r]
      BY <2>1, <3>1 DEF Ledger
    <3>3. ~AcceptedBy(w, r) /\ log[r].status \in Open => sends[r] <= lostMarks[r]
      BY <2>1, <3>1 DEF Ledger
    <3>4. CASE UNCHANGED log /\ w.out = "sent" /\ r \in w.todo /\ lostMarks'[r] = lostMarks[r] + 1
      <4>1. sends'[r] <= lostMarks'[r] /\ sends'[r] <= 1 + lostMarks'[r]
        BY <1>1, <2>1, <3>2, <3>4
      <4>2. ~Fresh(r)'
        BY <1>1, <3>2, <3>4 DEF Fresh
      <4>. QED
        BY <2>1, <3>1, <3>4, <4>1, <4>2 DEF Ledger
    <3>5. CASE UNCHANGED log /\ lostMarks'[r] = lostMarks[r] /\ ~AcceptedBy(w, r)
      <4>1. ~Fresh(r)' /\ sends'[r] = sends[r]
        BY <1>1, <3>2, <3>5 DEF Fresh
      <4>. QED
        BY <2>1, <3>1, <3>2, <3>3, <3>5, <4>1 DEF Ledger, Open
    <3>6. CASE UNCHANGED lostMarks /\ log'[r] = MarkedRow(w.job, r, w.out)
      <4>1. CASE log[r].status = "none"
        <5>1. log'[r] = log[r] /\ ~Fresh(r)' /\ sends'[r] = sends[r]
          BY <1>1, <3>2, <3>6, <4>1 DEF MarkedRow, Fresh
        <5>. QED
          BY <2>1, <3>1, <3>2, <3>6, <4>1, <5>1 DEF Ledger, Open
      <4>2. CASE log[r].status # "none"
        <5>1. log'[r].due = "later" /\ log'[r].status # "none"
              /\ (log'[r].status # "sent" => w.out # "sent")
          BY <3>6, <4>2 DEF MarkedRow, FailStatus
        <5>2. ~Fresh(r)'
          BY <5>1 DEF Fresh
        <5>3. log'[r].status \in Open \cup {"dead"} => sends'[r] <= lostMarks'[r]
          BY <1>1, <3>2, <3>3, <3>6, <4>2, <5>1 DEF AcceptedBy, Open
        <5>4. sends'[r] <= 1 + lostMarks'[r]
          BY <1>1, <3>2, <3>6
        <5>. QED
          BY <3>1, <5>1, <5>2, <5>3, <5>4 DEF Ledger
      <4>. QED BY <4>1, <4>2
    <3>7. \/ UNCHANGED lostMarks /\ log'[r] = MarkedRow(w.job, r, w.out)
          \/ UNCHANGED log /\ w.out = "sent" /\ r \in w.todo /\ lostMarks'[r] = lostMarks[r] + 1
          \/ UNCHANGED log /\ lostMarks'[r] = lostMarks[r] /\ ~AcceptedBy(w, r)
      BY <1>1a, <2>3 DEF AcceptedBy
    <3>. QED BY <3>4, <3>5, <3>6, <3>7
  <2>. QED BY <2>2, <2>3
<1>. QED BY <1>3, <1>4 DEF DInv

LEMMA DInvOnSuccess ==
  ASSUME TypeOK, Hold, DInv, NEW k \in Workers, OnSuccessSteps(k) PROVE DInv'
<1>. DEFINE w == worker[k]
            v == worker'[k]
<1>1. /\ Moves(k) /\ w.pc \in Closing /\ v.pc \in Closing \cup {"free"} /\ v.job = w.job
      /\ v.todo \subseteq w.todo
      /\ UNCHANGED <<log, hook, poll, sends, lostMarks>>
  <2>1. CASE OnSuccessBegin(k)
    BY <2>1, BeginMoves DEF Moves, Closing
  <2>2. CASE ~OnSuccessBegin(k)
    BY <2>2, OnSuccessMoves DEF Moves, Closing, OnSuccessSteps
  <2>. QED BY <2>1, <2>2
<1>2. w.todo \subseteq w.job.rows
  BY DEF DInv, TodoHeld
<1>. HIDE DEF w, v
<1>3. OwnRows' /\ TodoHeld'
  BY <1>1, <1>2, MovesOwn DEF w, v, Closing
<1>4. ASSUME NEW r \in Rows PROVE Ledger(r)'
  <2>1. /\ ~HeldBy(v, r) /\ ~AwaitedBy(v, r) /\ ~AcceptedBy(w, r)
        /\ ClaimedBy(v, r) => ClaimedBy(w, r)
    BY <1>1 DEF HeldBy, AwaitedBy, AcceptedBy, ClaimedBy, Closing
  <2>2. ClaimedBy(w, r) => Claimed(r)
    BY DEF w, Claimed
  <2>. QED
    BY <1>1, <2>1, <2>2, LedgerMoves DEF w, v
<1>. QED BY <1>3, <1>4 DEF DInv

LEMMA FreeMoves ==
  ASSUME TypeOK, NEW k \in Workers, WorkerFree(k)
  PROVE  /\ worker'[k] = IdleWorker /\ worker[k].pc = "free"
         /\ \A q \in Workers : q # k => worker'[q] = worker[q]
         /\ UNCHANGED <<disp, chan, dbVars, poll, histVars, faults>>
BY DEF WorkerFree, TypeOK, MemTypeOK, NoFault

LEMMA DInvFree == ASSUME TypeOK, DInv, NEW k \in Workers, WorkerFree(k) PROVE DInv'
<1>1. /\ worker'[k] = IdleWorker /\ worker[k].pc = "free"
      /\ \A q \in Workers : q # k => worker'[q] = worker[q]
      /\ UNCHANGED <<disp, chan, log, hook, poll, sends, lostMarks>>
  BY FreeMoves DEF dbVars, histVars
<1>2. IdleWorker.pc = "idle" /\ IdleWorker.job.rows = {} /\ IdleWorker.todo = {}
  BY DEF IdleWorker, NoClaim
<1>3. OwnRows' /\ TodoHeld'
  BY <1>1, <1>2 DEF DInv, OwnRows, TodoHeld
<1>4. ASSUME NEW r \in Rows PROVE Ledger(r)'
  <2>1. Queued(r)' <=> Queued(r)
    BY <1>1 DEF Queued
  <2>2. (Held(r)' => Held(r)) /\ (Claimed(r)' => Claimed(r))
    BY <1>1, <1>2, <2>1 DEF Held, Claimed, HeldBy, ClaimedBy
  <2>3. Awaited(r)' => Awaited(r)
    BY <1>1, <1>2, <2>1 DEF Awaited, AwaitedBy
  <2>4. Accepted(r) => Accepted(r)'
    BY <1>1 DEF Accepted, AcceptedBy
  <2>5. Ledger(r) /\ (Fresh(r)' => Fresh(r))
    BY <1>1 DEF DInv, Fresh
  <2>. QED
    BY <1>1, <2>2, <2>3, <2>4, <2>5, LedgerKept
<1>. QED BY <1>3, <1>4 DEF DInv

LEMMA CrashForgets ==
  ASSUME Crash
  PROVE  /\ OwnRows' /\ TodoHeld'
         /\ \A r : ~Queued(r)' /\ ~Held(r)' /\ ~Awaited(r)' /\ ~Claimed(r)' /\ ~Accepted(r)'
         /\ UNCHANGED <<dbVars, sends>>
         /\ lostMarks' = [r \in Rows |-> IF Accepted(r) THEN lostMarks[r] + 1 ELSE lostMarks[r]]
<1>1. /\ disp'.batch = {} /\ chan' = <<>>
      /\ \A q \in Workers : worker'[q] = IdleWorker
      /\ UNCHANGED <<dbVars, sends>>
  BY DEF Crash
<1>2. IdleWorker.pc = "idle" /\ IdleWorker.job.rows = {} /\ IdleWorker.todo = {}
  BY DEF IdleWorker, NoClaim
<1>3. OwnRows' /\ TodoHeld'
  BY <1>1, <1>2 DEF OwnRows, TodoHeld
<1>4. \A r : ~Queued(r)'
  BY <1>1 DEF Queued
<1>5. \A r : ~Held(r)' /\ ~Awaited(r)' /\ ~Claimed(r)' /\ ~Accepted(r)'
  BY <1>1, <1>2, <1>4 DEF Held, Awaited, Claimed, Accepted, HeldBy, AwaitedBy, ClaimedBy, AcceptedBy
<1>6. lostMarks' = [r \in Rows |-> IF Accepted(r) THEN lostMarks[r] + 1 ELSE lostMarks[r]]
  BY DEF Crash, Accepted, AcceptedBy
<1>. QED BY <1>1, <1>3, <1>4, <1>5, <1>6

LEMMA DInvCrash == ASSUME TypeOK, DInv, Crash PROVE DInv'
<1>1. UNCHANGED <<log, hook, sends>>
  BY CrashForgets DEF dbVars
<1>2. ASSUME NEW r \in Rows PROVE Ledger(r)'
  <2>1. Ledger(r) /\ sends[r] \in Nat /\ lostMarks[r] \in Nat
    BY DEF DInv, TypeOK
  <2>2. ~Held(r)' /\ ~Awaited(r)' /\ ~Claimed(r)'
    BY CrashForgets
  <2>3. lostMarks'[r] = IF Accepted(r) THEN lostMarks[r] + 1 ELSE lostMarks[r]
    BY CrashForgets
  <2>4. Fresh(r)' => Fresh(r)
    <3>1. EntryOf(r) \in Entries
      BY DEF Rows, EntryOf
    <3>2. poll[EntryOf(r)].stage = "done" => poll'[EntryOf(r)].stage = "done"
      BY <3>1 DEF Crash, TypeOK
    <3>. QED BY <1>1, <3>2 DEF Fresh
  <2>5. sends[r] <= 1 + lostMarks[r] /\ (Fresh(r) => sends[r] <= lostMarks[r])
        /\ (log[r].due = "now" => log[r].status \in Open)
    BY <2>1 DEF Ledger
  <2>6. log[r].status \in Open \cup {"dead"} => sends'[r] <= lostMarks'[r]
    <3>1. CASE Accepted(r)
      BY <1>1, <2>1, <2>3, <2>5, <3>1
    <3>2. CASE ~Accepted(r)
      <4>1. log[r].status \in Open \cup {"dead"} => sends[r] <= lostMarks[r]
        BY <2>1, <3>2 DEF Ledger
      <4>. QED BY <1>1, <2>3, <3>2, <4>1
    <3>. QED BY <3>1, <3>2
  <2>7. sends'[r] <= 1 + lostMarks'[r] /\ (Fresh(r) => sends'[r] <= lostMarks'[r])
    BY <1>1, <2>1, <2>3, <2>5
  <2>. QED
    BY <1>1, <2>2, <2>4, <2>5, <2>6, <2>7 DEF Ledger
<1>. QED BY <1>2, CrashForgets DEF DInv

LEMMA OutsideKeeps ==
  ASSUME Poller \/ Time \/ (Environment /\ ~Crash)
  PROVE  UNCHANGED <<disp, chan, worker, sends, lostMarks>>
BY DEF Poller, StoreEntry, EnqueueWebhookLogs, DropUndeliveredRelayEntries, Time, RowDue,
       GraceEnds, FloodEnds, Environment, RetryWebhookLogNow, RetryAllWebhookLogs, Requeue,
       PurgeLog, SetWebhookEnabled, DeleteWebhook, PurgeEntry, memVars, histVars

LEMMA DInvNext == ASSUME TypeOK, Hold, DInv, [Next]_vars PROVE DInv'
<1>1. CASE UNCHANGED vars
  <2>1. UNCHANGED <<disp, chan, worker, sends, lostMarks, log, hook, poll>>
    BY <1>1 DEF vars, dbVars, memVars, histVars
  <2>. QED BY <2>1, FreshOld, DInvOutside
<1>2. CASE Poller \/ Time \/ (Environment /\ ~Crash)
  BY <1>2, OutsideTouches, OutsideKeeps, DInvOutside
<1>3. ASSUME NEW k \in Workers, Delivery(k) PROVE DInv'
  BY <1>3, DInvTake, DInvLoad, DInvSend, DInvMark, DInvOnSuccess, DInvFree
     DEF Delivery, OnSuccessSteps
<1>4. CASE Crash
  BY <1>4, DInvCrash
<1>. QED
  BY <1>1, <1>2, <1>3, <1>4, DInvDispatcher DEF Next

\* A pair (webhook_id, entry_id) is delivered again only as often as a status
\* write was lost, whatever fails, crashes, is retried by hand, switched off
\* or purged in between.
THEOREM DuplicatesExplainedHolds == Spec => []DuplicatesExplained
<1>1. DInv => DuplicatesExplained
  BY DEF DInv, Ledger, DuplicatesExplained
<1>2. Spec => []Hold
  BY HoldInit, HoldNext, TypeCorrect, PTL DEF Spec
<1>. QED
  BY <1>1, <1>2, DInvInit, DInvNext, TypeCorrect, PTL DEF Spec

(***************************************************************************)
(* Attempts                                                                *)
(***************************************************************************)
\* Only the write of its own status takes a worker from mark to free.
LEMMA MarksItself ==
  ASSUME TypeOK, Next, NEW k \in Workers, worker[k].pc = "mark", worker'[k].pc = "free"
  PROVE  WorkerMark(k)
<1>1. worker'[k] # worker[k]
  OBVIOUS
<1>2. ~Poller /\ ~Time
  BY <1>1, OutsideKeeps
<1>3. ~Environment
  <2>1. CASE Crash
    BY <2>1 DEF Crash, IdleWorker
  <2>. QED BY <1>1, <2>1, OutsideKeeps
<1>4. ~Dispatcher
  BY <1>1 DEF Dispatcher, DispatchExclude, DispatchPaused, DispatchClaim, DispatchPeers, DispatchSend
<1>5. PICK q \in Workers : Delivery(q)
  BY <1>2, <1>3, <1>4 DEF Next
<1>6. q = k
  <2>1. \A x \in Workers : x # q => worker'[x] = worker[x]
    <3>1. CASE WorkerTake(q)
      BY <3>1 DEF WorkerTake, TypeOK, MemTypeOK
    <3>2. CASE WorkerFree(q)
      BY <3>2, FreeMoves
    <3>3. CASE MidSteps(q)
      BY <3>3, MidStepsAdvance DEF Advances, TypeOK, MemTypeOK
    <3>. QED BY <1>5, <3>1, <3>2, <3>3 DEF Delivery, MidSteps
  <2>. QED BY <1>1, <2>1
<1>. QED
  BY <1>5, <1>6 DEF Delivery, WorkerTake, WorkerLoad, WorkerSend, OnSuccessBegin, OnSuccessOutcome,
     OnSuccessHash, OnSuccessDelete, WorkerFree

\* Retryable failures kill a row only when its attempts are spent: its own for
\* a single delivery, those of the carrier for the rows of a digest.
THEOREM RetriesSpentHolds == Spec => RetriesSpent
<1>1. ASSUME TypeOK, DInv, Next, NEW k \in Workers, NEW r \in Rows,
             worker[k].pc = "mark", worker[k].out = "retry", worker'[k].pc = "free",
             log[r].status \in Open, log'[r].status = "dead"
      PROVE  IF HookOf(r) \in Digest THEN worker[k].job.attempt + 1 >= MaxAttempts
             ELSE log'[r].attempt >= MaxAttempts
  <2>. DEFINE j == worker[k].job
  <2>1. WorkerMark(k)
    BY <1>1, MarksItself
  <2>2. log'[r] # log[r]
    BY <1>1 DEF Open
  <2>3. r \in j.rows /\ log'[r] = MarkedRow(j, r, "retry")
    BY <1>1, <2>1, <2>2, MarkMoves
  <2>4. HookOf(r) = j.hook
    BY <1>1, <2>3 DEF DInv, OwnRows
  <2>. HIDE DEF j
  <2>5. /\ log'[r].status = FailStatus("retry", j.attempt + 1)
        /\ log'[r].attempt = NextAttempt(j, r, "retry")
    BY <1>1, <2>3 DEF MarkedRow, Open
  <2>6. j.attempt + 1 >= MaxAttempts
    BY <1>1, <2>5 DEF FailStatus
  <2>7. j.hook \notin Digest => log'[r].attempt = j.attempt + 1
    BY <2>5 DEF NextAttempt
  <2>. QED BY <2>4, <2>6, <2>7 DEF j
<1>2. TypeOK /\ DInv /\ [Next]_vars =>
        [\A k \in Workers, r \in Rows :
           worker[k].pc = "mark" /\ worker[k].out = "retry" /\ worker'[k].pc = "free"
           /\ log[r].status \in Open /\ log'[r].status = "dead"
           => IF HookOf(r) \in Digest THEN worker[k].job.attempt + 1 >= MaxAttempts
              ELSE log'[r].attempt >= MaxAttempts]_vars
  BY <1>1
<1>3. Spec => []Hold
  BY HoldInit, HoldNext, TypeCorrect, PTL DEF Spec
<1>4. Spec => []DInv
  BY <1>3, DInvInit, DInvNext, TypeCorrect, PTL DEF Spec
<1>. QED
  BY <1>2, <1>4, TypeCorrect, PTL DEF Spec, RetriesSpent

(***************************************************************************)
(* Why the rows of an entry tell the truth about it: a claim loads every   *)
(* row that still has its entry, a delivered row is closed or its write    *)
(* was lost, and of the deliveries of a relay entry one is still to look   *)
(* after it.                                                               *)
(***************************************************************************)
\* r is claimed but not in the message of worker v; r was in a message that
\* was accepted, and v is still to apply on_success for it.
SkippedBy(v, r) == (v.pc = "send" \/ (v.pc = "mark" /\ v.out = "sent")) /\ r \in v.job.rows \ v.todo
SettledBy(v, r) == v.pc \in Closing /\ r \in v.todo
Skipped(r) == \E k \in Workers : SkippedBy(worker[k], r)
Settled(r) == \E k \in Workers : SettledBy(worker[k], r)

\* The history of r, and why it has a row.
Recorded(r) ==
  /\ lostMarks[r] > 0 => sends[r] > 0
  /\ Accepted(r) => sends[r] > 0
  /\ faults = 0 => lostMarks[r] = 0
  /\ log[r].status # "none" => \E route \in Routes[EntryOf(r)] : route[1] = HookOf(r)

\* What the row of r says is true.
Told(r) ==
  /\ log[r].status \in Open /\ lostMarks[r] = 0 => Exists(EntryOf(r))
  /\ log[r].status = "sent" => sends[r] > 0
  /\ Skipped(r) => log[r].status = "none" \/ lostMarks[r] > 0
  /\ Settled(r) => log[r].status \notin Open \/ lostMarks[r] > 0

Staged(e) ==
  /\ poll[e].todo \subseteq Routes[e]
  /\ poll[e].stage = "new" <=> entry[e] = "absent"
  /\ poll[e].stage = "new" => \A r \in Rows : EntryOf(r) = e => log[r].status = "none"

KeepsEntry(k) == worker[k].pc \in {"outcome", "hash", "delete"} => ~DeletesOnSuccess(EntryOf(worker[k].row))

\* Somebody is still to look after the relay entry e.
Cared(e) == \E r \in Rows : EntryOf(r) = e /\ (log[r].status \in Open \cup {"dead"} \/ Settled(r))
Relayed(e) ==
  /\ e \in Relay /\ faults = 0 /\ Exists(e)
  /\ poll[e].stage = "done" \/ \E r \in Rows : EntryOf(r) = e /\ log[r].status = "sent"
  => Cared(e)

EInv ==
  /\ \A r \in Rows : Recorded(r) /\ (Undisturbed => Told(r))
  /\ \A e \in Entries : Staged(e) /\ Relayed(e)
  /\ \A k \in Workers : KeepsEntry(k)

LEMMA RowParts == ASSUME NEW r \in Rows
                  PROVE  HookOf(r) \in Webhooks /\ EntryOf(r) \in Entries /\ r = <<HookOf(r), EntryOf(r)>>
BY DEF Rows, HookOf, EntryOf

LEMMA PairParts == ASSUME NEW w \in Webhooks, NEW e \in Entries
                   PROVE  <<w, e>> \in Rows /\ HookOf(<<w, e>>) = w /\ EntryOf(<<w, e>>) = e
BY DEF Rows, HookOf, EntryOf

LEMMA EInvInit == Init => EInv
<1>. SUFFICES ASSUME Init PROVE EInv
  OBVIOUS
<1>1. /\ \A k \in Workers : worker[k].pc = "idle"
      /\ \A r \in Rows : log[r].status = "none" /\ sends[r] = 0 /\ lostMarks[r] = 0
      /\ \A e \in Entries : entry[e] = "absent" /\ poll[e].stage = "new" /\ poll[e].todo = {}
  BY DEF Init, IdleWorker, NoLog
<1>2. \A r \in Rows : ~Accepted(r) /\ ~Skipped(r) /\ ~Settled(r)
  BY <1>1 DEF Accepted, Skipped, Settled, AcceptedBy, SkippedBy, SettledBy, Closing
<1>3. \A r \in Rows : Recorded(r) /\ Told(r)
  BY <1>1, <1>2 DEF Recorded, Told, Open
<1>4. \A e \in Entries : Staged(e) /\ Relayed(e)
  BY <1>1 DEF Staged, Relayed, Exists
<1>5. \A k \in Workers : KeepsEntry(k)
  BY <1>1 DEF KeepsEntry
<1>. QED BY <1>3, <1>4, <1>5 DEF EInv

\* The number of faults only grows, and what disturbs is a fault.
LEMMA FaultsGrow ==
  ASSUME TypeOK, NEW f, faults' = faults \/ Fault(f)
  PROVE  /\ faults' = 0 => faults = 0 /\ faults' = faults
         /\ Undisturbed' => Undisturbed
         /\ f \in {"purge", "retry"} /\ Fault(f) => ~Undisturbed'
<1>1. faults \in Nat
  BY DEF TypeOK
<1>. QED BY <1>1 DEF Fault, Undisturbed

\* Nothing the facts about r speak of changes for the worse.
LEMMA RecordedKept ==
  ASSUME NEW r, Recorded(r), sends'[r] = sends[r], lostMarks'[r] = lostMarks[r],
         Accepted(r)' => Accepted(r), faults' = 0 => faults = 0,
         log'[r].status # "none" => log[r].status # "none"
  PROVE  Recorded(r)'
BY DEF Recorded

LEMMA ToldKept ==
  ASSUME NEW r, Told(r), sends'[r] = sends[r], lostMarks'[r] = lostMarks[r],
         log'[r].status = log[r].status \/ log'[r].status = "none",
         Skipped(r)' => Skipped(r), Settled(r)' => Settled(r),
         log[r].status \in Open /\ lostMarks[r] = 0 /\ Exists(EntryOf(r)) => Exists(EntryOf(r))'
  PROVE  Told(r)'
<1>1. CASE log'[r].status = log[r].status
  BY <1>1 DEF Told
<1>2. CASE log'[r].status = "none"
  BY <1>2 DEF Told, Open
<1>. QED BY <1>1, <1>2

LEMMA RelayedKept ==
  ASSUME NEW e, Relayed(e), faults' = 0 => faults = 0, Exists(e)' => Exists(e),
         poll'[e].stage = "done" => poll[e].stage = "done",
         faults' = 0 => \A r \in Rows : EntryOf(r) = e =>
           /\ log'[r].status = log[r].status \/ log'[r].status \in Open
           /\ Settled(r) => Settled(r)'
  PROVE  Relayed(e)'
<1>. SUFFICES ASSUME e \in Relay, faults' = 0, Exists(e)',
                     poll'[e].stage = "done" \/ \E r \in Rows : EntryOf(r) = e /\ log'[r].status = "sent"
              PROVE  Cared(e)'
  BY DEF Relayed
<1>1. \A r \in Rows : EntryOf(r) = e =>
           /\ log'[r].status = log[r].status \/ log'[r].status \in Open
           /\ Settled(r) => Settled(r)'
  OBVIOUS
<1>2. Cared(e)
  BY <1>1 DEF Relayed, Open
<1>. QED BY <1>1, <1>2 DEF Cared

LEMMA StagedKept ==
  ASSUME NEW e, Staged(e), poll'[e] = poll[e], entry'[e] = "absent" <=> entry[e] = "absent",
         \A r \in Rows : EntryOf(r) = e /\ log[r].status = "none" => log'[r].status = "none"
  PROVE  Staged(e)'
BY DEF Staged

\* The workers, for a step that leaves them alone.
LEMMA WorkersKept ==
  ASSUME UNCHANGED worker
  PROVE  /\ \A r : /\ Skipped(r)' <=> Skipped(r)
                   /\ Settled(r)' <=> Settled(r)
                   /\ Accepted(r)' <=> Accepted(r)
         /\ \A k : KeepsEntry(k)' <=> KeepsEntry(k)
BY DEF Skipped, Settled, Accepted, KeepsEntry, SkippedBy, SettledBy, AcceptedBy, DeletesOnSuccess

\* A step of the runner that touches neither the rows nor the entries.
LEMMA EInvStill ==
  ASSUME TypeOK, EInv, NEW f, faults' = faults \/ Fault(f),
         UNCHANGED <<entry, log, poll, worker, sends, lostMarks>>
  PROVE  EInv'
<1>1. (faults' = 0 => faults = 0) /\ (Undisturbed' => Undisturbed)
  BY FaultsGrow
<1>2. \A e : Exists(e)' <=> Exists(e)
  BY DEF Exists
<1>3. \A r \in Rows : Recorded(r)' /\ (Undisturbed' => Told(r)')
  BY <1>1, <1>2, WorkersKept, RecordedKept, ToldKept DEF EInv
<1>4. \A e \in Entries : Staged(e)'
  BY StagedKept DEF EInv
<1>5. \A e \in Entries : Relayed(e)'
  BY <1>1, <1>2, WorkersKept, RelayedKept DEF EInv
<1>. QED BY <1>3, <1>4, <1>5, WorkersKept DEF EInv

(***************************************************************************)
(* The poller, the timers and the environment                              *)
(***************************************************************************)
LEMMA EInvRows ==
  ASSUME TypeOK, EInv, NEW f, UNCHANGED <<poll, worker, sends, lostMarks>>,
         Fault(f) \/ (faults' = faults /\ \A r \in Rows : log'[r].status = log[r].status),
         \A e \in Entries : entry'[e] = "absent" <=> entry[e] = "absent",
         \A r \in Rows : log[r].status = "none" => log'[r].status = "none",
         Undisturbed' => /\ entry' = entry
                         /\ \A r \in Rows : log'[r].status \in {log[r].status, "none"}
  PROVE  EInv'
<1>1. /\ faults' = 0 => faults = 0 /\ faults' = faults
      /\ Undisturbed' => Undisturbed
  BY FaultsGrow
<1>2. faults' = 0 => Undisturbed' /\ \A r \in Rows : log'[r].status = log[r].status
  <2>1. Fault(f) => faults' # 0
    BY DEF TypeOK, Fault
  <2>. QED BY <2>1 DEF Undisturbed
<1>3. Undisturbed' => \A e : Exists(e)' <=> Exists(e)
  BY DEF Exists
<1>4. \A r \in Rows : Recorded(r)'
  BY <1>1, WorkersKept, RecordedKept DEF EInv
<1>5. ASSUME NEW r \in Rows, Undisturbed' PROVE Told(r)'
  BY <1>1, <1>3, <1>5, WorkersKept, ToldKept DEF EInv
<1>6. \A e \in Entries : Staged(e)'
  BY StagedKept DEF EInv
<1>7. ASSUME NEW e \in Entries PROVE Relayed(e)'
  <2>1. CASE faults' = 0
    BY <1>1, <1>2, <1>3, <2>1, WorkersKept, RelayedKept DEF EInv
  <2>2. CASE faults' # 0
    BY <2>2 DEF Relayed
  <2>. QED BY <2>1, <2>2
<1>. QED BY <1>4, <1>5, <1>6, <1>7, WorkersKept DEF EInv

LEMMA EInvStore == ASSUME TypeOK, DInv, EInv, NEW e \in Entries, StoreEntry(e) PROVE EInv'
<1>1. UNCHANGED <<log, worker, sends, lostMarks, faults>> /\ poll[e].stage = "new"
  BY DEF StoreEntry, memVars, histVars, NoFault
<1>2. /\ entry'[e] = "full" /\ poll'[e].stage = "fanout" /\ poll'[e].todo = Routes[e]
      /\ \A x \in Entries : x # e => entry'[x] = entry[x] /\ poll'[x] = poll[x]
  BY DEF StoreEntry, TypeOK, DbTypeOK
<1>3. \A r \in Rows : EntryOf(r) = e => log[r].status = "none"
  BY <1>1 DEF EInv, Staged
<1>4. Undisturbed' <=> Undisturbed
  BY <1>1 DEF Undisturbed
<1>5. \A x \in Entries : x # e => (Exists(x)' <=> Exists(x))
  BY <1>2 DEF Exists
<1>6. \A r \in Rows : Recorded(r)'
  BY <1>1, WorkersKept, RecordedKept DEF EInv
<1>7. ASSUME NEW r \in Rows, Undisturbed' PROVE Told(r)'
  <2>1. Exists(EntryOf(r)) /\ log[r].status \in Open => Exists(EntryOf(r))'
    BY <1>3, <1>5, RowParts DEF Open
  <2>2. Told(r)
    BY <1>4, <1>7 DEF EInv
  <2>. QED
    BY <1>1, <2>1, <2>2, WorkersKept, ToldKept
<1>8. ASSUME NEW x \in Entries PROVE Staged(x)' /\ Relayed(x)'
  <2>1. CASE x = e
    BY <1>1, <1>2, <1>3, <2>1 DEF Staged, Relayed
  <2>2. CASE x # e
    <3>1. Staged(x)'
      BY <1>1, <1>2, <2>2, StagedKept DEF EInv
    <3>2. Relayed(x)'
      BY <1>1, <1>2, <1>5, <2>2, WorkersKept, RelayedKept DEF EInv
    <3>. QED BY <3>1, <3>2
  <2>. QED BY <2>1, <2>2
<1>. QED BY <1>1, <1>6, <1>7, <1>8, WorkersKept DEF EInv

\* A row the poller may still insert is in no worker's hands.
LEMMA FreshUnseen ==
  ASSUME DInv, NEW r \in Rows, Fresh(r) PROVE ~Skipped(r) /\ ~Settled(r)
<1>1. ~Claimed(r)
  BY DEF DInv, Ledger
<1>2. \A k \in Workers : ~ClaimedBy(worker[k], r)
  BY <1>1 DEF Claimed
<1>3. \A k \in Workers : ~SkippedBy(worker[k], r) /\ ~SettledBy(worker[k], r)
  BY <1>2 DEF DInv, TodoHeld, ClaimedBy, SkippedBy, SettledBy, Closing
<1>. QED BY <1>3 DEF Skipped, Settled

LEMMA EInvEnqueue ==
  ASSUME TypeOK, DInv, EInv, NEW e \in Entries, NEW route \in Routes[e], EnqueueWebhookLogs(e, route)
  PROVE  EInv'
<1>. DEFINE n == <<route[1], e>>
<1>0. n \in Rows /\ HookOf(n) = route[1] /\ EntryOf(n) = e
  BY ConstantsAssumption DEF Rows, HookOf, EntryOf
<1>1. UNCHANGED <<entry, hook, worker, sends, lostMarks>> /\ poll[e].stage = "fanout"
  BY DEF EnqueueWebhookLogs, memVars, histVars
<1>2. /\ poll'[e].stage = poll[e].stage /\ poll'[e].todo \subseteq poll[e].todo
      /\ \A x \in Entries : x # e => poll'[x] = poll[x]
  BY DEF EnqueueWebhookLogs, TypeOK
<1>3. /\ faults' = faults \/ Fault("dbfail")
      /\ \/ log' = log
         \/ Inserts(n) /\ log' = [log EXCEPT ![n] = NewRow(route[1])]
  BY DEF EnqueueWebhookLogs, NoFault
<1>. HIDE DEF n
<1>4. /\ faults' = 0 => faults = 0
      /\ Undisturbed' => Undisturbed
  BY <1>3, FaultsGrow
<1>5. \A x : Exists(x)' <=> Exists(x)
  BY <1>1 DEF Exists
<1>6. \A r \in Rows : r # n => log'[r] = log[r]
  BY <1>3 DEF TypeOK, DbTypeOK
<1>7. \/ log'[n] = log[n]
      \/ Inserts(n) /\ log'[n].status = "pending"
  BY <1>0, <1>3 DEF TypeOK, DbTypeOK, NewRow
<1>8. ASSUME NEW r \in Rows PROVE Recorded(r)' /\ (Undisturbed' => Told(r)')
  <2>0. Recorded(r) /\ (Undisturbed' => Told(r))
    BY <1>4 DEF EInv
  <2>1. CASE log'[r] = log[r]
    BY <1>1, <1>4, <1>5, <2>0, <2>1, WorkersKept, RecordedKept, ToldKept
  <2>2. CASE r = n /\ Inserts(n) /\ log'[n].status = "pending"
    <3>1. Fresh(r) /\ Exists(EntryOf(r))
      BY <1>0, <1>1, <2>2 DEF Inserts, Fresh
    <3>2. ~Skipped(r)' /\ ~Settled(r)'
      BY <1>1, <3>1, FreshUnseen, WorkersKept
    <3>3. \E x \in Routes[EntryOf(r)] : x[1] = HookOf(r)
      BY <1>0, <2>2
    <3>4. Recorded(r)'
      BY <1>1, <1>4, <2>0, <3>3, WorkersKept DEF Recorded
    <3>5. Told(r)'
      BY <1>5, <2>2, <3>1, <3>2 DEF Told, Open
    <3>. QED BY <3>4, <3>5
  <2>. QED BY <1>6, <1>7, <2>1, <2>2
<1>9. ASSUME NEW x \in Entries PROVE Staged(x)' /\ Relayed(x)'
  <2>1. \A r \in Rows : log'[r].status = log[r].status \/ log'[r].status \in Open
    BY <1>6, <1>7 DEF Open
  <2>2. Relayed(x)'
    BY <1>1, <1>2, <1>4, <1>5, <2>1, WorkersKept, RelayedKept DEF EInv
  <2>3. CASE x = e
    <3>1. Staged(x)
      BY DEF EInv
    <3>2. Staged(x)'
      BY <1>1, <1>2, <2>3, <3>1 DEF Staged
    <3>. QED BY <2>2, <3>2
  <2>4. CASE x # e
    <3>1. \A r \in Rows : EntryOf(r) = x => log'[r] = log[r]
      BY <1>0, <1>6, <2>4
    <3>2. Staged(x)'
      BY <1>1, <1>2, <2>4, <3>1, StagedKept DEF EInv
    <3>. QED BY <2>2, <3>2
  <2>. QED BY <2>3, <2>4
<1>. QED BY <1>1, <1>8, <1>9, WorkersKept DEF EInv

LEMMA EInvDrop ==
  ASSUME TypeOK, EInv, NEW e \in Entries, DropUndeliveredRelayEntries(e) PROVE EInv'
<1>1. UNCHANGED <<log, worker, sends, lostMarks>> /\ poll[e].stage = "fanout"
  BY DEF DropUndeliveredRelayEntries, memVars, histVars
<1>2. /\ poll'[e].stage = "done" /\ poll'[e].todo = poll[e].todo
      /\ \A x \in Entries : x # e => poll'[x] = poll[x]
  BY DEF DropUndeliveredRelayEntries, TypeOK
<1>3. /\ faults' = faults \/ Fault("dbfail")
      /\ \/ entry' = entry
         \/ /\ entry' = [entry EXCEPT ![e] = "deleted"]
            /\ \A w \in Webhooks : log[<<w, e>>].status = "none"
      /\ e \in Relay /\ Exists(e) /\ faults' = faults /\ (\A w \in Webhooks : log[<<w, e>>].status = "none")
           => entry' = [entry EXCEPT ![e] = "deleted"]
  <2>1. Fault("dbfail") => faults' # faults
    BY DEF TypeOK, Fault
  <2>. QED
    BY <2>1 DEF DropUndeliveredRelayEntries, NoFault, DeleteEntry
<1>4. /\ faults' = 0 => faults = 0 /\ faults' = faults
      /\ Undisturbed' => Undisturbed
  BY <1>3, FaultsGrow
<1>5. /\ \A x \in Entries : x # e => entry'[x] = entry[x] /\ (Exists(x)' <=> Exists(x))
      /\ entry'[e] = entry[e] \/ entry'[e] = "deleted"
      /\ Exists(e)' => Exists(e)
  BY <1>3 DEF TypeOK, DbTypeOK, Exists
<1>6. entry[e] # "absent" /\ entry'[e] # "absent"
  BY <1>1, <1>5 DEF EInv, Staged
<1>7. \A r \in Rows : Recorded(r)'
  BY <1>1, <1>4, WorkersKept, RecordedKept DEF EInv
<1>8. ASSUME NEW r \in Rows, Undisturbed' PROVE Told(r)'
  <2>1. Exists(EntryOf(r)) /\ log[r].status \in Open => Exists(EntryOf(r))'
    <3>1. CASE EntryOf(r) = e
      BY <1>3, <3>1, RowParts DEF Open, Exists
    <3>. QED BY <1>5, <3>1, RowParts
  <2>2. Told(r)
    BY <1>4, <1>8 DEF EInv
  <2>. QED
    BY <1>1, <2>1, <2>2, WorkersKept, ToldKept
<1>9. ASSUME NEW x \in Entries PROVE Staged(x)' /\ Relayed(x)'
  <2>1. CASE x = e
    <3>1. Staged(x)'
      <4>1. Staged(x)
        BY DEF EInv
      <4>. QED BY <1>1, <1>2, <1>6, <2>1, <4>1 DEF Staged
    <3>2. Relayed(x)'
      <4>. SUFFICES ASSUME e \in Relay, faults' = 0, Exists(e)' PROVE Cared(e)'
        BY <2>1 DEF Relayed
      <4>1. entry' # [entry EXCEPT ![e] = "deleted"]
        BY DEF Exists, TypeOK, DbTypeOK
      <4>2. PICK w \in Webhooks : log[<<w, e>>].status # "none"
        BY <1>3, <1>4, <1>5, <4>1
      <4>. DEFINE r == <<w, e>>
      <4>3. r \in Rows /\ EntryOf(r) = e
        BY PairParts
      <4>4. log[r].status \in Open \cup {"dead", "sent"}
        BY <4>2, <4>3 DEF TypeOK, DbTypeOK, LogRows, Open
      <4>. HIDE DEF r
      <4>5. Cared(e)
        <5>1. CASE log[r].status = "sent"
          BY <1>4, <1>5, <4>3, <5>1 DEF EInv, Relayed
        <5>2. CASE log[r].status # "sent"
          BY <4>3, <4>4, <5>2 DEF Cared
        <5>. QED BY <5>1, <5>2
      <4>. QED BY <1>1, <4>5, WorkersKept DEF Cared
    <3>. QED BY <3>1, <3>2
  <2>2. CASE x # e
    <3>1. Staged(x)'
      BY <1>1, <1>2, <1>5, <2>2, StagedKept DEF EInv
    <3>2. Relayed(x)'
      BY <1>1, <1>2, <1>4, <1>5, <2>2, WorkersKept, RelayedKept DEF EInv
    <3>. QED BY <3>1, <3>2
  <2>. QED BY <2>1, <2>2
<1>. QED BY <1>1, <1>7, <1>8, <1>9, WorkersKept DEF EInv

LEMMA EInvTime == ASSUME TypeOK, EInv, Time PROVE EInv'
<1>1. ASSUME NEW s \in Rows, RowDue(s) PROVE EInv'
  <2>1. UNCHANGED <<entry, poll, worker, sends, lostMarks, faults>>
    BY <1>1 DEF RowDue, memVars, histVars, NoFault
  <2>2. \A r \in Rows : log'[r].status = log[r].status
    <3>1. \A r \in Rows : log[r] \in LogRows
      BY DEF TypeOK, DbTypeOK
    <3>2. log' = [log EXCEPT ![s] = [log[s] EXCEPT !.due = "now"]]
      BY <1>1 DEF RowDue
    <3>3. [log[s] EXCEPT !.due = "now"].status = log[s].status
      BY <3>1 DEF LogRows
    <3>. QED BY <3>2, <3>3 DEF TypeOK, DbTypeOK
  <2>. QED BY <2>1, <2>2, EInvRows
<1>2. ASSUME NEW w \in Webhooks, GraceEnds(w) \/ FloodEnds(w) PROVE EInv'
  <2>1. UNCHANGED <<entry, log, poll, worker, sends, lostMarks, faults>>
    BY <1>2 DEF GraceEnds, FloodEnds, dbVars, histVars, NoFault
  <2>. QED BY <2>1, EInvStill
<1>. QED BY <1>1, <1>2 DEF Time

LEMMA EInvRequeue ==
  ASSUME TypeOK, EInv, NEW S \in SUBSET Rows, Requeue(S), Fault("retry"),
         \A r \in S : log[r].status # "none"
  PROVE  EInv'
<1>1. /\ log' = [r \in Rows |-> IF r \in S THEN [log[r] EXCEPT !.status = "pending", !.due = "now"] ELSE log[r]]
      /\ UNCHANGED <<entry, poll, worker, sends, lostMarks>>
  BY DEF Requeue, SetRows, memVars, histVars
<1>2. ~Undisturbed'
  BY FaultsGrow
<1>3. \A r \in Rows : log[r].status = "none" => log'[r].status = "none"
  BY <1>1
<1>. QED BY <1>1, <1>2, <1>3, EInvRows

LEMMA EInvEnvironment == ASSUME TypeOK, EInv, Environment, ~Crash PROVE EInv'
<1>1. ASSUME NEW s \in Rows, RetryWebhookLogNow(s) PROVE EInv'
  BY <1>1, EInvRequeue DEF RetryWebhookLogNow
<1>2. ASSUME NEW w \in Webhooks, RetryAllWebhookLogs(w) PROVE EInv'
  <2>. DEFINE S == {r \in Rows : HookOf(r) = w /\ log[r].status \in {"failed", "dead"}}
  <2>1. Requeue(S) /\ S \in SUBSET Rows /\ (\A r \in S : log[r].status # "none") /\ Fault("retry")
    BY <1>2 DEF RetryAllWebhookLogs
  <2>. HIDE DEF S
  <2>. QED BY <2>1, EInvRequeue
<1>3. ASSUME NEW S \in SUBSET Rows, DeleteRows(S), NEW f, Fault(f),
             UNCHANGED <<entry, poll, worker, sends, lostMarks>>
      PROVE  EInv'
  <2>1. log' = [r \in Rows |-> IF r \in S THEN NoLog ELSE log[r]]
    BY <1>3 DEF DeleteRows, SetRows
  <2>2. \A r \in Rows : log'[r].status \in {log[r].status, "none"}
    BY <2>1 DEF NoLog
  <2>. QED BY <1>3, <2>2, EInvRows
<1>4. ASSUME NEW s \in Rows, PurgeLog(s) PROVE EInv'
  BY <1>3, <1>4 DEF PurgeLog, memVars, histVars
<1>5. ASSUME NEW w \in Webhooks, DeleteWebhook(w) PROVE EInv'
  <2>. DEFINE S == {r \in Rows : HookOf(r) = w}
  <2>1. /\ S \in SUBSET Rows /\ DeleteRows(S) /\ Fault("delete")
        /\ UNCHANGED <<entry, poll, worker, sends, lostMarks>>
    BY <1>5 DEF DeleteWebhook, memVars, histVars
  <2>. HIDE DEF S
  <2>. QED BY <1>3, <2>1
<1>6. ASSUME NEW w \in Webhooks, SetWebhookEnabled(w) PROVE EInv'
  BY <1>6, EInvStill DEF SetWebhookEnabled, memVars, histVars
<1>7. ASSUME NEW e \in Entries, PurgeEntry(e) PROVE EInv'
  <2>1. /\ Exists(e) /\ entry' = [entry EXCEPT ![e] = "deleted"] /\ Fault("purge")
        /\ UNCHANGED <<log, poll, worker, sends, lostMarks>>
    BY <1>7 DEF PurgeEntry, DeleteEntry, memVars, histVars
  <2>2. ~Undisturbed'
    BY <2>1, FaultsGrow
  <2>3. \A x \in Entries : entry'[x] = "absent" <=> entry[x] = "absent"
    BY <2>1 DEF Exists, TypeOK, DbTypeOK
  <2>. QED BY <2>1, <2>2, <2>3, EInvRows
<1>. QED
  BY <1>1, <1>2, <1>4, <1>5, <1>6, <1>7 DEF Environment

LEMMA EInvCrash == ASSUME TypeOK, EInv, Crash PROVE EInv'
<1>1. UNCHANGED <<entry, log, sends>> /\ Fault("crash")
  BY DEF Crash, dbVars
<1>2. \A k \in Workers : worker'[k].pc = "idle"
  BY DEF Crash, IdleWorker
<1>3. \A r \in Rows : ~Accepted(r)' /\ ~Skipped(r)' /\ ~Settled(r)'
  BY <1>2 DEF Accepted, Skipped, Settled, AcceptedBy, SkippedBy, SettledBy, Closing
<1>4. faults' # 0 /\ (Undisturbed' => Undisturbed)
  <2>1. faults' # 0
    BY <1>1 DEF TypeOK, Fault
  <2>. QED BY <1>1, <2>1, FaultsGrow
<1>5. \A e : Exists(e)' <=> Exists(e)
  BY <1>1 DEF Exists
<1>6. ASSUME NEW r \in Rows PROVE Recorded(r)' /\ (Undisturbed' => Told(r)')
  <2>0. sends[r] \in Nat /\ lostMarks[r] \in Nat /\ Recorded(r) /\ (Undisturbed' => Told(r))
    BY <1>4 DEF EInv, TypeOK
  <2>1. /\ lostMarks'[r] \in Nat
        /\ lostMarks'[r] = 0 => lostMarks[r] = 0
        /\ lostMarks'[r] > 0 => lostMarks[r] > 0 \/ Accepted(r)
    <3>1. lostMarks'[r] = IF Accepted(r) THEN lostMarks[r] + 1 ELSE lostMarks[r]
      BY CrashForgets
    <3>. QED BY <2>0, <3>1
  <2>2. Recorded(r)'
    BY <1>1, <1>3, <1>4, <2>0, <2>1 DEF Recorded
  <2>3. Undisturbed' => Told(r)'
    BY <1>1, <1>3, <1>5, <2>0, <2>1 DEF Told
  <2>. QED BY <2>2, <2>3
<1>7. ASSUME NEW e \in Entries PROVE Staged(e)' /\ Relayed(e)'
  <2>1. /\ poll'[e].stage = "new" <=> poll[e].stage = "new"
        /\ poll'[e].todo \subseteq poll[e].todo
    BY DEF Crash, TypeOK
  <2>2. Staged(e)
    BY DEF EInv
  <2>. QED BY <1>1, <1>4, <2>1, <2>2 DEF Staged, Relayed
<1>8. \A k \in Workers : KeepsEntry(k)'
  BY <1>2 DEF KeepsEntry
<1>. QED BY <1>6, <1>7, <1>8 DEF EInv

(***************************************************************************)
(* The runner                                                              *)
(***************************************************************************)
LEMMA EInvDispatcher == ASSUME TypeOK, EInv, Dispatcher PROVE EInv'
<1>1. UNCHANGED <<entry, log, poll, worker, sends, lostMarks>>
  BY DEF Dispatcher, DispatchExclude, DispatchPaused, DispatchClaim, DispatchPeers, DispatchSend,
         dbVars, histVars
<1>2. faults' = faults \/ Fault("dbfail")
  BY DEF Dispatcher, DispatchExclude, DispatchPaused, DispatchClaim, DispatchPeers, DispatchSend, NoFault
<1>. QED BY <1>1, <1>2, EInvStill

\* What the facts about a row owe to the one worker that moves.
LEMMA OneMoves ==
  ASSUME NEW k \in Workers, \A q \in Workers : q # k => worker'[q] = worker[q], NEW r
  PROVE  /\ Skipped(r)' => Skipped(r) \/ SkippedBy(worker'[k], r)
         /\ Settled(r)' => Settled(r) \/ SettledBy(worker'[k], r)
         /\ Accepted(r)' => Accepted(r) \/ AcceptedBy(worker'[k], r)
         /\ Settled(r) => Settled(r)' \/ SettledBy(worker[k], r)
         /\ SettledBy(worker'[k], r) => Settled(r)'
         /\ (SkippedBy(worker[k], r) => Skipped(r)) /\ (SettledBy(worker[k], r) => Settled(r))
         /\ AcceptedBy(worker[k], r) => Accepted(r)
<1>1. /\ Skipped(r)' => Skipped(r) \/ SkippedBy(worker'[k], r)
      /\ SkippedBy(worker[k], r) => Skipped(r)
  BY DEF Skipped, SkippedBy
<1>2. /\ Settled(r)' => Settled(r) \/ SettledBy(worker'[k], r)
      /\ Settled(r) => Settled(r)' \/ SettledBy(worker[k], r)
      /\ SettledBy(worker'[k], r) => Settled(r)'
      /\ SettledBy(worker[k], r) => Settled(r)
  BY DEF Settled, SettledBy
<1>3. /\ Accepted(r)' => Accepted(r) \/ AcceptedBy(worker'[k], r)
      /\ AcceptedBy(worker[k], r) => Accepted(r)
  BY DEF Accepted, AcceptedBy
<1>. QED BY <1>1, <1>2, <1>3

\* An untouched table of entries.
LEMMA EntriesStill ==
  ASSUME UNCHANGED entry
  PROVE  \A e \in Entries : /\ Exists(e)' <=> Exists(e)
                            /\ entry'[e] = "absent" <=> entry[e] = "absent"
BY DEF Exists

\* A step of worker k that changes no row, takes away no entry and puts no row
\* into worse hands.
LEMMA EInvQuiet ==
  ASSUME TypeOK, EInv, NEW k \in Workers, \A q \in Workers : q # k => worker'[q] = worker[q],
         UNCHANGED <<log, poll, sends, lostMarks>>, NEW f, faults' = faults \/ Fault(f),
         \A e \in Entries : /\ Exists(e)' <=> Exists(e)
                            /\ entry'[e] = "absent" <=> entry[e] = "absent",
         KeepsEntry(k)',
         \A r \in Rows : /\ SkippedBy(worker'[k], r) => Skipped(r) \/
                              (Undisturbed => log[r].status = "none" \/ lostMarks[r] > 0)
                         /\ SettledBy(worker'[k], r) => Settled(r)
                         /\ AcceptedBy(worker'[k], r) => Accepted(r)
                         /\ SettledBy(worker[k], r) => SettledBy(worker'[k], r) \/ EntryOf(r) \notin Relay
  PROVE  EInv'
<1>1. (faults' = 0 => faults = 0) /\ (Undisturbed' => Undisturbed)
  BY FaultsGrow
<1>3. ASSUME NEW r \in Rows PROVE Recorded(r)' /\ (Undisturbed' => Told(r)')
  <2>0. Recorded(r) /\ (Undisturbed' => Told(r)) /\ EntryOf(r) \in Entries
    BY <1>1, RowParts DEF EInv
  <2>1. /\ Accepted(r)' => Accepted(r)
        /\ Settled(r)' => Settled(r)
        /\ Undisturbed' /\ Skipped(r)' => Skipped(r) \/ log[r].status = "none" \/ lostMarks[r] > 0
    BY <1>1, OneMoves
  <2>2. Recorded(r)'
    BY <1>1, <2>0, <2>1, RecordedKept
  <2>3. Undisturbed' => Told(r)'
    BY <2>0, <2>1 DEF Told
  <2>. QED BY <2>2, <2>3
<1>4. ASSUME NEW e \in Entries PROVE Staged(e)' /\ Relayed(e)'
  <2>1. Staged(e)'
    BY StagedKept DEF EInv
  <2>2. CASE e \in Relay
    <3>1. \A r \in Rows : EntryOf(r) = e /\ Settled(r) => Settled(r)'
      BY <2>2, OneMoves
    <3>. QED BY <1>1, <2>1, <3>1, RelayedKept DEF EInv
  <2>3. CASE e \notin Relay
    BY <2>1, <2>3 DEF Relayed
  <2>. QED BY <2>2, <2>3
<1>5. \A q \in Workers : KeepsEntry(q)'
  BY DEF EInv, KeepsEntry, DeletesOnSuccess
<1>. QED BY <1>3, <1>4, <1>5 DEF EInv

LEMMA EInvTake == ASSUME TypeOK, DInv, EInv, NEW k \in Workers, WorkerTake(k) PROVE EInv'
<1>1. /\ worker[k].pc = "idle" /\ worker'[k].pc = "load"
      /\ \A q \in Workers : q # k => worker'[q] = worker[q]
  BY DEF WorkerTake, TypeOK, MemTypeOK, IdleWorker
<1>2. UNCHANGED <<entry, log, poll, sends, lostMarks, faults>>
  BY DEF WorkerTake, dbVars, histVars, NoFault
<1>3. \A r \in Rows : /\ ~SkippedBy(worker'[k], r) /\ ~SettledBy(worker'[k], r)
                      /\ ~AcceptedBy(worker'[k], r) /\ ~SettledBy(worker[k], r)
  BY <1>1 DEF SkippedBy, SettledBy, AcceptedBy, Closing
<1>4. KeepsEntry(k)'
  BY <1>1 DEF KeepsEntry
<1>. QED BY <1>1, <1>2, <1>3, <1>4, EInvQuiet, EntriesStill

LEMMA EInvLoad == ASSUME TypeOK, Hold, DInv, EInv, NEW k \in Workers, WorkerLoad(k) PROVE EInv'
<1>. DEFINE w == worker[k]
            v == worker'[k]
<1>1. /\ Moves(k) /\ w.pc = "load" /\ v.job = w.job
      /\ v.pc = "mark" \/ v.pc = "send"
      /\ v.pc = "mark" => v.out # "sent"
      /\ v.pc = "send" => v.todo = Loaded(w.job) /\ hook[w.job.hook] # "deleted"
      /\ UNCHANGED <<entry, log, poll, sends, lostMarks>>
  BY LoadMoves DEF Moves, dbVars, histVars
<1>2. faults' = faults \/ Fault("dbfail")
  BY DEF WorkerLoad, NoFault
<1>. HIDE DEF w, v
<1>3. ASSUME NEW r \in Rows
      PROVE  /\ SkippedBy(v, r) => (Undisturbed => log[r].status = "none" \/ lostMarks[r] > 0)
             /\ ~SettledBy(v, r) /\ ~AcceptedBy(v, r) /\ ~SettledBy(w, r)
  <2>1. ~SettledBy(v, r) /\ ~AcceptedBy(v, r) /\ ~SettledBy(w, r)
    BY <1>1 DEF SettledBy, AcceptedBy, Closing
  <2>2. ASSUME SkippedBy(v, r), Undisturbed, log[r].status # "none" PROVE lostMarks[r] > 0
    <3>1. v.pc = "send" /\ r \in w.job.rows /\ r \notin Loaded(w.job) /\ hook[w.job.hook] # "deleted"
      BY <1>1, <2>2 DEF SkippedBy
    <3>2. HookOf(r) = w.job.hook
      BY <3>1 DEF DInv, OwnRows, w
    <3>3. ~Exists(EntryOf(r))
      BY <2>2, <3>1, <3>2 DEF Loaded
    <3>4. Held(r)
      BY <1>1, <3>1 DEF Held, HeldBy, w
    <3>5. log[r].status \in Open
      BY <2>2, <3>4 DEF DInv, Ledger
    <3>6. Told(r) /\ lostMarks[r] \in Nat
      BY <2>2 DEF EInv, TypeOK
    <3>. QED BY <3>3, <3>5, <3>6 DEF Told
  <2>. QED BY <2>1, <2>2
<1>4. KeepsEntry(k)'
  BY <1>1 DEF KeepsEntry, v
<1>. QED
  BY <1>1, <1>2, <1>3, <1>4, EInvQuiet, EntriesStill DEF Moves, w, v

LEMMA EInvFree == ASSUME TypeOK, EInv, NEW k \in Workers, WorkerFree(k) PROVE EInv'
<1>1. /\ worker[k].pc = "free" /\ worker'[k].pc = "idle"
      /\ \A q \in Workers : q # k => worker'[q] = worker[q]
  BY FreeMoves DEF IdleWorker
<1>2. UNCHANGED <<entry, log, poll, sends, lostMarks, faults>>
  BY FreeMoves DEF dbVars, histVars
<1>3. \A r \in Rows : /\ ~SkippedBy(worker'[k], r) /\ ~SettledBy(worker'[k], r)
                      /\ ~AcceptedBy(worker'[k], r) /\ ~SettledBy(worker[k], r)
  BY <1>1 DEF SkippedBy, SettledBy, AcceptedBy, Closing
<1>4. KeepsEntry(k)'
  BY <1>1 DEF KeepsEntry
<1>. QED BY <1>1, <1>2, <1>3, <1>4, EInvQuiet, EntriesStill

LEMMA EInvSend == ASSUME TypeOK, DInv, EInv, NEW k \in Workers, WorkerSend(k) PROVE EInv'
<1>. DEFINE w == worker[k]
            v == worker'[k]
<1>1. /\ Moves(k) /\ w.pc = "send" /\ v.pc = "mark" /\ v.job = w.job /\ v.todo = w.todo
      /\ sends' = IF v.out = "sent"
                  THEN [r \in Rows |-> IF r \in w.todo THEN sends[r] + 1 ELSE sends[r]]
                  ELSE sends
      /\ UNCHANGED <<entry, log, poll, lostMarks, faults>>
  BY SendMoves DEF Moves, dbVars
<1>2. \A q \in Workers : q # k => worker'[q] = worker[q]
  BY <1>1 DEF Moves
<1>. HIDE DEF w, v
<1>3. \A e : Exists(e)' <=> Exists(e)
  BY <1>1 DEF Exists
<1>4. Undisturbed' <=> Undisturbed
  BY <1>1 DEF Undisturbed
<1>5. ASSUME NEW r \in Rows PROVE Recorded(r)' /\ (Undisturbed' => Told(r)')
  <2>0. sends[r] \in Nat /\ Recorded(r) /\ (Undisturbed' => Told(r))
    BY <1>4 DEF EInv, TypeOK
  <2>1. /\ sends[r] > 0 => sends'[r] > 0
        /\ AcceptedBy(v, r) => sends'[r] > 0
    BY <1>1, <2>0 DEF AcceptedBy
  <2>2. (SkippedBy(v, r) => SkippedBy(w, r)) /\ ~SettledBy(v, r)
    BY <1>1 DEF SkippedBy, SettledBy, Closing
  <2>3. /\ Skipped(r)' => Skipped(r)
        /\ Settled(r)' => Settled(r)
        /\ Accepted(r)' => Accepted(r) \/ AcceptedBy(v, r)
    BY <1>2, <2>2, OneMoves DEF v, w
  <2>4. Recorded(r)'
    BY <1>1, <2>0, <2>1, <2>3 DEF Recorded
  <2>5. Undisturbed' => Told(r)'
    BY <1>1, <1>3, <2>0, <2>1, <2>3 DEF Told
  <2>. QED BY <2>4, <2>5
<1>6. ASSUME NEW e \in Entries PROVE Staged(e)' /\ Relayed(e)'
  <2>1. \A r \in Rows : Settled(r) => Settled(r)'
    <3>1. \A r \in Rows : ~SettledBy(w, r)
      BY <1>1 DEF SettledBy, Closing
    <3>. QED BY <1>2, <3>1, OneMoves DEF w
  <2>2. Staged(e)'
    BY <1>1, StagedKept DEF EInv
  <2>3. Relayed(e)'
    BY <1>1, <1>3, <2>1, RelayedKept DEF EInv
  <2>. QED BY <2>2, <2>3
<1>7. \A q \in Workers : KeepsEntry(q)'
  BY <1>1, <1>2 DEF EInv, KeepsEntry, DeletesOnSuccess, v
<1>. QED BY <1>5, <1>6, <1>7 DEF EInv

LEMMA EInvMark == ASSUME TypeOK, Hold, DInv, EInv, NEW k \in Workers, WorkerMark(k) PROVE EInv'
<1>. DEFINE w == worker[k]
            v == worker'[k]
<1>1. /\ Moves(k) /\ w.pc = "mark" /\ v.todo = w.todo
      /\ v.pc = IF w.out = "sent" THEN "after" ELSE "free"
      /\ UNCHANGED <<entry, poll, sends>>
  BY MarkMoves
<1>2. \/ /\ UNCHANGED <<lostMarks, faults>>
         /\ log' = [r \in Rows |-> IF r \in w.job.rows
                           THEN MarkedRow(w.job, r, w.out) ELSE log[r]]
      \/ /\ UNCHANGED log /\ Fault("dbfail")
         /\ lostMarks' = IF w.out = "sent"
                   THEN [r \in Rows |-> IF r \in w.todo
                                        THEN lostMarks[r] + 1 ELSE lostMarks[r]]
                   ELSE lostMarks
  BY MarkMoves
<1>3. w.todo \subseteq w.job.rows /\ (\A q \in Workers : q # k => worker'[q] = worker[q])
  BY <1>1 DEF DInv, TodoHeld, Moves
<1>. HIDE DEF w, v
<1>4. /\ faults' = 0 => faults = 0 /\ faults' = faults
      /\ Undisturbed' => Undisturbed
  BY <1>2, FaultsGrow
<1>5. \A e : Exists(e)' <=> Exists(e)
  BY <1>1 DEF Exists
\* Where the rows of the claim stand before the write.
<1>6. ASSUME NEW r \in Rows, r \in w.job.rows
      PROVE  /\ log[r].status \in Open \cup {"none"}
             /\ w.out = "sent" /\ r \in w.todo => Accepted(r)
             /\ w.out = "sent" /\ r \notin w.todo => Skipped(r)
             /\ ~Skipped(r)' /\ (Settled(r)' => SettledBy(v, r))
  <2>1. Held(r)
    BY <1>1, <1>6 DEF Held, HeldBy, w
  <2>2. log[r].status \in Open \cup {"none"}
    BY <2>1 DEF DInv, Ledger
  <2>3. /\ w.out = "sent" /\ r \in w.todo => Accepted(r)
        /\ w.out = "sent" /\ r \notin w.todo => Skipped(r)
    BY <1>1, <1>6 DEF Accepted, AcceptedBy, Skipped, SkippedBy, w
  <2>4. \A q \in Workers : q # k => ~SkippedBy(worker'[q], r) /\ ~SettledBy(worker'[q], r)
    <3>1. \A q \in Workers : q # k => r \notin worker[q].job.rows
      BY <1>6, Sole DEF w
    <3>. QED BY <1>3, <3>1 DEF DInv, TodoHeld, SkippedBy, SettledBy
  <2>5. ~SkippedBy(v, r)
    BY <1>1 DEF SkippedBy
  <2>6. ~Skipped(r)' /\ (Settled(r)' => SettledBy(v, r))
    BY <2>4, <2>5 DEF Skipped, Settled, v
  <2>. QED BY <2>2, <2>3, <2>6
<1>7. ASSUME NEW r \in Rows
      PROVE  /\ Accepted(r)' => Accepted(r)
             /\ r \notin w.job.rows => (Skipped(r)' => Skipped(r)) /\ (Settled(r)' => Settled(r))
             /\ Settled(r) => Settled(r)'
             /\ SettledBy(v, r) => Settled(r)'
  <2>1. ~AcceptedBy(v, r) /\ ~SkippedBy(v, r) /\ ~SettledBy(w, r)
    BY <1>1 DEF AcceptedBy, SkippedBy, SettledBy, Closing
  <2>2. r \notin w.job.rows => ~SettledBy(v, r)
    BY <1>1, <1>3 DEF SettledBy
  <2>. QED BY <1>3, <2>1, <2>2, OneMoves DEF w, v
<1>8. ASSUME NEW r \in Rows PROVE Recorded(r)' /\ (Undisturbed' => Told(r)')
  <2>0. /\ sends[r] \in Nat /\ lostMarks[r] \in Nat
        /\ Recorded(r) /\ (Undisturbed' => Told(r))
    BY <1>4 DEF EInv, TypeOK
  <2>1. CASE r \notin w.job.rows
    <3>1. log'[r] = log[r] /\ lostMarks'[r] = lostMarks[r] /\ sends'[r] = sends[r]
      BY <1>1, <1>2, <1>3, <2>1
    <3>. QED
      BY <1>4, <1>5, <1>7, <2>0, <2>1, <3>1, RecordedKept, ToldKept
  <2>2. CASE r \in w.job.rows /\ UNCHANGED log /\ Fault("dbfail")
    <3>1. faults' # 0
      BY <2>2 DEF TypeOK, Fault
    <3>2. \/ lostMarks'[r] = lostMarks[r] + 1 /\ w.out = "sent" /\ r \in w.todo
          \/ lostMarks'[r] = lostMarks[r] /\ ~SettledBy(v, r)
      <4>1. Fault("dbfail") => faults' # faults
        BY DEF TypeOK, Fault
      <4>. QED BY <1>1, <1>2, <2>2, <4>1 DEF SettledBy, Closing
    <3>3. /\ lostMarks'[r] = 0 => lostMarks[r] = 0
          /\ lostMarks'[r] > 0 => sends[r] > 0
          /\ SettledBy(v, r) => lostMarks'[r] > 0
      BY <1>6, <2>0, <2>2, <3>2 DEF Recorded
    <3>4. Recorded(r)'
      BY <1>1, <1>7, <2>0, <2>2, <3>1, <3>3 DEF Recorded
    <3>5. Undisturbed' => Told(r)'
      BY <1>1, <1>5, <1>6, <2>0, <2>2, <3>3 DEF Told
    <3>. QED BY <3>4, <3>5
  <2>3. CASE r \in w.job.rows /\ UNCHANGED <<lostMarks, faults>> /\ log'[r] = MarkedRow(w.job, r, w.out)
    <3>1. \/ log'[r].status = "none" /\ log[r].status = "none"
          \/ w.out = "sent" /\ log'[r].status = "sent" /\ log[r].status \in Open
          \/ w.out # "sent" /\ log'[r].status \in {"failed", "dead"} /\ log[r].status \in Open
      BY <1>6, <2>3 DEF MarkedRow, FailStatus
    <3>2. Recorded(r)'
      BY <1>1, <1>7, <2>0, <2>3, <3>1, RecordedKept DEF Open
    <3>3. ASSUME Undisturbed' PROVE Told(r)'
      <4>0. Told(r) /\ ~Skipped(r)' /\ (Settled(r)' => w.out = "sent")
        BY <1>1, <1>6, <2>0, <2>3, <3>3 DEF SettledBy, Closing
      <4>1. log'[r].status = "sent" => sends'[r] > 0
        <5>1. w.out = "sent" /\ log[r].status \in Open => Accepted(r) \/ (Skipped(r) /\ lostMarks[r] > 0)
          BY <1>6, <2>3, <4>0 DEF Told, Open
        <5>2. Accepted(r) \/ lostMarks[r] > 0 => sends[r] > 0
          BY <2>0 DEF Recorded
        <5>. QED BY <1>1, <3>1, <5>1, <5>2
      <4>2. log'[r].status \in Open /\ lostMarks'[r] = 0 => Exists(EntryOf(r))'
        BY <1>5, <2>3, <3>1, <4>0 DEF Told, Open
      <4>3. Settled(r)' => log'[r].status \notin Open
        BY <3>1, <4>0 DEF Open
      <4>. QED BY <4>0, <4>1, <4>2, <4>3 DEF Told
    <3>. QED BY <3>2, <3>3
  <2>. QED BY <1>2, <2>1, <2>2, <2>3
<1>9. ASSUME NEW e \in Entries PROVE Staged(e)'
  <2>1. \A r \in Rows : log[r].status = "none" => log'[r].status = "none"
    BY <1>2 DEF MarkedRow
  <2>. QED BY <1>1, <2>1, StagedKept DEF EInv
<1>10. ASSUME NEW e \in Entries PROVE Relayed(e)'
  <2>. SUFFICES ASSUME e \in Relay, faults' = 0 PROVE Relayed(e)'
    BY DEF Relayed
  <2>1. /\ UNCHANGED lostMarks
        /\ log' = [r \in Rows |-> IF r \in w.job.rows
                           THEN MarkedRow(w.job, r, w.out) ELSE log[r]]
    <3>1. Fault("dbfail") => faults' # faults
      BY DEF TypeOK, Fault
    <3>. QED BY <1>2, <1>4, <3>1
  <2>2. CASE \E r \in Rows : EntryOf(r) = e /\ r \in w.job.rows /\ log[r].status # "none"
    <3>1. PICK r \in Rows : EntryOf(r) = e /\ r \in w.job.rows /\ log[r].status # "none"
      BY <2>2
    <3>2. log'[r].status \in Open \cup {"dead"} \/ (w.out = "sent" /\ log'[r].status = "sent")
      BY <2>1, <3>1 DEF MarkedRow, FailStatus, Open
    <3>3. w.out = "sent" => r \in w.todo
      <4>1. Undisturbed /\ lostMarks[r] = 0
        BY <1>4 DEF Undisturbed, EInv, Recorded
      <4>2. Told(r)
        BY <4>1 DEF EInv
      <4>. QED BY <1>6, <3>1, <4>1, <4>2 DEF Told
    <3>4. w.out = "sent" => Settled(r)'
      <4>1. w.out = "sent" => SettledBy(v, r)
        BY <1>1, <3>3 DEF SettledBy, Closing
      <4>. QED BY <1>7, <4>1
    <3>5. Cared(e)'
      BY <3>1, <3>2, <3>4 DEF Cared
    <3>. QED BY <3>5 DEF Relayed
  <2>3. CASE ~\E r \in Rows : EntryOf(r) = e /\ r \in w.job.rows /\ log[r].status # "none"
    <3>1. \A r \in Rows : EntryOf(r) = e => log'[r].status = log[r].status
      BY <2>1, <2>3 DEF MarkedRow
    <3>. QED
      BY <1>1, <1>4, <1>5, <1>7, <3>1, RelayedKept DEF EInv
  <2>. QED BY <2>2, <2>3
<1>11. \A q \in Workers : KeepsEntry(q)'
  BY <1>1, <1>3 DEF EInv, KeepsEntry, DeletesOnSuccess, v
<1>. QED BY <1>8, <1>9, <1>10, <1>11 DEF EInv

\* The on_success action of a relay entry: it goes unless somebody else is
\* still to deliver it.
LEMMA EInvDeletes ==
  ASSUME TypeOK, DInv, EInv, NEW k \in Workers, Moves(k), NEW r \in worker[k].todo,
         worker[k].pc = "after", worker'[k].pc = "after", worker'[k].todo = worker[k].todo \ {r},
         UNCHANGED <<log, poll, sends, lostMarks>>,
         \/ /\ UNCHANGED faults
            /\ IF Exists(EntryOf(r)) /\ ~Incomplete(r) THEN DeleteEntry(EntryOf(r)) ELSE UNCHANGED entry
         \/ Fault("dbfail") /\ UNCHANGED entry
  PROVE  EInv'
<1>. DEFINE w == worker[k]
            v == worker'[k]
            e0 == EntryOf(r)
<1>0. r \in Rows /\ e0 \in Entries
  BY RowParts DEF TypeOK, MemTypeOK, WorkerStates
<1>1. /\ faults' = 0 => faults = 0 /\ faults' = faults
      /\ Undisturbed' => Undisturbed
  BY FaultsGrow
<1>2. \A q \in Workers : q # k => worker'[q] = worker[q]
  BY DEF Moves
<1>3. /\ \A e \in Entries : e # e0 => entry'[e] = entry[e]
      /\ \A e \in Entries : Exists(e)' => Exists(e)
      /\ \A e \in Entries : entry'[e] = "absent" <=> entry[e] = "absent"
  BY <1>0 DEF DeleteEntry, Exists, TypeOK, DbTypeOK
<1>4. ASSUME NEW s \in Rows
      PROVE  /\ (Skipped(s)' => Skipped(s)) /\ (Settled(s)' => Settled(s)) /\ (Accepted(s)' => Accepted(s))
             /\ s # r => (Settled(s) => Settled(s)')
  <2>1. /\ ~SkippedBy(v, s) /\ ~AcceptedBy(v, s) /\ (SettledBy(v, s) => SettledBy(w, s))
        /\ s # r => (SettledBy(w, s) => SettledBy(v, s))
    BY DEF SkippedBy, AcceptedBy, SettledBy, Closing
  <2>. HIDE DEF w, v
  <2>. QED BY <1>2, <2>1, OneMoves DEF w, v
<1>5. Settled(r)
  BY DEF Settled, SettledBy, Closing
<1>6. ASSUME NEW s \in Rows PROVE Recorded(s)' /\ (Undisturbed' => Told(s)')
  <2>1. Recorded(s)'
    BY <1>1, <1>4, RecordedKept DEF EInv
  <2>2. ASSUME Undisturbed' PROVE Told(s)'
    <3>0. Told(s) /\ Told(r)
      BY <1>0, <1>1, <2>2 DEF EInv
    <3>1. log[s].status \in Open /\ lostMarks[s] = 0 /\ Exists(EntryOf(s)) => Exists(EntryOf(s))'
      <4>1. CASE EntryOf(s) # e0
        BY <1>3, <4>1, RowParts DEF Exists
      <4>2. CASE s = r
        BY <1>5, <3>0, <4>2 DEF Told
      <4>3. CASE EntryOf(s) = e0 /\ s # r /\ log[s].status \in Open
        <5>1. Incomplete(r)
          BY <4>3, RowParts DEF Incomplete
        <5>. QED BY <4>3, <5>1 DEF Exists
      <4>. QED BY <4>1, <4>2, <4>3
    <3>. QED BY <1>4, <3>0, <3>1, ToldKept
  <2>. QED BY <2>1, <2>2
<1>7. ASSUME NEW e \in Entries PROVE Staged(e)' /\ Relayed(e)'
  <2>1. Staged(e)'
    BY <1>3, StagedKept DEF EInv
  <2>2. CASE e # e0
    <3>1. \A s \in Rows : EntryOf(s) = e => (Settled(s) => Settled(s)')
      BY <1>4, <2>2
    <3>. QED BY <1>1, <1>3, <2>1, <3>1, RelayedKept DEF EInv
  <2>3. CASE e = e0
    <3>. SUFFICES ASSUME faults' = 0, Exists(e0)' PROVE Cared(e0)'
      BY <2>1, <2>3 DEF Relayed
    <3>1. Exists(e0) /\ faults' = faults
      BY <1>0, <1>1, <1>3
    <3>2. Incomplete(r)
      <4>1. Fault("dbfail") => faults' # faults
        BY DEF TypeOK, Fault
      <4>2. DeleteEntry(e0) => ~Exists(e0)'
        BY <1>0 DEF DeleteEntry, Exists, TypeOK, DbTypeOK
      <4>. QED BY <3>1, <4>1, <4>2
    <3>3. PICK x \in Webhooks : log[<<x, e0>>].status \in Open
      BY <3>2 DEF Incomplete
    <3>4. <<x, e0>> \in Rows /\ EntryOf(<<x, e0>>) = e0
      BY <1>0, PairParts
    <3>. QED BY <3>3, <3>4 DEF Cared
  <2>. QED BY <2>2, <2>3
<1>8. \A q \in Workers : KeepsEntry(q)'
  BY <1>2 DEF EInv, KeepsEntry, DeletesOnSuccess
<1>. QED BY <1>6, <1>7, <1>8 DEF EInv

LEMMA EInvOnSuccess ==
  ASSUME TypeOK, DInv, EInv, NEW k \in Workers, OnSuccessSteps(k) PROVE EInv'
<1>. DEFINE w == worker[k]
            v == worker'[k]
<1>1. CASE OnSuccessBegin(k)
  <2>1. Moves(k) /\ w.pc = "after" /\ UNCHANGED <<log, poll, sends, lostMarks>>
    BY <1>1, BeginMoves
  <2>2. CASE w.todo = {} /\ v.todo = {} /\ v.pc = "free" /\ UNCHANGED <<entry, faults>>
    <3>1. \A r \in Rows : /\ ~SkippedBy(v, r) /\ ~SettledBy(v, r)
                          /\ ~AcceptedBy(v, r) /\ ~SettledBy(w, r)
      BY <2>2 DEF SkippedBy, SettledBy, AcceptedBy, Closing
    <3>2. KeepsEntry(k)'
      BY <2>2 DEF KeepsEntry
    <3>. QED BY <2>1, <2>2, <3>1, <3>2, EInvQuiet, EntriesStill DEF Moves
  <2>3. ASSUME NEW r \in w.todo, ~DeletesOnSuccess(EntryOf(r)),
               v.pc = "outcome", v.todo = w.todo, v.row = r,
               UNCHANGED entry, UNCHANGED faults \/ Fault("dbfail")
        PROVE  EInv'
    <3>1. \A s \in Rows : /\ ~SkippedBy(v, s) /\ ~AcceptedBy(v, s)
                          /\ SettledBy(w, s) <=> SettledBy(v, s)
      BY <2>1, <2>3 DEF SkippedBy, SettledBy, AcceptedBy, Closing
    <3>2. KeepsEntry(k)'
      BY <2>3 DEF KeepsEntry, DeletesOnSuccess
    <3>3. \A s \in Rows : SettledBy(w, s) => Settled(s)
      BY DEF Settled
    <3>. QED BY <2>1, <2>3, <3>1, <3>2, <3>3, EInvQuiet, EntriesStill DEF Moves
  <2>4. ASSUME NEW r \in w.todo, v.pc = "after", v.todo = w.todo \ {r},
               \/ /\ UNCHANGED faults
                  /\ IF Exists(EntryOf(r)) /\ ~Incomplete(r) THEN DeleteEntry(EntryOf(r)) ELSE UNCHANGED entry
               \/ Fault("dbfail") /\ UNCHANGED entry
        PROVE  EInv'
    BY <2>1, <2>4, EInvDeletes
  <2>. HIDE DEF w, v
  <2>. QED BY <1>1, <2>2, <2>3, <2>4, BeginMoves DEF w, v
<1>2. CASE ~OnSuccessBegin(k)
  <2>1. /\ Moves(k) /\ w.pc \in {"outcome", "hash", "delete"}
        /\ \/ v.pc = "after" /\ v.todo = w.todo \ {w.row}
           \/ v.pc \in {"hash", "delete"} /\ v.todo = w.todo /\ v.row = w.row
        /\ UNCHANGED <<log, poll, sends, lostMarks>>
        /\ UNCHANGED entry \/ (\E e : Exists(e) /\ entry' = [entry EXCEPT ![e] = "stripped"])
        /\ UNCHANGED faults \/ Fault("dbfail")
    BY <1>2, OnSuccessMoves DEF OnSuccessSteps
  <2>2. \A e \in Entries : /\ Exists(e)' <=> Exists(e)
                           /\ entry'[e] = "absent" <=> entry[e] = "absent"
    BY <2>1 DEF Exists, TypeOK, DbTypeOK
  <2>3. EntryOf(w.row) \notin Relay /\ KeepsEntry(k)'
    BY <2>1 DEF EInv, KeepsEntry, DeletesOnSuccess
  <2>4. \A s \in Rows : /\ ~SkippedBy(v, s) /\ ~AcceptedBy(v, s)
                        /\ SettledBy(v, s) => SettledBy(w, s)
                        /\ SettledBy(w, s) => SettledBy(v, s) \/ s = w.row
    BY <2>1 DEF SkippedBy, SettledBy, AcceptedBy, Closing
  <2>5. \A s \in Rows : SettledBy(w, s) => Settled(s)
    BY DEF Settled
  <2>. QED BY <2>1, <2>2, <2>3, <2>4, <2>5, EInvQuiet DEF Moves
<1>. QED BY <1>1, <1>2

LEMMA EInvNext == ASSUME TypeOK, Hold, DInv, EInv, [Next]_vars PROVE EInv'
<1>1. CASE UNCHANGED vars
  BY <1>1, EInvStill DEF vars, dbVars, memVars, histVars
<1>2. CASE Poller
  BY <1>2, EInvStore, EInvEnqueue, EInvDrop DEF Poller
<1>3. ASSUME NEW k \in Workers, Delivery(k) PROVE EInv'
  BY <1>3, EInvTake, EInvLoad, EInvSend, EInvMark, EInvOnSuccess, EInvFree
     DEF Delivery, OnSuccessSteps
<1>4. CASE Environment
  BY <1>4, EInvCrash, EInvEnvironment
<1>. QED
  BY <1>1, <1>2, <1>3, <1>4, EInvDispatcher, EInvTime DEF Next

\* What webhook_logs says of an entry is true of it: kept while a delivery is
\* owed, gone with its last relay delivery, sent only if it was delivered.
THEOREM EntriesAccountedHolds == Spec => []EntriesAccounted
<1>1. ASSUME TypeOK, DInv, EInv PROVE EntriesAccounted
  <2>1. HeldWhileOpen /\ SentMeansDelivered
    BY <1>1 DEF EInv, Told, HeldWhileOpen, SentMeansDelivered
  <2>2. ASSUME NEW e \in Relay, faults = 0, poll[e].stage = "done",
               \A route \in Routes[e] : log[<<route[1], e>>].status = "sent",
               \A k \in Workers : \A r \in worker[k].job.rows : EntryOf(r) # e
        PROVE  entry[e] = "deleted"
    <3>0. e \in Entries
      BY ConstantsAssumption
    <3>1. ~Cared(e)
      <4>1. \A r \in Rows : EntryOf(r) = e => ~Settled(r)
        BY <1>1, <2>2 DEF DInv, TodoHeld, Settled, SettledBy
      <4>2. ASSUME NEW r \in Rows, EntryOf(r) = e, log[r].status \in Open \cup {"dead"} PROVE FALSE
        <5>1. PICK route \in Routes[e] : route[1] = HookOf(r)
          BY <1>1, <4>2 DEF EInv, Recorded, Open
        <5>2. r = <<route[1], e>>
          BY <4>2, <5>1, RowParts
        <5>. QED BY <2>2, <4>2, <5>2 DEF Open
      <4>. QED BY <4>1, <4>2 DEF Cared
    <3>2. ~Exists(e)
      BY <1>1, <2>2, <3>0, <3>1 DEF EInv, Relayed
    <3>3. entry[e] # "absent"
      BY <1>1, <2>2, <3>0 DEF EInv, Staged
    <3>. QED
      BY <1>1, <3>0, <3>2, <3>3 DEF TypeOK, DbTypeOK, Exists
  <2>3. RelayRowGoes
    BY <2>2 DEF RelayRowGoes
  <2>. QED BY <2>1, <2>3 DEF EntriesAccounted
<1>2. Spec => []Hold
  BY HoldInit, HoldNext, TypeCorrect, PTL DEF Spec
<1>3. Spec => []DInv
  BY <1>2, DInvInit, DInvNext, TypeCorrect, PTL DEF Spec
<1>. QED
  BY <1>1, <1>2, <1>3, EInvInit, EInvNext, TypeCorrect, PTL DEF Spec
=============================================================================
