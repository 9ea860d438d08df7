--------------------------- MODULE WebhookDelivery ---------------------------
(***************************************************************************)
(* The webhook delivery pipeline of rssam: the poller fans a new entry out *)
(* to webhook_logs rows, one dispatcher claims due rows and hands them to  *)
(* a pool of delivery workers through a channel, a worker sends the HTTP   *)
(* request, writes the row's status and applies the on_success action to   *)
(* the entry.                                                              *)
(*                                                                         *)
(* Time is abstracted: a pending or failed row is either due               *)
(* (next_retry_at <= now) or parked until its timer fires; `older' keeps   *)
(* the next_retry_at order of the due rows.  Every database statement, and *)
(* every access to the runner's mutex-protected sets, is one atomic step.  *)
(***************************************************************************)
EXTENDS Naturals, FiniteSets, Sequences

CONSTANTS
  Webhooks, Entries, Users, Workers,
  Owner,          \* Owner[w]: webhooks.user_id
  OnSuccess,      \* OnSuccess[w]: webhooks.on_success_entry
  Digest,         \* the webhooks with digest_minutes > 0
  Routes,         \* Routes[e]: why e goes to a webhook, one <<webhook, "filter">>
                  \* per matching filter action, <<webhook, "feed">> per subscription
  Relay,          \* the entries of feeds whose store mode is relay
  DedupOnly,      \* Config.DedupOnlyStorage
  DigestMax,      \* webhookDigestMaxItems
  MaxAttempts,    \* WEBHOOK_MAX_ATTEMPTS
  PoolSize,       \* WEBHOOK_WORKER_POOL_SIZE, the LIMIT of one claim
  Faults,         \* which environment events a run allows
  MaxFaults       \* how many of them one behaviour may contain (a model bound)

ASSUME ConstantsAssumption ==
  /\ Owner \in [Webhooks -> Users]
  /\ OnSuccess \in [Webhooks -> {"none", "mark_read", "hash", "delete"}]
  /\ Digest \subseteq Webhooks
  /\ Routes \in [Entries -> SUBSET (Webhooks \X {"filter", "feed"})]
  /\ Relay \subseteq Entries
  /\ DedupOnly \in BOOLEAN
  /\ DigestMax \in Nat \ {0}
  /\ MaxAttempts \in Nat \ {0}
  /\ PoolSize \in Nat \ {0}
  /\ MaxFaults \in Nat

VARIABLES
  entry,      \* entries: absent, full, stripped (payload cleared) or deleted
  uentry,     \* what each user sees of an entry
  hook,       \* webhooks: on, off (enabled = FALSE) or deleted
  log,        \* webhook_logs, one row per (webhook, entry); status "none" = no row
  older,      \* next_retry_at order among the due rows
  poll,       \* the poller's afterStore: stage and routes still to enqueue
  inflight,   \* Runner.inflightHooks: free, busy, or in its finishedGrace
  flood,      \* Runner.pausedHooks: webhooks waiting out a 429
  disp,       \* the dispatcher: program counter, exclude list, claimed batch
  chan,       \* webhookLogsCh
  worker,     \* the delivery workers
  sends,      \* history: how often the receiver accepted row r
  lostMarks,  \* history: how often an accepted delivery's status write was lost
  faults      \* environment events so far

dbVars   == <<entry, uentry, hook, log, older>>
memVars  == <<inflight, flood, disp, chan, worker>>
histVars == <<sends, lostMarks>>
vars     == <<dbVars, poll, memVars, histVars, faults>>

Rows == Webhooks \X Entries
HookOf(r)  == r[1]
EntryOf(r) == r[2]

NoLog  == [status |-> "none", attempt |-> 0, due |-> "later"]
NoClaim == [hook |-> "none", carrier |-> <<>>, rows |-> {}, attempt |-> 0]
IdleWorker == [pc |-> "idle", job |-> NoClaim, out |-> "none", todo |-> {},
               row |-> <<>>, stored |-> FALSE]
Open   == {"pending", "failed"}          \* status IN ('pending','failed')
Exists(e) == entry[e] \in {"full", "stripped"}

Fault(f) == f \in Faults /\ faults < MaxFaults /\ faults' = faults + 1
NoFault  == UNCHANGED faults

(***************************************************************************)
(* webhook_logs: moving a row in and out of the due range                  *)
(***************************************************************************)
DueRows == {r \in Rows : log[r].due = "now"}

\* The rows S get next_retry_at = now(): younger than every row already due.
OlderAfterDue(S) ==
  {p \in older : p[1] \notin S /\ p[2] \notin S} \cup ((DueRows \ S) \X S)

\* The rows S leave the due range (parked for later, settled or deleted).
OlderWithout(S) == {p \in older : p[1] \notin S /\ p[2] \notin S}

SetRows(S, f(_)) == log' = [r \in Rows |-> IF r \in S THEN f(r) ELSE log[r]]

\* DELETE FROM entries: the users' rows go with it (ON DELETE CASCADE).
DeleteEntry(e) ==
  /\ entry' = [entry EXCEPT ![e] = "deleted"]
  /\ uentry' = [p \in Users \X Entries |-> IF p[2] = e THEN "none" ELSE uentry[p]]

Init ==
  /\ entry = [e \in Entries |-> "absent"]
  /\ uentry = [p \in Users \X Entries |-> "none"]
  /\ hook = [w \in Webhooks |-> "on"]
  /\ log = [r \in Rows |-> NoLog]
  /\ older = {}
  /\ poll = [e \in Entries |-> [stage |-> "new", todo |-> {}]]
  /\ inflight = [w \in Webhooks |-> "free"]
  /\ flood = {}
  /\ disp = [pc |-> "start", exclude |-> {}, batch |-> {}]
  /\ chan = <<>>
  /\ worker = [k \in Workers |-> IdleWorker]
  /\ sends = [r \in Rows |-> 0]
  /\ lostMarks = [r \in Rows |-> 0]
  /\ faults = 0

(***************************************************************************)
(* The poller: a stored entry is fanned out subscriber by subscriber       *)
(***************************************************************************)

\* CreateEntriesWithRefreshMeta / StoreFilteredPoll committed the entry.
StoreEntry(e) ==
  /\ poll[e].stage = "new"
  /\ entry' = [entry EXCEPT ![e] = "full"]
  /\ uentry' = [p \in Users \X Entries |->
                  IF p[2] = e /\ e \notin Relay THEN "unread" ELSE uentry[p]]
  /\ poll' = [poll EXCEPT ![e] = [stage |-> "fanout", todo |-> Routes[e]]]
  /\ NoFault
  /\ UNCHANGED <<hook, log, older, memVars, histVars>>

\* EnqueueWebhookLogs: INSERT ... FROM webhooks w, entries e ... ON CONFLICT
\* DO NOTHING, so a row only when both exist and the pair has none yet.
MutInserts(r) == hook[HookOf(r)] # "deleted" /\ Exists(EntryOf(r))
Inserts(r) ==
  hook[HookOf(r)] # "deleted" /\ Exists(EntryOf(r)) /\ log[r].status = "none"

\* A new row is due at once, a digest row at the end of its window.
NewRow(w) == [status |-> "pending", attempt |-> 0,
              due |-> IF w \in Digest THEN "later" ELSE "now"]

EnqueueWebhookLogs(e, route) ==
  LET w == route[1]
      r == <<w, e>>
  IN /\ poll[e].stage = "fanout" /\ route \in poll[e].todo
     /\ poll' = [poll EXCEPT ![e].todo = @ \ {route}]
     /\ \/ /\ NoFault
           /\ log' = IF Inserts(r) THEN [log EXCEPT ![r] = NewRow(w)] ELSE log
           /\ older' = IF Inserts(r) /\ w \notin Digest THEN OlderAfterDue({r}) ELSE older
        \/ Fault("dbfail") /\ UNCHANGED <<log, older>>     \* error ignored
     /\ UNCHANGED <<entry, uentry, hook, memVars, histVars>>

\* The end of afterStore; a relay entry without a delivery row is dropped.
DropUndeliveredRelayEntries(e) ==
  /\ poll[e].stage = "fanout" /\ poll[e].todo = {}
  /\ poll' = [poll EXCEPT ![e].stage = "done"]
  /\ \/ /\ NoFault
        /\ IF /\ e \in Relay /\ Exists(e)
              /\ \A w \in Webhooks : log[<<w, e>>].status = "none"
           THEN DeleteEntry(e) ELSE UNCHANGED <<entry, uentry>>
     \/ Fault("dbfail") /\ UNCHANGED <<entry, uentry>>
  /\ UNCHANGED <<hook, log, older, memVars, histVars>>

(***************************************************************************)
(* webhookDispatchLoop                                                     *)
(***************************************************************************)

\* inflightHooks.exclude(now): every webhook still in the set.
DispatchExclude ==
  /\ disp.pc = "start"
  /\ disp' = [disp EXCEPT !.pc = "paused",
                          !.exclude = {w \in Webhooks : inflight[w] # "free"}]
  /\ NoFault
  /\ UNCHANGED <<dbVars, poll, inflight, flood, chan, worker, histVars>>

\* pausedHooks.active(now), read after the in-flight set.
MutDispatchPaused ==      \* the pauses are not excluded
  /\ disp.pc = "paused"
  /\ disp' = [disp EXCEPT !.pc = "claim"]
  /\ NoFault
  /\ UNCHANGED <<dbVars, poll, inflight, flood, chan, worker, histVars>>

DispatchPaused ==
  /\ disp.pc = "paused"
  /\ disp' = [disp EXCEPT !.pc = "claim", !.exclude = @ \cup flood]
  /\ NoFault
  /\ UNCHANGED <<dbVars, poll, inflight, flood, chan, worker, histVars>>

\* The oldest due row of w (DISTINCT ON ... ORDER BY next_retry_at, id).
IsOldestOf(r) ==
  /\ log[r].due = "now"
  /\ ~\E s \in DueRows : HookOf(s) = HookOf(r) /\ <<s, r>> \in older

Claim(r, rows) == [hook |-> HookOf(r), carrier |-> r, rows |-> rows,
                   attempt |-> log[r].attempt]

\* S is what ClaimDueWebhookLogs(limit, exclude) may return: one oldest row per
\* webhook not excluded, and of these the PoolSize oldest.
ClaimDueWebhookLogs(S) ==
  LET heads == {r \in Rows : HookOf(r) \notin disp.exclude /\ IsOldestOf(r)}
      hooks == {HookOf(r) : r \in heads}
  IN /\ S \subseteq heads
     /\ \A r, s \in S : HookOf(r) = HookOf(s) => r = s
     /\ Cardinality(S) = IF Cardinality(hooks) < PoolSize
                         THEN Cardinality(hooks) ELSE PoolSize
     /\ \A r \in S, s \in heads : <<s, r>> \in older => HookOf(s) \in {HookOf(t) : t \in S}

DispatchClaim ==
  /\ disp.pc = "claim"
  /\ \/ /\ NoFault
        /\ \E S \in SUBSET Rows :
             /\ ClaimDueWebhookLogs(S)
             /\ disp' = [pc |-> IF S = {} THEN "start" ELSE "peers",
                         exclude |-> {}, batch |-> {Claim(r, {r}) : r \in S}]
     \/ /\ Fault("dbfail")
        /\ disp' = [pc |-> "start", exclude |-> {}, batch |-> {}]
  /\ UNCHANGED <<dbVars, poll, inflight, flood, chan, worker, histVars>>

\* A digest carrier with what ClaimWebhookDigestPeers may return for it: the
\* webhook's other due rows, DigestMax rows in all; on error the carrier alone.
DigestPeers(r) == {s \in DueRows : HookOf(s) = HookOf(r) /\ s # r}

WithPeers(j, P) ==
  LET D == DigestPeers(j.carrier)
  IN IF j.hook \notin Digest THEN P = {}
     ELSE /\ P \subseteq D
          /\ Cardinality(P) = IF Cardinality(D) < DigestMax - 1
                              THEN Cardinality(D) ELSE DigestMax - 1

\* groupDigestLogs
DispatchPeers ==
  /\ disp.pc = "peers"
  /\ \E P \in [disp.batch -> SUBSET Rows] :
       /\ \/ NoFault /\ \A j \in disp.batch : WithPeers(j, P[j])
          \/ /\ \E j \in disp.batch : j.hook \in Digest
             /\ Fault("dbfail") /\ \A j \in disp.batch : P[j] = {}
       /\ disp' = [disp EXCEPT !.pc = "send",
                     !.batch = {[j EXCEPT !.rows = @ \cup P[j]] : j \in disp.batch}]
  /\ UNCHANGED <<dbVars, poll, inflight, flood, chan, worker, histVars>>

MutDispatchSend ==        \* start is called by nobody
  /\ disp.pc = "send"
  /\ Len(chan) < 2 * PoolSize
  /\ \E j \in disp.batch :
       /\ chan' = Append(chan, j)
       /\ disp' = [disp EXCEPT !.batch = @ \ {j},
                               !.pc = IF disp.batch = {j} THEN "start" ELSE "send"]
  /\ NoFault
  /\ UNCHANGED <<dbVars, poll, inflight, flood, worker, histVars>>

\* inflightHooks.start, then the send into webhookLogsCh (cap = 2 * PoolSize).
DispatchSend ==
  /\ disp.pc = "send"
  /\ Len(chan) < 2 * PoolSize
  /\ \E j \in disp.batch :
       /\ inflight' = [inflight EXCEPT ![j.hook] = "busy"]
       /\ chan' = Append(chan, j)
       /\ disp' = [disp EXCEPT !.batch = @ \ {j},
                               !.pc = IF disp.batch = {j} THEN "start" ELSE "send"]
  /\ NoFault
  /\ UNCHANGED <<dbVars, poll, flood, worker, histVars>>

(***************************************************************************)
(* webhookWorkerLoop                                                       *)
(***************************************************************************)
WorkerTake(k) ==
  /\ worker[k].pc = "idle" /\ chan # <<>>
  /\ worker' = [worker EXCEPT ![k] =
       [IdleWorker EXCEPT !.pc = "load", !.job = Head(chan)]]
  /\ chan' = Tail(chan)
  /\ NoFault
  /\ UNCHANGED <<dbVars, poll, inflight, flood, disp, histVars>>

\* The rows of a job whose row, webhook and entry can still be joined.
Loaded(j) == {r \in j.rows : /\ log[r].status # "none"
                             /\ hook[HookOf(r)] # "deleted" /\ Exists(EntryOf(r))}

\* LoadWebhookDeliveryContext / LoadWebhookDigestContext and everything up to
\* the request: not found, disabled, an unusable payload or URL, or ready.
WorkerLoad(k) ==
  LET j == worker[k].job
      verdict(o) == [worker EXCEPT ![k] = [@ EXCEPT !.pc = "mark", !.out = o]]
  IN /\ worker[k].pc = "load"
     /\ \/ Fault("dbfail") /\ worker' = verdict("retry")
        \/ /\ NoFault
           /\ IF hook[j.hook] = "deleted" THEN
                worker' = verdict(IF j.hook \in Digest THEN "retry" ELSE "dead")
              ELSE IF Loaded(j) = {} /\ j.hook \notin Digest THEN worker' = verdict("dead")
              ELSE IF hook[j.hook] = "off" THEN worker' = verdict("park")
              ELSE IF Loaded(j) = {} THEN worker' = verdict("dead")
              ELSE \/ worker' = verdict("dead")
                   \/ worker' = [worker EXCEPT ![k] = [@ EXCEPT !.pc = "send", !.todo = Loaded(j)]]
     /\ UNCHANGED <<dbVars, poll, inflight, flood, disp, chan, histVars>>

\* client.Do: 2xx accepted; network error, timeout, 408 or 5xx; 429, which
\* pauses the webhook; any other answer.
WorkerSend(k) ==
  LET j == worker[k].job
  IN /\ worker[k].pc = "send"
     /\ \E o \in {"sent", "retry", "flood", "dead"} :
          /\ worker' = [worker EXCEPT ![k] = [@ EXCEPT !.pc = "mark", !.out = o]]
          /\ sends' = IF o = "sent"
                      THEN [r \in Rows |-> IF r \in worker[k].todo
                                           THEN sends[r] + 1 ELSE sends[r]]
                      ELSE sends
          /\ flood' = IF o = "flood" THEN flood \cup {j.hook} ELSE flood
     /\ NoFault
     /\ UNCHANGED <<dbVars, poll, inflight, disp, chan, lostMarks>>


MutFailStatus(o, attempt) ==      \* one attempt short
  IF o = "dead" \/ (o = "retry" /\ attempt + 1 >= MaxAttempts) THEN "dead" ELSE "failed"

\* webhookRetrySchedule: dead once the attempt just made is the last one.
FailStatus(o, attempt) ==
  IF o = "dead" \/ (o = "retry" /\ attempt >= MaxAttempts) THEN "dead" ELSE "failed"

MutNextAttempt(j, r, o) ==        \* a 429 gives an attempt back
  LET before == IF j.hook \in Digest THEN log[r].attempt ELSE j.attempt
  IN IF o \in {"flood", "park"} THEN before - 1 ELSE before + 1

\* A single row gets the claimed attempt, digest rows count their own.
NextAttempt(j, r, o) ==
  LET before == IF j.hook \in Digest THEN log[r].attempt ELSE j.attempt
  IN IF o \in {"flood", "park"} THEN before ELSE before + 1

MarkedRow(j, r, o) ==
  IF log[r].status = "none" THEN log[r]
  ELSE [status |-> IF o = "sent" THEN "sent" ELSE FailStatus(o, j.attempt + 1),
        attempt |-> NextAttempt(j, r, o), due |-> "later"]

\* MarkWebhookLog(s)Sent / MarkWebhookLog(s)Failed.  A failed write is ignored:
\* an accepted delivery still goes on to applyOnSuccessEntry.
WorkerMark(k) ==
  LET j == worker[k].job
      o == worker[k].out
  IN /\ worker[k].pc = "mark"
     /\ \E ok \in BOOLEAN :
          /\ IF ok THEN NoFault ELSE Fault("dbfail")
          /\ IF ok
             THEN SetRows(j.rows, LAMBDA r : MarkedRow(j, r, o))
                  /\ older' = OlderWithout(j.rows)
             ELSE UNCHANGED <<log, older>>
          /\ lostMarks' = IF ~ok /\ o = "sent"
                          THEN [r \in Rows |-> IF r \in worker[k].todo
                                               THEN lostMarks[r] + 1 ELSE lostMarks[r]]
                          ELSE lostMarks
          /\ worker' = [worker EXCEPT ![k] = [@ EXCEPT !.pc = IF o = "sent" THEN "after" ELSE "free",
                                      !.stored = ok]]
     /\ UNCHANGED <<entry, uentry, hook, poll, inflight, flood, disp, chan, sends>>

MutFreed(k) == IF worker[k].stored THEN "free" ELSE "busy"   \* done is not called
Freed(k)    == IF worker[k].stored THEN "free" ELSE "grace"

\* stored: forget the webhook; else done, which keeps it for finishedGrace.
WorkerFree(k) ==
  /\ worker[k].pc = "free"
  /\ inflight' = [inflight EXCEPT ![worker[k].job.hook] = Freed(k)]
  /\ worker' = [worker EXCEPT ![k] = IdleWorker]
  /\ NoFault
  /\ UNCHANGED <<dbVars, poll, flood, disp, chan, histVars>>

(***************************************************************************)
(* applyOnSuccessEntry, once per delivered row                             *)
(***************************************************************************)
DeletesOnSuccess(e) == DedupOnly \/ e \in Relay

MutIncomplete(r) ==       \* a failed delivery does not hold the entry
  \E w \in Webhooks : /\ <<w, EntryOf(r)>> # r
                      /\ log[<<w, EntryOf(r)>>].status = "pending"


\* Another delivery of r's entry that is still pending or failed.
Incomplete(r) == \E w \in Webhooks : /\ <<w, EntryOf(r)>> # r
                                     /\ log[<<w, EntryOf(r)>>].status \in Open

NextRow(k) == [worker EXCEPT ![k] = [@ EXCEPT !.pc = "after",
                                      !.todo = worker[k].todo \ {worker[k].row},
                                      !.row = <<>>]]

\* The next row of the job, or the end of it.  A relay entry is deleted unless
\* another delivery holds it (one statement); otherwise mark_read comes first.
OnSuccessBegin(k) ==
  /\ worker[k].pc = "after"
  /\ \/ /\ worker[k].todo = {}
        /\ worker' = [worker EXCEPT ![k] = [@ EXCEPT !.pc = "free"]]
        /\ NoFault
        /\ UNCHANGED <<entry, uentry>>
     \/ \E r \in worker[k].todo :
          LET e == EntryOf(r)
              u == Owner[worker[k].job.hook]
          IN \/ /\ DeletesOnSuccess(e)
                /\ NoFault
                /\ IF Exists(e) /\ ~Incomplete(r)
                   THEN DeleteEntry(e) ELSE UNCHANGED <<entry, uentry>>
                /\ worker' = [worker EXCEPT ![k] = [@ EXCEPT !.todo = worker[k].todo \ {r}]]
             \/ /\ ~DeletesOnSuccess(e)
                /\ NoFault
                /\ uentry' = IF OnSuccess[worker[k].job.hook] = "mark_read"
                                /\ uentry[<<u, e>>] = "unread"
                             THEN [uentry EXCEPT ![<<u, e>>] = "read"] ELSE uentry
                /\ worker' = [worker EXCEPT ![k] = [@ EXCEPT !.pc = "outcome", !.row = r]]
                /\ UNCHANGED entry
             \/ /\ Fault("dbfail")        \* the statement fails: logged only
                /\ worker' = IF DeletesOnSuccess(e)
                             THEN [worker EXCEPT ![k] = [@ EXCEPT !.todo = worker[k].todo \ {r}]]
                             ELSE [worker EXCEPT ![k] = [@ EXCEPT !.pc = "outcome", !.row = r]]
                /\ UNCHANGED <<entry, uentry>>
  /\ UNCHANGED <<hook, log, older, poll, inflight, flood, disp, chan, histVars>>

\* MergeOnSuccessActions: delete > hash > mark_read > none.
MergeOnSuccessActions(A) ==
  IF "delete" \in A THEN "delete" ELSE IF "hash" \in A THEN "hash"
  ELSE IF "mark_read" \in A THEN "mark_read" ELSE "none"

\* EntryWebhookOutcome: nothing while another delivery is incomplete, else the
\* strongest action of every webhook with a row for the entry.
OnSuccessOutcome(k) ==
  LET r == worker[k].row
      resolved == {OnSuccess[w] : w \in {v \in Webhooks :
                                     log[<<v, EntryOf(r)>>].status # "none"}}
      act == MergeOnSuccessActions(resolved \cup {OnSuccess[worker[k].job.hook]})
  IN /\ worker[k].pc = "outcome"
     /\ \/ /\ NoFault
           /\ worker' = IF Incomplete(r) \/ act \notin {"hash", "delete"} THEN NextRow(k)
                        ELSE [worker EXCEPT ![k] = [@ EXCEPT !.pc = act]]
        \/ Fault("dbfail") /\ worker' = NextRow(k)
     /\ UNCHANGED <<dbVars, poll, inflight, flood, disp, chan, histVars>>

\* StripEntryPayloadAfterWebhook: cleared, and removed for every subscriber.
OnSuccessHash(k) ==
  LET e == EntryOf(worker[k].row)
  IN /\ worker[k].pc = "hash"
     /\ \/ /\ NoFault
           /\ IF Exists(e)
              THEN /\ entry' = [entry EXCEPT ![e] = "stripped"]
                   /\ uentry' = [p \in Users \X Entries |->
                                    IF p[2] = e THEN "removed" ELSE uentry[p]]
              ELSE UNCHANGED <<entry, uentry>>
        \/ Fault("dbfail") /\ UNCHANGED <<entry, uentry>>
     /\ worker' = NextRow(k)
     /\ UNCHANGED <<hook, log, older, poll, inflight, flood, disp, chan, histVars>>

\* MarkEntryRemovedKeepPayload, for the owner of the webhook just delivered.
OnSuccessDelete(k) ==
  LET e == EntryOf(worker[k].row)
      u == Owner[worker[k].job.hook]
  IN /\ worker[k].pc = "delete"
     /\ \/ /\ NoFault
           /\ uentry' = IF Exists(e) THEN [uentry EXCEPT ![<<u, e>>] = "removed"] ELSE uentry
        \/ Fault("dbfail") /\ UNCHANGED uentry
     /\ worker' = NextRow(k)
     /\ UNCHANGED <<entry, hook, log, older, poll, inflight, flood, disp, chan, histVars>>

(***************************************************************************)
(* Time: a row's next_retry_at, finishedGrace or a flood pause is reached  *)
(***************************************************************************)
RowDue(r) ==
  /\ log[r].status \in Open /\ log[r].due = "later"
  /\ log' = [log EXCEPT ![r].due = "now"]
  /\ older' = OlderAfterDue({r})
  /\ NoFault
  /\ UNCHANGED <<entry, uentry, hook, poll, memVars, histVars>>

GraceEnds(w) ==
  /\ inflight[w] = "grace"
  /\ inflight' = [inflight EXCEPT ![w] = "free"]
  /\ NoFault
  /\ UNCHANGED <<dbVars, poll, flood, disp, chan, worker, histVars>>

FloodEnds(w) ==
  /\ w \in flood
  /\ flood' = flood \ {w}
  /\ NoFault
  /\ UNCHANGED <<dbVars, poll, inflight, disp, chan, worker, histVars>>

(***************************************************************************)
(* Users, administrators, retention and restarts                           *)
(***************************************************************************)

\* The rows S are made pending and due now.
Requeue(S) ==
  /\ SetRows(S, LAMBDA r : [log[r] EXCEPT !.status = "pending", !.due = "now"])
  /\ older' = OlderAfterDue(S)
  /\ UNCHANGED <<entry, uentry, hook, poll, memVars, histVars>>


RetryWebhookLogNow(r) ==
  /\ log[r].status \in {"pending", "failed", "dead"}
  /\ Fault("retry") /\ Requeue({r})

RetryAllWebhookLogs(w) ==
  LET S == {r \in Rows : HookOf(r) = w /\ log[r].status \in {"failed", "dead"}}
  IN S # {} /\ Fault("retry") /\ Requeue(S)

SetWebhookEnabled(w) ==
  /\ hook[w] # "deleted"
  /\ Fault("toggle")
  /\ hook' = [hook EXCEPT ![w] = IF @ = "on" THEN "off" ELSE "on"]
  /\ UNCHANGED <<entry, uentry, log, older, poll, memVars, histVars>>

\* The log rows S are deleted.
DeleteRows(S) == SetRows(S, LAMBDA r : NoLog) /\ older' = OlderWithout(S)

DeleteWebhook(w) ==
  /\ hook[w] # "deleted"
  /\ Fault("delete")
  /\ hook' = [hook EXCEPT ![w] = "deleted"]
  /\ DeleteRows({r \in Rows : HookOf(r) = w})
  /\ UNCHANGED <<entry, uentry, poll, memVars, histVars>>

\* Retention: an old webhook_logs row goes whatever its status.
PurgeLog(r) ==
  /\ log[r].status # "none" /\ poll[EntryOf(r)].stage = "done"
  /\ Fault("purge")
  /\ DeleteRows({r})
  /\ UNCHANGED <<entry, uentry, hook, poll, memVars, histVars>>

\* Retention: entry_retention_days and purgeRemovedEntries do not look at
\* webhook_logs.
PurgeEntry(e) ==
  /\ Exists(e) /\ poll[e].stage = "done"
  /\ Fault("purge")
  /\ DeleteEntry(e)
  /\ UNCHANGED <<hook, log, older, poll, memVars, histVars>>

\* The process dies and is started again: what lived in memory is gone, and so
\* is the rest of a fan-out.
Crash ==
  /\ Fault("crash")
  /\ poll' = [e \in Entries |-> IF poll[e].stage = "fanout"
                                THEN [stage |-> "done", todo |-> {}] ELSE poll[e]]
  /\ inflight' = [w \in Webhooks |-> "free"]
  /\ flood' = {}
  /\ disp' = [pc |-> "start", exclude |-> {}, batch |-> {}]
  /\ chan' = <<>>
  /\ worker' = [k \in Workers |-> IdleWorker]
  /\ lostMarks' = [r \in Rows |->
       IF \E k \in Workers : worker[k].pc = "mark" /\ worker[k].out = "sent"
                             /\ r \in worker[k].todo
       THEN lostMarks[r] + 1 ELSE lostMarks[r]]
  /\ UNCHANGED <<dbVars, sends>>

Poller == \E e \in Entries : \/ StoreEntry(e)
                             \/ \E route \in Routes[e] : EnqueueWebhookLogs(e, route)
                             \/ DropUndeliveredRelayEntries(e)

Dispatcher == \/ DispatchExclude \/ DispatchPaused \/ DispatchClaim
              \/ DispatchPeers \/ DispatchSend

Delivery(k) == \/ WorkerTake(k) \/ WorkerLoad(k) \/ WorkerSend(k) \/ WorkerMark(k)
               \/ OnSuccessBegin(k) \/ OnSuccessOutcome(k) \/ OnSuccessHash(k)
               \/ OnSuccessDelete(k) \/ WorkerFree(k)

Time == \/ \E r \in Rows : RowDue(r)
        \/ \E w \in Webhooks : GraceEnds(w) \/ FloodEnds(w)

Environment == \/ \E r \in Rows : RetryWebhookLogNow(r) \/ PurgeLog(r)
               \/ \E w \in Webhooks : \/ RetryAllWebhookLogs(w)
                                      \/ SetWebhookEnabled(w) \/ DeleteWebhook(w)
               \/ \E e \in Entries : PurgeEntry(e)
               \/ Crash

Next == Poller \/ Dispatcher \/ (\E k \in Workers : Delivery(k)) \/ Time \/ Environment

Spec == Init /\ [][Next]_vars

\* Every goroutine keeps running, timers fire, the poller finishes its poll.
Fairness ==
  /\ \A e \in Entries : /\ WF_vars(StoreEntry(e))
                        /\ WF_vars(\E route \in Routes[e] : EnqueueWebhookLogs(e, route))
                        /\ WF_vars(DropUndeliveredRelayEntries(e))
  /\ WF_vars(Dispatcher)
  /\ \A k \in Workers : WF_vars(Delivery(k))
  /\ \A r \in Rows : WF_vars(RowDue(r))
  /\ \A w \in Webhooks : WF_vars(GraceEnds(w)) /\ WF_vars(FloodEnds(w))

FairSpec == Spec /\ Fairness

(***************************************************************************)
(* Properties                                                              *)
(***************************************************************************)
Claims == [hook : Webhooks, carrier : Rows, rows : SUBSET Rows, attempt : Nat]
Verdicts == {"sent", "retry", "flood", "dead", "park"}

WorkerStates ==
  [pc : {"idle", "load", "send", "mark", "after", "outcome", "hash", "delete", "free"},
   job : Claims \cup {NoClaim}, out : Verdicts \cup {"none"}, todo : SUBSET Rows,
   row : Rows \cup {<<>>}, stored : BOOLEAN]

LogRows == [status : {"none", "pending", "failed", "sent", "dead"},
            attempt : Nat, due : {"now", "later"}]

Working(k) == worker[k].pc # "idle"

DbTypeOK ==
  /\ entry \in [Entries -> {"absent", "full", "stripped", "deleted"}]
  /\ uentry \in [Users \X Entries -> {"none", "unread", "read", "removed"}]
  /\ hook \in [Webhooks -> {"on", "off", "deleted"}]
  /\ log \in [Rows -> LogRows]
  /\ older \in SUBSET (Rows \X Rows)

MemTypeOK ==
  /\ inflight \in [Webhooks -> {"free", "busy", "grace"}]
  /\ flood \in SUBSET Webhooks
  /\ disp \in [pc : {"start", "paused", "claim", "peers", "send"},
               exclude : SUBSET Webhooks, batch : SUBSET Claims]
  /\ chan \in Seq(Claims)
  /\ worker \in [Workers -> WorkerStates]
  /\ \A k \in Workers : Working(k) => worker[k].job \in Claims

\* The type of the database tables, of the runner's memory and of the rest.
TypeOK ==
  /\ DbTypeOK
  /\ MemTypeOK
  /\ poll \in [Entries -> [stage : {"new", "fanout", "done"},
                           todo : SUBSET (Webhooks \X {"filter", "feed"})]]
  /\ sends \in [Rows -> Nat]
  /\ lostMarks \in [Rows -> Nat]
  /\ faults \in Nat

\* "Deliveries of a webhook go out one at a time" (ClaimDueWebhookLogs): no
\* two claims of one webhook are ever held by the dispatcher's batch, the
\* channel and the workers together, whatever was excluded when.
OneAtATime ==
  /\ \A j1, j2 \in disp.batch : j1.hook = j2.hook => j1 = j2
  /\ \A i1, i2 \in 1..Len(chan) : chan[i1].hook = chan[i2].hook => i1 = i2
  /\ \A k1, k2 \in Workers :
       Working(k1) /\ Working(k2) /\ worker[k1].job.hook = worker[k2].job.hook => k1 = k2
  /\ \A j \in disp.batch, i \in 1..Len(chan) : j.hook # chan[i].hook
  /\ \A j \in disp.batch, k \in Workers : Working(k) => j.hook # worker[k].job.hook
  /\ \A i \in 1..Len(chan), k \in Workers : Working(k) => chan[i].hook # worker[k].job.hook

\* A webhook waiting out a 429 is left alone (webhook_flood.go): as long as the
\* pause lasts no claim of it is on its way to the endpoint; only the worker
\* that got the 429 still holds it, to write the row.
FloodRespected ==
  \A w \in flood :
    /\ \A j \in disp.batch : j.hook # w
    /\ \A i \in 1..Len(chan) : chan[i].hook # w
    /\ \A k \in Workers : Working(k) /\ worker[k].job.hook = w => worker[k].out = "flood"

\* A pair (webhook_id, entry_id) is delivered at most once
\* (WEBHOOK_RECEIVER_SPEC section 1), except that a delivery is repeated when
\* the status write of an earlier accepted one was lost: to a failed
\* MarkWebhookLogSent, whose error is ignored, or to a crash in between.
DuplicatesExplained == \A r \in Rows : sends[r] <= 1 + lostMarks[r]

\* WEBHOOK_MAX_ATTEMPTS: retryable failures kill a row only after that many
\* attempts of its own (a refused payload, URL or answer kills it at once).
\* The rows of a digest die with its carrier, after the carrier's attempts.
RetriesSpent ==
  [][\A k \in Workers, r \in Rows :
       worker[k].pc = "mark" /\ worker[k].out = "retry" /\ worker'[k].pc = "free"
       /\ log[r].status \in Open /\ log'[r].status = "dead"
       => IF HookOf(r) \in Digest THEN worker[k].job.attempt + 1 >= MaxAttempts
          ELSE log'[r].attempt >= MaxAttempts]_vars

\* Retention takes entries from under their rows, and a retry by hand opens
\* rows whose entry may be gone; neither has happened.
Undisturbed == faults = 0 \/ Faults \cap {"purge", "retry"} = {}

\* A relay entry is not deleted from under a delivery that is still owed:
\* while a row is pending or failed its entry is there to be loaded, unless the
\* row was delivered and the write that says so was lost.
HeldWhileOpen ==
  Undisturbed => \A r \in Rows : log[r].status \in Open /\ lostMarks[r] = 0 => Exists(EntryOf(r))

\* applyOnSuccessEntry: a relay row "goes as soon as the last delivery is
\* done".  Deliveries that settle at the same time do not each leave it to the
\* other: once all are sent, and no statement failed, the entry is deleted.
RelayRowGoes ==
  \A e \in Relay :
    /\ faults = 0
    /\ poll[e].stage = "done"
    /\ \A route \in Routes[e] : log[<<route[1], e>>].status = "sent"
    /\ \A k \in Workers : \A r \in worker[k].job.rows : EntryOf(r) # e
    => entry[e] = "deleted"

\* A row says sent only when its entry was in a message the receiver accepted.
SentMeansDelivered == Undisturbed => \A r \in Rows : log[r].status = "sent" => sends[r] > 0

\* What webhook_logs says of an entry shared by several webhooks is true of it:
\* kept while owed, gone with the last relay delivery, sent only if delivered.
EntriesAccounted == HeldWhileOpen /\ RelayRowGoes /\ SentMeansDelivered

\* A pending or failed row does not get stuck behind the in-flight set, a
\* grace period, the channel or a dispatcher that forgot it: it is settled,
\* unless its webhook is disabled or answers 429 again and again.
QueueDrains ==
  \A r \in Rows : [](log[r].status \in Open =>
    <>(log[r].status \notin Open \/ hook[HookOf(r)] = "off" \/ HookOf(r) \in flood))

=============================================================================
