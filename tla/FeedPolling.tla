---------------------------- MODULE FeedPolling ----------------------------
(***************************************************************************)
(* Background polling of feeds in rssam: dispatchLoop lists due feeds and  *)
(* hands them to a pool of workers, a worker loads the feed, fetches it    *)
(* and records the outcome (schedule, error counter, circuit breaker and   *)
(* bridge state), while users refresh feeds by hand, administrators pause  *)
(* and reset them and edit their settings, and PostgreSQL may lose the     *)
(* UNLOGGED feed_poll_state.                                               *)
(*                                                                         *)
(* Time is abstracted: a feed is due (next_check_at <= now) or not; `older'*)
(* is the next_check_at order of the due feeds.  Every database statement  *)
(* and every access to a mutex-protected set is one atomic step.           *)
(***************************************************************************)
EXTENDS Naturals, FiniteSets, Sequences

CONSTANTS
  Feeds, Types, TypeOf,   \* TypeOf[f]: feeds.feed_type (the bridge)
  Workers,                \* goroutines running workerLoop
  Clients,                \* HTTP requests running RefreshFeedManual
  Threshold,              \* CircuitBreakerThreshold
  Scenes                  \* what a behaviour starts from, see Init

Results == {"new", "same", "fail", "gone", "timeout", "layout", "hold", "bridge", "park"}
Faults == {"dbfail", "overrun", "refresh", "pause", "subscribe", "reset", "edit", "pgcrash", "restart"}

ASSUME ConstantsAssumption ==
  /\ TypeOf \in [Feeds -> Types]
  /\ Threshold \in Nat \ {0}
  /\ Workers \cap Clients = {}
  /\ IsFiniteSet(Feeds) /\ IsFiniteSet(Workers) /\ "none" \notin Feeds
  /\ Scenes \subseteq [feeds : SUBSET Feeds, workers : SUBSET Workers, outcomes : SUBSET Results,
                       faults : SUBSET Faults, budget : Nat]

VARIABLES
  subscribed,  \* feeds somebody subscribes to
  manual,      \* feeds.manual_paused
  rows,        \* the feeds that have a feed_poll_state row
  errs,        \* feed_poll_state.parsing_error_count
  open,        \* feed_poll_state.poll_paused: the circuit breaker is open
  failing,     \* feed_poll_state.last_error <> ''
  due,         \* next_check_at IS NULL OR next_check_at <= now()
  older,       \* next_check_at order among the due feeds
  bridge,      \* feed_poll_state.bridge_state: form settings and poll cursor
  active,      \* not Runner.Paused()
  inflight,    \* Runner.inflight: none, running, stale or done (in its grace)
  deferred,    \* Runner.deferredFeeds
  held,        \* Runner.deferredBridges
  disp,        \* the dispatcher: pc, room, excluded feeds and types, batch
  chan,        \* feedsCh
  poll,        \* the polls of the workers and of the clients
  editor,      \* one handleFeedUpdate request
  env          \* the scene: feeds, workers, outcomes, faults; and the faults so far

dbVars   == <<subscribed, manual, rows, errs, open, failing, due, older, bridge>>
memVars  == <<active, inflight, deferred, held, disp, chan>>
vars     == <<dbVars, memVars, poll, editor, env>>

Pollers == Workers \cup Clients

\* bridge_state as far as it matters: what the feed form wrote and the cursor.
NoBridge == [form |-> "unset", cursor |-> "zero"]

IdlePoll == [pc |-> "idle", feed |-> "none", errs |-> 0, open |-> {},
             bridge |-> NoBridge, out |-> "none"]
IdleDisp == [pc |-> "start", room |-> 0, exclude |-> {}, types |-> {}, batch |-> {}]
IdleEdit == [pc |-> "idle", feed |-> "none", bridge |-> NoBridge]

Fault(x) == x \in env.faults /\ env.count < env.budget /\ env' = [env EXCEPT !.count = @ + 1]
NoFault  == UNCHANGED env

\* WORKER_POOL_SIZE; feedsCh holds twice as many.
PoolSize == Cardinality(env.workers)

(***************************************************************************)
(* The due order                                                           *)
(***************************************************************************)
\* The feeds S leave the due range: next_check_at is set to a later time.
NotDue(S) ==
  /\ due' = due \ S
  /\ older' = {q \in older : q[1] \notin S /\ q[2] \notin S}

\* The feeds S become due now, after every feed that already is.
DueNow(S) ==
  /\ due' = due \cup S
  /\ older' = {q \in older : q[1] \notin S /\ q[2] \notin S} \cup ((due \ S) \X S)

Init ==
  /\ \E s \in Scenes : env = [feeds |-> s.feeds, workers |-> s.workers, outcomes |-> s.outcomes,
                              faults |-> s.faults, budget |-> s.budget, count |-> 0]
  /\ subscribed = env.feeds /\ manual = {} /\ rows = env.feeds
  /\ errs = [f \in Feeds |-> 0] /\ open = {} /\ failing = {}
  /\ due = env.feeds /\ older = {}
  /\ bridge = [f \in Feeds |-> NoBridge]
  /\ active = TRUE
  /\ inflight = [f \in Feeds |-> "none"]
  /\ deferred = {} /\ held = {}
  /\ disp = IdleDisp
  /\ chan = <<>>
  /\ poll = [p \in Pollers |-> IdlePoll]
  /\ editor = IdleEdit

(***************************************************************************)
(* dispatchLoop.  A round that finds nothing sleeps until SchedulerTick at *)
(* most, so the next round may start at any time.                          *)
(***************************************************************************)
DispatchFrame == UNCHANGED <<dbVars, active, deferred, held, poll, editor>>

\* min(PoolSize, cap(feedsCh) - len(feedsCh))
Room == LET n == 2 * PoolSize - Len(chan) IN IF n < PoolSize THEN n ELSE PoolSize

\* room, then inflight.exclude: a stale poll no longer blocks its feed.
DispatchExclude ==
  /\ disp.pc = "start" /\ active /\ Room > 0
  /\ disp' = [disp EXCEPT !.pc = "deferred", !.room = Room,
                !.exclude = {f \in Feeds : inflight[f] \in {"running", "done"}}]
  /\ NoFault /\ UNCHANGED <<inflight, chan>> /\ DispatchFrame

\* deferredFeeds.active
DispatchDeferred ==
  /\ disp.pc = "deferred"
  /\ disp' = [disp EXCEPT !.pc = "held", !.exclude = @ \cup deferred]
  /\ NoFault /\ UNCHANGED <<inflight, chan>> /\ DispatchFrame

\* deferredBridges.active
DispatchHeld ==
  /\ disp.pc = "held"
  /\ disp' = [disp EXCEPT !.pc = "list", !.types = held]
  /\ NoFault /\ UNCHANGED <<inflight, chan>> /\ DispatchFrame

\* pollableWhere
Pollable(f) == f \in rows /\ f \notin open /\ f \notin manual /\ f \in subscribed

\* S is what ListFeedsDue(room, exclude, types) may return: the oldest due
\* pollable feeds that are not excluded.
ListFeedsDue(S) ==
  LET ready == {f \in due : /\ Pollable(f)
                            /\ f \notin disp.exclude /\ TypeOf[f] \notin disp.types}
  IN /\ S \subseteq ready
     /\ Cardinality(S) = IF Cardinality(ready) < disp.room
                         THEN Cardinality(ready) ELSE disp.room
     /\ \A f \in S, g \in ready : <<g, f>> \in older => g \in S

DispatchList ==
  /\ disp.pc = "list"
  /\ \/ /\ NoFault
        /\ \E S \in SUBSET Feeds :
             /\ ListFeedsDue(S)
             /\ disp' = [IdleDisp EXCEPT !.pc = IF S = {} THEN "start" ELSE "send",
                                         !.batch = S]
     \/ Fault("dbfail") /\ disp' = IdleDisp
  /\ UNCHANGED <<inflight, chan>> /\ DispatchFrame

\* inflight.start, then the send, which cannot block: room was free.
MutDispatchSend ==
  /\ disp.pc = "send"
  /\ \E f \in disp.batch :
       /\ chan' = Append(chan, f)
       /\ disp' = [disp EXCEPT !.batch = @ \ {f},
                               !.pc = IF disp.batch = {f} THEN "start" ELSE "send"]
  /\ NoFault /\ UNCHANGED inflight /\ DispatchFrame

DispatchSend ==
  /\ disp.pc = "send"
  /\ \E f \in disp.batch :
       /\ inflight' = [inflight EXCEPT ![f] = "running"]
       /\ chan' = Append(chan, f)
       /\ disp' = [disp EXCEPT !.batch = @ \ {f},
                               !.pc = IF disp.batch = {f} THEN "start" ELSE "send"]
  /\ NoFault /\ DispatchFrame

Dispatcher == DispatchExclude \/ DispatchDeferred \/ DispatchHeld \/ DispatchList \/ DispatchSend

(***************************************************************************)
(* One poll: workerLoop / processPollFeed, or RefreshFeedManual            *)
(***************************************************************************)
PollFrame == UNCHANGED <<subscribed, rows, active, disp, editor>>

Goto(p, r) == poll' = [poll EXCEPT ![p] = r]
Step(p, c) == Goto(p, [poll[p] EXCEPT !.pc = c])
\* Where a poll goes when nothing is left to write.
Finish(p, r) == Goto(p, IF p \in Workers THEN [r EXCEPT !.pc = "defer"] ELSE IdlePoll)

WorkerTake(k) ==
  /\ k \in env.workers /\ poll[k].pc = "idle" /\ chan # <<>>
  /\ Goto(k, [IdlePoll EXCEPT !.pc = "load", !.feed = Head(chan)])
  /\ chan' = Tail(chan)
  /\ NoFault
  /\ UNCHANGED <<manual, errs, open, failing, due, older, bridge, inflight, deferred, held>>
  /\ PollFrame

ResetCircuit(S) == /\ errs' = [f \in Feeds |-> IF f \in S THEN 0 ELSE errs[f]]
                   /\ open' = open \ S

\* RefreshFeedManual: ResetFeedPollCircuit first; its error is only logged.
ManualBegin(c, f) ==
  /\ poll[c].pc = "idle"
  /\ Fault("refresh")
  /\ ResetCircuit({f} \cap rows)
  /\ Goto(c, [IdlePoll EXCEPT !.pc = "load", !.feed = f])
  /\ UNCHANGED <<manual, failing, due, older, bridge, inflight, deferred, held, chan>>
  /\ PollFrame

\* GetFeedByID.  A background poll of a paused feed ends here; a manual one
\* forgets the counters and the cursor (fullRefetchState).
Load(p) ==
  LET f == poll[p].feed
      w == p \in Workers
      loaded == [poll[p] EXCEPT !.pc = "fetch",
                   !.errs = IF w THEN errs[f] ELSE 0,
                   !.open = IF w THEN open \cap {f} ELSE {},
                   !.bridge = IF w THEN bridge[f] ELSE [bridge[f] EXCEPT !.cursor = "zero"]]
  IN /\ poll[p].pc = "load"
     /\ \/ /\ NoFault
           /\ IF f \notin rows \/ (w /\ (f \in manual \/ f \in open))
              THEN Finish(p, poll[p]) ELSE Goto(p, loaded)
        \/ Fault("dbfail") /\ Finish(p, poll[p])
     /\ UNCHANGED <<manual, errs, open, failing, due, older, bridge, inflight, deferred, held, chan>>
     /\ PollFrame

\* The fetch and what is decided before it.  "new": items to store; "same": not
\* modified; "fail": an error of the source; "gone": a 410; "timeout": the
\* poll's own deadline; "layout": an unknown page; "hold", "bridge", "park": not
\* now (a busy host or closed hours, the bridge's slots, a long Retry-After).
Fetch(p) ==
  /\ poll[p].pc = "fetch"
  /\ \E o \in env.outcomes :
       Goto(p, [poll[p] EXCEPT !.pc = "record", !.out = o])
  /\ NoFault
  /\ UNCHANGED <<manual, errs, open, failing, due, older, bridge, inflight, deferred, held, chan>>
  /\ PollFrame

\* updateFeedRefreshMeta with last_error = '': the feed has recovered.
Meta(f, b) ==
  /\ errs' = [errs EXCEPT ![f] = 0] /\ open' = open \ {f} /\ failing' = failing \ {f}
  /\ bridge' = [bridge EXCEPT ![f] = b]
  /\ NotDue({f})

\* CreateEntriesWithRefreshMeta / StoreFilteredPoll, in one transaction, or
\* UpdateFeedRefreshMeta alone.  A failed store is a failed poll; a failed
\* UpdateFeedRefreshMeta is logged.  Without its row the write fails.
RecordSuccess(p) ==
  LET f == poll[p].feed
      b == IF poll[p].out = "new" THEN [poll[p].bridge EXCEPT !.cursor = "moved"]
           ELSE poll[p].bridge
  IN /\ poll[p].pc = "record" /\ poll[p].out \in {"new", "same"}
     /\ \/ /\ NoFault /\ f \in rows
           /\ Meta(f, b)
           /\ Finish(p, poll[p])
        \/ /\ IF f \notin rows THEN NoFault ELSE Fault("dbfail")
           /\ IF poll[p].out = "new" THEN Goto(p, [poll[p] EXCEPT !.out = "fail", !.bridge = b])
              ELSE Finish(p, poll[p])
           /\ UNCHANGED <<errs, open, failing, due, older, bridge>>
     /\ UNCHANGED <<manual, inflight, deferred, held, chan>>
     /\ PollFrame

\* poll_paused after a failed poll.
MutTrips(n) == n > Threshold
Trips(n) == n >= Threshold

\* RecordFeedPollFailure counts in the database; after is computed from the
\* feed as it was loaded.  Past the poll's deadline the statement fails.
RecordFailure(p) ==
  LET f == poll[p].feed
      after == [poll[p] EXCEPT !.pc = IF poll[p].out = "gone" THEN "gone" ELSE "told",
                  !.errs = @ + 1,
                  !.open = IF @ # {} \/ Trips(poll[p].errs + 1) THEN {f} ELSE {}]
  IN /\ poll[p].pc = "record" /\ poll[p].out \in {"fail", "gone", "timeout"}
     /\ Goto(p, after)
     /\ \/ /\ NoFault /\ poll[p].out # "timeout" /\ f \in rows
           /\ errs' = [errs EXCEPT ![f] = @ + 1]
           /\ open' = IF Trips(errs[f] + 1) THEN open \cup {f} ELSE open \ {f}
           /\ failing' = failing \cup {f}
           /\ bridge' = IF poll[p].bridge = NoBridge THEN bridge
                        ELSE [bridge EXCEPT ![f] = poll[p].bridge]
           /\ NotDue({f})
        \/ /\ IF poll[p].out = "timeout" \/ f \notin rows THEN NoFault ELSE Fault("dbfail")
           /\ UNCHANGED <<errs, open, failing, due, older, bridge>>
     /\ UNCHANGED <<manual, inflight, deferred, held, chan>>
     /\ PollFrame

\* A 410 parks the feed the way an administrator would.
RecordGone(p) ==
  /\ poll[p].pc = "gone"
  /\ \/ NoFault /\ manual' = manual \cup {poll[p].feed}
     \/ Fault("dbfail") /\ UNCHANGED manual
  /\ Step(p, "told")
  /\ UNCHANGED <<errs, open, failing, due, older, bridge, inflight, deferred, held, chan>>
  /\ PollFrame

\* PublishFeedStatusChanged(after); processPollFeed finds next_check_at in
\* after and writes nothing more.
Publish(p) ==
  /\ poll[p].pc = "told"
  /\ Finish(p, poll[p])
  /\ NoFault
  /\ UNCHANGED <<manual, errs, open, failing, due, older, bridge, inflight, deferred, held, chan>>
  /\ PollFrame

\* deferLayout: marks last_error and the next check; bridge_state becomes {}.
RecordLayout(p) ==
  LET f == poll[p].feed
  IN /\ poll[p].pc = "record" /\ poll[p].out = "layout"
     /\ \/ /\ NoFault /\ f \in rows
           /\ failing' = failing \cup {f}
           /\ bridge' = [bridge EXCEPT ![f] = NoBridge]
           /\ NotDue({f})
        \/ /\ IF f \notin rows THEN NoFault ELSE Fault("dbfail")
           /\ UNCHANGED <<failing, due, older, bridge>>
     /\ Finish(p, poll[p])
     /\ UNCHANGED <<manual, errs, open, inflight, deferred, held, chan>>
     /\ PollFrame

\* A poll that was turned away.  A long wait goes to next_check_at, a short one
\* to memory; a manual refresh only reports it.
TurnedAway(p) ==
  LET f == poll[p].feed
  IN /\ poll[p].pc = "record" /\ poll[p].out \in {"hold", "bridge", "park"}
     /\ Finish(p, poll[p])
     /\ \/ /\ NoFault
           /\ IF poll[p].out = "park" /\ p \in Workers /\ f \in rows
              THEN NotDue({f}) ELSE UNCHANGED <<due, older>>
        \/ /\ poll[p].out = "park" /\ p \in Workers
           /\ Fault("dbfail") /\ UNCHANGED <<due, older>>
     /\ UNCHANGED <<manual, errs, open, failing, bridge, inflight, deferred, held, chan>>
     /\ PollFrame

\* workerLoop: deferredFeeds.pause or deferredBridges.pause ...
WorkerDefer(k) ==
  LET f == poll[k].feed
  IN /\ poll[k].pc = "defer"
     /\ deferred' = IF poll[k].out = "hold" THEN deferred \cup {f} ELSE deferred
     /\ held' = IF poll[k].out = "bridge" THEN held \cup {TypeOf[f]} ELSE held
     /\ Step(k, "done")
     /\ NoFault
     /\ UNCHANGED <<manual, errs, open, failing, due, older, bridge, inflight, chan>>
     /\ PollFrame

\* ... then inflight.done.
MutDone(f) == inflight
Done(f) == IF inflight[f] \in {"running", "stale"}
           THEN [inflight EXCEPT ![f] = "done"] ELSE inflight

WorkerDone(k) ==
  /\ poll[k].pc = "done"
  /\ inflight' = Done(poll[k].feed)
  /\ Goto(k, IdlePoll)
  /\ NoFault
  /\ UNCHANGED <<manual, errs, open, failing, due, older, bridge, deferred, held, chan>>
  /\ PollFrame

Poll(p) == \/ Load(p) \/ Fetch(p) \/ RecordSuccess(p) \/ RecordFailure(p) \/ RecordGone(p)
           \/ Publish(p) \/ RecordLayout(p) \/ TurnedAway(p)

Work(k) == WorkerTake(k) \/ Poll(k) \/ WorkerDefer(k) \/ WorkerDone(k)

(***************************************************************************)
(* Time                                                                    *)
(***************************************************************************)
\* A worker that has recorded its poll ends it long before the next check.
Recorded(f) == \E k \in Workers : poll[k].feed = f /\ poll[k].pc \in {"gone", "told", "defer", "done"}

DueTimer(f) ==
  /\ f \in rows \ due /\ ~Recorded(f)
  /\ DueNow({f})
  /\ NoFault
  /\ UNCHANGED <<subscribed, manual, rows, errs, open, failing, bridge, memVars, poll, editor>>

TimeFrame == NoFault /\ UNCHANGED <<dbVars, active, disp, chan, poll, editor>>

DeferEnds(f) == /\ f \in deferred /\ deferred' = deferred \ {f}
                /\ UNCHANGED <<inflight, held>> /\ TimeFrame
HoldEnds(t)  == /\ t \in held /\ held' = held \ {t}
                /\ UNCHANGED <<inflight, deferred>> /\ TimeFrame
GraceEnds(f) == /\ inflight[f] = "done" /\ inflight' = [inflight EXCEPT ![f] = "none"]
                /\ UNCHANGED <<deferred, held>> /\ TimeFrame

\* A poll outlives staleAfter (it ignored its timeout).
Overrun(f) ==
  /\ inflight[f] = "running" /\ \E k \in Workers : poll[k].feed = f
  /\ Fault("overrun")
  /\ inflight' = [inflight EXCEPT ![f] = "stale"]
  /\ UNCHANGED <<dbVars, active, deferred, held, disp, chan, poll, editor>>

(***************************************************************************)
(* Administrators, users, restarts                                         *)
(***************************************************************************)
AdminFrame == UNCHANGED <<memVars, poll>>

SetFeedManualPaused(f) ==
  /\ Fault("pause")
  /\ manual' = IF f \in manual THEN manual \ {f} ELSE manual \cup {f}
  /\ UNCHANGED <<subscribed, rows, errs, open, failing, due, older, bridge, editor>>
  /\ AdminFrame

Subscribe(f) ==
  /\ Fault("subscribe")
  /\ subscribed' = IF f \in subscribed THEN subscribed \ {f} ELSE subscribed \cup {f}
  /\ UNCHANGED <<manual, rows, errs, open, failing, due, older, bridge, editor>>
  /\ AdminFrame

\* ResetFeedPollCircuit of one feed, ResetErrorFeedPollCircuits of all.
ResetFeedPollCircuit(S) ==
  /\ Fault("reset")
  /\ ResetCircuit(S \cap rows)
  /\ UNCHANGED <<subscribed, manual, rows, failing, due, older, bridge, editor>>
  /\ AdminFrame

\* RefreshAllFeeds: every pollable feed, spread over the next minute.
RefreshAllFeeds ==
  LET S == (rows \cap subscribed) \ manual
  IN /\ Fault("reset")
     /\ ResetCircuit(S)
     /\ NotDue(S)
     /\ UNCHANGED <<subscribed, manual, rows, failing, bridge, editor>>
     /\ AdminFrame

\* ResetFeedPollErrorsDaily: the failing feeds are due at once.
ResetFeedPollErrorsDaily ==
  LET S == {f \in rows \ manual : errs[f] > 0 \/ f \in open \/ f \in failing}
  IN /\ Fault("reset")
     /\ ResetCircuit(S)
     /\ failing' = failing \ S
     /\ DueNow(S)
     /\ UNCHANGED <<subscribed, manual, rows, bridge, editor>>
     /\ AdminFrame

PauseWorkers ==
  /\ Fault("pause")
  /\ active' = ~active
  /\ UNCHANGED <<dbVars, inflight, deferred, held, disp, chan, poll, editor>>

\* handleFeedUpdate reads the feed and builds the whole bridge_state ...
EditBegin(f) ==
  /\ editor.pc = "idle"
  /\ Fault("edit")
  /\ editor' = [pc |-> "save", feed |-> f, bridge |-> [bridge[f] EXCEPT !.form = "set"]]
  /\ UNCHANGED dbVars /\ AdminFrame

\* ... UpdateFeed stores it (or fails without the row) ...
EditSave ==
  LET f == editor.feed
  IN /\ editor.pc = "save"
     /\ IF f \in rows
        THEN /\ bridge' = [bridge EXCEPT ![f] = editor.bridge]
             /\ editor' = [editor EXCEPT !.pc = "schedule"]
        ELSE UNCHANGED bridge /\ editor' = IdleEdit
     /\ NoFault
     /\ UNCHANGED <<subscribed, manual, rows, errs, open, failing, due, older>> /\ AdminFrame

\* ... and RescheduleFeed sets next_check_at; its error is only logged.
RescheduleFeed ==
  LET f == editor.feed
  IN /\ editor.pc = "schedule"
     /\ editor' = IdleEdit
     /\ \/ NoFault /\ NotDue({f})
        \/ Fault("dbfail") /\ UNCHANGED <<due, older>>
     /\ UNCHANGED <<subscribed, manual, rows, errs, open, failing, bridge>> /\ AdminFrame

\* PostgreSQL crashes: the UNLOGGED feed_poll_state is empty.
PostgresCrash ==
  /\ Fault("pgcrash")
  /\ rows' = {} /\ due' = {} /\ older' = {} /\ open' = {} /\ failing' = {}
  /\ errs' = [f \in Feeds |-> 0]
  /\ bridge' = [f \in Feeds |-> NoBridge]
  /\ UNCHANGED <<subscribed, manual, editor>> /\ AdminFrame

\* EnsureFeedPollStateRows, when the listener reconnects: a new row is due.
EnsureFeedPollStateRows ==
  /\ rows # env.feeds
  /\ rows' = env.feeds
  /\ due' = due \cup (env.feeds \ rows)
  /\ NoFault
  /\ UNCHANGED <<subscribed, manual, errs, open, failing, older, bridge, editor>>
  /\ AdminFrame

\* The process is restarted: what lived in memory is gone.
Restart ==
  /\ Fault("restart")
  /\ active' = TRUE
  /\ inflight' = [f \in Feeds |-> "none"]
  /\ deferred' = {} /\ held' = {} /\ disp' = IdleDisp /\ chan' = <<>>
  /\ poll' = [p \in Pollers |-> IdlePoll]
  /\ editor' = IdleEdit
  /\ UNCHANGED dbVars

Time == \/ \E f \in Feeds : DueTimer(f) \/ DeferEnds(f) \/ GraceEnds(f) \/ Overrun(f)
        \/ \E t \in Types : HoldEnds(t)

Admin == \/ \E f \in env.feeds : \/ SetFeedManualPaused(f) \/ Subscribe(f)
                                 \/ ResetFeedPollCircuit({f}) \/ EditBegin(f)
         \/ ResetFeedPollCircuit(env.feeds) \/ RefreshAllFeeds \/ ResetFeedPollErrorsDaily
         \/ PauseWorkers \/ EditSave \/ RescheduleFeed \/ PostgresCrash \/ EnsureFeedPollStateRows \/ Restart

Next == \/ Dispatcher
        \/ \E k \in Workers : Work(k)
        \/ \E c \in Clients : Poll(c) \/ \E f \in env.feeds : ManualBegin(c, f)
        \/ Time \/ Admin

Spec == Init /\ [][Next]_vars

\* The goroutines run, timers fire, the listener reconnects.
Fairness ==
  /\ WF_vars(Dispatcher)
  /\ \A k \in Workers : WF_vars(Work(k))
  /\ \A f \in Feeds : WF_vars(GraceEnds(f))
  /\ WF_vars(EnsureFeedPollStateRows)

FairSpec == Spec /\ Fairness

(***************************************************************************)
(* Properties                                                              *)
(***************************************************************************)
Bridges == [form : {"unset", "set"}, cursor : {"zero", "moved"}]
PollStates ==
  [pc : {"idle", "load", "fetch", "record", "gone", "told", "defer", "done"},
   feed : Feeds \cup {"none"}, errs : Nat, open : SUBSET Feeds,
   bridge : Bridges, out : Results \cup {"none"}]
DispStates ==
  [pc : {"start", "deferred", "held", "list", "send"}, room : Nat,
   exclude : SUBSET Feeds, types : SUBSET Types, batch : SUBSET Feeds]
EditStates == [pc : {"idle", "save", "schedule"}, feed : Feeds \cup {"none"}, bridge : Bridges]
Worlds == [feeds : SUBSET Feeds, workers : SUBSET Workers, outcomes : SUBSET Results,
           faults : SUBSET Faults, budget : Nat, count : Nat]

\* The type of the tables, of the runner's memory and of the polls.
TypeOK ==
  /\ subscribed \in SUBSET Feeds /\ manual \in SUBSET Feeds /\ rows \in SUBSET Feeds
  /\ errs \in [Feeds -> Nat] /\ open \in SUBSET Feeds /\ failing \in SUBSET Feeds
  /\ due \in SUBSET Feeds /\ older \in SUBSET (Feeds \X Feeds)
  /\ bridge \in [Feeds -> Bridges]
  /\ active \in BOOLEAN
  /\ inflight \in [Feeds -> {"none", "running", "stale", "done"}]
  /\ deferred \in SUBSET Feeds /\ held \in SUBSET Types
  /\ disp \in DispStates /\ disp.room <= PoolSize
  /\ chan \in Seq(Feeds) /\ Len(chan) <= 2 * PoolSize
  /\ poll \in [Pollers -> PollStates]
  /\ editor \in EditStates
  /\ env \in Worlds /\ env.count <= env.budget

Polling(k) == poll[k].pc # "idle"

\* One poll per feed: a feed is in the dispatcher's hands, in the channel or
\* with one worker, never twice, although it stays due in the table while it
\* is polled (ListFeedsDue).  A poll that outlives its in-flight entry is the
\* exception (Overrun).
OnePollPerFeed == "overrun" \notin env.faults =>
  /\ \A i, j \in 1..Len(chan) : chan[i] = chan[j] => i = j
  /\ \A k1, k2 \in Workers :
       Polling(k1) /\ Polling(k2) /\ poll[k1].feed = poll[k2].feed => k1 = k2
  /\ \A i \in 1..Len(chan) : /\ chan[i] \notin disp.batch
                             /\ \A k \in Workers : Polling(k) => poll[k].feed # chan[i]
  /\ \A k \in Workers : Polling(k) => poll[k].feed \notin disp.batch

\* A deferred feed waits out its deferral: nobody claims it meanwhile, and the
\* only worker that may hold it is the one that deferred it.  Again except for
\* a poll that outlives its in-flight entry, which may defer what another polls.
DeferralRespected == "overrun" \notin env.faults =>
  \A f \in deferred :
    /\ f \notin disp.batch
    /\ \A i \in 1..Len(chan) : chan[i] # f
    /\ \A k \in Workers : Polling(k) /\ poll[k].feed = f => poll[k].pc = "done"

\* The breaker is open exactly when the consecutive failures reached the
\* threshold, whoever polls, resets and refreshes at the same time.
BreakerMatchesCount == \A f \in rows : f \in open <=> errs[f] >= Threshold

\* processPollFeed: "Every exit leaves the feed not due any more", as long as no
\* statement failed and nobody made the feed due meanwhile.  (Not a poll cut
\* off by its own deadline: its failure is written with the expired context.)
NotDueAfterPoll ==
  env.count = 0 => \A k \in Workers : poll[k].pc = "done" =>
    LET f == poll[k].feed
    IN f \notin due \/ ~Pollable(f) \/ f \in deferred \/ poll[k].out \in {"hold", "bridge", "timeout"}

\* recordFailure "returns the feed as it now looks in the database": the error
\* count and the breaker it reports, taken from the feed loaded before the
\* fetch, are the stored ones, as long as nobody resets or refreshes the feed
\* by hand and no statement fails.
StatusTruthful ==
  env.count = 0 => \A p \in Pollers : LET f == poll[p].feed IN
    poll[p].pc \in {"told", "gone"} /\ poll[p].out # "timeout"
    => poll[p].errs = errs[f] /\ (poll[p].open # {} <=> f \in open)

\* What the dispatcher may hand out: no feed twice, and none that is deferred.
ClaimsRespected == OnePollPerFeed /\ DeferralRespected

\* What a poll leaves behind: a bounded channel, a breaker that matches the
\* failures, a feed that is not due, and a report of what is stored.
PollRecorded == TypeOK /\ BreakerMatchesCount /\ NotDueAfterPoll /\ StatusTruthful

\* A due feed is polled: it does not get lost between the table, the in-flight
\* set, the channel and the workers.  Without polls that leave next_check_at
\* alone: they may end at any time here, and a feed deferred again and again
\* (or cut off again and again) would overtake the others.
DueIsPolled ==
  \A f \in Feeds :
    (f \in due /\ Pollable(f) /\ env.outcomes \cap {"hold", "bridge", "timeout"} = {}) ~>
      \/ f \notin due \/ ~Pollable(f) \/ ~active \/ f \in deferred \/ TypeOf[f] \in held
      \/ \E k \in Workers : poll[k].feed = f /\ poll[k].pc = "record"

=============================================================================
