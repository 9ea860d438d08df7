------------------------ MODULE FeedPollingProofs ------------------------
(***************************************************************************)
(* Proofs about FeedPolling, for any feeds, workers, clients and faults:   *)
(* the dispatcher hands out no feed twice and none that is deferred, the   *)
(* channel never blocks it, the breaker matches the failures, and a poll   *)
(* leaves its feed scheduled and reports what is stored.                   *)
(***************************************************************************)
EXTENDS FeedPolling, TLAPS, FiniteSetTheorems, SequenceTheorems

\* A poll in progress is about a feed, and only the dispatcher that sends has
\* a batch.
Busy ==
  /\ \A p \in Pollers : Polling(p) => poll[p].feed \in Feeds
  /\ disp.pc # "send" => disp.batch = {}

\* What the dispatcher has reserved still fits the channel.
Fits ==
  /\ disp.pc \in {"deferred", "held", "list"} => disp.room + Len(chan) <= 2 * PoolSize
  /\ disp.pc = "send" => Cardinality(disp.batch) + Len(chan) <= 2 * PoolSize

\* No poll has outlived its in-flight entry so far.
Calm == "overrun" \notin env.faults \/ env.count = 0

\* A feed in the channel or with a worker is marked running, one that the
\* dispatcher may still choose is not.
Marked ==
  /\ \A f \in Feeds : inflight[f] # "stale"
  /\ \A i \in 1..Len(chan) : inflight[chan[i]] = "running"
  /\ \A k \in Workers : Polling(k) => inflight[poll[k].feed] = "running"
  /\ \A f \in disp.batch : inflight[f] # "running"
  /\ disp.pc \in {"deferred", "held", "list"} => \A f \in Feeds \ disp.exclude : inflight[f] # "running"

\* Each is held once ...
Once ==
  /\ \A i, j \in 1..Len(chan) : chan[i] = chan[j] => i = j
  /\ \A k1, k2 \in Workers : Polling(k1) /\ Polling(k2) /\ poll[k1].feed = poll[k2].feed => k1 = k2
  /\ \A i \in 1..Len(chan) : \A k \in Workers : Polling(k) => poll[k].feed # chan[i]

\* ... and a deferred one by nobody but the worker that is about to let go.
Waits ==
  /\ disp.pc \in {"held", "list"} => deferred \subseteq disp.exclude
  /\ \A f \in deferred :
       /\ f \notin disp.batch
       /\ \A i \in 1..Len(chan) : chan[i] # f
       /\ \A k \in Workers : Polling(k) /\ poll[k].feed = f => poll[k].pc = "done"

Claims == Calm => Marked /\ Once /\ Waits

\* The breaker of every feed, those without a row included.
Breaker == \A f \in Feeds : f \in open <=> errs[f] >= Threshold

\* Before the first fault nobody but the worker that polls a feed touches it:
\* what the worker loaded is what is stored, and what it recorded stays.
Follows(k) ==
  LET f == poll[k].feed
      q == poll[k]
  IN Polling(k) =>
     /\ f \in rows
     /\ q.pc \in {"fetch", "record"} => q.errs = errs[f] /\ q.open = {} /\ f \notin open
     /\ q.pc \in {"gone", "told"} /\ q.out # "timeout" => q.errs = errs[f] /\ (q.open # {} <=> f \in open)
     /\ q.pc \in {"gone", "told", "defer", "done"} =>
          f \notin due \/ ~Pollable(f) \/ q.out \in {"hold", "bridge", "timeout"}

Quiet == env.count = 0 =>
  /\ rows = env.feeds /\ editor.pc = "idle" /\ \A c \in Clients : ~Polling(c)
  /\ disp.batch \subseteq rows /\ \A i \in 1..Len(chan) : chan[i] \in rows
  /\ \A k \in Workers : Follows(k)

PInv == TypeOK /\ Busy /\ Fits /\ Claims /\ Breaker /\ Quiet

(***************************************************************************)
(* Types, and what a step does to the scene                                *)
(***************************************************************************)
DbOK ==
  /\ subscribed \in SUBSET Feeds /\ manual \in SUBSET Feeds /\ rows \in SUBSET Feeds
  /\ errs \in [Feeds -> Nat] /\ open \in SUBSET Feeds /\ failing \in SUBSET Feeds
  /\ due \in SUBSET Feeds /\ older \in SUBSET (Feeds \X Feeds)
  /\ bridge \in [Feeds -> Bridges]
MemOK ==
  /\ active \in BOOLEAN
  /\ inflight \in [Feeds -> {"none", "running", "stale", "done"}]
  /\ deferred \in SUBSET Feeds /\ held \in SUBSET Types
DispOK ==
  /\ disp \in DispStates /\ disp.room <= PoolSize
  /\ chan \in Seq(Feeds) /\ Len(chan) <= 2 * PoolSize
EnvOK == env \in Worlds /\ env.count <= env.budget

LEMMA TypeParts ==
  TypeOK <=> /\ DbOK /\ MemOK /\ DispOK /\ EnvOK
             /\ poll \in [Pollers -> PollStates] /\ editor \in EditStates
BY DEF TypeOK, DbOK, MemOK, DispOK, EnvOK

LEMMA IdleTyped == NoBridge \in Bridges /\ IdlePoll \in PollStates /\ IdleDisp \in DispStates /\ IdleEdit \in EditStates
<1>1. NoBridge \in Bridges
  BY DEF NoBridge, Bridges
<1>2. IdlePoll \in PollStates
  BY <1>1 DEF IdlePoll, PollStates
<1>3. IdleDisp \in DispStates
  BY DEF IdleDisp, DispStates
<1>4. IdleEdit \in EditStates
  BY <1>1 DEF IdleEdit, EditStates
<1>. QED BY <1>1, <1>2, <1>3, <1>4

LEMMA PoolTyped == ASSUME EnvOK PROVE PoolSize \in Nat
<1>1. env.workers \subseteq Workers /\ IsFiniteSet(Workers)
  BY ConstantsAssumption DEF EnvOK, Worlds
<1>2. IsFiniteSet(env.workers)
  BY <1>1, FS_Subset
<1>. QED BY <1>2, FS_CardinalityType DEF PoolSize

\* A fault is counted, the scene stays.
LEMMA EnvStep ==
  ASSUME EnvOK, NEW x, NoFault \/ Fault(x)
  PROVE  /\ EnvOK' /\ PoolSize' = PoolSize /\ env'.feeds = env.feeds
         /\ (Fault(x) => env'.count # 0)
         /\ (env'.count = 0 => env.count = 0 /\ ~Fault(x))
         /\ (Calm' => Calm)
         /\ (Fault(x) /\ Calm' => "overrun" \notin env.faults)
<1>1. CASE NoFault
  BY <1>1 DEF NoFault, EnvOK, PoolSize, Calm, Fault, Worlds
<1>2. CASE Fault(x)
  BY <1>2 DEF Fault, EnvOK, PoolSize, Calm, Worlds
<1>. QED BY <1>1, <1>2

LEMMA NotDueFacts ==
  ASSUME DbOK, NEW S, NotDue(S)
  PROVE  /\ due' \in SUBSET Feeds /\ older' \in SUBSET (Feeds \X Feeds)
         /\ \A f : f \in due' <=> f \in due /\ f \notin S
BY DEF DbOK, NotDue

LEMMA DueNowFacts ==
  ASSUME DbOK, NEW S \in SUBSET Feeds, DueNow(S)
  PROVE  /\ due' \in SUBSET Feeds /\ older' \in SUBSET (Feeds \X Feeds)
         /\ \A f : f \in due' <=> f \in due \/ f \in S
BY DEF DbOK, DueNow

LEMMA ResetFacts ==
  ASSUME DbOK, Breaker, NEW S \in SUBSET Feeds, ResetCircuit(S)
  PROVE  errs' \in [Feeds -> Nat] /\ open' \in SUBSET Feeds /\ Breaker'
BY ConstantsAssumption DEF DbOK, Breaker, ResetCircuit

LEMMA PInvParts ==
  ASSUME PInv
  PROVE  /\ TypeOK /\ DbOK /\ MemOK /\ DispOK /\ EnvOK /\ poll \in [Pollers -> PollStates] /\ editor \in EditStates
         /\ Busy /\ Fits /\ Claims /\ Breaker /\ Quiet
BY TypeParts DEF PInv

LEMMA PInvWhole ==
  ASSUME DbOK', MemOK', DispOK', EnvOK', (poll \in [Pollers -> PollStates])', (editor \in EditStates)',
         Busy', Fits', Claims', Breaker', Quiet'
  PROVE  PInv'
BY TypeParts DEF PInv, TypeOK, DbOK, MemOK, DispOK, EnvOK

(***************************************************************************)
(* What the invariant needs to hear of a step that leaves the dispatcher   *)
(* and the channel alone                                                   *)
(***************************************************************************)
LEMMA FitsFrame == ASSUME Fits, DispOK, UNCHANGED <<disp, chan>>, PoolSize' = PoolSize PROVE Fits' /\ DispOK'
BY DEF Fits, DispOK

\* Claims stay while every worker keeps its feed.
LEMMA ClaimsFrame ==
  ASSUME Claims, Calm' => Calm, UNCHANGED <<inflight, deferred, disp, chan>>,
         \A k \in Workers : /\ Polling(k)' => Polling(k) /\ poll'[k].feed = poll[k].feed
                            /\ poll[k].pc = "done" /\ Polling(k)' => poll'[k].pc = "done"
  PROVE  Claims'
<1> SUFFICES ASSUME Calm' PROVE Marked' /\ Once' /\ Waits'
  BY DEF Claims
<1>1. Marked /\ Once /\ Waits
  BY DEF Claims
<1>2. Marked'
  BY <1>1 DEF Marked
<1>3. Once'
  BY <1>1 DEF Once
<1>4. Waits'
  BY <1>1 DEF Waits
<1>. QED BY <1>2, <1>3, <1>4

\* A worker whose feed nobody else touched.
LEMMA FollowsFrame ==
  ASSUME NEW k \in Workers, Follows(k), poll'[k] = poll[k],
         UNCHANGED <<rows, subscribed>>,
         Polling(k) => LET f == poll[k].feed
                       IN /\ errs'[f] = errs[f] /\ (f \in open' <=> f \in open)
                          /\ (f \in manual => f \in manual')
                          /\ (f \in due' => f \in due \/ poll[k].pc \notin {"gone", "told", "defer", "done"})
  PROVE  Follows(k)'
BY DEF Follows, Polling, Pollable

\* A step of the dispatcher's and the users' side of the tables.
LEMMA QuietFrame ==
  ASSUME PInv, UNCHANGED <<disp, chan, poll, editor, rows, errs, open, manual, subscribed>>, env'.feeds = env.feeds,
         \A f \in due' \ due : ~Recorded(f), env'.count = 0 => env.count = 0
  PROVE  Quiet'
<1> SUFFICES ASSUME env'.count = 0
             PROVE  /\ rows' = env'.feeds /\ editor'.pc = "idle" /\ \A c \in Clients : ~Polling(c)'
                    /\ disp'.batch \subseteq rows' /\ \A i \in 1..Len(chan') : chan'[i] \in rows'
                    /\ \A k \in Workers : Follows(k)'
  BY DEF Quiet
<1>1. /\ rows = env.feeds /\ editor.pc = "idle" /\ \A c \in Clients : ~Polling(c)
      /\ disp.batch \subseteq rows /\ \A i \in 1..Len(chan) : chan[i] \in rows
      /\ \A k \in Workers : Follows(k)
  BY PInvParts DEF Quiet
<1>2. ASSUME NEW k \in Workers PROVE Follows(k)'
  BY <1>1, FollowsFrame DEF Recorded
<1>. QED BY <1>1, <1>2 DEF Polling

(***************************************************************************)
(* One step of a poll                                                      *)
(***************************************************************************)
\* Poller p goes on to x and writes nothing but its own feed's row.
Local(p, x) ==
  /\ x \in PollStates /\ poll' = [poll EXCEPT ![p] = x]
  /\ x.pc # "idle" => x.feed = poll[p].feed
  /\ p \in Workers => x.pc \notin {"idle", "load", "done"}
  /\ Polling(p) /\ poll[p].pc \notin {"defer", "done"}
  /\ NoFault \/ Fault("dbfail")
  /\ DbOK' /\ Breaker'
  /\ UNCHANGED <<subscribed, rows, active, inflight, deferred, held, disp, chan, editor>>
  /\ \A f \in Feeds \ {poll[p].feed} :
       /\ errs'[f] = errs[f] /\ (f \in open' <=> f \in open)
       /\ (f \in due' => f \in due) /\ (f \in manual => f \in manual')

LEMMA LocalKeeps ==
  ASSUME PInv, NEW p \in Pollers, NEW x, Local(p, x),
         p \in Workers /\ env'.count = 0 => Follows(p)'
  PROVE  PInv'
<1>1. /\ DbOK /\ MemOK /\ DispOK /\ EnvOK /\ poll \in [Pollers -> PollStates] /\ editor \in EditStates
      /\ Busy /\ Fits /\ Claims /\ Breaker /\ Quiet
  BY PInvParts
<1>2. /\ EnvOK' /\ PoolSize' = PoolSize /\ env'.feeds = env.feeds
      /\ (env'.count = 0 => env.count = 0) /\ (Calm' => Calm)
  BY <1>1, EnvStep DEF Local
<1>3. poll' \in [Pollers -> PollStates] /\ poll'[p] = x /\ \A q \in Pollers \ {p} : poll'[q] = poll[q]
  BY <1>1 DEF Local
<1>4. MemOK' /\ (editor \in EditStates)' /\ Fits' /\ DispOK'
  BY <1>1, <1>2, FitsFrame DEF Local, MemOK
<1>5. Busy'
  BY <1>1, <1>3 DEF Busy, Local, Polling
<1>6. Claims'
  BY <1>1, <1>2, <1>3, ClaimsFrame DEF Local, Polling, Pollers
<1>7. Quiet'
  <2> SUFFICES ASSUME env'.count = 0
               PROVE  /\ rows' = env'.feeds /\ editor'.pc = "idle" /\ \A c \in Clients : ~Polling(c)'
                      /\ disp'.batch \subseteq rows' /\ \A i \in 1..Len(chan') : chan'[i] \in rows'
                      /\ \A k \in Workers : Follows(k)'
    BY DEF Quiet
  <2>1. /\ rows = env.feeds /\ editor.pc = "idle" /\ \A c \in Clients : ~Polling(c)
        /\ disp.batch \subseteq rows /\ \A i \in 1..Len(chan) : chan[i] \in rows
        /\ \A k \in Workers : Follows(k)
    BY <1>1, <1>2 DEF Quiet
  <2>2. p \in Workers
    BY <2>1 DEF Local, Pollers
  <2>3. \A k \in Workers \ {p} : Polling(k) => poll[k].feed \in Feeds \ {poll[p].feed}
    BY <1>1, <1>2, <2>2 DEF Local, Busy, Claims, Calm, Once, Pollers
  <2>4. ASSUME NEW k \in Workers \ {p} PROVE Follows(k)'
    BY <1>3, <2>1, <2>3, FollowsFrame DEF Local, Pollers
  <2>5. \A c \in Clients : ~Polling(c)'
    BY <1>3, <2>1, <2>2, ConstantsAssumption DEF Polling, Pollers
  <2>. QED BY <1>2, <2>1, <2>4, <2>5 DEF Local
<1>. QED BY <1>1, <1>2, <1>3, <1>4, <1>5, <1>6, <1>7, PInvWhole DEF Local

\* Where a poll goes when nothing is left to write.
Ended(p, r) == IF p \in Workers THEN [r EXCEPT !.pc = "defer"] ELSE IdlePoll

LEMMA EndedFacts ==
  ASSUME NEW p \in Pollers, NEW r \in PollStates
  PROVE  /\ Ended(p, r) \in PollStates
         /\ p \in Workers => Ended(p, r).pc = "defer" /\ Ended(p, r).feed = r.feed /\ Ended(p, r).out = r.out
         /\ p \notin Workers => Ended(p, r).pc = "idle"
<1>1. CASE p \in Workers
  BY <1>1 DEF Ended, PollStates
<1>2. CASE p \notin Workers
  BY <1>2, IdleTyped DEF Ended, IdlePoll
<1>. QED BY <1>1, <1>2

\* A step that writes no row at all.
LEMMA SilentLocal ==
  ASSUME PInv, NEW p \in Pollers, NEW x \in PollStates, poll' = [poll EXCEPT ![p] = x], NoFault \/ Fault("dbfail"),
         x.pc # "idle" => x.feed = poll[p].feed, p \in Workers => x.pc \notin {"idle", "load", "done"},
         Polling(p), poll[p].pc \notin {"defer", "done"},
         UNCHANGED <<manual, errs, open, failing, due, older, bridge, inflight, deferred, held, chan>>, PollFrame
  PROVE  Local(p, x)
BY PInvParts DEF Local, PollFrame, DbOK, Breaker

LEMMA LoadKeeps == ASSUME PInv, NEW p \in Pollers, Load(p) PROVE PInv'
<1> DEFINE f == poll[p].feed
           w == p \in Workers
           b == IF w THEN bridge[f] ELSE [bridge[f] EXCEPT !.cursor = "zero"]
           x == [poll[p] EXCEPT !.pc = "fetch", !.errs = IF w THEN errs[f] ELSE 0,
                                !.open = IF w THEN open \cap {f} ELSE {}, !.bridge = b]
           y == Ended(p, poll[p])
<1>1. /\ DbOK /\ EnvOK /\ poll[p] \in PollStates /\ poll[p].pc = "load" /\ Polling(p) /\ f \in Feeds /\ (NoFault \/ Fault("dbfail"))
      /\ UNCHANGED <<manual, errs, open, failing, due, older, bridge, inflight, deferred, held, chan>> /\ PollFrame
  BY PInvParts DEF Load, Busy, Polling
<1>2. x \in PollStates /\ x.pc = "fetch" /\ x.feed = f /\ x.errs = (IF w THEN errs[f] ELSE 0) /\ x.open = (IF w THEN open \cap {f} ELSE {})
  <2>1. b \in Bridges
    BY <1>1 DEF DbOK, Bridges
  <2>2. errs[f] \in Nat /\ open \cap {f} \in SUBSET Feeds
    BY <1>1 DEF DbOK
  <2>. QED BY <1>1, <2>1, <2>2 DEF PollStates
<1>3. y \in PollStates /\ (w => y.pc = "defer" /\ y.feed = f /\ y.out = poll[p].out) /\ (~w => y.pc = "idle")
  BY <1>1, EndedFacts
<1>4. CASE poll' = [poll EXCEPT ![p] = y] /\ (env'.count = 0 /\ w => f \in manual \/ f \in open \/ f \notin rows)
  <2>1. Local(p, y)
    BY <1>1, <1>3, <1>4, SilentLocal
  <2>2. poll'[p] = y
    BY <1>4, PInvParts
  <2>3. ASSUME w, env'.count = 0 PROVE Follows(p)'
    <3>1. env.count = 0 /\ f \in rows
      BY <1>1, <2>3, EnvStep, PInvParts DEF Quiet, Follows
    <3>. QED BY <1>1, <1>3, <1>4, <2>2, <2>3, <3>1 DEF Follows, Pollable, Polling, PollFrame
  <2>. QED BY <2>1, <2>3, LocalKeeps
<1>5. CASE poll' = [poll EXCEPT ![p] = x] /\ (w => f \notin open)
  <2>1. Local(p, x)
    BY <1>1, <1>2, <1>5, SilentLocal
  <2>2. poll'[p] = x
    BY <1>5, PInvParts
  <2>3. ASSUME w, env'.count = 0 PROVE Follows(p)'
    <3>1. env.count = 0 /\ f \in rows
      BY <1>1, <2>3, EnvStep, PInvParts DEF Quiet, Follows
    <3>. QED BY <1>1, <1>2, <1>5, <2>2, <2>3, <3>1 DEF Follows, Polling, PollFrame
  <2>. QED BY <2>1, <2>3, LocalKeeps
<1>6. CASE Fault("dbfail") /\ Finish(p, poll[p])
  BY <1>1, <1>4, <1>6, EnvStep DEF Finish, Goto, Ended
<1>7. CASE NoFault /\ IF f \notin rows \/ (w /\ (f \in manual \/ f \in open))
                      THEN Finish(p, poll[p]) ELSE Goto(p, x)
  BY <1>4, <1>5, <1>7 DEF Finish, Goto, Ended
<1>. QED BY <1>6, <1>7 DEF Load

LEMMA FetchKeeps == ASSUME PInv, NEW p \in Pollers, Fetch(p) PROVE PInv'
<1>1. /\ DbOK /\ EnvOK /\ poll[p] \in PollStates /\ poll[p].pc = "fetch" /\ Polling(p) /\ NoFault
      /\ UNCHANGED <<manual, errs, open, failing, due, older, bridge, inflight, deferred, held, chan>> /\ PollFrame
  BY PInvParts DEF Fetch, Polling
<1>2. PICK o \in env.outcomes : poll' = [poll EXCEPT ![p] = [poll[p] EXCEPT !.pc = "record", !.out = o]]
  BY DEF Fetch, Goto
<1> DEFINE x == [poll[p] EXCEPT !.pc = "record", !.out = o]
<1>3. x \in PollStates /\ x.pc = "record" /\ x.feed = poll[p].feed /\ x.errs = poll[p].errs /\ x.open = poll[p].open
  <2>1. o \in Results
    BY <1>1 DEF EnvOK, Worlds
  <2>. QED BY <1>1, <2>1 DEF PollStates
<1>4. Local(p, x)
  BY <1>1, <1>2, <1>3, SilentLocal
<1>5. poll'[p] = x
  BY <1>2, PInvParts
<1>6. ASSUME p \in Workers, env'.count = 0 PROVE Follows(p)'
  <2>1. Follows(p)
    BY <1>1, <1>6, EnvStep, PInvParts DEF Quiet
  <2>. QED BY <1>1, <1>3, <1>5, <2>1 DEF Follows, Polling, PollFrame
<1>. QED BY <1>4, <1>6, LocalKeeps

\* Where the feed of a worker ends up once its poll is recorded.
LEMMA EndFollows ==
  ASSUME NEW p \in Workers, NEW r, poll'[p] = r, r.pc \in {"gone", "told", "defer", "done"}, r.feed \in rows',
         r.pc \in {"gone", "told"} /\ r.out # "timeout" => r.errs = errs'[r.feed] /\ (r.open # {} <=> r.feed \in open'),
         r.feed \notin due' \/ ~Pollable(r.feed)' \/ r.out \in {"hold", "bridge", "timeout"}
  PROVE  Follows(p)'
BY DEF Follows, Pollable

LEMMA SuccessKeeps == ASSUME PInv, NEW p \in Pollers, RecordSuccess(p) PROVE PInv'
<1> DEFINE f == poll[p].feed
           b == IF poll[p].out = "new" THEN [poll[p].bridge EXCEPT !.cursor = "moved"] ELSE poll[p].bridge
           y == Ended(p, poll[p])
           x == [poll[p] EXCEPT !.out = "fail", !.bridge = b]
<1>1. /\ DbOK /\ EnvOK /\ Breaker /\ poll[p] \in PollStates /\ poll[p].pc = "record" /\ Polling(p) /\ f \in Feeds
      /\ UNCHANGED <<manual, inflight, deferred, held, chan>> /\ PollFrame
  BY PInvParts DEF RecordSuccess, Busy, Polling
<1>2. b \in Bridges
  BY <1>1 DEF PollStates, Bridges
<1>3. y \in PollStates /\ (p \in Workers => y.pc = "defer" /\ y.feed = f) /\ (p \notin Workers => y.pc = "idle")
  BY <1>1, EndedFacts
<1>4. x \in PollStates /\ x.pc = "record" /\ x.feed = f
  BY <1>1, <1>2 DEF PollStates, Results
<1>5. CASE NoFault /\ f \in rows /\ Meta(f, b) /\ Finish(p, poll[p])
  <2>1. poll' = [poll EXCEPT ![p] = y] /\ poll'[p] = y
    BY <1>5, PInvParts DEF Finish, Goto, Ended
  <2>2. /\ due' \in SUBSET Feeds /\ older' \in SUBSET (Feeds \X Feeds)
        /\ \A g : g \in due' <=> g \in due /\ g \notin {f}
    BY <1>1, <1>5, NotDueFacts DEF Meta
  <2>3. DbOK'
    BY <1>1, <1>2, <1>5, <2>2 DEF DbOK, Meta, PollFrame
  <2>4. Breaker'
    BY <1>1, <1>5, ConstantsAssumption DEF DbOK, Breaker, Meta
  <2>5. \A g \in Feeds \ {f} : errs'[g] = errs[g] /\ (g \in open' <=> g \in open)
    BY <1>1, <1>5 DEF DbOK, Meta
  <2>6. Local(p, y)
    BY <1>1, <1>3, <1>5, <2>1, <2>2, <2>3, <2>4, <2>5 DEF Local, PollFrame
  <2>7. p \in Workers => Follows(p)'
    BY <1>1, <1>3, <1>5, <2>1, <2>2, EndFollows DEF PollFrame
  <2>. QED BY <2>6, <2>7, LocalKeeps
<1>6. CASE /\ IF f \notin rows THEN NoFault ELSE Fault("dbfail")
           /\ IF poll[p].out = "new" THEN Goto(p, x) ELSE Finish(p, poll[p])
           /\ UNCHANGED <<errs, open, failing, due, older, bridge>>
  <2>1. ASSUME p \in Workers PROVE env'.count # 0
    BY <1>1, <1>6, <2>1, EnvStep, PInvParts DEF Quiet, Follows
  <2>2. PICK z \in {x, y} : poll' = [poll EXCEPT ![p] = z]
    BY <1>6 DEF Goto, Finish, Ended
  <2>3. Local(p, z)
    BY <1>1, <1>3, <1>4, <1>6, <2>2, SilentLocal
  <2>. QED BY <2>1, <2>3, LocalKeeps
<1>. QED BY <1>5, <1>6 DEF RecordSuccess

LEMMA FailureKeeps == ASSUME PInv, NEW p \in Pollers, RecordFailure(p) PROVE PInv'
<1> DEFINE f == poll[p].feed
           x == [poll[p] EXCEPT !.pc = IF poll[p].out = "gone" THEN "gone" ELSE "told", !.errs = @ + 1,
                                !.open = IF @ # {} \/ Trips(poll[p].errs + 1) THEN {f} ELSE {}]
<1>1. /\ DbOK /\ EnvOK /\ Breaker /\ poll[p] \in PollStates /\ poll[p].pc = "record" /\ Polling(p) /\ f \in Feeds
      /\ UNCHANGED <<manual, inflight, deferred, held, chan>> /\ PollFrame
  BY PInvParts DEF RecordFailure, Busy, Polling
<1>2. /\ x \in PollStates /\ x.pc \in {"gone", "told"} /\ x.feed = f /\ x.errs = poll[p].errs + 1 /\ x.out = poll[p].out
      /\ x.open = IF poll[p].open # {} \/ Trips(poll[p].errs + 1) THEN {f} ELSE {}
  <2>1. poll[p].errs + 1 \in Nat /\ {f} \in SUBSET Feeds
    BY <1>1 DEF PollStates
  <2>. QED BY <1>1, <2>1 DEF PollStates
<1>3. poll' = [poll EXCEPT ![p] = x] /\ poll'[p] = x
  BY PInvParts DEF RecordFailure, Goto
<1>4. CASE /\ NoFault /\ poll[p].out # "timeout" /\ f \in rows
           /\ errs' = [errs EXCEPT ![f] = @ + 1]
           /\ open' = IF Trips(errs[f] + 1) THEN open \cup {f} ELSE open \ {f}
           /\ failing' = failing \cup {f}
           /\ bridge' = IF poll[p].bridge = NoBridge THEN bridge ELSE [bridge EXCEPT ![f] = poll[p].bridge]
           /\ NotDue({f})
  <2>2. /\ due' \in SUBSET Feeds /\ older' \in SUBSET (Feeds \X Feeds)
        /\ \A g : g \in due' <=> g \in due /\ g \notin {f}
    BY <1>1, <1>4, NotDueFacts
  <2>3. DbOK'
    <3>1. poll[p].bridge \in Bridges
      BY <1>1 DEF PollStates
    <3>2. bridge' \in [Feeds -> Bridges] /\ errs' \in [Feeds -> Nat]
      BY <1>1, <1>4, <3>1 DEF DbOK
    <3>. QED BY <1>1, <1>4, <2>2, <3>2 DEF DbOK, PollFrame
  <2>4. Breaker'
    BY <1>1, <1>4, ConstantsAssumption DEF DbOK, Breaker, Trips
  <2>5. /\ \A g \in Feeds \ {f} : errs'[g] = errs[g] /\ (g \in open' <=> g \in open)
        /\ errs'[f] = errs[f] + 1 /\ (f \in open' <=> Trips(errs[f] + 1))
    BY <1>1, <1>4 DEF DbOK
  <2>6. Local(p, x)
    BY <1>1, <1>2, <1>3, <1>4, <2>2, <2>3, <2>4, <2>5 DEF Local, PollFrame
  <2>7. ASSUME p \in Workers, env'.count = 0 PROVE Follows(p)'
    <3>1. poll[p].errs = errs[f] /\ poll[p].open = {}
      BY <1>1, <1>4, <2>7, EnvStep, PInvParts DEF Quiet, Follows
    <3>2. x.errs = errs'[f] /\ (x.open # {} <=> f \in open')
      BY <1>2, <2>5, <3>1
    <3> HIDE DEF x
    <3>. QED BY <1>1, <1>2, <1>3, <1>4, <2>2, <2>7, <3>2, EndFollows DEF PollFrame
  <2>. QED BY <2>6, <2>7, LocalKeeps
<1>5. CASE /\ IF poll[p].out = "timeout" \/ f \notin rows THEN NoFault ELSE Fault("dbfail")
           /\ UNCHANGED <<errs, open, failing, due, older, bridge>>
  <2>1. Local(p, x)
    BY <1>1, <1>2, <1>3, <1>5, SilentLocal
  <2>2. ASSUME p \in Workers, env'.count = 0 PROVE Follows(p)'
    <3>1. poll[p].out = "timeout" /\ f \in rows
      BY <1>1, <1>5, <2>2, EnvStep, PInvParts DEF Quiet, Follows
    <3> HIDE DEF x
    <3>. QED BY <1>1, <1>2, <1>3, <2>2, <3>1, EndFollows DEF PollFrame
  <2>. QED BY <2>1, <2>2, LocalKeeps
<1>. QED BY <1>4, <1>5 DEF RecordFailure

LEMMA GoneKeeps == ASSUME PInv, NEW p \in Pollers, RecordGone(p) PROVE PInv'
<1> DEFINE f == poll[p].feed
           x == [poll[p] EXCEPT !.pc = "told"]
<1>1. /\ DbOK /\ EnvOK /\ Breaker /\ poll[p] \in PollStates /\ poll[p].pc = "gone" /\ Polling(p) /\ f \in Feeds
      /\ UNCHANGED <<errs, open, failing, due, older, bridge, inflight, deferred, held, chan>> /\ PollFrame
      /\ (NoFault \/ Fault("dbfail")) /\ manual' \in {manual, manual \cup {f}}
  BY PInvParts DEF RecordGone, Busy, Polling
<1>2. x \in PollStates /\ x.pc = "told" /\ x.feed = f /\ x.errs = poll[p].errs /\ x.open = poll[p].open /\ x.out = poll[p].out
  BY <1>1 DEF PollStates
<1>3. poll' = [poll EXCEPT ![p] = x] /\ poll'[p] = x
  BY PInvParts DEF RecordGone, Step, Goto
<1>4. Local(p, x)
  BY <1>1, <1>2, <1>3 DEF Local, PollFrame, DbOK, Breaker
<1>5. ASSUME p \in Workers, env'.count = 0 PROVE Follows(p)'
  <2>1. Follows(p)
    BY <1>1, <1>5, EnvStep, PInvParts DEF Quiet
  <2>. QED BY <1>1, <1>2, <1>3, <1>5, <2>1 DEF Follows, Pollable, PollFrame, Polling
<1>. QED BY <1>4, <1>5, LocalKeeps

LEMMA PublishKeeps == ASSUME PInv, NEW p \in Pollers, Publish(p) PROVE PInv'
<1> DEFINE y == Ended(p, poll[p])
<1>1. /\ DbOK /\ EnvOK /\ poll[p] \in PollStates /\ poll[p].pc = "told" /\ Polling(p) /\ NoFault
      /\ UNCHANGED <<manual, errs, open, failing, due, older, bridge, inflight, deferred, held, chan>> /\ PollFrame
  BY PInvParts DEF Publish, Polling
<1>2. /\ y \in PollStates /\ (p \in Workers => y.pc = "defer" /\ y.feed = poll[p].feed /\ y.out = poll[p].out)
      /\ (p \notin Workers => y.pc = "idle")
  BY <1>1, EndedFacts
<1>3. poll' = [poll EXCEPT ![p] = y] /\ poll'[p] = y
  BY PInvParts DEF Publish, Finish, Goto, Ended
<1>4. Local(p, y)
  BY <1>1, <1>2, <1>3, SilentLocal
<1>5. ASSUME p \in Workers, env'.count = 0 PROVE Follows(p)'
  <2>1. Follows(p)
    BY <1>1, <1>5, EnvStep, PInvParts DEF Quiet
  <2>. QED BY <1>1, <1>2, <1>3, <1>5, <2>1 DEF Follows, Pollable, PollFrame, Polling
<1>. QED BY <1>4, <1>5, LocalKeeps

LEMMA LayoutKeeps == ASSUME PInv, NEW p \in Pollers, RecordLayout(p) PROVE PInv'
<1> DEFINE f == poll[p].feed
           y == Ended(p, poll[p])
<1>1. /\ DbOK /\ EnvOK /\ Breaker /\ poll[p] \in PollStates /\ poll[p].pc = "record" /\ Polling(p) /\ f \in Feeds
      /\ UNCHANGED <<manual, errs, open, inflight, deferred, held, chan>> /\ PollFrame
  BY PInvParts DEF RecordLayout, Busy, Polling
<1>2. y \in PollStates /\ (p \in Workers => y.pc = "defer" /\ y.feed = f) /\ (p \notin Workers => y.pc = "idle")
  BY <1>1, EndedFacts
<1>3. poll' = [poll EXCEPT ![p] = y] /\ poll'[p] = y
  BY PInvParts DEF RecordLayout, Finish, Goto, Ended
<1>4. CASE NoFault /\ f \in rows /\ failing' = failing \cup {f} /\ bridge' = [bridge EXCEPT ![f] = NoBridge] /\ NotDue({f})
  <2>1. /\ due' \in SUBSET Feeds /\ older' \in SUBSET (Feeds \X Feeds)
        /\ \A g : g \in due' <=> g \in due /\ g \notin {f}
    BY <1>1, <1>4, NotDueFacts
  <2>2. DbOK' /\ Breaker'
    BY <1>1, <1>4, <2>1, IdleTyped DEF DbOK, PollFrame, Breaker
  <2>3. Local(p, y)
    BY <1>1, <1>2, <1>3, <1>4, <2>1, <2>2 DEF Local, PollFrame
  <2>4. p \in Workers => Follows(p)'
    BY <1>1, <1>2, <1>3, <1>4, <2>1, EndFollows DEF PollFrame
  <2>. QED BY <2>3, <2>4, LocalKeeps
<1>5. CASE /\ IF f \notin rows THEN NoFault ELSE Fault("dbfail")
           /\ UNCHANGED <<failing, due, older, bridge>>
  <2>1. ASSUME p \in Workers PROVE env'.count # 0
    BY <1>1, <1>5, <2>1, EnvStep, PInvParts DEF Quiet, Follows
  <2>2. Local(p, y)
    BY <1>1, <1>2, <1>3, <1>5, SilentLocal
  <2>. QED BY <2>1, <2>2, LocalKeeps
<1>. QED BY <1>4, <1>5 DEF RecordLayout

LEMMA AwayKeeps == ASSUME PInv, NEW p \in Pollers, TurnedAway(p) PROVE PInv'
<1> DEFINE f == poll[p].feed
           y == Ended(p, poll[p])
<1>1. /\ DbOK /\ EnvOK /\ Breaker /\ poll[p] \in PollStates /\ poll[p].pc = "record" /\ Polling(p) /\ f \in Feeds
      /\ poll[p].out \in {"hold", "bridge", "park"} /\ (NoFault \/ Fault("dbfail"))
      /\ UNCHANGED <<manual, errs, open, failing, bridge, inflight, deferred, held, chan>> /\ PollFrame
  BY PInvParts DEF TurnedAway, Busy, Polling
<1>2. /\ y \in PollStates /\ (p \in Workers => y.pc = "defer" /\ y.feed = f /\ y.out = poll[p].out)
      /\ (p \notin Workers => y.pc = "idle")
  BY <1>1, EndedFacts
<1>3. poll' = [poll EXCEPT ![p] = y] /\ poll'[p] = y
  BY PInvParts DEF TurnedAway, Finish, Goto, Ended
<1>4. /\ due' \in SUBSET Feeds /\ older' \in SUBSET (Feeds \X Feeds) /\ due' \subseteq due
      /\ (NoFault /\ poll[p].out = "park" /\ p \in Workers /\ f \in rows => f \notin due')
  <2>1. CASE NotDue({f})
    BY <1>1, <2>1, NotDueFacts
  <2>2. CASE UNCHANGED <<due, older>> /\ ~(NoFault /\ poll[p].out = "park" /\ p \in Workers /\ f \in rows)
    BY <1>1, <2>2 DEF DbOK
  <2>3. Fault("dbfail") => ~NoFault
    BY <1>1 DEF Fault, NoFault, EnvOK, Worlds
  <2>. QED BY <2>1, <2>2, <2>3 DEF TurnedAway
<1>5. DbOK' /\ Breaker'
  BY <1>1, <1>4 DEF DbOK, PollFrame, Breaker
<1>6. Local(p, y)
  BY <1>1, <1>2, <1>3, <1>4, <1>5 DEF Local, PollFrame
<1>7. ASSUME p \in Workers, env'.count = 0 PROVE Follows(p)'
  <2>1. f \in rows /\ NoFault
    BY <1>1, <1>7, EnvStep, PInvParts DEF Quiet, Follows
  <2>. QED BY <1>1, <1>2, <1>3, <1>4, <1>7, <2>1, EndFollows DEF PollFrame
<1>. QED BY <1>6, <1>7, LocalKeeps

LEMMA PollKeeps == ASSUME PInv, NEW p \in Pollers, Poll(p) PROVE PInv'
BY LoadKeeps, FetchKeeps, SuccessKeeps, FailureKeeps, GoneKeeps, PublishKeeps, LayoutKeeps, AwayKeeps DEF Poll

(***************************************************************************)
(* Taking a feed and letting go of it                                      *)
(***************************************************************************)
LEMMA TakeKeeps == ASSUME PInv, NEW k \in Workers, WorkerTake(k) PROVE PInv'
<1> DEFINE h == Head(chan)
           x == [IdlePoll EXCEPT !.pc = "load", !.feed = h]
<1>1. /\ DbOK /\ MemOK /\ DispOK /\ EnvOK /\ poll \in [Pollers -> PollStates] /\ editor \in EditStates
      /\ Busy /\ Fits /\ Claims /\ Breaker /\ Quiet
  BY PInvParts
<1>2. /\ poll[k].pc = "idle" /\ chan # <<>> /\ NoFault /\ UNCHANGED <<dbVars, active, inflight, deferred, held, disp, editor>>
      /\ poll' = [poll EXCEPT ![k] = x] /\ chan' = Tail(chan) /\ k \in Pollers
  BY DEF WorkerTake, PollFrame, Goto, dbVars, Pollers
<1>3. /\ h \in Feeds /\ h = chan[1] /\ 1 \in 1..Len(chan) /\ chan' \in Seq(Feeds) /\ Len(chan') + 1 = Len(chan)
      /\ \A i \in 1..Len(chan') : i + 1 \in 1..Len(chan) /\ chan'[i] = chan[i + 1]
  BY <1>1, <1>2, HeadTailProperties DEF DispOK
<1>4. x \in PollStates /\ x.pc = "load" /\ x.feed = h
  BY <1>3, IdleTyped DEF IdlePoll, PollStates
<1>5. poll' \in [Pollers -> PollStates] /\ poll'[k] = x /\ \A q \in Pollers \ {k} : poll'[q] = poll[q]
  BY <1>1, <1>2, <1>4
<1>6. /\ EnvOK' /\ PoolSize' = PoolSize /\ env'.feeds = env.feeds
      /\ (env'.count = 0 => env.count = 0) /\ (Calm' => Calm)
  BY <1>1, <1>2, EnvStep
<1>7. DbOK' /\ MemOK' /\ Breaker' /\ (editor \in EditStates)'
  BY <1>1, <1>2 DEF DbOK, MemOK, Breaker, dbVars
<1>8. PoolSize \in Nat /\ Len(chan) \in Nat
  BY <1>1, PoolTyped DEF DispOK
<1>9. DispOK' /\ Fits'
  <2>1. disp.room \in Nat /\ disp.batch \subseteq Feeds
    BY <1>1 DEF DispOK, DispStates
  <2>2. Cardinality(disp.batch) \in Nat
    BY <2>1, FS_Subset, FS_CardinalityType, ConstantsAssumption
  <2>3. DispOK'
    BY <1>1, <1>2, <1>3, <1>6, <1>8 DEF DispOK
  <2>4. Len(chan') \in Nat
    BY <1>3
  <2>. QED BY <1>1, <1>2, <1>3, <1>6, <1>8, <2>1, <2>2, <2>3, <2>4 DEF Fits
<1>10. Busy'
  BY <1>1, <1>2, <1>3, <1>4, <1>5 DEF Busy, Polling
<1>11. Claims'
  <2> SUFFICES ASSUME Calm' PROVE Marked' /\ Once' /\ Waits'
    BY DEF Claims
  <2>1. Marked /\ Once /\ Waits
    BY <1>1, <1>6 DEF Claims
  <2>2. Marked'
    BY <1>2, <1>3, <1>4, <1>5, <2>1 DEF Marked, Polling, Pollers
  <2>3. Once'
    <3>1. \A i, j \in 1..Len(chan') : chan'[i] = chan'[j] => i = j
      BY <1>3, <1>8, <2>1 DEF Once
    <3>2. \A j \in Workers \ {k} : Polling(j)' => Polling(j) /\ poll'[j].feed = poll[j].feed /\ poll[j].feed # h
      BY <1>3, <1>5, <2>1 DEF Once, Polling, Pollers
    <3>3. \A i \in 1..Len(chan') : chan'[i] # h
      BY <1>3, <1>8, <2>1 DEF Once
    <3>4. \A i \in 1..Len(chan') : \A j \in Workers \ {k} : Polling(j) => poll[j].feed # chan'[i]
      BY <1>3, <2>1 DEF Once
    <3>0. poll'[k].feed = h
      BY <1>4, <1>5
    <3> HIDE DEF x, h
    <3>5. \A j1, j2 \in Workers : Polling(j1)' /\ Polling(j2)' /\ poll'[j1].feed = poll'[j2].feed => j1 = j2
      BY <2>1, <3>0, <3>2 DEF Once
    <3>6. \A i \in 1..Len(chan') : \A j \in Workers : Polling(j)' => poll'[j].feed # chan'[i]
      BY <3>0, <3>2, <3>3, <3>4
    <3>. QED BY <3>1, <3>5, <3>6 DEF Once
  <2>4. Waits'
    BY <1>2, <1>3, <1>4, <1>5, <2>1 DEF Waits, Polling, Pollers
  <2>. QED BY <2>2, <2>3, <2>4
<1>12. Quiet'
  <2> SUFFICES ASSUME env'.count = 0
               PROVE  /\ rows' = env'.feeds /\ editor'.pc = "idle" /\ \A c \in Clients : ~Polling(c)'
                      /\ disp'.batch \subseteq rows' /\ \A i \in 1..Len(chan') : chan'[i] \in rows'
                      /\ \A j \in Workers : Follows(j)'
    BY DEF Quiet
  <2>1. /\ rows = env.feeds /\ editor.pc = "idle" /\ \A c \in Clients : ~Polling(c)
        /\ disp.batch \subseteq rows /\ \A i \in 1..Len(chan) : chan[i] \in rows
        /\ \A j \in Workers : Follows(j)
    BY <1>1, <1>6 DEF Quiet
  <2>2. ASSUME NEW j \in Workers \ {k} PROVE Follows(j)'
    BY <1>2, <1>5, <2>1, FollowsFrame DEF Pollers, dbVars
  <2>3. Follows(k)'
    BY <1>2, <1>3, <1>4, <1>5, <2>1 DEF Follows, dbVars
  <2>4. \A c \in Clients : ~Polling(c)'
    BY <1>5, <2>1, ConstantsAssumption DEF Polling, Pollers
  <2>. QED BY <1>2, <1>3, <1>6, <2>1, <2>2, <2>3, <2>4 DEF dbVars
<1>. QED BY <1>5, <1>6, <1>7, <1>9, <1>10, <1>11, <1>12, PInvWhole

\* A worker's step after the poll: it touches only the runner's memory.
LEMMA ReleaseKeeps ==
  ASSUME PInv, NEW k \in Workers, NEW x \in PollStates, poll' = [poll EXCEPT ![k] = x], NoFault, Polling(k),
         x.pc = "idle" \/ (x.pc = "done" /\ poll[k].pc = "defer" /\ x.feed = poll[k].feed /\ x.out = poll[k].out),
         UNCHANGED <<dbVars, active, disp, chan, editor>>,
         MemOK', Claims'
  PROVE  PInv'
<1>1. /\ DbOK /\ MemOK /\ DispOK /\ EnvOK /\ poll \in [Pollers -> PollStates] /\ editor \in EditStates
      /\ Busy /\ Fits /\ Claims /\ Breaker /\ Quiet /\ k \in Pollers
  BY PInvParts DEF Pollers
<1>2. poll' \in [Pollers -> PollStates] /\ poll'[k] = x /\ \A q \in Pollers \ {k} : poll'[q] = poll[q]
  BY <1>1
<1>3. /\ EnvOK' /\ PoolSize' = PoolSize /\ env'.feeds = env.feeds
      /\ (env'.count = 0 => env.count = 0) /\ (Calm' => Calm)
  BY <1>1, EnvStep
<1>4. DbOK' /\ Breaker' /\ (editor \in EditStates)' /\ DispOK' /\ Fits'
  BY <1>1, <1>3, FitsFrame DEF DbOK, Breaker, dbVars
<1>5. Busy'
  BY <1>1, <1>2 DEF Busy, Polling
<1>6. Quiet'
  <2> SUFFICES ASSUME env'.count = 0
               PROVE  /\ rows' = env'.feeds /\ editor'.pc = "idle" /\ \A c \in Clients : ~Polling(c)'
                      /\ disp'.batch \subseteq rows' /\ \A i \in 1..Len(chan') : chan'[i] \in rows'
                      /\ \A j \in Workers : Follows(j)'
    BY DEF Quiet
  <2>1. /\ rows = env.feeds /\ editor.pc = "idle" /\ \A c \in Clients : ~Polling(c)
        /\ disp.batch \subseteq rows /\ \A i \in 1..Len(chan) : chan[i] \in rows
        /\ \A j \in Workers : Follows(j)
    BY <1>1, <1>3 DEF Quiet
  <2>2. ASSUME NEW j \in Workers \ {k} PROVE Follows(j)'
    BY <1>2, <2>1, FollowsFrame DEF Pollers, dbVars
  <2>3. Follows(k)'
    BY <1>2, <2>1 DEF Follows, Polling, Pollable, dbVars
  <2>4. \A c \in Clients : ~Polling(c)'
    BY <1>2, <2>1, ConstantsAssumption DEF Polling, Pollers
  <2>. QED BY <1>3, <2>1, <2>2, <2>3, <2>4 DEF dbVars
<1>. QED BY <1>2, <1>3, <1>4, <1>5, <1>6, PInvWhole

LEMMA DeferKeeps == ASSUME PInv, NEW k \in Workers, WorkerDefer(k) PROVE PInv'
<1> DEFINE f == poll[k].feed
           x == [poll[k] EXCEPT !.pc = "done"]
<1>1. /\ MemOK /\ EnvOK /\ poll \in [Pollers -> PollStates] /\ Busy /\ Claims /\ k \in Pollers
      /\ poll[k] \in PollStates /\ poll[k].pc = "defer" /\ Polling(k) /\ f \in Feeds /\ NoFault
  BY PInvParts DEF WorkerDefer, Polling, Busy, Pollers
<1>2. x \in PollStates /\ x.pc = "done" /\ x.feed = f /\ x.out = poll[k].out
  BY <1>1 DEF PollStates
<1>3. poll' = [poll EXCEPT ![k] = x] /\ UNCHANGED <<dbVars, active, inflight, disp, chan, editor>>
  BY DEF WorkerDefer, Step, Goto, PollFrame, dbVars
<1>4. deferred' \in {deferred, deferred \cup {f}} /\ held' \subseteq held \cup {TypeOf[f]}
  BY DEF WorkerDefer
<1>5. MemOK'
  BY <1>1, <1>3, <1>4, ConstantsAssumption DEF MemOK
<1>6. poll'[k] = x /\ \A q \in Pollers \ {k} : poll'[q] = poll[q]
  BY <1>1, <1>3
<1>7. Claims'
  <2> SUFFICES ASSUME Calm' PROVE Marked' /\ Once' /\ Waits'
    BY DEF Claims
  <2>1. Marked /\ Once /\ Waits
    BY <1>1, EnvStep DEF Claims
  <2>2. \A j \in Workers : Polling(j)' => Polling(j) /\ poll'[j].feed = poll[j].feed /\ (j = k \/ poll'[j] = poll[j])
    BY <1>1, <1>2, <1>6 DEF Polling, Pollers
  <2>3. Marked' /\ Once'
    BY <1>3, <2>1, <2>2 DEF Marked, Once
  <2>4. /\ f \notin disp.batch /\ (\A i \in 1..Len(chan) : chan[i] # f)
        /\ \A j \in Workers \ {k} : Polling(j) => poll[j].feed # f
        /\ disp.pc \in {"held", "list"} => f \in disp.exclude
    BY <1>1, <2>1 DEF Marked, Once
  <2>5. Waits'
    <3>1. disp'.pc \in {"held", "list"} => deferred' \subseteq disp'.exclude
      BY <1>3, <1>4, <2>1, <2>4 DEF Waits
    <3>2. ASSUME NEW g \in deferred'
          PROVE  /\ g \notin disp'.batch /\ (\A i \in 1..Len(chan') : chan'[i] # g)
                 /\ \A j \in Workers : Polling(j)' /\ poll'[j].feed = g => poll'[j].pc = "done"
      <4>1. CASE g = f
        BY <1>2, <1>3, <1>6, <2>2, <2>4, <4>1
      <4>2. CASE g # f
        BY <1>2, <1>3, <1>4, <1>6, <2>1, <2>2, <4>2, <3>2 DEF Waits
      <4>. QED BY <4>1, <4>2
    <3>. QED BY <3>1, <3>2 DEF Waits
  <2>. QED BY <2>3, <2>5
<1>. QED BY <1>1, <1>2, <1>3, <1>5, <1>7, ReleaseKeeps

LEMMA DoneKeeps == ASSUME PInv, NEW k \in Workers, WorkerDone(k) PROVE PInv'
<1> DEFINE f == poll[k].feed
<1>1. /\ MemOK /\ EnvOK /\ poll \in [Pollers -> PollStates] /\ Busy /\ Claims /\ k \in Pollers
      /\ poll[k].pc = "done" /\ Polling(k) /\ f \in Feeds /\ NoFault
  BY PInvParts DEF WorkerDone, Polling, Busy, Pollers
<1>2. poll' = [poll EXCEPT ![k] = IdlePoll] /\ UNCHANGED <<dbVars, active, deferred, held, disp, chan, editor>> /\ inflight' = Done(f)
  BY DEF WorkerDone, Goto, PollFrame, dbVars
<1>3. IdlePoll.pc = "idle" /\ poll'[k] = IdlePoll /\ \A q \in Pollers \ {k} : poll'[q] = poll[q]
  BY <1>1, <1>2 DEF IdlePoll
<1>4. MemOK'
  BY <1>1, <1>2 DEF MemOK, Done
<1>5. Claims'
  <2> SUFFICES ASSUME Calm' PROVE Marked' /\ Once' /\ Waits'
    BY DEF Claims
  <2>1. Marked /\ Once /\ Waits
    BY <1>1, EnvStep DEF Claims
  <2>2. \A j \in Workers : Polling(j)' => j # k /\ Polling(j) /\ poll'[j] = poll[j] /\ poll[j].feed \in Feeds \ {f}
    BY <1>1, <1>3, <2>1 DEF Polling, Pollers, Once, Busy
  <2>3. inflight'[f] = "done" /\ \A g \in Feeds \ {f} : inflight'[g] = inflight[g]
    BY <1>1, <1>2, <2>1 DEF Done, MemOK, Marked
  <2>4. \A i \in 1..Len(chan) : chan[i] \in Feeds \ {f}
    BY <1>1, <2>1, PInvParts DEF Once, DispOK
  <2>5. disp.batch \subseteq Feeds
    BY PInvParts DEF DispOK, DispStates
  <2>6. Marked'
    BY <1>1, <1>2, <2>1, <2>2, <2>3, <2>4, <2>5 DEF Marked
  <2>7. Once' /\ Waits'
    BY <1>2, <2>1, <2>2 DEF Once, Waits
  <2>. QED BY <2>6, <2>7
<1>. QED BY <1>1, <1>2, <1>3, <1>4, <1>5, IdleTyped, ReleaseKeeps

LEMMA WorkKeeps == ASSUME PInv, NEW k \in Workers, Work(k) PROVE PInv'
<1>1. k \in Pollers
  BY DEF Pollers
<1>. QED BY <1>1, TakeKeeps, PollKeeps, DeferKeeps, DoneKeeps DEF Work

\* A manual refresh starts by closing the breaker.
LEMMA ManualKeeps == ASSUME PInv, NEW c \in Clients, NEW f \in env.feeds, ManualBegin(c, f) PROVE PInv'
<1> DEFINE x == [IdlePoll EXCEPT !.pc = "load", !.feed = f]
<1>1. /\ DbOK /\ MemOK /\ DispOK /\ EnvOK /\ poll \in [Pollers -> PollStates] /\ editor \in EditStates
      /\ Busy /\ Fits /\ Claims /\ Breaker /\ Quiet /\ c \in Pollers \ Workers
  BY PInvParts, ConstantsAssumption DEF Pollers
<1>2. /\ Fault("refresh") /\ ResetCircuit({f} \cap rows) /\ poll' = [poll EXCEPT ![c] = x]
      /\ UNCHANGED <<subscribed, rows, manual, failing, due, older, bridge, active, inflight, deferred, held, disp, chan, editor>>
  BY DEF ManualBegin, Goto, PollFrame
<1>3. f \in Feeds /\ {f} \cap rows \in SUBSET Feeds
  BY <1>1 DEF EnvOK, Worlds
<1>4. x \in PollStates /\ x.pc = "load" /\ x.feed = f
  BY <1>3, IdleTyped DEF IdlePoll, PollStates
<1>5. poll' \in [Pollers -> PollStates] /\ poll'[c] = x /\ \A q \in Pollers \ {c} : poll'[q] = poll[q]
  BY <1>1, <1>2, <1>4
<1>6. EnvOK' /\ PoolSize' = PoolSize /\ env'.count # 0 /\ (Calm' => Calm)
  BY <1>1, <1>2, EnvStep
<1>7. errs' \in [Feeds -> Nat] /\ open' \in SUBSET Feeds /\ Breaker'
  BY <1>1, <1>2, <1>3, ResetFacts
<1>8. DbOK' /\ MemOK' /\ (editor \in EditStates)'
  BY <1>1, <1>2, <1>7 DEF DbOK, MemOK
<1>9. DispOK' /\ Fits'
  BY <1>1, <1>2, <1>6, FitsFrame
<1>10. Busy'
  BY <1>1, <1>2, <1>3, <1>4, <1>5 DEF Busy, Polling
<1>11. Claims'
  BY <1>1, <1>2, <1>5, <1>6, ClaimsFrame DEF Polling, Pollers
<1>12. Quiet'
  BY <1>6 DEF Quiet
<1>. QED BY <1>5, <1>6, <1>7, <1>8, <1>9, <1>10, <1>11, <1>12, PInvWhole

(***************************************************************************)
(* The dispatcher                                                          *)
(***************************************************************************)
LEMMA DispatchKeeps ==
  ASSUME PInv, NEW x, NoFault \/ Fault(x), DispatchFrame, DispOK', Fits', Claims',
         inflight' \in [Feeds -> {"none", "running", "stale", "done"}],
         disp'.pc # "send" => disp'.batch = {},
         env'.count = 0 => disp'.batch \subseteq rows /\ \A i \in 1..Len(chan') : chan'[i] \in rows
  PROVE  PInv'
<1>1. /\ DbOK /\ MemOK /\ EnvOK /\ poll \in [Pollers -> PollStates] /\ editor \in EditStates
      /\ Busy /\ Breaker /\ Quiet
  BY PInvParts
<1>2. UNCHANGED <<dbVars, active, deferred, held, poll, editor>>
  BY DEF DispatchFrame
<1>3. /\ EnvOK' /\ env'.feeds = env.feeds /\ (env'.count = 0 => env.count = 0)
  BY <1>1, EnvStep
<1>4. DbOK' /\ MemOK' /\ Breaker' /\ (poll \in [Pollers -> PollStates])' /\ (editor \in EditStates)'
  BY <1>1, <1>2 DEF DbOK, MemOK, Breaker, dbVars
<1>5. Busy'
  BY <1>1, <1>2 DEF Busy, Polling
<1>6. Quiet'
  <2> SUFFICES ASSUME env'.count = 0
               PROVE  /\ rows' = env'.feeds /\ editor'.pc = "idle" /\ \A c \in Clients : ~Polling(c)'
                      /\ disp'.batch \subseteq rows' /\ \A i \in 1..Len(chan') : chan'[i] \in rows'
                      /\ \A k \in Workers : Follows(k)'
    BY DEF Quiet
  <2>1. /\ rows = env.feeds /\ editor.pc = "idle" /\ \A c \in Clients : ~Polling(c)
        /\ \A k \in Workers : Follows(k)
    BY <1>1, <1>3 DEF Quiet
  <2>2. ASSUME NEW k \in Workers PROVE Follows(k)'
    BY <1>2, <2>1, FollowsFrame DEF dbVars
  <2>. QED BY <1>2, <1>3, <2>1, <2>2 DEF Polling, dbVars
<1>. QED BY <1>3, <1>4, <1>5, <1>6, PInvWhole

\* Claims are about who may still choose a feed and who holds it.
LEMMA ClaimsDispatch ==
  ASSUME PInv, Calm' => Calm, UNCHANGED <<inflight, deferred, poll, chan>>,
         disp'.pc \in {"deferred", "held", "list"} => \A f \in Feeds \ disp'.exclude : inflight[f] # "running",
         disp'.pc \in {"held", "list"} => deferred \subseteq disp'.exclude,
         Calm => \A f \in disp'.batch : inflight[f] # "running" /\ f \notin deferred
  PROVE  Claims'
<1> SUFFICES ASSUME Calm' PROVE Marked' /\ Once' /\ Waits'
  BY DEF Claims
<1>1. Marked /\ Once /\ Waits
  BY PInvParts DEF Claims
<1>2. \A k \in Workers : Polling(k)' <=> Polling(k)
  BY DEF Polling
<1>3. Marked'
  BY <1>1, <1>2 DEF Marked
<1>4. Once'
  BY <1>1, <1>2 DEF Once
<1>5. Waits'
  BY <1>1, <1>2 DEF Waits
<1>. QED BY <1>3, <1>4, <1>5

LEMMA ExcludeKeeps == ASSUME PInv, DispatchExclude PROVE PInv'
<1> DEFINE E == {f \in Feeds : inflight[f] \in {"running", "done"}}
           d == [disp EXCEPT !.pc = "deferred", !.room = Room, !.exclude = E]
<1>1. /\ DispOK /\ EnvOK /\ MemOK /\ Busy /\ disp.pc = "start" /\ Room > 0 /\ disp' = d /\ NoFault /\ UNCHANGED <<inflight, chan>>
      /\ UNCHANGED <<deferred, poll>> /\ disp.batch = {} /\ DispatchFrame
  BY PInvParts DEF DispatchExclude, DispatchFrame, Busy
<1>2. PoolSize \in Nat /\ PoolSize' = PoolSize /\ (Calm' => Calm) /\ Len(chan) \in Nat /\ Len(chan) <= 2 * PoolSize
  BY <1>1, PoolTyped, EnvStep DEF DispOK
<1>3. Room \in Nat /\ Room <= PoolSize /\ Room + Len(chan) <= 2 * PoolSize
  BY <1>1, <1>2 DEF Room
<1>4. d \in DispStates /\ d.pc = "deferred" /\ d.room = Room /\ d.exclude = E /\ d.batch = {}
  <2>1. E \in SUBSET Feeds
    OBVIOUS
  <2>. QED BY <1>1, <1>3, <2>1 DEF DispOK, DispStates
<1>5. DispOK' /\ Fits'
  BY <1>1, <1>2, <1>3, <1>4 DEF DispOK, Fits
<1>6. Claims'
  BY <1>1, <1>2, <1>4, ClaimsDispatch
<1>7. inflight' \in [Feeds -> {"none", "running", "stale", "done"}] /\ disp'.batch = {}
  BY <1>1, <1>4 DEF MemOK
<1>8. env'.count = 0 => \A i \in 1..Len(chan') : chan'[i] \in rows
  BY <1>1, EnvStep, PInvParts DEF Quiet
<1>. QED BY <1>1, <1>5, <1>6, <1>7, <1>8, DispatchKeeps

LEMMA ReadKeeps == ASSUME PInv, DispatchDeferred \/ DispatchHeld PROVE PInv'
<1>1. /\ DispOK /\ EnvOK /\ MemOK /\ Busy /\ Fits /\ Claims /\ NoFault /\ UNCHANGED <<inflight, chan>>
      /\ UNCHANGED <<deferred, poll>> /\ disp.batch = {} /\ DispatchFrame /\ disp.pc \in {"deferred", "held"}
  BY PInvParts DEF DispatchDeferred, DispatchHeld, DispatchFrame, Busy
<1>2. PoolSize' = PoolSize /\ (Calm' => Calm)
  BY <1>1, EnvStep
<1>3. /\ disp' \in DispStates /\ disp'.pc \in {"held", "list"} /\ disp'.room = disp.room /\ disp'.batch = {}
      /\ disp.exclude \subseteq disp'.exclude
      /\ (disp.pc = "deferred" => deferred \subseteq disp'.exclude)
  <2>1. CASE DispatchDeferred
    BY <1>1, <2>1 DEF DispatchDeferred, DispOK, DispStates, MemOK
  <2>2. CASE DispatchHeld
    BY <1>1, <2>2 DEF DispatchHeld, DispOK, DispStates, MemOK
  <2>. QED BY <2>1, <2>2
<1>4. DispOK' /\ Fits'
  BY <1>1, <1>2, <1>3 DEF DispOK, Fits
<1>5. Claims'
  <2>1. CASE ~Calm
    BY <1>2, <2>1 DEF Claims
  <2>2. CASE Calm
    <3>1. Marked /\ Waits
      BY <1>1, <2>2 DEF Claims
    <3>2. \A f \in Feeds \ disp'.exclude : inflight[f] # "running"
      BY <1>1, <1>3, <3>1 DEF Marked
    <3>3. deferred \subseteq disp'.exclude
      BY <1>1, <1>3, <3>1 DEF Waits
    <3>. QED BY <1>1, <1>2, <1>3, <3>2, <3>3, ClaimsDispatch
  <2>. QED BY <2>1, <2>2
<1>6. inflight' \in [Feeds -> {"none", "running", "stale", "done"}]
  BY <1>1 DEF MemOK
<1>7. env'.count = 0 => \A i \in 1..Len(chan') : chan'[i] \in rows
  BY <1>1, EnvStep, PInvParts DEF Quiet
<1>. QED BY <1>1, <1>3, <1>4, <1>5, <1>6, <1>7, DispatchKeeps

LEMMA ListKeeps == ASSUME PInv, DispatchList PROVE PInv'
<1>1. /\ DispOK /\ EnvOK /\ MemOK /\ DbOK /\ Busy /\ Fits /\ Claims /\ UNCHANGED <<inflight, chan>>
      /\ UNCHANGED <<deferred, poll>> /\ DispatchFrame /\ disp.pc = "list" /\ (NoFault \/ Fault("dbfail"))
  BY PInvParts DEF DispatchList, DispatchFrame
<1>2. PoolSize \in Nat /\ PoolSize' = PoolSize /\ (Calm' => Calm)
  BY <1>1, EnvStep, PoolTyped
<1>3. inflight' \in [Feeds -> {"none", "running", "stale", "done"}]
  BY <1>1 DEF MemOK
<1>4. env'.count = 0 => \A i \in 1..Len(chan') : chan'[i] \in rows
  BY <1>1, EnvStep, PInvParts DEF Quiet
<1>5. CASE disp' = IdleDisp
  <2>1. DispOK' /\ Fits' /\ disp'.pc = "start" /\ disp'.batch = {}
    BY <1>1, <1>2, <1>5, IdleTyped DEF IdleDisp, DispOK, Fits
  <2>2. Claims'
    BY <1>1, <1>2, <2>1, ClaimsDispatch
  <2>. QED BY <1>1, <1>3, <1>4, <2>1, <2>2, DispatchKeeps
<1>6. CASE \E S \in SUBSET Feeds :
             ListFeedsDue(S) /\ disp' = [IdleDisp EXCEPT !.pc = IF S = {} THEN "start" ELSE "send", !.batch = S]
  <2>1. PICK S \in SUBSET Feeds :
             ListFeedsDue(S) /\ disp' = [IdleDisp EXCEPT !.pc = IF S = {} THEN "start" ELSE "send", !.batch = S]
    BY <1>6
  <2> DEFINE ready == {f \in due : Pollable(f) /\ f \notin disp.exclude /\ TypeOf[f] \notin disp.types}
  <2>2. /\ S \subseteq ready
        /\ Cardinality(S) = IF Cardinality(ready) < disp.room THEN Cardinality(ready) ELSE disp.room
    BY <2>1 DEF ListFeedsDue
  <2>3. /\ disp' \in DispStates /\ disp'.pc = (IF S = {} THEN "start" ELSE "send") /\ disp'.batch = S /\ disp'.room = 0
    BY <2>1, IdleTyped DEF IdleDisp, DispStates
  <2>4. Cardinality(S) <= disp.room /\ Cardinality(S) \in Nat /\ disp.room \in Nat /\ Len(chan) \in Nat
    <3>1. ready \subseteq Feeds /\ IsFiniteSet(Feeds)
      BY <1>1, ConstantsAssumption DEF DbOK
    <3>2. Cardinality(ready) \in Nat
      BY <3>1, FS_Subset, FS_CardinalityType
    <3>3. disp.room \in Nat /\ Len(chan) \in Nat
      BY <1>1 DEF DispOK, DispStates
    <3>. QED BY <2>2, <3>2, <3>3
  <2>5. DispOK' /\ Fits'
    BY <1>1, <1>2, <2>3, <2>4 DEF DispOK, Fits
  <2>6. Claims'
    <3>1. Calm => \A f \in S : inflight[f] # "running" /\ f \notin deferred
      BY <1>1, <2>2 DEF Claims, Marked, Waits
    <3>. QED BY <1>1, <1>2, <2>3, <3>1, ClaimsDispatch
  <2>7. S \subseteq rows
    BY <2>2 DEF Pollable
  <2>. QED BY <1>1, <1>3, <1>4, <2>3, <2>5, <2>6, <2>7, DispatchKeeps
<1>. QED BY <1>5, <1>6 DEF DispatchList

LEMMA SendKeeps == ASSUME PInv, DispatchSend PROVE PInv'
<1>1. /\ DispOK /\ EnvOK /\ MemOK /\ Busy /\ Fits /\ Claims /\ NoFault
      /\ UNCHANGED <<deferred, poll>> /\ DispatchFrame /\ disp.pc = "send"
  BY PInvParts DEF DispatchSend, DispatchFrame
<1>2. PICK f \in disp.batch :
        /\ inflight' = [inflight EXCEPT ![f] = "running"] /\ chan' = Append(chan, f)
        /\ disp' = [disp EXCEPT !.batch = @ \ {f}, !.pc = IF disp.batch = {f} THEN "start" ELSE "send"]
  BY DEF DispatchSend
<1>3. PoolSize \in Nat /\ PoolSize' = PoolSize /\ (Calm' => Calm)
  BY <1>1, EnvStep, PoolTyped
<1>4. disp.batch \in SUBSET Feeds /\ f \in Feeds /\ disp.room \in Nat /\ chan \in Seq(Feeds) /\ Len(chan) \in Nat
  BY <1>1 DEF DispOK, DispStates
<1>5. /\ disp' \in DispStates /\ disp'.batch = disp.batch \ {f} /\ disp'.room = disp.room
      /\ disp'.pc = IF disp.batch = {f} THEN "start" ELSE "send"
  BY <1>1, <1>2, <1>4 DEF DispOK, DispStates
<1>6. /\ chan' \in Seq(Feeds) /\ Len(chan') = Len(chan) + 1 /\ chan'[Len(chan) + 1] = f
      /\ \A i \in 1..Len(chan) : chan'[i] = chan[i]
  BY <1>2, <1>4, AppendProperties
<1>7. /\ Cardinality(disp.batch) \in Nat /\ Cardinality(disp'.batch) = Cardinality(disp.batch) - 1
      /\ Cardinality(disp.batch) >= 1
  <2>1. IsFiniteSet(disp.batch)
    BY <1>4, FS_Subset, ConstantsAssumption
  <2>2. Cardinality(disp.batch) \in Nat /\ Cardinality(disp.batch \ {f}) = Cardinality(disp.batch) - 1
    BY <1>2, <2>1, FS_CardinalityType, FS_RemoveElement
  <2>3. Cardinality(disp.batch \ {f}) \in Nat
    BY <2>1, FS_Subset, FS_CardinalityType
  <2>. QED BY <1>5, <2>2, <2>3
<1>8. DispOK' /\ Fits'
  BY <1>1, <1>3, <1>4, <1>5, <1>6, <1>7 DEF DispOK, Fits
<1>9. inflight' \in [Feeds -> {"none", "running", "stale", "done"}]
  BY <1>1, <1>2 DEF MemOK
<1>10. Claims'
  <2> SUFFICES ASSUME Calm' PROVE Marked' /\ Once' /\ Waits'
    BY DEF Claims
  <2>1. Marked /\ Once /\ Waits
    BY <1>1, <1>3 DEF Claims
  <2>2. inflight'[f] = "running" /\ \A g \in Feeds \ {f} : inflight'[g] = inflight[g]
    BY <1>1, <1>2, <1>4 DEF MemOK
  <2>3. \A k \in Workers : Polling(k)' <=> Polling(k)
    BY <1>1 DEF Polling
  <2>4. \A i \in 1..Len(chan') : chan'[i] \in Feeds /\ ((i \in 1..Len(chan) /\ chan'[i] = chan[i]) \/ (i = Len(chan) + 1 /\ chan'[i] = f))
    BY <1>4, <1>6
  <2>5. \A k \in Workers : Polling(k) => poll[k].feed \in Feeds \ {f} /\ inflight[poll[k].feed] = "running"
    BY <1>1, <2>1 DEF Busy, Marked, Pollers
  <2>6. \A i \in 1..Len(chan) : chan[i] \in Feeds \ {f} /\ inflight[chan[i]] = "running"
    BY <1>4, <2>1 DEF Marked
  <2>7. Marked'
    <3>1. \A g \in Feeds : inflight'[g] # "stale"
      BY <2>1, <2>2 DEF Marked
    <3>2. \A i \in 1..Len(chan') : inflight'[chan'[i]] = "running"
      BY <2>2, <2>4, <2>6
    <3>3. \A k \in Workers : Polling(k)' => inflight'[poll'[k].feed] = "running"
      BY <1>1, <2>2, <2>3, <2>5
    <3>4. \A g \in disp'.batch : inflight'[g] # "running"
      BY <1>4, <1>5, <2>1, <2>2 DEF Marked
    <3>. QED BY <1>5, <3>1, <3>2, <3>3, <3>4 DEF Marked
  <2>8. Once'
    <3>1. \A i, j \in 1..Len(chan') : chan'[i] = chan'[j] => i = j
      BY <2>1, <2>4, <2>6 DEF Once
    <3>2. \A i \in 1..Len(chan') : \A k \in Workers : Polling(k)' => poll'[k].feed # chan'[i]
      BY <1>1, <2>1, <2>3, <2>4, <2>5 DEF Once
    <3>. QED BY <1>1, <2>1, <2>3, <3>1, <3>2 DEF Once
  <2>9. Waits'
    BY <1>1, <1>2, <1>5, <2>1, <2>3, <2>4 DEF Waits
  <2>. QED BY <2>7, <2>8, <2>9
<1>11. env'.count = 0 => disp'.batch \subseteq rows /\ \A i \in 1..Len(chan') : chan'[i] \in rows
  BY <1>1, <1>2, <1>4, <1>5, <1>6, EnvStep, PInvParts DEF Quiet
<1>12. disp'.pc # "send" => disp'.batch = {}
  BY <1>5
<1>. QED BY <1>1, <1>8, <1>9, <1>10, <1>11, <1>12, DispatchKeeps

LEMMA DispatcherKeeps == ASSUME PInv, Dispatcher PROVE PInv'
BY ExcludeKeeps, ReadKeeps, ListKeeps, SendKeeps DEF Dispatcher

(***************************************************************************)
(* Time, administrators, restarts                                          *)
(***************************************************************************)
\* A step of an administrator, a user or the clock on the tables.
LEMMA TablesKeep ==
  ASSUME PInv, NEW x, NoFault \/ Fault(x), UNCHANGED <<memVars, poll>>, DbOK', Breaker', (editor \in EditStates)',
         env'.count = 0 => Quiet'
  PROVE  PInv'
<1>1. /\ MemOK /\ DispOK /\ EnvOK /\ poll \in [Pollers -> PollStates] /\ Busy /\ Fits /\ Claims
  BY PInvParts
<1>2. EnvOK' /\ PoolSize' = PoolSize /\ (Calm' => Calm)
  BY <1>1, EnvStep
<1>3. MemOK' /\ (poll \in [Pollers -> PollStates])' /\ Busy'
  BY <1>1 DEF MemOK, memVars, Busy, Polling
<1>4. DispOK' /\ Fits'
  BY <1>1, <1>2, FitsFrame DEF memVars
<1>5. Claims'
  BY <1>1, <1>2, ClaimsFrame DEF memVars, Polling
<1>6. Quiet'
  BY DEF Quiet
<1>. QED BY <1>2, <1>3, <1>4, <1>5, <1>6, PInvWhole

\* A step of the clock on the runner's memory.
LEMMA MemoryKeeps ==
  ASSUME PInv, NEW x, NoFault \/ Fault(x), UNCHANGED <<dbVars, disp, chan, poll, editor>>, MemOK', Claims'
  PROVE  PInv'
<1>1. /\ DbOK /\ DispOK /\ EnvOK /\ poll \in [Pollers -> PollStates] /\ editor \in EditStates /\ Busy /\ Fits /\ Breaker
  BY PInvParts
<1>2. /\ EnvOK' /\ PoolSize' = PoolSize /\ env'.feeds = env.feeds /\ (env'.count = 0 => env.count = 0)
  BY <1>1, EnvStep
<1>3. DbOK' /\ Breaker' /\ (poll \in [Pollers -> PollStates])' /\ (editor \in EditStates)' /\ Busy'
  BY <1>1 DEF DbOK, Breaker, dbVars, Busy, Polling
<1>4. DispOK' /\ Fits'
  BY <1>1, <1>2, FitsFrame
<1>5. Quiet'
  BY <1>2, QuietFrame DEF dbVars
<1>. QED BY <1>2, <1>3, <1>4, <1>5, PInvWhole

LEMMA TimeKeeps == ASSUME PInv, Time PROVE PInv'
<1>1. /\ DbOK /\ MemOK /\ EnvOK /\ Busy /\ Claims /\ Breaker /\ editor \in EditStates
  BY PInvParts
<1>2. ASSUME NEW f \in Feeds, DueTimer(f) PROVE PInv'
  <2>1. /\ f \in rows \ due /\ ~Recorded(f) /\ DueNow({f}) /\ NoFault
        /\ UNCHANGED <<subscribed, manual, rows, errs, open, failing, bridge, memVars, poll, editor>>
    BY <1>2 DEF DueTimer
  <2>2. /\ due' \in SUBSET Feeds /\ older' \in SUBSET (Feeds \X Feeds)
        /\ \A g : g \in due' <=> g \in due \/ g \in {f}
    BY <1>1, <2>1, DueNowFacts
  <2>3. DbOK' /\ Breaker'
    BY <1>1, <2>1, <2>2 DEF DbOK, Breaker
  <2>4. env'.feeds = env.feeds /\ (env'.count = 0 => env.count = 0)
    BY <1>1, <2>1, EnvStep
  <2>5. Quiet'
    BY <2>1, <2>2, <2>4, QuietFrame DEF memVars
  <2>. QED BY <1>1, <2>1, <2>3, <2>5, TablesKeep
<1>3. ASSUME NEW f \in Feeds, DeferEnds(f) PROVE PInv'
  <2>1. /\ NoFault /\ deferred' = deferred \ {f} /\ UNCHANGED <<inflight, held, dbVars, active, disp, chan, poll, editor>>
    BY <1>3 DEF DeferEnds, TimeFrame
  <2>2. \A k \in Workers : Polling(k)' <=> Polling(k)
    BY <2>1 DEF Polling
  <2>3. MemOK' /\ Claims'
    <3>1. MemOK' /\ (Calm' => Calm)
      BY <1>1, <2>1, EnvStep DEF MemOK
    <3>2. ASSUME Calm' PROVE Marked' /\ Once' /\ Waits'
      BY <1>1, <2>1, <2>2, <3>1, <3>2 DEF Claims, Marked, Once, Waits
    <3>. QED BY <3>1, <3>2 DEF Claims
  <2>. QED BY <2>1, <2>3, MemoryKeeps
<1>4. ASSUME NEW t \in Types, HoldEnds(t) PROVE PInv'
  <2>1. /\ NoFault /\ held' = held \ {t} /\ UNCHANGED <<inflight, deferred, dbVars, active, disp, chan, poll, editor>>
    BY <1>4 DEF HoldEnds, TimeFrame
  <2>2. MemOK' /\ Claims'
    BY <1>1, <2>1, EnvStep, ClaimsFrame DEF MemOK, Polling
  <2>. QED BY <2>1, <2>2, MemoryKeeps
<1>5. ASSUME NEW f \in Feeds, GraceEnds(f) PROVE PInv'
  <2>1. /\ NoFault /\ inflight[f] = "done" /\ inflight' = [inflight EXCEPT ![f] = "none"]
        /\ UNCHANGED <<deferred, held, dbVars, active, disp, chan, poll, editor>>
    BY <1>5 DEF GraceEnds, TimeFrame
  <2>2. MemOK' /\ (Calm' => Calm)
    BY <1>1, <2>1, EnvStep DEF MemOK
  <2>3. \A g \in Feeds : inflight'[g] = inflight[g] \/ (inflight[g] # "running" /\ inflight'[g] = "none")
    BY <1>1, <2>1 DEF MemOK
  <2>4. ASSUME Calm' PROVE Marked' /\ Once' /\ Waits'
    <3>1. Marked /\ Once /\ Waits /\ \A k \in Workers : Polling(k)' <=> Polling(k)
      BY <1>1, <2>1, <2>2, <2>4 DEF Claims, Polling
    <3>2. /\ disp.batch \subseteq Feeds /\ (\A i \in 1..Len(chan) : chan[i] \in Feeds)
          /\ \A k \in Workers : Polling(k) => poll[k].feed \in Feeds
      BY <1>1, PInvParts DEF DispOK, DispStates, Busy, Pollers
    <3>3. Marked'
      BY <2>1, <2>3, <3>1, <3>2 DEF Marked
    <3>4. Once' /\ Waits'
      BY <2>1, <3>1 DEF Once, Waits
    <3>. QED BY <3>3, <3>4
  <2>. QED BY <2>1, <2>2, <2>4, MemoryKeeps DEF Claims
<1>6. ASSUME NEW f \in Feeds, Overrun(f) PROVE PInv'
  <2>1. /\ Fault("overrun") /\ inflight' = [inflight EXCEPT ![f] = "stale"]
        /\ UNCHANGED <<deferred, held, dbVars, active, disp, chan, poll, editor>>
    BY <1>6 DEF Overrun
  <2>2. MemOK'
    BY <1>1, <2>1 DEF MemOK
  <2>3. ~Calm'
    BY <1>1, <2>1, EnvStep DEF Fault
  <2>. QED BY <2>1, <2>2, <2>3, MemoryKeeps DEF Claims
<1>. QED BY <1>2, <1>3, <1>4, <1>5, <1>6 DEF Time

\* A restart forgets the runner's memory and every poll.
LEMMA RestartKeeps == ASSUME PInv, Restart PROVE PInv'
<1>1. /\ DbOK /\ EnvOK /\ Breaker
  BY PInvParts
<1>2. /\ Fault("restart") /\ UNCHANGED dbVars /\ active' = TRUE /\ inflight' = [f \in Feeds |-> "none"]
      /\ deferred' = {} /\ held' = {} /\ disp' = IdleDisp /\ chan' = <<>>
      /\ poll' = [p \in Pollers |-> IdlePoll] /\ editor' = IdleEdit
  BY DEF Restart
<1>3. EnvOK' /\ PoolSize' = PoolSize /\ PoolSize \in Nat /\ env'.count # 0
  BY <1>1, <1>2, EnvStep, PoolTyped
<1>4. DbOK' /\ MemOK' /\ Breaker' /\ (poll \in [Pollers -> PollStates])' /\ (editor \in EditStates)'
  BY <1>1, <1>2, IdleTyped DEF DbOK, MemOK, Breaker, dbVars
<1>5. IdleDisp.pc = "start" /\ IdleDisp.batch = {} /\ IdleDisp.room = 0 /\ IdlePoll.pc = "idle" /\ Len(chan') = 0
  BY <1>2 DEF IdleDisp, IdlePoll
<1>6. \A p \in Pollers : ~Polling(p)'
  BY <1>2, <1>5 DEF Polling
<1>7. DispOK' /\ Fits' /\ Busy'
  <2>1. chan' \in Seq(Feeds)
    BY <1>2
  <2>. QED BY <1>2, <1>3, <1>5, <1>6, <2>1, IdleTyped DEF DispOK, Fits, Busy
<1>8. Marked' /\ Once' /\ Waits'
  BY <1>2, <1>5, <1>6 DEF Marked, Once, Waits, Pollers
<1>9. Claims' /\ Quiet'
  BY <1>3, <1>8 DEF Claims, Quiet
<1>. QED BY <1>3, <1>4, <1>7, <1>9, PInvWhole

LEMMA AdminKeeps == ASSUME PInv, Admin PROVE PInv'
<1>1. /\ DbOK /\ MemOK /\ DispOK /\ EnvOK /\ Busy /\ Fits /\ Claims /\ Breaker /\ Quiet /\ editor \in EditStates
      /\ env.feeds \subseteq Feeds
  BY PInvParts DEF EnvOK, Worlds
<1>2. ASSUME NEW f \in env.feeds, SetFeedManualPaused(f) \/ Subscribe(f) PROVE PInv'
  <2>1. /\ (Fault("pause") \/ Fault("subscribe")) /\ UNCHANGED <<memVars, poll, editor, rows, errs, open, failing, due, older, bridge>>
        /\ manual' \subseteq manual \cup {f} /\ subscribed' \subseteq subscribed \cup {f}
    BY <1>2 DEF SetFeedManualPaused, Subscribe, AdminFrame
  <2>2. DbOK' /\ Breaker' /\ (editor \in EditStates)'
    BY <1>1, <2>1 DEF DbOK, Breaker
  <2>3. env'.count # 0
    BY <1>1, <2>1, EnvStep
  <2>. QED BY <2>1, <2>2, <2>3, TablesKeep
<1>3. ASSUME NEW S \in SUBSET Feeds, ResetFeedPollCircuit(S) PROVE PInv'
  <2>1. /\ Fault("reset") /\ ResetCircuit(S \cap rows)
        /\ UNCHANGED <<memVars, poll, editor, subscribed, manual, rows, failing, due, older, bridge>>
    BY <1>3 DEF ResetFeedPollCircuit, AdminFrame
  <2>2. errs' \in [Feeds -> Nat] /\ open' \in SUBSET Feeds /\ Breaker'
    BY <1>1, <2>1, ResetFacts
  <2>3. DbOK' /\ (editor \in EditStates)' /\ env'.count # 0
    BY <1>1, <2>1, <2>2, EnvStep DEF DbOK
  <2>. QED BY <2>1, <2>2, <2>3, TablesKeep
<1>4. ASSUME NEW f \in env.feeds, EditBegin(f) PROVE PInv'
  <2>1. /\ Fault("edit") /\ UNCHANGED <<memVars, poll, dbVars>>
        /\ editor' = [pc |-> "save", feed |-> f, bridge |-> [bridge[f] EXCEPT !.form = "set"]]
    BY <1>4 DEF EditBegin, AdminFrame
  <2>2. (editor \in EditStates)'
    <3>1. [bridge[f] EXCEPT !.form = "set"] \in Bridges /\ f \in Feeds
      BY <1>1 DEF DbOK, Bridges
    <3>. QED BY <2>1, <3>1 DEF EditStates
  <2>3. DbOK' /\ Breaker' /\ env'.count # 0
    BY <1>1, <2>1, EnvStep DEF DbOK, Breaker, dbVars
  <2>. QED BY <2>1, <2>2, <2>3, TablesKeep
<1>5. CASE RefreshAllFeeds
  <2> DEFINE S == (rows \cap subscribed) \ manual
  <2>1. /\ Fault("reset") /\ ResetCircuit(S) /\ NotDue(S)
        /\ UNCHANGED <<memVars, poll, editor, subscribed, manual, rows, failing, bridge>>
    BY <1>5 DEF RefreshAllFeeds, AdminFrame
  <2>2. errs' \in [Feeds -> Nat] /\ open' \in SUBSET Feeds /\ Breaker'
    <3>1. S \in SUBSET Feeds
      BY <1>1 DEF DbOK
    <3>. QED BY <1>1, <2>1, <3>1, ResetFacts
  <2>3. due' \in SUBSET Feeds /\ older' \in SUBSET (Feeds \X Feeds)
    BY <1>1, <2>1, NotDueFacts
  <2>4. DbOK' /\ (editor \in EditStates)' /\ env'.count # 0
    BY <1>1, <2>1, <2>2, <2>3, EnvStep DEF DbOK
  <2>. QED BY <2>1, <2>2, <2>4, TablesKeep
<1>6. CASE ResetFeedPollErrorsDaily
  <2> DEFINE S == {f \in rows \ manual : errs[f] > 0 \/ f \in open \/ f \in failing}
  <2>1. /\ Fault("reset") /\ ResetCircuit(S) /\ DueNow(S) /\ failing' = failing \ S
        /\ UNCHANGED <<memVars, poll, editor, subscribed, manual, rows, bridge>>
    BY <1>6 DEF ResetFeedPollErrorsDaily, AdminFrame
  <2>2. S \in SUBSET Feeds
    BY <1>1 DEF DbOK
  <2>3. errs' \in [Feeds -> Nat] /\ open' \in SUBSET Feeds /\ Breaker'
    BY <1>1, <2>1, <2>2, ResetFacts
  <2>4. due' \in SUBSET Feeds /\ older' \in SUBSET (Feeds \X Feeds)
    BY <1>1, <2>1, <2>2, DueNowFacts
  <2>5. DbOK' /\ (editor \in EditStates)' /\ env'.count # 0
    BY <1>1, <2>1, <2>3, <2>4, EnvStep DEF DbOK
  <2>. QED BY <2>1, <2>3, <2>5, TablesKeep
<1>7. CASE PauseWorkers
  <2>1. /\ Fault("pause") /\ active' = ~active /\ UNCHANGED <<dbVars, inflight, deferred, held, disp, chan, poll, editor>>
    BY <1>7 DEF PauseWorkers
  <2>2. MemOK' /\ Claims'
    BY <1>1, <2>1, EnvStep, ClaimsFrame DEF MemOK, Polling
  <2>. QED BY <2>1, <2>2, MemoryKeeps
<1>8. CASE EditSave
  <2>1. /\ NoFault /\ editor.pc = "save" /\ UNCHANGED <<memVars, poll, subscribed, manual, rows, errs, open, failing, due, older>>
        /\ bridge' \in {bridge, [bridge EXCEPT ![editor.feed] = editor.bridge]}
        /\ editor' \in {IdleEdit, [editor EXCEPT !.pc = "schedule"]}
    BY <1>8 DEF EditSave, AdminFrame
  <2>2. (editor \in EditStates)'
    <3>1. [editor EXCEPT !.pc = "schedule"] \in EditStates
      BY <1>1 DEF EditStates
    <3>. QED BY <2>1, <3>1, IdleTyped
  <2>3. DbOK' /\ Breaker'
    <3>1. editor.bridge \in Bridges
      BY <1>1 DEF EditStates
    <3>2. bridge' \in [Feeds -> Bridges]
      BY <1>1, <2>1, <3>1 DEF DbOK
    <3>. QED BY <1>1, <2>1, <3>2 DEF DbOK, Breaker
  <2>4. env'.count # 0
    BY <1>1, <2>1, EnvStep DEF Quiet
  <2>. QED BY <2>1, <2>2, <2>3, <2>4, TablesKeep
<1>9. CASE RescheduleFeed
  <2>1. /\ (NoFault \/ Fault("dbfail")) /\ editor.pc = "schedule" /\ editor' = IdleEdit
        /\ UNCHANGED <<memVars, poll, subscribed, manual, rows, errs, open, failing, bridge>>
        /\ (NotDue({editor.feed}) \/ UNCHANGED <<due, older>>)
    BY <1>9 DEF RescheduleFeed, AdminFrame
  <2>2. due' \in SUBSET Feeds /\ older' \in SUBSET (Feeds \X Feeds)
    BY <1>1, <2>1, NotDueFacts DEF DbOK
  <2>3. DbOK' /\ Breaker' /\ (editor \in EditStates)'
    BY <1>1, <2>1, <2>2, IdleTyped DEF DbOK, Breaker
  <2>4. env'.count # 0
    BY <1>1, <2>1, EnvStep DEF Quiet
  <2>. QED BY <2>1, <2>3, <2>4, TablesKeep
<1>10. CASE PostgresCrash
  <2>1. /\ Fault("pgcrash") /\ UNCHANGED <<memVars, poll, editor, subscribed, manual>>
        /\ rows' = {} /\ due' = {} /\ older' = {} /\ open' = {} /\ failing' = {}
        /\ errs' = [f \in Feeds |-> 0] /\ bridge' = [f \in Feeds |-> NoBridge]
    BY <1>10 DEF PostgresCrash, AdminFrame
  <2>2. DbOK' /\ Breaker' /\ (editor \in EditStates)' /\ env'.count # 0
    BY <1>1, <2>1, EnvStep, IdleTyped, ConstantsAssumption DEF DbOK, Breaker
  <2>. QED BY <2>1, <2>2, TablesKeep
<1>11. CASE EnsureFeedPollStateRows
  <2>1. /\ NoFault /\ rows # env.feeds /\ rows' = env.feeds /\ due' = due \cup (env.feeds \ rows)
        /\ UNCHANGED <<memVars, poll, editor, subscribed, manual, errs, open, failing, older, bridge>>
    BY <1>11 DEF EnsureFeedPollStateRows, AdminFrame
  <2>2. DbOK' /\ Breaker' /\ (editor \in EditStates)' /\ env'.count # 0
    BY <1>1, <2>1, EnvStep DEF DbOK, Breaker, Quiet
  <2>. QED BY <2>1, <2>2, TablesKeep
<1>12. \A f \in env.feeds : {f} \in SUBSET Feeds
  BY <1>1
<1>. QED BY <1>1, <1>2, <1>3, <1>4, <1>5, <1>6, <1>7, <1>8, <1>9, <1>10, <1>11, <1>12, RestartKeeps DEF Admin

(***************************************************************************)
(* The theorems                                                            *)
(***************************************************************************)
LEMMA PInvInit == Init => PInv
<1> SUFFICES ASSUME Init PROVE PInv
  OBVIOUS
<1>1. EnvOK /\ env.count = 0
  BY ConstantsAssumption DEF Init, EnvOK, Worlds
<1>2. env.feeds \subseteq Feeds /\ PoolSize \in Nat
  BY <1>1, PoolTyped DEF EnvOK, Worlds
<1>3. IdleDisp.pc = "start" /\ IdleDisp.batch = {} /\ IdleDisp.room = 0 /\ IdlePoll.pc = "idle" /\ IdleEdit.pc = "idle"
  BY DEF IdleDisp, IdlePoll, IdleEdit
<1>4. DbOK /\ MemOK /\ Breaker
  BY <1>2, IdleTyped, ConstantsAssumption DEF Init, DbOK, MemOK, Breaker
<1>5. chan = <<>> /\ Len(chan) = 0 /\ chan \in Seq(Feeds)
  BY DEF Init
<1>6. \A p \in Pollers : ~Polling(p)
  BY <1>3 DEF Init, Polling
<1>7. DispOK /\ Fits /\ Busy
  BY <1>2, <1>3, <1>5, <1>6, IdleTyped DEF Init, DispOK, Fits, Busy
<1>8. Claims
  BY <1>3, <1>5, <1>6 DEF Init, Claims, Marked, Once, Waits, Pollers
<1>9. Quiet
  BY <1>3, <1>5, <1>6 DEF Init, Quiet, Follows, Pollers
<1>10. poll \in [Pollers -> PollStates] /\ editor \in EditStates
  BY IdleTyped DEF Init
<1>. QED BY <1>1, <1>4, <1>7, <1>8, <1>9, <1>10, TypeParts DEF PInv

LEMMA PInvNext == ASSUME PInv, [Next]_vars PROVE PInv'
<1>1. CASE UNCHANGED vars
  <2>1. NoFault /\ UNCHANGED <<dbVars, disp, chan, poll, editor, active, inflight, deferred, held>>
    BY <1>1 DEF vars, memVars, NoFault
  <2>2. MemOK' /\ Claims'
    BY <2>1, PInvParts, EnvStep, ClaimsFrame DEF MemOK, Polling
  <2>. QED BY <2>1, <2>2, MemoryKeeps
<1>2. CASE \E c \in Clients : Poll(c) \/ \E f \in env.feeds : ManualBegin(c, f)
  BY <1>2, PollKeeps, ManualKeeps DEF Pollers
<1>. QED BY <1>1, <1>2, DispatcherKeeps, WorkKeeps, TimeKeeps, AdminKeeps DEF Next

\* The dispatcher hands out no feed that is in its channel, with a worker or
\* deferred, although the feed stays due in the table while it is polled
\* (dispatchLoop, inflight.exclude, deferredFeeds).
THEOREM ClaimsRespectedHolds == Spec => []ClaimsRespected
<1>1. Init => PInv
  BY PInvInit
<1>2. PInv /\ [Next]_vars => PInv'
  BY PInvNext
<1>3. PInv => ClaimsRespected
  <2> SUFFICES ASSUME PInv PROVE OnePollPerFeed /\ DeferralRespected
    BY DEF ClaimsRespected
  <2>1. "overrun" \notin env.faults => Marked /\ Once /\ Waits
    BY DEF PInv, Claims, Calm
  <2>2. OnePollPerFeed
    BY <2>1 DEF OnePollPerFeed, Marked, Once
  <2>3. DeferralRespected
    BY <2>1 DEF DeferralRespected, Waits
  <2>. QED BY <2>2, <2>3
<1>. QED BY <1>1, <1>2, <1>3, PTL DEF Spec

\* The channel never overflows, the breaker is open exactly at the threshold,
\* and until something fails or somebody interferes every recorded poll leaves
\* its feed not due and reports the stored counters (processPollFeed,
\* recordFailure, RecordFeedPollFailure).
THEOREM PollRecordedHolds == Spec => []PollRecorded
<1>1. Init => PInv
  BY PInvInit
<1>2. PInv /\ [Next]_vars => PInv'
  BY PInvNext
<1>3. PInv => PollRecorded
  <2> SUFFICES ASSUME PInv PROVE TypeOK /\ BreakerMatchesCount /\ NotDueAfterPoll /\ StatusTruthful
    BY DEF PollRecorded
  <2>1. TypeOK /\ DbOK /\ Breaker /\ Quiet
    BY PInvParts
  <2>2. BreakerMatchesCount
    BY <2>1 DEF BreakerMatchesCount, Breaker, DbOK
  <2>3. NotDueAfterPoll
    BY <2>1 DEF NotDueAfterPoll, Quiet, Follows, Polling
  <2>4. StatusTruthful
    BY <2>1 DEF StatusTruthful, Quiet, Follows, Polling, Pollers
  <2>. QED BY <2>1, <2>2, <2>3, <2>4
<1>. QED BY <1>1, <1>2, <1>3, PTL DEF Spec
=============================================================================
