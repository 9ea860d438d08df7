------------------------------ MODULE FeedPanel -----------------------------
(* The administrator's view of the feeds that Schedule moves: badges, lists   *)
(* and cards, each computed by a query or a function of its own, and the      *)
(* advice on the size of the worker pool, which an administrator follows.     *)
EXTENDS Schedule

CONSTANTS
  Loads,           \* what the pool is asked to do: [offered, avg, samples, timeout, overdue, lag, feeds, bad, stale]
  Pools            \* WORKER_POOL_SIZE at the start

ASSUME FeedPanelAssumption ==
  /\ Pools \subseteq Nat
  /\ \A i \in Loads : {i.offered, i.avg, i.samples, i.timeout, i.overdue, i.lag, i.feeds, i.bad, i.stale} \subseteq Nat

\* pool: WORKER_POOL_SIZE; load: the snapshot the advice is computed from;
\* advised: the advice that was last followed.
VARIABLES pool, load, advised
panelVars == <<pool, load, advised>>

(* -------------------------------- the feeds ------------------------------ *)

\* The row of the feed, and of the same feed if it were an inbound one (its
\* interval is the silence it may keep).
Polled ==
  [paused |-> broken, manual |-> halted, err |-> lasterr, count |-> errors,
   due |-> wait <= 0, age |-> silent, inbound |-> FALSE, interval |-> feed.interval]
Inbound == [Polled EXCEPT !.paused = FALSE, !.err = "none", !.count = 0, !.due = FALSE, !.inbound = TRUE]
FeedRows == {Polled, Inbound}

PausedRow(r) == r.paused \/ r.manual
FailedRow(r) == r.err # "none" \/ r.count > 0
adminFeedsHealthy(r) == ~PausedRow(r) /\ ~FailedRow(r)
adminFeedsInboundLate(r) == r.inbound /\ r.age > r.interval
InboundLate(r) == adminFeedsHealthy(r) /\ adminFeedsInboundLate(r)
adminFeedsSilentWhere(r) ==
  adminFeedsHealthy(r) /\ (IF r.inbound THEN r.age > r.interval ELSE SilentAfter > 0 /\ r.age > SilentAfter)
adminFeedsStatusWhere(status, r) ==
  CASE status = "silent" -> adminFeedsSilentWhere(r)
    [] status = "paused" -> PausedRow(r)
    [] status = "errors" -> FailedRow(r)
    [] status = "layout" -> r.err = "layout"
    [] status = "waiting" -> ~PausedRow(r) /\ r.err = "none" /\ r.count = 0 /\ r.due
    [] status = "ok" -> ~PausedRow(r) /\ r.err = "none" /\ r.count = 0 /\ ~r.due
    [] OTHER -> TRUE
ListAdminFeedsPage(status) == {r \in FeedRows : adminFeedsStatusWhere(status, r)}

\* The rank of a row in the list sorted by status.
adminFeedsOrderClause(r) == IF PausedRow(r) THEN 1 ELSE IF FailedRow(r) THEN 2 ELSE IF r.due THEN 3 ELSE 4

MutClassify(r) ==
  IF FailedRow(r) THEN "errors"
  ELSE IF r.manual \/ r.paused THEN "paused"
  ELSE IF InboundLate(r) THEN "silent"
  ELSE IF r.due THEN "waiting" ELSE "ok"
classifyAdminFeedStatus(r) ==
  IF r.manual \/ r.paused THEN "paused"
  ELSE IF r.err # "none" \/ r.count > 0 THEN "errors"
  ELSE IF InboundLate(r) THEN "silent"
  ELSE IF r.due THEN "waiting" ELSE "ok"

\* The cards above the list.
Card(P(_)) == Cardinality({r \in FeedRows : P(r)})
AdminFeedSummary ==
  [ok |-> Card(LAMBDA r : ~r.paused /\ ~r.manual /\ r.err = "none" /\ r.count = 0 /\ ~r.due),
   errors |-> Card(LAMBDA r : r.err # "none" \/ r.count > 0),
   paused |-> Card(LAMBDA r : r.paused \/ r.manual),
   waiting |-> Card(LAMBDA r : ~r.paused /\ ~r.manual /\ r.due),
   silent |-> Card(LAMBDA r : ~r.paused /\ ~r.manual /\ r.err = "none" /\ r.count = 0
                              /\ (IF r.inbound THEN r.age > r.interval ELSE SilentAfter > 0 /\ r.age > SilentAfter))]

(* -------------------------------- the advice ----------------------------- *)

maxWorkers == 1000
CeilDiv(a, b) == (a + b - 1) \div b

\* Seconds of a poll; offered polls come per minute, with 30 % on top.
avgPollSeconds(i) == IF i.samples > 0 /\ i.avg > 0 THEN i.avg ELSE IF i.timeout > 0 THEN i.timeout ELSE 15
neededWorkers(i) ==
  IF i.offered <= 0 THEN 1 ELSE Min({Max({CeilDiv(i.offered * avgPollSeconds(i) * 13, 600), 1}), maxWorkers})
capIncreaseStep(current, needed) == Min({needed, 2 * Max({current, 1})})

\* The first rule that matches: [action, workers].
FixFeeds(i, w) == 4 * i.bad >= i.feeds /\ i.feeds > 0 /\ (i.lag >= 60 \/ i.overdue > w)
LagBurst(i, w) == i.lag >= 60 /\ i.overdue > 2 * w
TooMany(i, w) == w > 2 /\ 10 * neededWorkers(i) < 4 * w /\ i.lag < 5 /\ i.overdue <= w
MutGrown(i, w) == capIncreaseStep(w, neededWorkers(i))
Grown(i, w) ==
  LET s == capIncreaseStep(w, neededWorkers(i))
  IN IF LagBurst(i, w) /\ s <= w THEN capIncreaseStep(w, w + 1) ELSE s
Recommend(i, size) ==
  LET w == Max({size, 1})
      n == neededWorkers(i)
  IN IF FixFeeds(i, w) THEN [action |-> "fix_feeds", workers |-> w]
     ELSE IF n > w \/ LagBurst(i, w) THEN [action |-> "increase", workers |-> Grown(i, w)]
     ELSE IF TooMany(i, w) /\ Max({n, 2}) < w THEN [action |-> "decrease", workers |-> Max({n, 2})]
     ELSE [action |-> "ok", workers |-> w]

\* What the page says: a pool that is not set runs with 10, hung polls are
\* reported before anything else.
pollN == IF pool <= 0 THEN 10 ELSE pool
Advice == Recommend(load, pollN)
loadWorkerAdvice ==
  [action |-> Advice.action,
   tone |-> IF load.stale > 0 \/ Advice.action \in {"increase", "fix_feeds"} THEN "warn"
            ELSE IF Advice.action = "decrease" THEN "ok" ELSE "info"]

\* The page below the cards: the rows of a list with their badges.
parseAdminFeedsStatus(s) == IF s \in {"errors", "paused", "waiting", "ok", "silent", "layout"} THEN s ELSE "all"
loadAdminFeedsDashboard(s) ==
  {[row |-> r, status |-> classifyAdminFeedStatus(r)] : r \in ListAdminFeedsPage(parseAdminFeedsStatus(s))}

PanelInit == pool \in Pools /\ load \in Loads /\ advised = "none"
\* The administrator writes the suggested size and restarts the service.
FollowAdvice ==
  /\ loadWorkerAdvice.action \in {"increase", "decrease"}
  /\ pool' = Advice.workers /\ advised' = Advice.action /\ UNCHANGED load

\* The feed goes its way whatever the administrator does.
FeedPanelSpec ==
  /\ SchedInit /\ PanelInit
  /\ [][(SchedNext /\ UNCHANGED panelVars) \/ (FollowAdvice /\ UNCHANGED schedVars)]_<<schedVars, panelVars>>

(* ------------------------------- properties ------------------------------ *)

\* The badge, the lists, the sort order and the cards are computed apart and
\* agree: a row is in the list its badge names, the four lists cover all rows
\* and overlap only where a paused feed has errors, and a card counts its
\* list (the waiting card also counts failing feeds).
PanelAgrees ==
  LET lists == <<"paused", "errors", "waiting", "ok">>
      page == [s \in {"all", "silent"} \cup {lists[i] : i \in 1..4} |-> loadAdminFeedsDashboard(s)]
      cards == AdminFeedSummary
  IN /\ \A v \in page["all"] :
          LET in == {s \in DOMAIN page \ {"all", "silent"} : v \in page[s]} IN
          /\ v \in page[v.status]
          /\ Cardinality(in) = 1 \/ in = {"paused", "errors"}
          /\ v.status # "silent" => v.status = lists[adminFeedsOrderClause(v.row)]
     /\ Cardinality(page["all"]) = Cardinality(FeedRows)
     /\ \A s \in {"ok", "errors", "paused", "silent"} : cards[s] = Cardinality(page[s])
     /\ cards.waiting >= Cardinality(page["waiting"])

\* Following the advice does not turn it round: under the same load a pool
\* that was enlarged is not to be reduced next, nor the other way about.
AdviceSteady ==
  /\ advised = "increase" => Advice.action # "decrease"
  /\ advised = "decrease" => Advice.action # "increase"

\* An administrator who keeps following the advice comes to a size that needs
\* no more change.
AdviceSettles == <>(loadWorkerAdvice.action \notin {"increase", "decrease"})

\* The panel does not contradict itself, about feeds or about the pool.
PanelSound == PanelAgrees /\ AdviceSteady
=============================================================================
