------------------------------- MODULE Alerts -------------------------------
(* The system alerter of the worker process: every minute it compares what is *)
(* broken now with what it announced, sends one message per new problem to    *)
(* every subscribed webhook and saves the announced state, so that a restart  *)
(* does not announce it again.  The process may end between any two of those  *)
(* steps, the save may fail, and webhooks subscribe and leave at any time.    *)
EXTENDS Integers, FiniteSets, FiniteSetsExt

CONSTANTS
  AProcs,      \* processes
  Items,       \* problems that are there or not: a paused or silent feed, a
               \* failing webhook, a stale backup, an unreachable proxy
  Layout,      \* the problem of a bridge that cannot read its source's pages
  Total,       \* feeds of that bridge
  Hooks,       \* webhooks that may subscribe to system alerts
  MaxChange,   \* bound: problems that appear or go, subscriptions that change
  MaxAErr,     \* bound: database errors of the alerter
  NoState

ASSUME AlertsAssumption ==
  /\ Layout \notin Items /\ "recovered" \notin Items \cup {Layout}
  /\ \A S \in SUBSET (Items \cup {Layout}) : S # NoState
  /\ Total \in Nat \ {0} /\ MaxChange \in Nat /\ MaxAErr \in Nat

All == Items \cup {Layout}

VARIABLES
  broken,    \* the problems there are now
  bad,       \* feeds of the bridge that see unrecognised markup
  hooks,     \* the webhooks with system_alerts and enabled
  al,        \* process -> its alerter
  saved,     \* app_settings.system_alert_state, or NoState
  told,      \* problem -> announcements since it appeared
  heard,     \* problems announced or recorded as already there when the state was last saved
  excused,   \* problems whose announcement was not saved
  changes, aerrs
alertVars == <<broken, bad, hooks, al, saved, told, heard, excused, changes, aerrs>>

Alerters == [pc : {"off", "idle", "diff", "send"}, seeded : BOOLEAN, state : SUBSET All, msgs : SUBSET (All \cup {"recovered"}),
             to : SUBSET Hooks]
\* An alerter that is not running.
NoAlerter == [pc |-> "off", seeded |-> FALSE, state |-> {}, msgs |-> {}, to |-> {}]

AlertsInit ==
  /\ broken = {} /\ bad = 0 /\ hooks \in SUBSET Hooks
  /\ al = [p \in AProcs |-> NoAlerter]
  /\ saved = NoState
  /\ told = [i \in All |-> 0]
  /\ heard = {} /\ excused = {}
  /\ changes = 0 /\ aerrs = 0

layoutIncidentMin == 3
ghosts == <<told, heard, excused>>

(* ------------------------------ surroundings ----------------------------- *)

\* Two alerters run when the first one lost the worker lock: while they do,
\* every problem may be announced twice.
OneAlerter == \A p, q \in AProcs : al[p].pc # "off" /\ al[q].pc # "off" => p = q
EndExcuse(i) == excused' = IF OneAlerter THEN excused \ {i} ELSE excused

\* A problem appears: a new episode of it.
Break(i) ==
  /\ i \notin broken /\ changes < MaxChange
  /\ broken' = broken \cup {i}
  /\ told' = [told EXCEPT ![i] = 0]
  /\ changes' = changes + 1
  /\ UNCHANGED <<bad, hooks, al, saved, heard, excused, aerrs>>
Repair(i) ==
  /\ i \in broken /\ changes < MaxChange
  /\ broken' = broken \ {i}
  /\ told' = [told EXCEPT ![i] = 0]
  /\ EndExcuse(i)
  /\ changes' = changes + 1
  /\ UNCHANGED <<bad, hooks, al, saved, heard, aerrs>>
\* More or fewer feeds of the bridge fail; an incident ends when all of them read again.
Markup(n) ==
  /\ n # bad /\ changes < MaxChange
  /\ bad' = n
  /\ told' = IF 0 \in {bad, n} THEN [told EXCEPT ![Layout] = 0] ELSE told
  /\ IF n = 0 THEN EndExcuse(Layout) ELSE UNCHANGED excused
  /\ changes' = changes + 1
  /\ UNCHANGED <<broken, hooks, al, saved, heard, aerrs>>

\* A webhook subscribes to the alerts, or stops (disabled, edited or deleted).
Subscribe(h) ==
  /\ h \notin hooks /\ changes < MaxChange
  /\ hooks' = hooks \cup {h}
  /\ changes' = changes + 1
  /\ UNCHANGED <<broken, bad, al, saved, told, heard, excused, aerrs>>
Unsubscribe(h) ==
  /\ h \in hooks /\ changes < MaxChange
  /\ hooks' = hooks \ {h}
  /\ changes' = changes + 1
  /\ UNCHANGED <<broken, bad, al, saved, told, heard, excused, aerrs>>

(* ------------------------------- the alerter ----------------------------- *)

Doubled == IF \E q \in AProcs : al[q].pc # "off" THEN All ELSE excused
\* systemAlertsLoop starts with the saved state; without one, or when it cannot
\* be read, the first pass only records what is already broken (and does not
\* know a bridge's incident that has fallen below its threshold).
load(p) ==
  \/ /\ al' = [al EXCEPT ![p] = [NoAlerter EXCEPT !.pc = "idle", !.seeded = saved # NoState,
                                                  !.state = IF saved = NoState THEN {} ELSE saved]]
     /\ excused' = Doubled
     /\ UNCHANGED <<broken, bad, hooks, saved, told, heard, changes, aerrs>>
  \/ /\ aerrs < MaxAErr /\ aerrs' = aerrs + 1
     /\ al' = [al EXCEPT ![p] = [NoAlerter EXCEPT !.pc = "idle"]]
     /\ excused' = Doubled \cup {Layout}
     /\ UNCHANGED <<broken, bad, hooks, saved, told, heard, changes>>

\* A pass reads the subscribers.  Without any the state is forgotten and the
\* empty state saved, if the database takes it.
ListSubscribers(p) ==
  /\ al[p].pc = "idle" /\ hooks # {}
  /\ al' = [al EXCEPT ![p].pc = "diff", ![p].to = hooks]
  /\ UNCHANGED <<broken, bad, hooks, saved, ghosts, changes, aerrs>>
Forget(p) ==
  /\ al[p].pc = "idle" /\ hooks = {}
  /\ al' = [al EXCEPT ![p].seeded = FALSE, ![p].state = {}]
  /\ saved' \in IF al[p].seeded THEN {{}, saved} ELSE {saved}
  /\ told' = [i \in All |-> 0]
  /\ UNCHANGED <<broken, bad, hooks, heard, excused, changes, aerrs>>

\* layoutDiff: an incident starts when enough feeds fail and lasts until none does.
InIncident(p) == bad > 0 /\ (Layout \in al[p].state \/ bad >= Min({layoutIncidentMin, Total}))
diff(p) == broken \cup (IF InIncident(p) THEN {Layout} ELSE {})

\* The rest of pass up to the sends: the state in memory is replaced first; the
\* first pass of an unseeded alerter sends nothing.  The message that a
\* bridge reads its pages again is sent with the others.
Collect(p) ==
  LET next == diff(p)
      new == IF al[p].seeded THEN next \ al[p].state ELSE {}
      over == al[p].seeded /\ Layout \in al[p].state \ next
      changed == ~al[p].seeded \/ new # {} \/ next # al[p].state IN
  /\ al[p].pc = "diff"
  /\ al' = [al EXCEPT ![p].seeded = TRUE, ![p].state = next, ![p].msgs = new \cup (IF over THEN {"recovered"} ELSE {}),
                      ![p].pc = IF changed THEN "send" ELSE "idle"]
  /\ heard' = IF al[p].seeded THEN heard ELSE heard \cup next
  /\ UNCHANGED <<broken, bad, hooks, saved, told, excused, changes, aerrs>>
CollectFails(p) ==
  /\ al[p].pc = "diff" /\ aerrs < MaxAErr
  /\ aerrs' = aerrs + 1
  /\ al' = [al EXCEPT ![p].pc = "idle"]
  /\ UNCHANGED <<broken, bad, hooks, saved, ghosts, changes>>

\* One message to the subscribers the pass read; a failed delivery is only logged.
Send(p, i) ==
  /\ al[p].pc = "send" /\ i \in al[p].msgs
  /\ al' = [al EXCEPT ![p].msgs = @ \ {i}]
  /\ told' = [j \in All |-> IF j = i THEN told[j] + 1 ELSE told[j]]
  /\ heard' = heard \cup ({i} \cap All)
  /\ UNCHANGED <<broken, bad, hooks, saved, excused, changes, aerrs>>

\* The announced state is saved after the last message.
MutAllSent(p) == TRUE
AllSent(p) == al[p].msgs = {}
Save(p) ==
  /\ al[p].pc = "send" /\ AllSent(p)
  /\ saved' = al[p].state
  /\ al' = [al EXCEPT ![p].pc = "idle", ![p].msgs = {}]
  /\ heard' = {i \in heard : \E q \in AProcs : i \in al[q].state}
  /\ UNCHANGED <<broken, bad, hooks, told, excused, changes, aerrs>>
SaveStateFails(p) ==
  /\ al[p].pc = "send" /\ AllSent(p) /\ aerrs < MaxAErr
  /\ aerrs' = aerrs + 1
  /\ al' = [al EXCEPT ![p].pc = "idle"]
  /\ excused' = excused \cup al[p].state
  /\ UNCHANGED <<broken, bad, hooks, saved, told, heard, changes>>

\* The process ends; what it sent and did not save may be announced again.
AlerterGone(p) ==
  /\ al' = [al EXCEPT ![p] = NoAlerter]
  /\ excused' = IF al[p].pc = "send" THEN excused \cup al[p].state ELSE excused
  /\ UNCHANGED <<broken, bad, hooks, saved, told, heard, changes, aerrs>>

Surroundings ==
  \/ \E i \in Items : Break(i) \/ Repair(i)
  \/ \E n \in 0..Total : Markup(n)
  \/ \E h \in Hooks : Subscribe(h) \/ Unsubscribe(h)
AlertSteps(p) ==
  \/ ListSubscribers(p) \/ Forget(p) \/ Collect(p) \/ CollectFails(p) \/ Save(p) \/ SaveStateFails(p)
  \/ \E i \in All \cup {"recovered"} : Send(p, i)

(* ------------------------------- properties ------------------------------ *)

AlertsTypeOK ==
  /\ broken \subseteq Items /\ bad \in 0..Total /\ hooks \subseteq Hooks
  /\ saved = NoState \/ saved \subseteq All
  /\ told \in [All -> Nat] /\ heard \subseteq All /\ excused \subseteq All
  /\ al \in [AProcs -> Alerters]

\* A problem is announced once for as long as it lasts, over restarts too,
\* unless the process ended or the save failed before the announcement was saved.
AlertedOnce == \A i \in All \ excused : told[i] <= 1

\* The saved state names only problems that somebody was told of or that were
\* there before the first pass: a restart never silences an announcement that
\* was not sent.
NothingSilenced == saved # NoState => saved \subseteq heard

\* The alerter has the problem in its state, or there is nothing to announce.
Noticed(i) == (\E p \in AProcs : i \in al[p].state) \/ i \notin broken \/ hooks = {} \/ \A p \in AProcs : al[p].pc = "off"
\* A problem that lasts while somebody is subscribed and an alerter runs is
\* taken into account by it.
AlertNoticed == \A i \in Items : i \in broken ~> Noticed(i)

\* The alerter neither repeats itself nor keeps something to itself.
AlertsFaithful == AlertsTypeOK /\ AlertedOnce /\ NothingSilenced
=============================================================================
