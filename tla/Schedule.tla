------------------------------ MODULE Schedule ------------------------------
(* When a feed is polled next: the interval and its bounds, the adaptive and  *)
(* the silent stretch, what the source asks for in its headers, the backoff   *)
(* after errors and the hours in which the feed's category may be polled.     *)
(* Time is counted in ticks and kept relative to now: `wait` ticks are left   *)
(* until next_check_at, the last item came `silent` ticks ago.                *)
EXTENDS Integers, FiniteSetsExt

CONSTANTS
  Day, Week,       \* ticks of a day and of AdaptivePollWindow
  MinPoll, MaxPoll, AdaptiveMax, SilentAfter, SilentInterval,   \* the configured durations
  Threshold,       \* FEED_CIRCUIT_BREAKER_THRESHOLD
  Word,            \* ticks in 2^64 nanoseconds, the range of time.Duration
  Plans,           \* what a behaviour is about: [intervals, adaptive, silent, texts, headers, delays, events]
  Rates,           \* items of the last week
  Lags             \* ticks by which the worker may come late

Always == [start |-> 0, end |-> 0]      \* poll_hours = ''
MaxSilent == Max({SilentAfter, 4 * Week})   \* bound: nothing changes after it
None == -1

ASSUME ScheduleAssumption ==
  /\ {Day, Week, MinPoll, MaxPoll, AdaptiveMax, SilentAfter, SilentInterval, Threshold, Word} \subseteq Int
  /\ Day > 1 /\ Week >= Day /\ MinPoll > 0 /\ MaxPoll >= MinPoll /\ Threshold > 0 /\ Word > 0
  /\ Rates \subseteq Nat \ {0} /\ Lags \subseteq Nat /\ \E most \in Lags : \A lag \in Lags : lag <= most
  /\ \A p \in Plans :
       /\ p.intervals \subseteq Nat \ {0} /\ p.adaptive \subseteq BOOLEAN /\ p.silent \subseteq 0..MaxSilent
       /\ \A t \in p.texts : t.start \in Int /\ t.end \in Int
       /\ \A h \in p.headers : {h.shared, h.own, h.expires, h.ttl} \subseteq Int
       /\ p.delays \subseteq Nat

\* plan: texts are poll_hours as typed, [start, end], in range or not; headers
\* the caching headers of responses, [shared, own, expires, ttl]; delays the
\* Retry-After values; events what else may happen.
VARIABLES plan, feed, window, hour, wait, silent, errors, broken, halted, lasterr, last
schedVars == <<plan, feed, window, hour, wait, silent, errors, broken, halted, lasterr, last>>

(* ----------------------------- the arithmetic ---------------------------- *)

clampPollDuration(d, lo, hi) ==
  IF lo > 0 /\ d < lo THEN lo ELSE IF hi > 0 /\ d > hi THEN hi ELSE d

feedBasePollInterval(interval) == clampPollDuration(interval, MinPoll, MaxPoll)
FeedNextCheckAt == feedBasePollInterval(feed.interval)

\* int64 nanoseconds wrap around.
Wrap(d, word) == ((d + word \div 2) % word) - word \div 2
\* f applied n times.
Iterate(f, d, n) == LET g[i \in 0..n] == IF i = 0 THEN d ELSE f[g[i - 1]] IN g[n]
Doubled(d, n, word) == Iterate([x \in Int |-> Wrap(2 * x, word)], d, n)
MutFeedErrorPollDelay(interval, count) ==
  clampPollDuration(Doubled(feedBasePollInterval(interval), Min({count, 30}), 64), MinPoll, MaxPoll)
FeedErrorPollDelay(interval, count) ==
  clampPollDuration(Doubled(feedBasePollInterval(interval), Min({Max({count, 1}), 30}), Word), MinPoll, MaxPoll)

\* No delay gets near the range of a duration before the breaker opens, not
\* even from the maximal interval (24 h and a threshold of 10 by default).
BackoffFits == \A n \in 0..Min({Threshold, 30}) : Iterate([x \in Int |-> 2 * x], MaxPoll, n) < Word \div 2

\* Half the mean gap between the week's items; doubling per silent week.
AdaptivePollInterval(base, items, quiet, top, hardTop) ==
  IF top <= base THEN base
  ELSE IF items > 0 THEN clampPollDuration((Week \div items) \div 2, base, top)
  ELSE LET hard == Max({hardTop, top})
           grow == [x \in Int |-> IF x < hard THEN 2 * x ELSE x]
       IN clampPollDuration(Iterate(grow, top, Max({quiet \div Week - 1, 0})), base, hard)

adaptiveNextCheck(items) ==
  LET top == Min({AdaptiveMax, MaxPoll}) IN
  IF ~feed.adaptive \/ AdaptiveMax <= 0 \/ top <= FeedNextCheckAt THEN 0
  ELSE AdaptivePollInterval(FeedNextCheckAt, items, IF items = 0 THEN silent ELSE 0, top, MaxPoll)

\* What the headers ask for: s-maxage, else max-age, else Expires.  Zero is a
\* time under a minute, None a header that is absent or unusable.
cacheFreshUntil(h) ==
  LET d == IF h.shared # None THEN Wrap(h.shared, Word)
           ELSE IF h.own # None THEN Wrap(h.own, Word) ELSE h.expires
  IN IF d <= 0 THEN 0 ELSE Min({d, Day})
feedTTL(h) == IF h.ttl = None THEN 0 ELSE Min({Wrap(h.ttl, Word), Day})
MinNextCheck(h) == Max({cacheFreshUntil(h), feedTTL(h)})
parseRetryAfter(d) == Min({Wrap(d, Word), Day})

MutNextCheckAfterPoll(items, hint) == IF hint > 0 THEN Min({hint, MaxPoll}) ELSE Max({FeedNextCheckAt, adaptiveNextCheck(items)})
nextCheckAfterPoll(items, hint) ==
  LET own == Max({FeedNextCheckAt, adaptiveNextCheck(items)})
  IN IF hint > own THEN Min({hint, MaxPoll}) ELSE own

silentNextCheck(next) ==
  IF SilentAfter <= 0 \/ SilentInterval <= 0 \/ silent < SilentAfter THEN next
  ELSE Max({next, Min({SilentInterval, MaxPoll})})

(* ------------------------------ poll windows ----------------------------- *)

\* "HH:MM-HH:MM" with both times of the day and different.
ParsePollHours(t) == t = Always \/ (t.start \in 0..Day - 1 /\ t.end \in 0..Day - 1 /\ t.start # t.end)
Contains(w, h) == IF w.start < w.end THEN h >= w.start /\ h < w.end ELSE h >= w.start \/ h < w.end
\* The first open tick at or after the one d ticks from now.
NextOpen(w, d) ==
  LET h == (hour + d) % Day
      open == w.start - h
  IN IF w = Always \/ Contains(w, h) THEN d
     ELSE d + open + (IF open > 0 THEN 0 ELSE Day)

(* -------------------------------- actions -------------------------------- *)

Nothing == [kind |-> "none", wait |-> 0, base |-> 0, hint |-> 0, count |-> 0, open |-> TRUE, blind |-> FALSE, woke |-> FALSE]
SchedInit ==
  /\ plan \in Plans
  /\ feed \in [interval : plan.intervals, adaptive : plan.adaptive]
  /\ window \in {t \in plan.texts : ParsePollHours(t)}
  /\ hour = 0 /\ wait = 0 /\ silent \in plan.silent
  /\ errors = 0 /\ broken = FALSE /\ halted = FALSE /\ lasterr = "none" /\ last = Nothing

\* Time passes until the feed is due and a worker has come to it.
Elapse(lag) ==
  LET d == wait + lag IN
  /\ wait > 0
  /\ wait' = wait - d /\ hour' = (hour + d) % Day /\ silent' = Min({silent + d, MaxSilent})
  /\ last' = IF last.kind = "fail" THEN last ELSE Nothing
  /\ UNCHANGED <<plan, feed, window, errors, broken, halted, lasterr>>

Rows == <<plan, feed, window, hour, halted>>
MayPoll == wait <= 0 /\ ~broken /\ ~halted
ItemsNow == IF silent < Week THEN Rates ELSE {0}
InHours == window = Always \/ Contains(window, hour)
Told(kind, next) == last' = [Nothing EXCEPT !.kind = kind, !.wait = next, !.base = FeedNextCheckAt]

\* refreshLoaded outside the category's hours; the worker moves next_check_at.
OutsidePollWindow ==
  /\ MayPoll /\ window # Always /\ ~Contains(window, hour)
  /\ wait' = NextOpen(window, 0)
  /\ Told("outside", NextOpen(window, 0))
  /\ UNCHANGED <<Rows, silent, errors, broken, lasterr>>

\* Whether a poll may fetch; blind: the window could not be read.
Fetches(manual, blind) ==
  manual \/ (MayPoll /\ (blind \/ InHours))

\* A fetch that brought something or learned that nothing changed.
Woke(new, next) == new /\ silentNextCheck(next) > next
RecordFetched(manual, blind, new, h) ==
  LET hint == MinNextCheck(h)
      w == IF blind THEN Always ELSE window
  IN /\ Fetches(manual, blind)
     /\ \E i \in ItemsNow :
          LET first == nextCheckAfterPoll(i, hint)
              next == NextOpen(w, IF Woke(new, first) THEN nextCheckAfterPoll(Max({i, 1}), hint) ELSE silentNextCheck(first))
          IN /\ wait' = next
             /\ last' = [kind |-> "ok", wait |-> next, base |-> FeedNextCheckAt, hint |-> hint, count |-> 0,
                         open |-> manual \/ InHours, blind |-> blind,
                         woke |-> new /\ silent >= SilentAfter /\ ~feed.adaptive]
     /\ silent' = IF new THEN 0 ELSE silent
     /\ errors' = 0 /\ broken' = FALSE /\ lasterr' = "none"
     /\ UNCHANGED Rows

\* recordFailure; a bot challenge skips the walk.  gone: failPoll after a 410.
Failed(manual, bot, gone) ==
  LET n == (IF manual THEN 0 ELSE errors) + 1
      next == IF bot THEN MaxPoll ELSE FeedErrorPollDelay(feed.interval, n)
  IN /\ Fetches(manual, FALSE)
     /\ errors' = n /\ broken' = (n >= Threshold) /\ lasterr' = "error" /\ wait' = next
     /\ last' = [Nothing EXCEPT !.kind = IF bot THEN "bot" ELSE "fail", !.wait = next,
                                !.base = FeedNextCheckAt, !.count = n, !.open = manual \/ InHours]
     /\ halted' = (halted \/ gone)
     /\ UNCHANGED <<plan, feed, window, hour, silent>>

\* deferLayout writes the next ordinary check itself; after ErrProxyUnavailable
\* the worker does.
LayoutDeferred(manual) ==
  /\ Fetches(manual, FALSE)
  /\ \E i \in ItemsNow : wait' = nextCheckAfterPoll(i, 0) /\ Told("layout", nextCheckAfterPoll(i, 0))
  /\ lasterr' = "layout"
  /\ errors' = IF manual THEN 0 ELSE errors
  /\ broken' = (broken /\ ~manual)
  /\ UNCHANGED <<Rows, silent>>
ProxyUnavailable ==
  /\ Fetches(FALSE, FALSE)
  /\ \E i \in ItemsNow : wait' = nextCheckAfterPoll(i, 0) /\ Told("proxy", nextCheckAfterPoll(i, 0))
  /\ UNCHANGED <<Rows, silent, errors, broken, lasterr>>
\* A manual refresh that is turned away has only reset the breaker.
ManualTurnedAway ==
  /\ errors > 0
  /\ errors' = 0 /\ broken' = FALSE
  /\ UNCHANGED <<Rows, wait, silent, lasterr, last>>

\* 429 or 503 with Retry-After; processPollFeed makes a moment that has
\* already passed one second from now, which is less than a tick.
RateLimited(d) ==
  LET until == Max({parseRetryAfter(d), 0}) IN
  /\ Fetches(FALSE, FALSE)
  /\ wait' = until
  /\ last' = [Nothing EXCEPT !.kind = "limited", !.wait = until, !.hint = d]
  /\ UNCHANGED <<Rows, silent, errors, broken, lasterr>>

\* SetCategoryPollHours: parked feeds come back to their interval.
SetCategoryPollHours(t) ==
  /\ ParsePollHours(t) /\ t # window
  /\ window' = t
  /\ wait' = Min({wait, feed.interval})
  /\ last' = [Nothing EXCEPT !.kind = "hours"]
  /\ UNCHANGED <<plan, feed, hour, silent, errors, broken, halted, lasterr>>

\* The administrator's pause and the reset of the breaker.
Unstop ==
  /\ broken \/ halted
  /\ errors' = 0 /\ broken' = FALSE /\ halted' = FALSE
  /\ UNCHANGED <<plan, feed, window, hour, wait, silent, lasterr, last>>

Happens(e) == e \in plan.events
Polls(manual) ==
  \/ \E h \in plan.headers, new \in BOOLEAN, blind \in {FALSE, Happens("blind")} : RecordFetched(manual, blind, new, h)
  \/ \E o \in {"fail", "bot", "gone"} : Happens(o) /\ Failed(manual, o = "bot", o = "gone")
  \/ Happens("layout") /\ LayoutDeferred(manual)
SchedNext ==
  \/ \E lag \in Lags : Elapse(lag)
  \/ OutsidePollWindow
  \/ Polls(FALSE)
  \/ Happens("manual") /\ (Polls(TRUE) \/ ManualTurnedAway)
  \/ Happens("proxy") /\ ProxyUnavailable
  \/ \E d \in plan.delays : RateLimited(d)
  \/ \E t \in plan.texts : SetCategoryPollHours(t)
  \/ Happens("reset") /\ Unstop

SchedSpec == SchedInit /\ [][SchedNext]_schedVars

(* ------------------------------- properties ------------------------------ *)

SchedTypeOK ==
  /\ plan \in Plans /\ feed \in [interval : plan.intervals, adaptive : plan.adaptive]
  /\ ParsePollHours(window) /\ hour \in 0..Day - 1 /\ silent \in 0..MaxSilent
  /\ wait \in -Max(Lags)..MaxPoll + Day /\ errors \in 0..Threshold
  /\ {broken, halted} \subseteq BOOLEAN /\ lasterr \in {"none", "error", "layout"}

\* nextCheckAfterPoll's promise: hints only postpone a poll, never bring it
\* forward, and stay inside MAX_POLL_INTERVAL; only the hours of the category
\* (less than a day) come on top.
WithinBounds ==
  /\ last.kind \in {"ok", "layout", "proxy"} => last.wait >= last.base
  /\ last.kind = "ok" => last.wait >= Min({last.hint, MaxPoll})
  /\ last.kind \in {"ok", "fail", "bot", "layout", "proxy"} => last.wait \in MinPoll..MaxPoll + Day - 1
  /\ last.kind \in {"fail", "bot", "layout", "proxy"} => last.wait <= MaxPoll

\* A background poll fetches only in the category's hours (unless they could
\* not be read), and one that came outside them waits for the first open tick.
HoursHonoured ==
  /\ last.kind = "ok" => last.open \/ last.blind
  /\ last.kind \in {"fail", "bot"} => last.open
  /\ (last.kind = "outside" /\ wait = last.wait) =>
       /\ Contains(window, (hour + wait) % Day)
       /\ \A d \in 0..wait - 1 : ~Contains(window, (hour + d) % Day)

\* From failure to failure the feed waits longer, up to the maximum.
BackoffGrows ==
  [][(last.kind = "fail" /\ last'.kind = "fail" /\ last'.count = last.count + 1) => last'.wait >= last.wait]_schedVars

\* A source's Retry-After that fits in a duration is waited for, up to a day.
RetryAfterHeld ==
  (last.kind = "limited" /\ last.hint < Word \div 2) => last.wait = Min({last.hint, Day})

\* "The feed woke up: back to its own interval": a feed that was silent and
\* brings an item is not kept on the silent schedule (a feed with an adaptive
\* interval may be: its stretch was computed before the item was stored).
SilenceEnds ==
  (last.kind = "ok" /\ last.woke /\ window = Always) =>
    last.wait <= Max({last.base, Min({AdaptiveMax, MaxPoll}), Min({last.hint, MaxPoll})})

\* The next poll of a feed comes when the interval, the hints, the hours and
\* the silence of the feed allow.
ScheduleSound == SchedTypeOK /\ WithinBounds /\ HoursHonoured /\ RetryAfterHeld /\ SilenceEnds
=============================================================================
