------------------------------ MODULE MCConsole -----------------------------
(* Instances of Console for TLC.  A tick is four hours. *)
EXTENDS Console

CONSTANTS e1, e2

(* Schedules: hours of a category, hints of a source, failures. *)
Header(s, o, e, t) == [shared |-> s, own |-> o, expires |-> e, ttl |-> t]
NoHeader == Header(None, None, None, None)
Daytime == [start |-> 2, end |-> 4]
Night == [start |-> 5, end |-> 1]
Plan == [intervals |-> {2}, adaptive |-> {FALSE}, silent |-> {0}, texts |-> {Always}, headers |-> {NoHeader}, delays |-> {}, events |-> {}]
MyPlans ==
  { Plan,
    [Plan EXCEPT !.texts = {Always, Daytime, Night, [start |-> 3, end |-> 3]}, !.events = {"blind", "layout", "fail"},
                 !.headers = {NoHeader, Header(None, 3, 2, None)}],
    [Plan EXCEPT !.adaptive = BOOLEAN, !.intervals = {1, 2, 7}, !.silent = {0, 12, 24, 36, 48},
                 !.headers = {NoHeader, Header(0, 5, None, None), Header(None, 3, 2, None), Header(None, None, None, 7), Header(700000, 3, None, None)},
                 !.delays = {1, 5, 100000, 700000}],
    [Plan EXCEPT !.intervals = {1, 7}, !.texts = {Night}, !.events = {"fail", "bot", "gone", "layout", "proxy", "manual", "reset"}] }

\* With these constants no backoff wraps around before the breaker opens.
ASSUME BackoffAssumption == BackoffFits

(* Loads of the worker pool: too small, too large, late, failing. *)
Load == [offered |-> 0, avg |-> 0, samples |-> 0, timeout |-> 15, overdue |-> 0, lag |-> 30, feeds |-> 4, bad |-> 0, stale |-> 0]
MyLoads ==
  {Load} \cup
  [offered : {0, 3, 40, 90, 2000}, avg : {0, 15}, samples : {0, 9}, timeout : {0, 30}, overdue : {0, 7, 30},
   lag : {0, 30, 90}, feeds : {0, 4}, bad : {0, 1}, stale : {0, 1}]

(* Changes editors make, and deliveries. *)
BotSettings == [kind |-> "telegram", token |-> "t1", chat |-> "c1", success |-> "hash"]
Private == [kind |-> "http", url |-> <<"http", "private">>]
Reply(c, s, l) == [code |-> c, says |-> s, long |-> l]
NoView == [via |-> {}, editors |-> {}, changes |-> {}, replies |-> {}, logs |-> {}]
SettingsView ==
  [NoView EXCEPT !.via = {"page", "api"}, !.editors = Editors,
     !.changes = {[url |-> <<"http", "a">>, secret |-> "s1", headers |-> "h1"], BotSettings, [kind |-> "max", base |-> "b1", id |-> "i1"],
                  [tmpl |-> Empty], [chat |-> "c2"], [token |-> "t2"], [secret |-> "s2"], Private, [kind |-> Empty, url |-> <<"http", "b">>],
                  [target |-> "bogus"], [kind |-> "max", target |-> "user"], [headers |-> "broken"], [digest |-> 2000]}]
LogView ==
  [NoView EXCEPT !.via = {"page"}, !.logs = Logs,
     !.changes = {BotSettings, Private, [kind |-> "telegram", token |-> "t1", chat |-> "c1", tmpl |-> "broken"]},
     !.replies = {Reply(200, "yes", FALSE), Reply(200, "no", FALSE), Reply(429, "no", FALSE), Reply(200, "yes", TRUE), Reply(0, "no", FALSE)}]
MyViews == {NoView, SettingsView, LogView}

(* Feeds to export and files from elsewhere. *)
Plain == [title |-> "t", url |-> "u1", category |-> NoCat, feedType |-> "rss", interval |-> 5, retention |-> 0,
          flags |-> [f \in Flags |-> FALSE], rules |-> [r \in Rules |-> ""], storeMode |-> "full", hook |-> NoHookId]
Rich == [Plain EXCEPT !.title = "", !.url = "u2", !.category = 1, !.feedType = "telegram", !.interval = 9, !.retention = 7,
          !.flags = [f \in Flags |-> f \in {"tls", "adaptive"}], !.rules = [r \in Rules |-> "x"], !.storeMode = "relay", !.hook = 1]
NoShelf == [cats |-> << >>, feeds |-> << >>, hooks |-> << >>, edits |-> 0]
Types == [u \in {"u1", "u2", "u3", "u4"} |-> IF u = "u3" THEN "page" ELSE "rss"]
MyShelves ==
  { NoShelf,
    [cats |-> <<"news", "work">>, feeds |-> <<Rich, [Plain EXCEPT !.category = 2], [Plain EXCEPT !.url = "u4", !.feedType = "inbound"]>>,
     hooks |-> <<"alpha", "beta">>, edits |-> 2],
    [cats |-> <<"news">>, feeds |-> <<[Rich EXCEPT !.interval = 2000, !.hook = 2], [Plain EXCEPT !.url = "u3"], [Plain EXCEPT !.url = "u4", !.category = 1]>>,
     hooks |-> <<"same", "same">>, edits |-> 0] }
NoUrl == [xml |-> "", plain |-> ""]
Url(u) == [xml |-> u, plain |-> ""]
F(u) == Outline("f", "", "rss", Url(u), << >>)
Dir(t, kids) == Outline("", t, "", NoUrl, kids)
MyFiles ==
  { <<Dir("a", <<F("u1"), Dir("", <<F("u2"), Dir("b", <<F("u3")>>)>>), F("u4")>>)>>,
    <<F("u1"), Dir("", <<F("u2")>>), Outline("", "", "rss", NoUrl, << >>), Outline("x", "", "", [xml |-> "", plain |-> "u3"], << >>)>>,
    <<[F("u1") EXCEPT !.kids = <<F("u2")>>], Outline("g", "", "RSS feed", Url("u4"), << >>), Dir("b", << >>)>>,
    <<[F("u1") EXCEPT !.interval = Junk, !.retention = Number(-1), !.storeMode = "odd", !.hashOnly = "true", !.flags["tls"] = "maybe", !.feedType = "odd"],
      [F("u2") EXCEPT !.interval = Number(0), !.retention = Number(0), !.hashOnly = "true", !.storeMode = "relay", !.webhook = "alpha"],
      [F("u3") EXCEPT !.retention = Number(99999), !.flags["crawler"] = "true", !.webhook = "gamma"]>> }
=============================================================================
