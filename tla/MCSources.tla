----------------------------- MODULE MCSources -----------------------------
(***************************************************************************)
(* Sources on small instances: one scene per kind of bridge.               *)
(***************************************************************************)
EXTENDS Sources, TLC

CONSTANTS w1, w2, m1, f1, f2, c1, c2, x1, x2

MCFeedOf == (w1 :> f1) @@ (w2 :> f2) @@ (m1 :> f1)

\* kind, proxy mode, posts at the start and at most, who polls, which channels
\* publish, slots, faults and how many; live: AllStored is expected.
Scene(k, m, n0, n, ps, cs, s, fs, b, l) ==
  [kind |-> k, mode |-> m, home |-> c1, start |-> n0, posts |-> n, pollers |-> ps, channels |-> cs,
   slots |-> s, faults |-> fs, budget |-> b, live |-> l]

One  == {w1, m1}
All  == {w1, w2, m1}
Disk == {"manual", "restart", "dbfail"}
Crash == Disk \cup {"pgcrash"}

PollScenes ==
  { Scene("telegram", "direct", 0, 3, One, {c1}, 1, Disk \cup {"slow", "neterr", "layout"}, 2, TRUE),
    Scene("telegram", "static", 1, 3, One, {c1, c2}, 1, {"edit", "manual", "neterr"}, 2, TRUE),
    Scene("telegram", "direct", 1, 1, All, {}, 1, {"slow", "manual", "slots", "neterr"}, 3, FALSE),
    Scene("telegram", "service", 1, 1, All, {}, 2, {"manual", "badproxy", "noproxy", "late"}, 3, FALSE),
    Scene("max", "", 0, 3, One, {c1}, 1, Disk \cup {"limit", "neterr", "layout"}, 2, TRUE),
    Scene("max", "", 1, 1, All, {}, 2, {"manual", "limit"}, 3, FALSE),
    Scene("vk", "", 0, 3, One, {c1}, 1, Disk \cup {"limit", "neterr", "layout"}, 2, TRUE),
    Scene("maxstat", "", 0, 3, One, {c1}, 1, Disk \cup {"limit", "neterr"}, 2, TRUE),
    Scene("wall", "", 0, 3, One, {c1}, 1, Crash \cup {"limit", "neterr", "layout"}, 2, TRUE),
    Scene("news", "", 0, 3, One, {c1}, 1, {"restart", "neterr", "layout"}, 2, TRUE),
    Scene("rutube", "", 0, 3, One, {c1}, 1, {"restart", "neterr", "layout"}, 2, TRUE),
    Scene("tabs", "", 0, 3, One, {c1}, 1, Crash \cup {"limit", "neterr", "layout"}, 2, TRUE),
    Scene("smotrim", "", 0, 3, One, {c1}, 1, Crash \cup {"neterr", "layout"}, 2, TRUE),
    Scene("ok", "", 0, 3, One, {c1}, 1, Disk \cup {"limit", "neterr", "layout"}, 2, TRUE),
    Scene("page", "", 1, 3, One, {c1}, 1, Disk \cup {"neterr"}, 2, TRUE),
    Scene("rss", "", 1, 3, One, {c1}, 1, Disk \cup {"limit", "neterr"}, 2, TRUE) }

ASSUME CautiousPolls == \A s \in PollScenes : Cautious(s)

\* A transaction of storeFetched that fails.
StoreScenes == { Scene("telegram", "direct", 0, 2, {w1}, {c1}, 1, {"storefail"}, 1, TRUE) }

=============================================================================
