--------------------------- MODULE MCFeedPolling ---------------------------
(* Instances of FeedPolling for TLC. *)
EXTENDS FeedPolling

CONSTANTS f1, f2, t1, k1, k2, c1

OneType == [f \in Feeds |-> t1]

Scene(fs, ks, os, faults, budget) ==
  [feeds |-> fs, workers |-> ks, outcomes |-> os, faults |-> faults, budget |-> budget]

\* Two feeds share a worker, with deferrals and without; one feed with two
\* workers and a manual refresh, its settings edited; a poll that overruns.
PollScenes ==
  { Scene({f1, f2}, {k1}, {"new", "fail", "hold", "bridge", "timeout"}, {"restart", "subscribe"}, 1),
    Scene({f1, f2}, {k1}, {"same", "fail", "gone", "park"},
          {"dbfail", "pause", "subscribe", "reset", "pgcrash", "restart"}, 1),
    Scene({f1}, {k1, k2}, {"same", "fail", "layout", "park"},
          {"refresh", "edit", "pgcrash", "reset", "dbfail"}, 2),
    Scene({f1}, {k1, k2}, {"same", "fail"}, {"overrun", "refresh", "reset"}, 2) }
=============================================================================
