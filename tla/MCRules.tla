------------------------------ MODULE MCRules -------------------------------
(* Instances of Rules for TLC. *)
EXTENDS Rules, TLC

CONSTANTS f1, f2, a1, a2, t1, l1

TwoFilters == <<f1, f2>>
Param(n, act, on) == [n |-> n, act |-> act, enabled |-> on]
Plain == {Param(1, "none", TRUE)}
Mix == [filters |-> {f1}, params |-> Plain, labels |-> {}, procs |-> {Server}, polls |-> {a1}, tests |-> {},
        modes |-> {"full"}, wants |-> {{1}}]
\* An entry is told by the versions of the filter that match it.
AllMixes ==
  { [Mix EXCEPT !.tests = {t1}, !.params = @ \cup {Param(2, "none", TRUE)}, !.procs = Procs],
    [Mix EXCEPT !.modes = {"filtered"}, !.polls = {a1, a2}],
    [Mix EXCEPT !.modes = {"filtered"}, !.procs = Procs, !.wants = {{1}, {2}, {1, 2}}],
    [Mix EXCEPT !.filters = {f1, f2}, !.modes = {"filtered"}, !.params = @ \cup {Param(0, "none", TRUE), Param(1, "none", FALSE)}],
    [Mix EXCEPT !.labels = {l1}, !.modes = {"full", "relay"}, !.wants = {{1, 2}},
                !.params = {Param(1, act, TRUE) : act \in {l1, "webhook", "delete"}}] }
=============================================================================
