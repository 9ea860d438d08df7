----------------------------- MODULE MCCatalog ------------------------------
(* Instances of Catalog for TLC. *)
EXTENDS Catalog, TLC

CONSTANTS u1, u2, h1, h2, l1, l2, c1, c2, f1, f2

Mix(o, cs, file) == [ops |-> o, cats |-> cs, file |-> file, hooks |-> (h1 :> u1 @@ h2 :> u2), feeds |-> << >>,
                     urls |-> Urls, readers |-> Users]
Short(m) == [m EXCEPT !.readers = {u2}]
OneHook(m) == [m EXCEPT !.hooks = h1 :> u1]
Row(l, c) == [NoFeed EXCEPT !.st = "live", !.url = l, !.cat = c]
\* Two feeds of earlier editors, one in each category.
\* Their addresses stay, and one user follows categories.
Filled(m) == [m EXCEPT !.urls = {}, !.readers = {u2}, !.feeds = (f1 :> Row(l1, c1) @@ f2 :> Row(l2, c2))]
File == {<<l1, None, h1>>, <<l2, c1, None>>, <<l2, c2, None>>}
AllMixes ==
  { Mix({"create", "edit", "follow", "delete"}, {c1, c2}, {}),
    Filled(Mix({"bulkmove", "edit", "follow"}, {c1, c2}, {})),
    Filled(Mix({"bulkmove", "delete", "follow", "cats", "fail"}, {c1, c2}, {})),
    Mix({"ui", "rebind", "unhook", "bulkhook"}, {c1}, {}),
    Mix({"ui", "member", "follow", "unhook"}, {c1}, {}),
    Mix({"inbound", "delete", "fail"}, {c1}, {}),
    OneHook(Mix({"hooks", "unhook", "fail"}, {}, {})),
    Mix({"import", "delete", "fail", "unhook"}, {c1}, {<<l1, None, h1>>, <<l2, c2, None>>}),
    Mix({"import", "create"}, {c1}, File),
    Short(Mix({"import", "cats", "follow"}, {c1}, {<<l1, c1, None>>, <<l2, c2, h2>>})),
    Mix({"async"}, {c1}, File) }
CatalogSymmetry == Permutations(Reqs) \cup Permutations(Feeds \ {f1, f2})
=============================================================================
