\* Two users, two requests in flight, three feed rows, two addresses and
\* categories, one feed and one webhook per editor.
CONSTANTS
  u1 = u1  u2 = u2  h1 = h1  h2 = h2  l1 = l1  l2 = l2  c1 = c1  c2 = c2  f1 = f1  f2 = f2
  Users = {u1, u2}
  Editors = {u1}
  Admins = {}
  Feeds = {f1, f2, f3}
  Hooks = {h1, h2}
  Urls = {l1, l2}
  Cats = {c1, c2}
  Reqs = {r1, r2}
  None = None
  Off = Off
  MaxFeeds = 1
  MaxHooks = 1
  MaxImport = 2
  Mixes <- AllMixes
SPECIFICATION Spec
SYMMETRY CatalogSymmetry
INVARIANTS RefsIntact  QuotaUnlessOverlap
CHECK_DEADLOCK FALSE
