\* Two readers, one feed with one item, two categories, two transactions.
CONSTANTS
  u1 = u1  u2 = u2  f1 = f1  f2 = f2  i1 = i1  i2 = i2  c1 = c1  c2 = c2  p1 = p1  p2 = p2
  Users = {u1, u2}
  Feeds = {f1}
  Cats = {c1, c2}
  NoCat = none
  Items = {i1}
  FeedOf <- AllFirst
  Expiring = {f1}
  Backfill = 1
  Conns = {p1, p2}
  Scenarios <- AllScenarios
SPECIFICATION Spec
SYMMETRY StoreSymmetry
INVARIANTS RowsInStep
 
CHECK_DEADLOCK FALSE
