\* Two filters of up to two versions, two polls of either refresher, one test
\* and one editing request at a time; the list holds one row.
CONSTANTS
  f1 = f1  f2 = f2  a1 = a1  a2 = a2  t1 = t1  l1 = l1
  Filters <- TwoFilters
  Polls = {a1, a2}
  Tests = {t1}
  Reqs = {r1}
  Labels = {l1}
  Users = {me, you}
  Me = me
  Procs = {worker, server}
  Server = server
  MaxVer = 2
  RowLimit = 1
  MaxRules = 1
  TTL = 2
  Faults = 1
  Mixes <- AllMixes
  Gone = Gone
  Unused = Unused
SPECIFICATION FairSpec
INVARIANTS CompiledIsCurrent ActionsRight
PROPERTIES EditTakesEffect
CHECK_DEADLOCK FALSE
