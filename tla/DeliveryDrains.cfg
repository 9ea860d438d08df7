\* Liveness of the queue with one lost write or crash.
CONSTANTS
  w1 = w1  w2 = w2  e1 = e1  e2 = e2  u1 = u1  u2 = u2  k1 = k1  k2 = k2
  Webhooks = {w1, w2}
  Entries = {e1}
  Users = {u1, u2}
  Workers = {k1, k2}
  Owner <- OwnerEach
  OnSuccess <- DeleteNone
  Digest = {w1}
  Routes <- AllFeed
  Relay = {}
  DedupOnly = FALSE
  DigestMax = 2
  MaxAttempts = 1
  PoolSize = 2
  Faults = {"dbfail", "crash"}
  MaxFaults = 1
SPECIFICATION FairSpec
PROPERTIES QueueDrains
CHECK_DEADLOCK FALSE
