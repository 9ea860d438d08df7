\* Two entries, one of a relay feed, over a digest webhook and a plain one.
CONSTANTS
  w1 = w1  w2 = w2  e1 = e1  e2 = e2  u1 = u1  u2 = u2  k1 = k1  k2 = k2
  Webhooks = {w1, w2}
  Entries = {e1, e2}
  Users = {u1, u2}
  Workers = {k1, k2}
  Owner <- OwnerEach
  OnSuccess <- DeleteNone
  Digest = {w1}
  Routes <- Uneven
  Relay = {e1}
  DedupOnly = FALSE
  DigestMax = 2
  MaxAttempts = 1
  PoolSize = 2
  Faults = {}
  MaxFaults = 0
SPECIFICATION Spec
SYMMETRY WorkerSymmetry
INVARIANTS EntriesAccounted
CHECK_DEADLOCK FALSE
