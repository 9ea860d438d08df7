\* One entry, two webhooks, every kind of fault once.
CONSTANTS
  w1 = w1  w2 = w2  e1 = e1  e2 = e2  u1 = u1  u2 = u2  k1 = k1  k2 = k2
  Webhooks = {w1, w2}
  Entries = {e1}
  Users = {u1, u2}
  Workers = {k1, k2}
  Owner <- OwnerEach
  OnSuccess <- HashRead
  Digest = {}
  Routes <- Twice
  Relay = {}
  DedupOnly = FALSE
  DigestMax = 2
  MaxAttempts = 2
  PoolSize = 2
  Faults = {"dbfail", "crash", "retry", "toggle", "delete", "purge"}
  MaxFaults = 1
SPECIFICATION Spec
SYMMETRY WorkerSymmetry
INVARIANTS TypeOK OneAtATime FloodRespected 
 
CHECK_DEADLOCK FALSE
