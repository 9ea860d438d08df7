\* Two processes, two migrations and three starts; two problems and one
\* subscriber; two connections and two publishers; two overlapping saves.
CONSTANTS
  p1 = p1  p2 = p2  c1 = c1  c2 = c2  me = me  you = you
  Procs = {p1, p2}
  AProcs = {p1, p2}
  BProcs = {p1, p2}
  HubOf = p1
  Files = 2
  Empty = {}
  Starts <- AllStarts
  MaxStarts = 3
  MaxLost = 1
  MaxErr = 1
  Free = Free
  Items = {feed}
  Layout = Layout
  Total = 3
  Hooks = {h1}
  MaxChange = 3
  MaxAErr = 1
  NoState = NoState
  Clients = {c1, c2}
  Users = {me, you}
  Owner <- OwnerOf
  Pubs = {g1, g2}
  Events <- Published
  Channels = {"all"}
  Buffer = 1
  MaxPub = 2
  MaxSub = 1
  Saves = {s1, s2}
  Forms <- SomeForms
  Env <- OneEnv
  Rejected = {2}
  MaxSaves = 2
  Null = Null
  Scenes <- AllScenes
SPECIFICATION FairSpec
INVARIANTS StartsSafe AlertsFaithful HubSafe BridgesAgree
PROPERTIES OthersKept ServiceProgress
CHECK_DEADLOCK FALSE
