SPECIFICATION Spec
CONSTANTS
  w1 = w1  w2 = w2  m1 = m1
  f1 = f1  f2 = f2
  c1 = c1  c2 = c2
  x1 = x1  x2 = x2
  Feeds = {f1, f2}
  Channels = {c1, c2}
  Workers = {w1, w2}
  Manuals = {m1}
  Fetchers = {w1, w2, m1}
  Borrowers = {w1, w2, m1}
  FeedOf <- MCFeedOf
  Proxies = {x1, x2}
  FailureCap = 1
  SlotsMax = 2
  PageSize = 1
  MaxPages = 2
  IncPages = 2
  Limit = 2
  SeenKeep = 3
  MaxTopics = 1
  Retry = 1
  HostLimit = 2
  Scenes <- StoreScenes
INVARIANT CursorCovered
