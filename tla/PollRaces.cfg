\* Two feeds and one worker; one feed, two workers and a manual refresh.
CONSTANTS
  f1 = f1  f2 = f2  t1 = t1  k1 = k1  k2 = k2  c1 = c1
  Feeds = {f1, f2}
  Types = {t1}
  TypeOf <- OneType
  Workers = {k1, k2}
  Clients = {c1}
  Threshold = 2
  Scenes <- PollScenes
SPECIFICATION FairSpec
INVARIANTS ClaimsRespected PollRecorded
PROPERTIES DueIsPolled
CHECK_DEADLOCK FALSE
