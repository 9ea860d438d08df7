\* A day of six ticks, a breaker at six errors; two editors, three writes and
\* two deliveries; all loads of the pool; two libraries and four files.
CONSTANTS
  e1 = e1  e2 = e2
  Day = 6
  Week = 12
  MinPoll = 1
  MaxPoll = 6
  AdaptiveMax = 2
  SilentAfter = 12
  SilentInterval = 4
  Threshold = 6
  Word = 1281024
  Plans <- MyPlans
  Rates = {1, 12}
  Lags = {0, 1}
  Loads <- MyLoads
  Pools = {0, 1, 5, 10, 30}
  Editors = {e1, e2}
  Logs = {l1, l2}
  Views <- MyViews
  MaxSaves = 3
  MaxAttempts = 2
  Shelves <- MyShelves
  Files <- MyFiles
  DefaultInterval = 60
  MinInterval = 5
  MaxInterval = 1440
  MaxRetention = 3650
  DetectType <- Types
  Topics = {"schedule", "advice", "webhook", "opml"}
  RestPlan <- Plan
  RestLoad <- Load
  RestView <- NoView
  RestShelf <- NoShelf
SPECIFICATION FairSpec
INVARIANTS  PanelSound HookSound FilesSound
PROPERTIES BackoffGrows OnlyTypedChanges AdviceSettles
CHECK_DEADLOCK FALSE
