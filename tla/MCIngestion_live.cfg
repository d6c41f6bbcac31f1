SPECIFICATION RecoveringSpec
CONSTANTS
  Sources = {kev}
  Rank <- AnyRank
  Interval <- HourlyInterval
  Checkpointing = {kev}
  Threads = {t1, t2, t3}
  NoThread = NoThread
  NoSource = NoSource
  Redis = TRUE
  LockTTL = 2
  BackoffCap = 3
  MaxDoublings = 2
  CollectOnce = FALSE
  MaxRun = 1
  MaxManual = 1
  MaxItems = 1
  MaxFaults = 1
PROPERTIES  EverythingArrives
