SPECIFICATION Spec
CONSTANTS
  Sources = {kev}
  Rank <- AnyRank
  Interval <- HourlyInterval
  Checkpointing = {kev}
  Threads = {t1, t2, t3}
  NoThread = NoThread
  NoSource = NoSource
  Redis = TRUE
  LockTTL = 3
  BackoffCap = 6
  MaxDoublings = 3
  CollectOnce = FALSE
  MaxRun = 3
  MaxManual = 1
  MaxItems = 1
  MaxFaults = 1
INVARIANT NoOverlap
SYMMETRY ThreadSymmetry
