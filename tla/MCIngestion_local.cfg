SPECIFICATION Spec
CONSTANTS
  Sources = {kev}
  Rank <- AnyRank
  Interval <- HourlyInterval
  Checkpointing = {kev}
  Threads = {t1, t2, t3}
  NoThread = NoThread
  NoSource = NoSource
  Redis = FALSE
  LockTTL = 1
  BackoffCap = 2
  MaxDoublings = 1
  CollectOnce = TRUE
  MaxRun = 1
  MaxManual = 0
  MaxItems = 1
  MaxFaults = 1
INVARIANTS NoOverlap RememberedIsStored
SYMMETRY ThreadSymmetry
