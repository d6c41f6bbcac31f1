SPECIFICATION Spec
CONSTANTS
  Sources = {kev}
  Rank <- AnyRank
  Interval <- HourlyInterval
  Checkpointing = {kev}
  Threads = {t1, t2, t3}
  NoThread = NoThread
  NoSource = NoSource
  Redis = TRUE
  LockTTL = 3
  BackoffCap = 6
  MaxDoublings = 3
  CollectOnce = FALSE
  MaxRun = 2
  MaxManual = 1
  MaxItems = 2
  MaxFaults = 1
INVARIANTS TypeOK NoOverlap RememberedIsStored OpenRunsAccountedFor
PROPERTIES BackoffRespected ImplementsSourceLog
SYMMETRY ThreadSymmetry
