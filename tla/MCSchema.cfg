SPECIFICATION FairSpec
CONSTANTS
  Deployments = {"local", "prod", "render"}
  Legacy = {0, 2}
  MaxDeploys = 2
  MaxStops = 1
  MaxStamps = 1
INVARIANTS TypeOK RunningHasItsSchema MigrationsComeFirst
PROPERTY ReleaseRuns
CHECK_DEADLOCK FALSE
