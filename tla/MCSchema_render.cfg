SPECIFICATION FairSpec
CONSTANTS
  Deployments = {"render"}
  Legacy = {0}
  MaxDeploys = 0
  MaxStops = 0
  MaxStamps = 0
PROPERTY ApiServes
CHECK_DEADLOCK FALSE
