SPECIFICATION Spec
CONSTANTS
  c1 = c1
  c2 = c2
  None = None
  MaxRetries = 1
  Cves <- MCCves
  Bodies <- MCBodies
  Chunk = 1
  MaxRedeploys = 1
  Place <- MCPlace
  Recent = {c2}
  Wanted = {c1}
  PageSize = 1
  MaxWindow = 2
  Repos <- MCRepos
  MaxTime = 4
INVARIANTS TypeOK RememberedIsImported ScoresFollowLinks CursorCovers 
PROPERTIES EventuallyImported
