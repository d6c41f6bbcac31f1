SPECIFICATION Spec
CONSTANTS
  e1 = e1
  None = None
  Articles <- MCArticles
  Known <- MCKnown
  Exploits = {e1}
  Cvss = 75
  MaxFeeds = 2
  Recent = FALSE
INVARIANTS TypeOK MarkedMeansLinked  
PROPERTIES DictionaryNeverGoesBack  ScoresSettle
