SPECIFICATION Spec
CONSTANTS
  AssetIds = {a1, a2, a3}
  Products = {"os"}
  Versions = {1, 2}
  Cves = {c1}
  CveData <- UpTo
  States <- AllStates
  NoRow = NoRow
  Verdict <- UpToVerdict
  Candidate <- SameProduct
  MaxAssets = 1
  Maintained = {c1}
  Txs = {t1, t2}
  Unborn = Unborn
  Deleted = Deleted
  NoAsset = NoAsset
  NoCve = NoCve
  NoData = NoData
  MaxChanges = 3
  MaxFaults = 1
INVARIANTS TypeOK  NoOrphans InventoryBounded
SYMMETRY Symmetry
