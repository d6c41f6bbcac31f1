SPECIFICATION Spec
CONSTANTS
  b7 = b7
  comma = comma
  Unreadable = {b7, comma}
  Comma = comma
  NoRow = NoRow
  Nothing = Nothing
  Assets <- MCAssets
  KevEntries <- MCKevEntries
  NvdRecords <- MCNvdRecords
  MaxChanges = 1
INVARIANTS SafeIsTrue
