SPECIFICATION MCFairSpec
CONSTANTS
  Ids <- MCIds
  Countries <- MCCountries
  Words <- MCWords
  Label = "home"
  Renames <- MyNode
  OldTables <- MCOldTables
  Geo <- MCGeo
  PageSize = 1
  Rank <- MCRank
  Tickers = {"ticker"}
  Posts = {}
  Replacers = {"handler"}
  MaxAttempts = 2
  MaxChanges = 1
  MaxFailures = 1
INVARIANTS NamesDistinct
PROPERTIES SlotReclaimed DeletionsExplained Mirrored ReplaceEnds
CHECK_DEADLOCK FALSE
