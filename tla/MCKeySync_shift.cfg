SPECIFICATION FullSpec
CONSTANTS
  Ids <- MCIds
  Countries <- MCCountries
  Words <- MCWords
  Label = "home"
  Renames = {}
  OldTables <- NewTables
  Geo <- MCGeo
  PageSize = 1
  Rank <- MCRank
  Tickers = {"ticker"}
  Posts = {}
  Replacers = {}
  MaxAttempts = 2
  MaxChanges = 1
  MaxFailures = 0

PROPERTIES OnlyAbsentDeleted
CHECK_DEADLOCK FALSE
