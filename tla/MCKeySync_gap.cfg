SPECIFICATION Spec
CONSTANTS
  Ids <- MCIds
  Countries <- MCCountries
  Words <- MCWords
  Label = "home"
  Renames = {}
  OldTables <- MCOldTables
  Geo <- MCGeoUS
  PageSize = 1
  Rank <- MCRank
  Tickers = {"ticker"}
  Posts = {}
  Replacers = {}
  MaxAttempts = 2
  MaxChanges = 4
  MaxFailures = 0

PROPERTIES NameStableAcrossReplace
CHECK_DEADLOCK FALSE
