SPECIFICATION Spec
CONSTANTS
  Ids <- MCIds
  Countries <- MCCountries
  Words <- MCWords
  Label = "home"
  Renames <- HomeUS1
  OldTables <- MCOldTables
  Geo <- MCGeo
  PageSize = 1
  Rank <- MCRank
  Tickers = {"ticker"}
  Posts = {}
  Replacers = {}
  MaxAttempts = 2
  MaxChanges = 2
  MaxFailures = 1

PROPERTIES ErrorRecorded FreshNameUnused
CHECK_DEADLOCK FALSE
