SPECIFICATION Spec
CONSTANTS
  Ids <- MCIds
  Countries <- MCCountries
  Words <- MCWords
  Label = "home"
  Renames = {}
  OldTables <- NewTables
  Geo <- MCGeo
  PageSize = 3
  Rank <- MCRank
  Tickers = {"ticker"}
  Posts = {"post"}
  Replacers = {}
  MaxAttempts = 2
  MaxChanges = 1
  MaxFailures = 0

PROPERTIES DeletedHasLeft
CHECK_DEADLOCK FALSE
