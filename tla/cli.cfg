SPECIFICATION FairSpec
CONSTANTS
  OptionLists <- MCOptionLists
  Lines <- MCLines
  Begins <- MCBegins
  BeginsName <- MCBeginsName
  Stations <- MCStations
  MaxTyped = 3
  MaxSessions = 2
  Losses = FALSE
  ShortInput = FALSE
  EarlyChalg = FALSE
CONSTRAINT Explored
CHECK_DEADLOCK FALSE
INVARIANT CommandsTrue
PROPERTY UserObeyed
