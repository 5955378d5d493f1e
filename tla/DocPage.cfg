CONSTANTS
  searchData <- MCData
  indexSections <- MCSections
  searchLabel <- MCLabel
  Characters = {"P", "S", " "}
  Typed <- MCTyped
  Tree <- MCTree
  MaxTimers = 2
  Environments = {{"mouse", "race"}, {"hasty", "mouse", "race"}, {"mouse", "pointer"},
                  {"race", "keypress"}, {"tree"}}
SPECIFICATION PageSpec
INVARIANTS TypeOK InactiveIsClosed ResultsAreCurrent SearchNotLost FocusIsDisplayed TreeConsistent
PROPERTIES NavFollowsDisplay
CHECK_DEADLOCK FALSE
