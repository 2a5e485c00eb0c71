SPECIFICATION ConversationSpec
CONSTANTS
  ClientTools <- MCClientTools
  Shapes <- MCShapes
  UserContents <- MCUserContents
  ReasoningModels = {TRUE, FALSE}
  CacheConfigs <- MCCacheConfigs
  FreeTurns = 1
  MaxTurns = 3
INVARIANTS CallsAnsweredNext HistoryKeptWhenFollowedUp CallsAsDeclared MarksReachTheEnd
PROPERTIES PrefixRepeated
\* A conversation ends after MaxTurns requests.
CHECK_DEADLOCK FALSE
