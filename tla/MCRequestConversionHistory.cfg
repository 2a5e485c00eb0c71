SPECIFICATION ConversationSpec
CONSTANTS
  ClientTools <- MCClientTools
  Shapes <- MCShapesAnthropic
  UserContents <- MCUserContents
  ReasoningModels = {FALSE}
  CacheConfigs <- MCCacheConfigsOff
  FreeTurns = 0
  MaxTurns = 4
INVARIANTS HistoryKept
CHECK_DEADLOCK FALSE
