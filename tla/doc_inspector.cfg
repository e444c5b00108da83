CONSTANTS
  Assets <- FourAssets
  RowId <- RowOrder
  PromptOf <- Prompts
  InitTexts <- QueryHits
  PageSize = 1
  CandidateLimit = 3
  CountLimit = 3
  Slack = 2
  Overscan = 2
  InitTimes <- OddTimes
  AsFloat <- Doubles
  MaxRows = 6
  Budget = 3
SPECIFICATION PSpec
INVARIANTS InspectorRowsOnce
CHECK_DEADLOCK FALSE
