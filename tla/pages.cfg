CONSTANTS
  Assets <- FourAssets
  RowId <- RowOrder
  PromptOf <- Prompts
  InitTexts <- QueryHits
  PageSize = 1
  CandidateLimit = 3
  CountLimit = 3
  Slack = 2
  Overscan = 2
  InitTimes <- Times
  AsFloat <- Doubles
  MaxRows = 6
  Budget = 3
SPECIFICATION PSpec
INVARIANTS DeliveredOnce NothingOmitted CountAgrees ReceivedInOrder
CHECK_DEADLOCK FALSE
