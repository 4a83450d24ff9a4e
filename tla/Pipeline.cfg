SPECIFICATION FairSpec
CONSTANTS
  Collectors <- TwoCollectors
  Inputs <- FewInputs
  MaxLines <- FewLines
  MaxRuns = 2
INVARIANTS
  TypeOK
  LinesAreAccountedFor
  RowsKeepLogOrder
  OnlyUnfinishedIsUncommitted
  ToolsAreGradedAlike
PROPERTIES
  LoneWritesSucceed
  EveryLineIsStored
CHECK_DEADLOCK FALSE
