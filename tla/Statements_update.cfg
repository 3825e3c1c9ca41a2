\* UPDATE with a value that does not fit its column.
CONSTANTS
  NULL = NULL
  Rows <- MCRows
  NotNull = {1}
  Misfits <- MCMisfits
  odd = odd
  Indexes <- MCIndexes
  Primary = "pk"
  Conditions <- MCConditions
  Settings <- MCSettings
  RootCap = 2
  MaxSlots = 3
  MaxStatements = 3
SPECIFICATION StmtSpec
INVARIANT FailedUpdateKeepsRows
