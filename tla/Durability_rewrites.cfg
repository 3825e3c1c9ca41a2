\* One process whose transactions write a page twice.
CONSTANTS
  Pages = {1, 2}
  WithTx = TRUE
  WithAutocommit = FALSE
  Rewrites = TRUE
  PowerFails = "never"
  WritingSessions = 1
  MaxTx = 2
  MaxWrites = 3
  MaxRecords = 7
SPECIFICATION Spec
INVARIANT Recoverable
CHECK_DEADLOCK FALSE
