CONSTANTS
  Writers = {t1}
  Committers = {}
  Readers = {t3}
  Pages = {1, 2}
  MaxCalls = 1
SPECIFICATION ProcSpec
INVARIANTS ReadsWholeStatements
CHECK_DEADLOCK FALSE
