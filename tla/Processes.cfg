CONSTANTS
  Writers = {t1, t2}
  Committers = {t1}
  Readers = {t2, t3}
  Pages = {1, 2}
  MaxCalls = 3
SPECIFICATION ProcFairSpec
PROPERTIES SharedFilesKept CallsReturn
CHECK_DEADLOCK FALSE
