CONSTANTS
  a = a  b = b  d = d
  Callers = {a, b, d}
  ClientOf <- MCClientOf
  Programs <- MCPrograms
  MaxRetries = 1
  MaxConns = 3
SPECIFICATION NetFairSpec
INVARIANTS OwnAnswer WritesOnceAndStay TransactionsOwned
PROPERTIES OrphansEnd
CHECK_DEADLOCK FALSE
