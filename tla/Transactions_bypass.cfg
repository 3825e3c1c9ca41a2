CONSTANTS
  t1 = t1  t2 = t2  t3 = t3
  Callers = {t1, t2}
  Pages = {p1, p2}
  Workloads <- Together
  MaxTx = 1
  MaxInserts = 2
SPECIFICATION TxSpec
INVARIANT QuietPagesAcked
CHECK_DEADLOCK FALSE
