CONSTANTS
  t1 = t1  t2 = t2  t3 = t3
  Reserved = 4
  PageSize = 4096  SlotSize = 6  DataStart = 12
  MaxPages = 10
  Tables = {1, 2}  PkTables = {1}
  Lengths = {2500, 4079}
  Room = 1
  MaxRows = 2  MaxDdl = 4  MaxKills = 1
  Procs = {t1, t2}
  MaxFilePages = 7  MaxKilled = 1
  Fetchers = {t1, t2}
  PoolPages = {p1, p2, p3}
  Capacity = 1
  MaxWrites = 2  MaxFetches = 2
  Callers = {t1, t2, t3}
  Pages = {p1, p2}
  Workloads <- Separate
  MaxTx = 2
  MaxInserts = 2
SPECIFICATION EngineSpec
INVARIANTS CatalogSurvives OnePageOneOwner RowsSurviveKills PagesAccountedFor CacheCoherent
INVARIANTS QuietPagesAcked LogBracketed LocksGivenBack SelectsSeeCommitted
PROPERTIES HandedOutOnce
CHECK_DEADLOCK FALSE
