\* Four threads at the lock, two of which call with a timeout; three threads
\* that share a pool of two clients; two threads with transactions.
CONSTANTS
  t1 = t1  t2 = t2  t3 = t3
  Threads = {t1, t2, t3, t4}
  NoThread = NoThread
  PreferWriter = TRUE
  Timed = {t3, t4}
  Borrowers = {t1, t2, t3}
  Hurried = {t3}
  PoolSize = 2
  MaxBorrows = 5
  MaxBroken = 1
  Callers = {t1, t2}
  Pages = {p1}
  Workloads <- Transactional
  MaxTx = 2
  MaxInserts = 1
SPECIFICATION SharingFairSpec
INVARIANTS CountersAgree MutualExclusion NoLostWakeup ClientsAccountedFor
PROPERTIES ImplementsRWLockSpec NobodyStarves WaiterServed CallsReturn
