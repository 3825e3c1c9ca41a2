------------------------- MODULE TxIsolation_proofs -------------------------
(***************************************************************************)
(* The steps of transactions where no thread works outside transactions    *)
(* while others open them: what the pages and the log show meanwhile.      *)
(***************************************************************************)
EXTENDS TxSteps_proofs

\* Threads work in transactions, or none does.
Apart(l) == l.tx = {} \/ (l.auto = {} /\ l.read = {})

\* Statements hold what they need: their transaction, or the lock.
Guarded(t) ==
  /\ reached[t] \in Inserting => loc[t].tx # 0 \/ loc[t].lock = "write"
  /\ reached[t] = "select" => loc[t].tx # 0 \/ loc[t].lock = "read"
  /\ load.tx = {} => /\ loc[t].tx = 0 /\ depth[t] = 0
                    /\ reached[t] \notin Begins \cup {"activate", "reset"} \cup Ending
  /\ load.tx # {} => loc[t].lock = "none" /\ reached[t] \notin {"lockW", "lockR"}

\* A BEGIN in the log has its end there too, or its transaction is open.
WalRecs ==
  {BeginRec(i) : i \in Nat} \cup {CommitRec(i) : i \in Nat} \cup {RollbackRec(i) : i \in Nat}
    \cup {PageRec(i, p, b, a) : i \in Nat, p \in Pages, b \in SUBSET Nat, a \in SUBSET Nat}
Ended(i) == \E k \in (i + 1)..Len(wal) : wal[k].type \in {"COMMIT", "ROLLBACK"} /\ wal[k].tx = wal[i].tx
Open(t, x) == \/ reached[t] \in {"activate", "reset"} /\ loc[t].id = x
              \/ loc[t].tx # 0 /\ loc[t].tx = x /\ reached[t] \notin Ending
BeginsOK ==
  /\ wal \in Seq(WalRecs)
  /\ \A i \in 1..Len(wal) : wal[i].type = "BEGIN" =>
       load.tx # {} /\ (Ended(i) \/ \E t \in Callers : Open(t, wal[i].tx))

\* What the pages hold for a thread: the acknowledged rows and its own.
Base(t) == acked \cup loc[t].mine

\* Undoing the images in s, the last one first, leaves every page with acked.
Undoes(s) ==
  /\ \A k \in DOMAIN s : (\A j \in 1..(k - 1) : s[j][1] # s[k][1]) => s[k][2] = acked
  /\ \A p \in Pages : (\A k \in DOMAIN s : s[k][1] # p) => pages[p] = acked

DataOK(t) ==
  /\ loc[t].tx = 0 => loc[t].mine = {}
  /\ reached[t] = "lockW" => loc[t].todo = Pages
  /\ reached[t] = "insert" =>
       \A p \in Pages : pages[p] = IF p \in loc[t].todo THEN Base(t) ELSE Base(t) \cup {loc[t].row}
  /\ reached[t] \in {"log", "write"} =>
       /\ loc[t].img = Base(t) /\ loc[t].page \notin loc[t].todo
       /\ \A p \in Pages : pages[p] = IF p \in loc[t].todo \cup {loc[t].page}
                                        THEN Base(t) ELSE Base(t) \cup {loc[t].row}
  /\ reached[t] = "write" /\ loc[t].tx # 0 => \E k \in DOMAIN logged : logged[k][1] = loc[t].page
  /\ reached[t] = "select" => \A p \in Pages : pages[p] = Base(t)
  /\ \A p \in DOMAIN loc[t].seen : reached[t] = "select" /\ loc[t].seen[p] = Base(t)
  /\ loc[t].tx # 0 /\ reached[t] \notin Inserting \cup {"undo"} => \A p \in Pages : pages[p] = Base(t)
  /\ loc[t].tx # 0 /\ reached[t] \notin Ending => Undoes(logged)
  /\ reached[t] = "undo" => Undoes(loc[t].undo)
  /\ reached[t] = "locked" /\ active = 0 => \A p \in Pages : pages[p] = acked
  /\ reached[t] \in {"activate", "reset"} => \A p \in Pages : pages[p] = acked

PagesOK == holdW = {} => \A p \in Pages : pages[p] = acked

ApartIInv == PagesOK /\ BeginsOK /\ Bracketed /\ \A t \in Callers : Guarded(t) /\ DataOK(t)
-----------------------------------------------------------------------------
\* Where threads work apart, no transaction is active while statements run
\* outside them, and none runs outside while transactions do.
LEMMA ApartLoads ==
  ASSUME LockIInv, ApartIInv, \A l \in Workloads : Apart(l)
  PROVE  /\ load.tx = {} => active = 0
         /\ load.tx # {} => load.auto = {} /\ load.read = {}
<1>1. load \in Workloads /\ ActiveOwned /\ \A t \in Callers : Guarded(t) /\ HoldsOK(t) /\ depth[t] \in Nat
  BY DEF LockIInv, ApartIInv, TxTypes
<1>2. ASSUME load.tx = {}, active # 0 PROVE FALSE
  <2>1. PICK t \in Callers : Owns(t)
    BY <1>1, <1>2 DEF ActiveOwned
  <2>2. loc[t].tx = 0 /\ depth[t] = 0 /\ reached[t] \notin {"locked", "activate", "reset"}
    BY <1>1, <1>2 DEF Guarded, Begins
  <2>3. ~Left(t)
    BY <2>2 DEF Left, Level
  <2> QED
    BY <1>2, <2>1, <2>2, <2>3 DEF Owns
<1> QED
  BY <1>1, <1>2 DEF Apart

\* A thread that writes, or ends its transaction, has the write lock.
LEMMA WriterHolds ==
  ASSUME LockIInv, ApartIInv, NEW t \in Callers, reached[t] \in Inserting \cup Ending
  PROVE  depth[t] > 0 \/ loc[t].lock = "write"
<1>1. Guarded(t)
  BY DEF ApartIInv
<1> QED
  BY <1>1, OwnerHolds DEF Guarded

\* A thread that has no transaction and no lock depends on no page.
LEMMA OthersData ==
  ASSUME LockIInv, ApartIInv, NEW t \in Callers, Frame(t),
         \/ depth[t] > 0 \/ loc[t].lock = "write"
         \/ UNCHANGED <<pages, acked, logged, active>>,
         NEW u \in Callers, u # t
  PROVE  Guarded(u)' /\ DataOK(u)'
<1>0. /\ Guarded(u) /\ DataOK(u) /\ load' = load /\ depth'[u] = depth[u]
      /\ loc'[u] = loc[u] /\ reached'[u] = reached[u]
  BY DEF ApartIInv, Frame
<1>1. Guarded(u)'
  BY <1>0 DEF Guarded
<1>2. CASE UNCHANGED <<pages, acked, logged, active>>
  <2>1. Base(u)' = Base(u) /\ (Undoes(logged)' <=> Undoes(logged)) /\ (Undoes(loc[u].undo)' <=> Undoes(loc[u].undo))
    BY <1>0, <1>2 DEF Base, Undoes
  <2> QED
    BY Zenon, <1>0, <1>1, <1>2, <2>1 DEF DataOK
<1>3. CASE depth[t] > 0 \/ loc[t].lock = "write"
  <2>1. /\ loc[u].lock = "none" /\ loc[u].tx = 0
        /\ reached[u] \notin {"locked", "activate", "reset"} \cup Ending
    BY <1>3, Alone
  <2>2. reached[u] \notin Inserting \cup {"select"}
    BY <1>0, <2>1 DEF Guarded
  <2>3. loc[u].mine = {} /\ DOMAIN loc[u].seen = {}
    BY <1>0, <2>1, <2>2 DEF DataOK
  <2> QED
    BY <1>0, <1>1, <2>1, <2>2, <2>3 DEF DataOK, Inserting, Ending
<1> QED
  BY <1>2, <1>3

\* Neither does a thread that has just returned with neither.
LEMMA DataFree ==
  ASSUME NEW t \in Callers, reached'[t] \in {"idle", "lockW", "lockR"} \cup (Begins \ {"locked"}),
         loc'[t].tx = 0, loc'[t].mine = {}, DOMAIN loc'[t].seen = {},
         reached'[t] = "lockW" => loc'[t].todo = Pages
  PROVE  DataOK(t)'
  BY DEF DataOK, Inserting, Ending, Begins

\* begin() keeps what the thread has until it has the lock.
LEMMA DataKept ==
  ASSUME NEW t \in Callers, DataOK(t), UNCHANGED <<pages, acked, logged>>,
         reached[t] \in {"idle"} \cup Begins, reached'[t] \in {"idle"} \cup (Begins \ {"locked"}),
         loc'[t].tx = loc[t].tx, loc'[t].mine = loc[t].mine,
         DOMAIN loc'[t].seen = {} \/ loc'[t].seen = loc[t].seen
  PROVE  DataOK(t)'
<1>1. DOMAIN loc'[t].seen = {}
  BY DEF DataOK, Begins
<1>2. Base(t)' = Base(t) /\ (Undoes(logged)' <=> Undoes(logged))
  BY DEF Base, Undoes
<1> QED
  BY <1>1, <1>2 DEF DataOK, Begins, Inserting, Ending


\* begin() finds the pages as the last transaction left them.
LEMMA BeginData ==
  ASSUME LockIInv, ApartIInv, NEW t \in Callers, TxBegin(t), ~lockLost'
  PROVE  DataOK(t)'
<1>0. /\ Typed /\ GraphOK /\ HoldsOK(t) /\ LocksOK /\ PagesOK /\ DataOK(t)
      /\ depth[t] \in Nat
  BY InvTyped DEF LockIInv, ApartIInv, Typed
<1>1. CASE BeginReserve(t) \/ BeginTest(t) \/ BeginAddWait(t) \/ BeginDetect(t)
  <2>1. /\ reached[t] \in {"idle"} \cup Begins /\ reached'[t] \in Begins \ {"locked"}
        /\ UNCHANGED <<pages, acked, logged>>
        /\ loc'[t].tx = loc[t].tx /\ loc'[t].mine = loc[t].mine /\ loc'[t].seen = loc[t].seen
    BY <1>0, <1>1, ReserveDoes, TestDoes, AddWaitDoes, DetectDoes DEF Keeps, Begins
  <2> QED
    BY <1>0, <2>1, DataKept
<1>2. CASE BeginReadHolder(t)
  <2>1. /\ reached[t] = "holder" /\ reached'[t] \in {"idle", "wait"}
        /\ UNCHANGED <<pages, acked, logged>>
        /\ loc'[t].tx = loc[t].tx /\ loc'[t].mine = loc[t].mine
        /\ DOMAIN loc'[t].seen = {} \/ loc'[t].seen = loc[t].seen
    BY <1>0, <1>2, ReadHolderDoes DEF Keeps, Back
  <2> QED
    BY <1>0, <2>1, DataKept DEF Begins
<1>3. CASE BeginRemoveWait(t) \/ BeginRaises(t) \/ BeginGuard(t) \/ BeginNested(t)
  <2>1. /\ reached[t] \in Begins /\ reached'[t] \in {"idle", "lock", "create", "acquire"}
        /\ UNCHANGED <<pages, acked, logged>>
        /\ loc'[t].tx = loc[t].tx /\ loc'[t].mine = loc[t].mine
        /\ DOMAIN loc'[t].seen = {} \/ loc'[t].seen = loc[t].seen
    BY <1>0, <1>3, RemoveWaitDoes, BeginRaisesDoes, GuardDoes, NestedDoes DEF Begins, Back
  <2> QED
    BY <1>0, <2>1, DataKept DEF Begins
<1>4. CASE BeginLock(t)
  <2>1. /\ reached[t] = "acquire" /\ reached'[t] = "locked" /\ UNCHANGED <<loc, pages, acked, logged, active>>
        /\ depth[t] > 0 \/ holdW = {}
    BY <1>0, <1>4, LockDoes
  <2>2. active = 0 => \A p \in Pages : pages[p] = acked
    <3>1. CASE holdW = {}
      BY <1>0, <3>1 DEF PagesOK
    <3>2. CASE depth[t] > 0
      BY <1>0, <2>1, <3>2 DEF HoldsOK, Level
    <3> QED
      BY <2>1, <3>1, <3>2
  <2>3. Base(t)' = Base(t) /\ (Undoes(logged)' <=> Undoes(logged))
    BY <2>1 DEF Base, Undoes
  <2> QED
    BY <1>0, <2>1, <2>2, <2>3 DEF DataOK, Inserting, Ending
<1>5. CASE BeginLog(t) \/ BeginActivate(t)
  <2>1. /\ \/ reached[t] = "locked" /\ active = 0
           \/ reached[t] = "activate"
        /\ reached'[t] \in {"activate", "reset"} /\ UNCHANGED <<pages, acked>>
        /\ loc'[t].tx = loc[t].tx /\ loc'[t].mine = loc[t].mine /\ loc'[t].seen = loc[t].seen
    BY <1>0, <1>5, BeginLogDoes, ActivateDoes DEF Keeps
  <2>2. (\A p \in Pages : pages[p] = acked) /\ DOMAIN loc[t].seen = {}
    BY <1>0, <2>1 DEF DataOK
  <2>3. loc[t].tx = 0 /\ loc[t].mine = {}
    BY <1>0, <2>1 DEF DataOK, HoldsOK
  <2> QED
    BY <2>1, <2>2, <2>3 DEF DataOK, Inserting, Ending
<1>6. CASE BeginReset(t)
  <2>1. /\ reached[t] = "reset" /\ reached'[t] = "idle" /\ UNCHANGED <<pages, acked>> /\ logged' = <<>>
        /\ loc'[t].mine = {} /\ DOMAIN loc'[t].seen = {}
    BY <1>0, <1>6, ResetDoes DEF Back
  <2>2. \A p \in Pages : pages'[p] = acked'
    BY <1>0, <2>1 DEF DataOK
  <2>3. Base(t)' = acked' /\ Undoes(logged)'
    BY <2>1, <2>2 DEF Base, Undoes
  <2> QED
    BY <2>1, <2>2, <2>3 DEF DataOK, Inserting, Ending
<1> QED
  BY <1>1, <1>2, <1>3, <1>4, <1>5, <1>6, LockKept DEF TxBegin, BeginGuard

\* The image that log_page_write keeps undoes what the images before it leave.
LEMMA UndoesMore ==
  ASSUME logged \in Seq(Images), NEW p \in Pages, NEW b, Undoes(logged), UNCHANGED <<pages, acked>>,
         b = pages[p], logged' = Append(logged, <<p, b>>), <<p, b>> \in Images
  PROVE  Undoes(logged)' /\ \E k \in DOMAIN logged' : logged'[k][1] = p
<1> DEFINE n == Len(logged)
<1>1. /\ n \in Nat /\ DOMAIN logged = 1..n /\ DOMAIN logged' = 1..(n + 1)
      /\ logged'[n + 1] = <<p, b>> /\ \A k \in 1..n : logged'[k] = logged[k]
  OBVIOUS
<1>2. \A k \in 1..(n + 1) : k = n + 1 \/ k \in 1..n
  BY <1>1
<1> HIDE DEF n
<1>3. ASSUME NEW k \in DOMAIN logged', \A j \in 1..(k - 1) : logged'[j][1] # logged'[k][1]
      PROVE  logged'[k][2] = acked
  <2>1. CASE k = n + 1
    <3>1. \A j \in DOMAIN logged : logged[j][1] # p
      BY <1>1, <1>3, <2>1
    <3> QED
      BY <1>1, <2>1, <3>1 DEF Undoes
  <2>2. CASE k \in 1..n
    <3>1. \A j \in 1..(k - 1) : logged[j][1] # logged[k][1]
      BY <1>1, <1>3, <2>2
    <3> QED
      BY <1>1, <2>2, <3>1 DEF Undoes
  <2> QED
    BY <1>1, <1>2, <1>3, <2>1, <2>2
<1>4. ASSUME NEW q \in Pages, \A k \in DOMAIN logged' : logged'[k][1] # q PROVE pages[q] = acked
  <2>1. \A k \in DOMAIN logged : logged[k][1] # q
    BY <1>1, <1>4
  <2> QED
    BY <2>1 DEF Undoes
<1>5. \E k \in DOMAIN logged' : logged'[k][1] = p
  <2>1. n + 1 \in DOMAIN logged' /\ logged'[n + 1][1] = p
    BY <1>1
  <2> QED
    BY <2>1
<1> QED
  BY <1>3, <1>4, <1>5 DEF Undoes


\* A statement sees the acknowledged rows and its transaction's, and adds one.
LEMMA StatementData ==
  ASSUME LockIInv, ApartIInv, \A l \in Workloads : Apart(l), NEW t \in Callers, TxStatement(t)
  PROVE  DataOK(t)'
<1>0. /\ Typed /\ HoldsOK(t) /\ LocalsOK(t) /\ LocksOK /\ PagesOK /\ DataOK(t) /\ Guarded(t)
      /\ logged \in Seq(Images) /\ pages \in [Pages -> SUBSET Nat]
  BY InvTyped DEF LockIInv, ApartIInv, Typed
<1>a. ASSUME reached[t] = "idle", loc[t].tx # 0 \/ t \in load.auto \cup load.read
      PROVE  /\ active # 0 <=> loc[t].tx # 0
             /\ DOMAIN loc[t].seen = {} /\ (loc[t].tx = 0 => loc[t].mine = {})
             /\ loc[t].tx # 0 => (\A p \in Pages : pages[p] = Base(t)) /\ Undoes(logged)
  <2>1. active # 0 <=> loc[t].tx # 0
    BY <1>0, <1>a, ApartLoads DEF HoldsOK
  <2> QED
    BY <1>0, <1>a, <2>1 DEF DataOK, Inserting, Ending
<1>1. CASE ExecuteInsert(t)
  <2>1. /\ reached[t] = "idle" /\ reached'[t] = IF active # 0 THEN "insert" ELSE "lockW"
        /\ loc[t].tx # 0 \/ t \in load.auto
        /\ loc'[t].tx = loc[t].tx /\ loc'[t].mine = loc[t].mine /\ loc'[t].seen = loc[t].seen
        /\ loc'[t].todo = Pages /\ UNCHANGED <<pages, acked, logged>>
    BY <1>0, <1>1, ExecuteInsertDoes DEF Keeps
  <2>2. Base(t)' = Base(t) /\ (Undoes(logged)' <=> Undoes(logged))
    BY <2>1 DEF Base, Undoes
  <2>3. CASE loc[t].tx = 0
    BY <1>a, <2>1, <2>3, DataFree
  <2>4. CASE loc[t].tx # 0
    BY <1>a, <2>1, <2>2, <2>4 DEF DataOK, Inserting, Ending
  <2> QED
    BY <2>3, <2>4
<1>2. CASE ExecuteSelect(t)
  <2>1. /\ reached[t] = "idle" /\ reached'[t] = IF active # 0 THEN "select" ELSE "lockR"
        /\ loc[t].tx # 0 \/ t \in load.read
        /\ loc'[t].tx = loc[t].tx /\ loc'[t].mine = loc[t].mine /\ loc'[t].seen = loc[t].seen
        /\ UNCHANGED <<pages, acked, logged>>
    BY <1>0, <1>2, ExecuteSelectDoes DEF Keeps
  <2>2. Base(t)' = Base(t) /\ (Undoes(logged)' <=> Undoes(logged))
    BY <2>1 DEF Base, Undoes
  <2>3. CASE loc[t].tx = 0
    BY <1>a, <2>1, <2>3, DataFree
  <2>4. CASE loc[t].tx # 0
    BY <1>a, <2>1, <2>2, <2>4 DEF DataOK, Inserting, Ending
  <2> QED
    BY <2>3, <2>4

<1>3. CASE LockStatement(t)
  <2>1. /\ holdW = {} /\ loc'[t].tx = loc[t].tx /\ loc'[t].mine = loc[t].mine
        /\ loc'[t].seen = loc[t].seen /\ UNCHANGED <<pages, acked>>
        /\ loc'[t].todo = loc[t].todo
        /\ \/ reached[t] = "lockW" /\ reached'[t] = "insert"
           \/ reached[t] = "lockR" /\ reached'[t] = "select"
    BY SMTT(20), Z3T(20), <1>0, <1>3, LockStatementDoes DEF KeepsWork
  <2>2. loc[t].tx = 0 /\ loc[t].mine = {} /\ DOMAIN loc[t].seen = {}
        /\ (reached[t] = "lockW" => loc[t].todo = Pages)
    BY <1>0, <2>1 DEF DataOK, HoldsOK
  <2>3. Base(t)' = acked /\ \A p \in Pages : pages'[p] = acked
    BY <1>0, <2>1, <2>2 DEF Base, PagesOK
  <2> QED
    BY <2>1, <2>2, <2>3 DEF DataOK, Inserting, Ending
<1>4. ASSUME NEW p \in Pages, ReadPage(t, p) PROVE DataOK(t)'
  <2>1. /\ reached[t] = "insert" /\ reached'[t] = "log" /\ UNCHANGED <<pages, acked, logged>>
        /\ loc'[t].tx = loc[t].tx /\ loc'[t].mine = loc[t].mine /\ loc'[t].seen = loc[t].seen
        /\ p \in loc[t].todo /\ loc'[t].todo = loc[t].todo \ {p}
        /\ loc'[t].page = p /\ loc'[t].img = pages[p] /\ loc'[t].row = loc[t].row
    BY SMTT(20), Z3T(20), <1>0, <1>4, ReadPageDoes DEF Keeps
  <2>2. Base(t)' = Base(t) /\ (Undoes(logged)' <=> Undoes(logged))
    BY <2>1 DEF Base, Undoes
  <2>3. /\ \A q \in Pages : pages[q] = IF q \in loc[t].todo THEN Base(t) ELSE Base(t) \cup {loc[t].row}
        /\ DOMAIN loc[t].seen = {} /\ (loc[t].tx = 0 => loc[t].mine = {})
        /\ loc[t].tx # 0 => Undoes(logged)
    BY SMTT(20), Z3T(20), <1>0, <2>1 DEF DataOK, Ending
  <2> QED
    BY SMTT(20), Z3T(20), <2>1, <2>2, <2>3 DEF DataOK, Inserting, Ending
<1>5. CASE LogPage(t)
  <2>1. /\ reached[t] = "log" /\ reached'[t] = "write" /\ UNCHANGED <<loc, pages, acked>>
        /\ logged' = Append(logged, <<loc[t].page, pages[loc[t].page]>>)
    BY Zenon, <1>0, <1>5, LogPageDoes
  <2>2. Base(t)' = Base(t)
    BY <2>1 DEF Base
  <2>3. /\ loc[t].img = Base(t) /\ loc[t].page \notin loc[t].todo
        /\ \A q \in Pages : pages[q] = IF q \in loc[t].todo \cup {loc[t].page}
                                         THEN Base(t) ELSE Base(t) \cup {loc[t].row}
        /\ DOMAIN loc[t].seen = {} /\ (loc[t].tx = 0 => loc[t].mine = {})
        /\ loc[t].tx # 0 => Undoes(logged)
    BY <1>0, <2>1 DEF DataOK, Ending
  <2>4. loc[t].page \in Pages /\ <<loc[t].page, pages[loc[t].page]>> \in Images
    BY <1>0, <2>1 DEF LocalsOK, Images
  <2>5. loc[t].tx # 0 => Undoes(logged)' /\ \E k \in DOMAIN logged' : logged'[k][1] = loc[t].page
    BY SMTT(20), Z3T(20), <1>0, <2>1, <2>3, <2>4, UndoesMore
  <2> QED
    BY Zenon, <2>1, <2>2, <2>3, <2>5 DEF DataOK, Inserting, Ending
<1>6. CASE TxWritePage(t)
  <2>1. /\ reached[t] = "write" /\ reached'[t] = "insert" /\ UNCHANGED <<loc, logged, acked>>
        /\ pages' = [pages EXCEPT ![loc[t].page] = loc[t].img \cup {loc[t].row}]
    BY <1>0, <1>6, WritePageDoes
  <2>2. Base(t)' = Base(t)
    BY SMTT(20), Z3T(20), <2>1 DEF Base
  <2>3. /\ loc[t].img = Base(t) /\ loc[t].page \notin loc[t].todo
        /\ \A q \in Pages : pages[q] = IF q \in loc[t].todo \cup {loc[t].page}
                                         THEN Base(t) ELSE Base(t) \cup {loc[t].row}
        /\ DOMAIN loc[t].seen = {} /\ (loc[t].tx = 0 => loc[t].mine = {})
        /\ loc[t].tx # 0 => Undoes(logged) /\ \E k \in DOMAIN logged : logged[k][1] = loc[t].page
    BY <1>0, <2>1 DEF DataOK, Ending
  <2>4. /\ \A q \in Pages : pages'[q] = IF q = loc[t].page THEN Base(t) \cup {loc[t].row} ELSE pages[q]
    BY SMTT(20), Z3T(20), <1>0, <2>1, <2>3
  <2>5. \A q \in Pages : pages'[q] = IF q \in loc[t].todo THEN Base(t) ELSE Base(t) \cup {loc[t].row}
    BY SMTT(20), Z3T(20), <2>3, <2>4
  <2>6. loc[t].tx # 0 => Undoes(logged)'
    BY <2>1, <2>3, <2>4 DEF Undoes
  <2> QED
    BY SMTT(20), Z3T(20), <2>1, <2>2, <2>3, <2>5, <2>6 DEF DataOK, Inserting, Ending
<1>7. ASSUME NEW p \in Pages, ScanPage(t, p) PROVE DataOK(t)'
  <2>1. /\ reached[t] = "select" /\ reached'[t] = "select" /\ UNCHANGED <<pages, acked, logged>>
        /\ loc'[t].tx = loc[t].tx /\ loc'[t].mine = loc[t].mine
        /\ \A q \in DOMAIN loc'[t].seen : \/ q = p /\ loc'[t].seen[q] = pages[p]
                                          \/ q \in DOMAIN loc[t].seen /\ loc'[t].seen[q] = loc[t].seen[q]
    BY SMTT(20), Z3T(20), <1>0, <1>7, ScanPageDoes
  <2>2. Base(t)' = Base(t) /\ (Undoes(logged)' <=> Undoes(logged))
    BY SMTT(20), Z3T(20), <2>1 DEF Base, Undoes
  <2>3. /\ \A q \in Pages : pages[q] = Base(t)
        /\ \A q \in DOMAIN loc[t].seen : loc[t].seen[q] = Base(t)
        /\ loc[t].tx = 0 => loc[t].mine = {}
        /\ loc[t].tx # 0 => Undoes(logged)
    BY SMTT(20), Z3T(20), <1>0, <2>1 DEF DataOK, Ending
  <2>4. \A q \in DOMAIN loc'[t].seen : loc'[t].seen[q] = Base(t)
    BY SMTT(20), Z3T(20), <2>1, <2>3
  <2> QED
    BY <2>1, <2>2, <2>3, <2>4 DEF DataOK, Inserting, Ending
<1>8. CASE FinishInsert(t)
  <2>1. /\ reached[t] = "insert" /\ loc[t].todo = {} /\ reached'[t] = "idle"
        /\ DOMAIN loc'[t].seen = {} /\ UNCHANGED <<pages, logged>>
        /\ \/ loc[t].tx = 0 /\ loc'[t].tx = 0 /\ loc'[t].mine = {}
           \/ /\ loc[t].tx # 0 /\ loc'[t].tx = loc[t].tx /\ loc'[t].mine = loc[t].mine \cup {loc[t].row}
              /\ UNCHANGED acked
    BY SMTT(20), Z3T(20), <1>0, <1>8, FinishInsertDoes DEF Back
  <2>2. CASE loc[t].tx = 0
    BY SMTT(20), Z3T(20), <2>1, <2>2, DataFree
  <2>3. CASE loc[t].tx # 0
    <3>1. Base(t)' = Base(t) \cup {loc[t].row} /\ (Undoes(logged)' <=> Undoes(logged))
      BY SMTT(20), Z3T(20), <2>1, <2>3 DEF Base, Undoes
    <3>2. (\A q \in Pages : pages[q] = Base(t) \cup {loc[t].row}) /\ Undoes(logged)
      BY SMTT(20), Z3T(20), <1>0, <2>1, <2>3 DEF DataOK, Ending
    <3> QED
      BY SMTT(20), Z3T(20), <2>1, <2>3, <3>1, <3>2 DEF DataOK, Inserting, Ending
  <2> QED
    BY <2>2, <2>3
<1>9. CASE FinishSelect(t)
  <2>1. /\ reached[t] = "select" /\ reached'[t] = "idle" /\ DOMAIN loc'[t].seen = {}
        /\ loc'[t].tx = loc[t].tx /\ loc'[t].mine = loc[t].mine /\ UNCHANGED <<pages, acked, logged>>
    BY <1>0, <1>9, FinishSelectDoes DEF Back
  <2>2. Base(t)' = Base(t) /\ (Undoes(logged)' <=> Undoes(logged))
    BY <2>1 DEF Base, Undoes
  <2>3. /\ \A q \in Pages : pages[q] = Base(t)
        /\ loc[t].tx = 0 => loc[t].mine = {}
        /\ loc[t].tx # 0 => Undoes(logged)
    BY SMTT(20), Z3T(20), <1>0, <2>1 DEF DataOK, Ending
  <2> QED
    BY <2>1, <2>2, <2>3 DEF DataOK, Inserting, Ending
<1> QED
  BY SMTT(20), Z3T(20), <1>1, <1>2, <1>3, <1>4, <1>5, <1>6, <1>7, <1>8, <1>9 DEF TxStatement


\* Restoring the last image leaves the rest to undo what is left.
LEMMA UndoesLess ==
  ASSUME NEW t \in Callers, loc[t].undo \in Seq(Images), loc[t].undo # <<>>, Undoes(loc[t].undo),
         loc'[t].undo = SubSeq(loc[t].undo, 1, Len(loc[t].undo) - 1),
         pages \in [Pages -> SUBSET Nat], UNCHANGED acked,
         pages' = [pages EXCEPT ![loc[t].undo[Len(loc[t].undo)][1]] = loc[t].undo[Len(loc[t].undo)][2]]
  PROVE  Undoes(loc[t].undo)'
<1> DEFINE s == loc[t].undo
           s1 == loc'[t].undo
           n == Len(s)
<1>0. s \in Seq(Images) /\ s # <<>> /\ s1 = SubSeq(s, 1, n - 1) /\ Undoes(s)
  OBVIOUS
<1>3. \A q \in Pages : pages'[q] = IF q = s[n][1] THEN s[n][2] ELSE pages[q]
  OBVIOUS
<1>6. ASSUME /\ \A k \in DOMAIN s1 : (\A j \in 1..(k - 1) : s1[j][1] # s1[k][1]) => s1[k][2] = acked
             /\ \A q \in Pages : (\A k \in DOMAIN s1 : s1[k][1] # q) => pages'[q] = acked
      PROVE  Undoes(loc[t].undo)'
  BY <1>6 DEF Undoes
<1> HIDE DEF s, s1
<1>1. n \in Nat \ {0} /\ DOMAIN s = 1..n
  BY <1>0
<1>2. DOMAIN s1 = 1..(n - 1) /\ \A k \in 1..(n - 1) : s1[k] = s[k]
  BY <1>0, <1>1
<1> HIDE DEF n
<1>4. ASSUME NEW k \in DOMAIN s1, \A j \in 1..(k - 1) : s1[j][1] # s1[k][1] PROVE s1[k][2] = acked
  <2>1. k \in DOMAIN s /\ \A j \in 1..(k - 1) : s[j][1] # s[k][1]
    BY <1>1, <1>2, <1>4
  <2> QED
    BY Zenon, <1>0, <1>2, <1>4, <2>1 DEF Undoes
<1>5. ASSUME NEW q \in Pages, \A k \in DOMAIN s1 : s1[k][1] # q PROVE pages'[q] = acked
  <2>1. \A k \in 1..(n - 1) : s[k][1] # q
    BY <1>2, <1>5
  <2>2. CASE q = s[n][1]
    <3>1. n \in DOMAIN s /\ \A j \in 1..(n - 1) : s[j][1] # s[n][1]
      BY <1>1, <2>1, <2>2
    <3>2. s[n][2] = acked
      BY <1>0, <3>1 DEF Undoes
    <3> QED
      BY <1>3, <2>2, <3>2
  <2>3. CASE q # s[n][1]
    <3>1. \A k \in DOMAIN s : s[k][1] # q
      <4>1. \A k \in DOMAIN s : k = n \/ k \in 1..(n - 1)
        BY <1>1
      <4> QED
        BY <2>1, <2>3, <4>1
    <3> QED
      BY <1>0, <1>3, <2>3, <3>1 DEF Undoes
  <2> QED
    BY <2>2, <2>3
<1> QED
  BY SMTT(20), Z3T(20), <1>4, <1>5, <1>6

\* commit() leaves the rows of the transaction on the pages, rollback() none.
LEMMA EndData ==
  ASSUME LockIInv, ApartIInv, NEW t \in Callers, TxEnd(t), ~lockLost'
  PROVE  DataOK(t)'
<1>0. /\ Typed /\ GraphOK /\ HoldsOK(t) /\ DataOK(t)
      /\ logged \in Seq(Images) /\ pages \in [Pages -> SUBSET Nat]
  BY InvTyped DEF LockIInv, ApartIInv, Typed
<1>1. CASE CommitLog(t)
  <2>1. /\ reached[t] = "idle" /\ reached'[t] = "end" /\ loc[t].tx # 0 /\ UNCHANGED <<pages, acked>>
        /\ loc'[t].tx = loc[t].tx /\ loc'[t].mine = loc[t].mine /\ loc'[t].seen = loc[t].seen
    BY SMTT(20), Z3T(20), <1>0, <1>1, CommitLogDoes DEF Keeps
  <2>2. (\A p \in Pages : pages[p] = Base(t)) /\ DOMAIN loc[t].seen = {}
    BY <1>0, <2>1 DEF DataOK, Inserting
  <2>3. Base(t)' = Base(t)
    BY <2>1 DEF Base
  <2> QED
    BY <2>1, <2>2, <2>3 DEF DataOK, Inserting, Ending
<1>2. CASE RollbackLog(t)
  <2>1. /\ reached[t] = "idle" /\ reached'[t] = "undo" /\ loc[t].tx # 0 /\ UNCHANGED <<pages, acked>>
        /\ loc'[t].tx = loc[t].tx /\ loc'[t].seen = loc[t].seen /\ loc'[t].undo = logged
    BY <1>0, <1>2, RollbackLogDoes
  <2>2. Undoes(logged) /\ DOMAIN loc[t].seen = {}
    BY <1>0, <2>1 DEF DataOK, Ending
  <2>3. Undoes(loc[t].undo)'
    BY SMTT(20), Z3T(20), <2>1, <2>2 DEF Undoes
  <2> QED
    BY SMTT(20), Z3T(20), <2>1, <2>2, <2>3 DEF DataOK, Inserting, Ending
<1>3. CASE RollbackRestore(t)
  <2> DEFINE s == loc[t].undo
  <2>1. /\ reached[t] = "undo" /\ reached'[t] = "undo" /\ UNCHANGED acked
        /\ loc'[t].tx = loc[t].tx /\ loc'[t].seen = loc[t].seen
        /\ s \in Seq(Images) /\ s # <<>> /\ loc'[t].undo = SubSeq(s, 1, Len(s) - 1)
        /\ pages' = [pages EXCEPT ![s[Len(s)][1]] = s[Len(s)][2]]
    BY SMTT(20), Z3T(20), <1>0, <1>3, RestoreDoes
  <2>2. Undoes(s) /\ DOMAIN loc[t].seen = {} /\ loc[t].tx # 0
    BY <1>0, <2>1 DEF DataOK, HoldsOK, Ending
  <2>3. Undoes(loc[t].undo)'
    BY Zenon, <1>0, <2>1, <2>2, UndoesLess
  <2> QED
    BY <2>1, <2>2, <2>3 DEF DataOK, Inserting, Ending
<1>4. CASE RollbackDone(t)
  <2>1. /\ reached[t] = "undo" /\ reached'[t] = "end" /\ loc[t].undo = <<>> /\ UNCHANGED <<pages, acked>>
        /\ loc'[t].tx = loc[t].tx /\ loc'[t].mine = {} /\ loc'[t].seen = loc[t].seen
    BY SMTT(20), Z3T(20), <1>0, <1>4, RollbackDoneDoes
  <2>2. (\A p \in Pages : pages[p] = acked) /\ DOMAIN loc[t].seen = {} /\ loc[t].tx # 0
    BY <1>0, <2>1 DEF DataOK, HoldsOK, Ending, Undoes
  <2>3. Base(t)' = acked
    BY <2>1 DEF Base
  <2> QED
    BY <2>1, <2>2, <2>3 DEF DataOK, Inserting, Ending
<1>5. CASE EndForget(t) \/ EndClear(t)
  <2>1. /\ reached[t] \in {"end", "clear"} /\ reached'[t] \in {"clear", "release"} /\ UNCHANGED <<loc, pages, acked>>
    BY SMTT(20), Z3T(20), <1>0, <1>5, ForgetDoes, ClearDoes
  <2>2. (\A p \in Pages : pages[p] = Base(t)) /\ DOMAIN loc[t].seen = {} /\ loc[t].tx # 0
    BY <1>0, <2>1 DEF DataOK, HoldsOK, Ending, Inserting
  <2>3. Base(t)' = Base(t)
    BY <2>1 DEF Base
  <2> QED
    BY SMTT(20), Z3T(20), <2>1, <2>2, <2>3 DEF DataOK, Inserting, Ending
<1>6. CASE EndRaises(t) \/ EndRelease(t)
  <2>1. Back(t, 0, {})
    BY <1>0, <1>6, EndRaisesDoes, EndReleaseDoes
  <2> QED
    BY SMTT(20), Z3T(20), <2>1, DataFree DEF Back
<1> QED
  BY <1>1, <1>2, <1>3, <1>4, <1>5, <1>6, LockKept DEF TxEnd

\* Where threads work apart, a statement runs under its transaction or under
\* its own side of the lock.
LEMMA GuardedStep ==
  ASSUME LockIInv, ApartIInv, \A l \in Workloads : Apart(l), NEW t \in Callers, TxStep(t)
  PROVE  Guarded(t)'
<1>0. /\ Typed /\ GraphOK /\ HoldsOK(t) /\ Guarded(t)
      /\ load.tx = {} => active = 0
      /\ load.tx # {} => load.auto = {} /\ load.read = {}
  BY InvTyped, ApartLoads DEF LockIInv, ApartIInv
<1>a. ASSUME load.tx # {}, UNCHANGED load, loc'[t].lock = loc[t].lock \/ loc'[t].lock = "none",
             reached'[t] \in {"idle", "activate", "reset"} \cup Begins \cup Ending
      PROVE  Guarded(t)'
  BY <1>0, <1>a DEF Guarded, Begins, Inserting, Ending
<1>1. CASE TxBegin(t)
  <2>1. reached[t] \in Begins \cup {"activate", "reset"} \/ t \in load.tx
    BY <1>1 DEF TxBegin, BeginReserve, BeginTest, BeginReadHolder, BeginAddWait, BeginDetect, BeginRemoveWait,
       BeginRaises, BeginLookup, BeginStore, BeginLock, BeginNested, BeginLog, BeginLogFails, BeginActivate,
       BeginReset, Begins
  <2>2. load.tx # {}
    BY <1>0, <2>1 DEF Guarded
  <2>3. CASE BeginReserve(t) \/ BeginTest(t)
    BY Zenon, <1>0, <1>a, <2>2, <2>3, ReserveDoes, TestDoes DEF Keeps, Frame, Begins
  <2>4. CASE BeginReadHolder(t) \/ BeginAddWait(t)
    BY Zenon, <1>0, <1>a, <2>2, <2>4, ReadHolderDoes, AddWaitDoes DEF Keeps, Back, Frame, Begins
  <2>5. CASE BeginDetect(t) \/ BeginRemoveWait(t)
    BY Zenon, <1>0, <1>a, <2>2, <2>5, DetectDoes, RemoveWaitDoes DEF Keeps, Back, Frame, Begins
  <2>6. CASE BeginRaises(t) \/ BeginLock(t)
    BY Zenon, <1>0, <1>a, <2>2, <2>6, BeginRaisesDoes, LockDoes DEF Back, Frame, Begins
  <2>9. CASE BeginGuard(t)
    BY Zenon, <1>0, <1>a, <2>2, <2>9, GuardDoes DEF Frame, Begins
  <2>7. CASE BeginNested(t) \/ BeginLog(t)
    BY Zenon, <1>0, <1>a, <2>2, <2>7, NestedDoes, BeginLogDoes DEF Keeps, Back, Frame
  <2>8. CASE BeginActivate(t) \/ BeginReset(t)
    BY Zenon, <1>0, <1>a, <2>2, <2>8, ActivateDoes, ResetDoes DEF Keeps, Back, Frame
  <2> QED
    BY SMTT(20), Z3T(20), <1>1, <2>3, <2>4, <2>5, <2>6, <2>7, <2>8, <2>9, LockKept
       DEF TxStep, TxBegin, BeginGuard
<1>2. CASE TxEnd(t)
  <2>1. reached[t] \in Ending \/ loc[t].tx # 0
    BY <1>2 DEF TxEnd, CommitLog, RollbackLog, RollbackRestore, RollbackDone, EndForget, EndClear, EndRaises,
       EndFails, EndRelease, Ending
  <2>2. load.tx # {}
    BY <1>0, <2>1 DEF Guarded
  <2>3. CASE CommitLog(t) \/ RollbackLog(t)
    BY Zenon, <1>0, <1>a, <2>2, <2>3, CommitLogDoes, RollbackLogDoes DEF Keeps, Frame, Ending
  <2>4. CASE RollbackRestore(t) \/ RollbackDone(t)
    BY Zenon, <1>0, <1>a, <2>2, <2>4, RestoreDoes, RollbackDoneDoes DEF Keeps, Frame, Ending
  <2>5. CASE EndForget(t) \/ EndClear(t)
    BY Zenon, <1>0, <1>a, <2>2, <2>5, ForgetDoes, ClearDoes DEF Frame, Ending
  <2>6. CASE EndRaises(t) \/ EndRelease(t)
    BY Zenon, <1>0, <1>a, <2>2, <2>6, EndRaisesDoes, EndReleaseDoes DEF Back, Frame
  <2> QED
    BY SMTT(20), Z3T(20), <1>2, <2>3, <2>4, <2>5, <2>6, LockKept DEF TxStep, TxEnd
<1>3. CASE TxStatement(t)
  <2>1. CASE ExecuteInsert(t) \/ ExecuteSelect(t)
    <3>1. /\ Frame(t) /\ reached[t] = "idle" /\ loc'[t].tx = loc[t].tx /\ loc'[t].lock = loc[t].lock
          /\ depth'[t] = depth[t]
          /\ loc[t].tx # 0 \/ t \in load.auto \/ t \in load.read
          /\ active # 0 => reached'[t] \in {"insert", "select"}
          /\ active = 0 => reached'[t] \in {"lockW", "lockR"}
      BY SMTT(20), Z3T(20), <1>0, <2>1, ExecuteInsertDoes, ExecuteSelectDoes DEF Keeps
    <3>2. load.tx # {} => loc[t].tx # 0 /\ active # 0
      BY SMTT(20), Z3T(20), <1>0, <3>1 DEF HoldsOK
    <3> QED
      BY SMTT(20), Z3T(20), <1>0, <3>1, <3>2 DEF Guarded, Frame, Inserting, Begins, Ending
  <2>2. CASE LockStatement(t)
    <3>1. /\ Frame(t) /\ loc'[t].tx = loc[t].tx /\ depth'[t] = depth[t]
          /\ \/ reached[t] = "lockW" /\ reached'[t] = "insert" /\ loc'[t].lock = "write"
             \/ reached[t] = "lockR" /\ reached'[t] = "select" /\ loc'[t].lock = "read"
      BY SMTT(20), Z3T(20), <1>0, <2>2, LockStatementDoes
    <3> QED
      BY <1>0, <3>1 DEF Guarded, Frame, Inserting, Begins, Ending
  <2>3. ASSUME \/ LogPage(t) \/ TxWritePage(t) \/ \E p \in Pages : ReadPage(t, p) \/ ScanPage(t, p)
        PROVE  Guarded(t)'
    <3>1. /\ Frame(t) /\ loc'[t].tx = loc[t].tx /\ loc'[t].lock = loc[t].lock /\ depth'[t] = depth[t]
          /\ \/ reached[t] \in Inserting /\ reached'[t] \in Inserting
             \/ reached[t] = "select" /\ reached'[t] = "select"
      BY Zenon, <1>0, <2>3, LogPageDoes, WritePageDoes, ReadPageDoes, ScanPageDoes DEF Keeps, Inserting
    <3> QED
      BY SMTT(20), Z3T(20), <1>0, <3>1 DEF Guarded, Frame, Inserting, Begins, Ending
  <2>4. CASE FinishInsert(t) \/ FinishSelect(t)
    <3>1. /\ Frame(t) /\ reached'[t] = "idle" /\ loc'[t].lock = "none" /\ depth'[t] = depth[t]
          /\ loc'[t].tx = loc[t].tx
      BY <1>0, <2>4, FinishInsertDoes, FinishSelectDoes DEF Back
    <3> QED
      BY SMTT(20), Z3T(20), <1>0, <3>1 DEF Guarded, Frame, Inserting, Begins, Ending
  <2> QED
    BY SMTT(20), Z3T(20), <1>3, <2>1, <2>2, <2>3, <2>4 DEF TxStatement
<1> QED
  BY <1>1, <1>2, <1>3 DEF TxStep

-----------------------------------------------------------------------------
\* Whoever changes pages, or acknowledges rows, is in a statement that writes or
\* at the end of a transaction.
LEMMA PagesChange ==
  ASSUME LockIInv, NEW t \in Callers, TxStep(t)
  PROVE  reached[t] \in Inserting \cup Ending \/ UNCHANGED <<pages, acked>>
<1>0. Typed /\ GraphOK
  BY InvTyped
<1>1. CASE SteadyAction(t)
  BY <1>1, SteadySteps DEF Steady
<1>2. CASE BeginLog(t) \/ BeginActivate(t) \/ BeginReset(t) \/ ExecuteInsert(t)
  BY SMTT(20), Z3T(20), <1>0, <1>2, BeginLogDoes, ActivateDoes, ResetDoes, ExecuteInsertDoes
<1>3. CASE \/ LogPage(t) \/ TxWritePage(t) \/ FinishInsert(t) \/ RollbackRestore(t) \/ EndClear(t) \/ EndRelease(t)
  BY <1>3 DEF LogPage, TxWritePage, FinishInsert, RollbackRestore, EndClear, EndRelease, Inserting, Ending
<1> QED
  BY <1>1, <1>2, <1>3, LockKept DEF TxStep, TxBegin, TxStatement, TxEnd, SteadyAction, BeginGuard

\* The write lock becomes free at the end of a statement or of a transaction,
\* when the pages hold what is acknowledged then.
LEMMA PagesStep ==
  ASSUME LockIInv, ApartIInv, NEW t \in Callers, TxStep(t)
  PROVE  PagesOK'
<1>0. /\ Typed /\ GraphOK /\ HoldsOK(t) /\ LocksOK /\ PagesOK /\ DataOK(t) /\ depth[t] \in Nat
      /\ loc[t].lock \in {"none", "read", "write"}
  BY Zenon, InvTyped DEF LockIInv, ApartIInv, Typed, Locals
<1> SUFFICES ASSUME holdW' = {} PROVE \A p \in Pages : pages'[p] = acked'
  BY DEF PagesOK
<1>2. CASE holdW = {}
  <2>1. depth[t] = 0 /\ loc[t].lock # "write"
    BY SMTT(20), Z3T(20), <1>0, <1>2 DEF LocksOK
  <2>2. reached[t] \notin Inserting \cup Ending
    BY <2>1, WriterHolds
  <2>3. UNCHANGED <<pages, acked>>
    BY <2>2, PagesChange
  <2> QED
    BY SMTT(20), Z3T(20), <1>0, <1>2, <2>3 DEF PagesOK
<1>3. CASE holdW # {}
  <2>1. CASE QuietAction(t)
    BY SMTT(20), Z3T(20), <1>3, <2>1, QuietSteps DEF Quiet
  <2>2. CASE BeginLock(t) \/ BeginActivate(t) \/ BeginReset(t) \/ LockStatement(t)
    BY Zenon, <1>0, <1>3, <2>2, LockDoes, ActivateDoes, ResetDoes, LockStatementDoes
  <2>3. CASE EndClear(t) \/ EndRaises(t)
    BY Zenon, <1>0, <1>3, <2>3, ClearDoes, EndRaisesDoes
  <2>4. CASE FinishSelect(t)
    <3>1. Unlocks(t) /\ reached[t] = "select"
      BY <1>0, <2>4, FinishSelectDoes
    <3> QED
      BY <1>0, <1>3, <3>1 DEF Unlocks, HoldsOK, Inserting
  <2>5. CASE BeginNested(t)
    <3>1. reached[t] = "locked" /\ active # 0 /\ GivesBack(t)
      BY <1>0, <2>5, NestedDoes
    <3>2. depth[t] = 1
      BY SMTT(20), Z3T(20), <1>3, <3>1 DEF GivesBack
    <3>3. loc[t].tx = 0 /\ ~Left(t)
      BY <1>0, <3>1, <3>2 DEF HoldsOK, Left, Level
    <3>4. PICK u \in Callers : Owns(u)
      BY <3>1 DEF LockIInv, ActiveOwned
    <3>5. u # t
      BY <3>1, <3>3, <3>4 DEF Owns
    <3> QED
      BY SMTT(20), Z3T(20), <3>1, <3>2, <3>4, <3>5, Alone DEF Owns
  <2>6. CASE FinishInsert(t)
    <3>1. Unlocks(t) /\ reached[t] = "insert" /\ loc[t].todo = {} /\ pages' = pages
      BY Zenon, <1>0, <2>6, FinishInsertDoes
    <3>2. loc[t].lock = "write"
      BY SMTT(20), Z3T(20), <1>3, <3>1 DEF Unlocks
    <3>3. loc[t].tx = 0
      BY SMTT(20), Z3T(20), <1>0, <3>2 DEF HoldsOK
    <3>4. acked' = acked \cup {loc[t].row}
      BY Zenon, <1>0, <2>6, <3>3, FinishInsertDoes
    <3>5. loc[t].mine = {} /\ \A p \in Pages : pages[p] = Base(t) \cup {loc[t].row}
      BY <1>0, <3>1, <3>3 DEF DataOK
    <3> QED
      BY <3>1, <3>4, <3>5 DEF Base
  <2>7. CASE EndRelease(t)
    <3>1. reached[t] = "release" /\ acked' = acked \cup loc[t].mine /\ pages' = pages
      BY Zenon, <1>0, <2>7, EndReleaseDoes
    <3>2. \A p \in Pages : pages[p] = Base(t)
      BY Zenon, <1>0, <3>1 DEF DataOK, HoldsOK, Ending, Inserting
    <3> QED
      BY SMTT(20), Z3T(20), <3>1, <3>2 DEF Base
  <2> QED
    BY SMTT(20), Z3T(20), <2>1, <2>2, <2>3, <2>4, <2>5, <2>6, <2>7, LockKept
       DEF TxStep, TxBegin, TxStatement, TxEnd, QuietAction, BeginGuard
<1> QED
  BY SMTT(20), Z3T(20), <1>2, <1>3
=============================================================================
