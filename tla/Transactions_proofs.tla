------------------------- MODULE Transactions_proofs -------------------------
(***************************************************************************)
(* The threads of one process on one Database, any number of them: what    *)
(* begin, commit and rollback take they give back, whatever the workload;  *)
(* and where no thread works outside transactions while others open them,  *)
(* transactions are isolated, in the log and on the pages.                 *)
(***************************************************************************)
EXTENDS TxLocks_proofs, TxIsolation_proofs

\* The steps that append nothing leave a transaction open that was.
LogAction(t) == BeginLog(t) \/ LogPage(t) \/ CommitLog(t) \/ RollbackLog(t)

LEMMA OpenKept ==
  ASSUME LockIInv, NEW t \in Callers, TxStep(t), ~LogAction(t)
  PROVE  wal' = wal /\ \A x : Open(t, x) => Open(t, x)'
<1>0. Typed /\ GraphOK /\ HoldsOK(t) /\ LocalsOK(t)
  BY SMTT(20), Z3T(20), InvTyped DEF LockIInv
<1>a. ASSUME wal' = wal, loc'[t].tx = loc[t].tx, reached'[t] \notin Ending, reached[t] \notin {"activate", "reset"}
      PROVE  wal' = wal /\ \A x : Open(t, x) => Open(t, x)'
  BY Zenon, <1>a DEF Open
<1>b. ASSUME wal' = wal, reached[t] \in Ending
      PROVE  wal' = wal /\ \A x : Open(t, x) => Open(t, x)'
  BY <1>b DEF Open, Ending
<1>1. CASE BeginReserve(t) \/ BeginTest(t)
  BY Zenon, <1>0, <1>1, <1>a, ReserveDoes, TestDoes DEF Keeps, Ending
<1>2. CASE BeginReadHolder(t) \/ BeginAddWait(t)
  BY Zenon, <1>0, <1>2, <1>a, ReadHolderDoes, AddWaitDoes DEF Keeps, Back, Ending
<1>3. CASE BeginDetect(t) \/ BeginRemoveWait(t)
  BY Zenon, <1>0, <1>3, <1>a, DetectDoes, RemoveWaitDoes DEF Keeps, Back, Ending
<1>4. CASE BeginRaises(t) \/ BeginLock(t)
  BY Zenon, <1>0, <1>4, <1>a, BeginRaisesDoes, LockDoes DEF Back, Ending
<1>5. CASE BeginGuard(t) \/ BeginNested(t)
  BY Zenon, <1>0, <1>5, <1>a, GuardDoes, NestedDoes DEF Back, Ending
<1>6. CASE BeginActivate(t) \/ BeginReset(t)
  <2>1. /\ wal' = wal /\ reached[t] \in {"activate", "reset"}
        /\ \/ reached'[t] = "reset" /\ loc'[t].id = loc[t].id
           \/ reached'[t] = "idle" /\ loc'[t].tx = loc[t].id
    BY Zenon, <1>0, <1>6, ActivateDoes, ResetDoes DEF Back
  <2>2. loc[t].tx = 0 /\ loc[t].id # 0
    BY <1>0, <2>1 DEF LocalsOK, HoldsOK
  <2> QED
    BY <2>1, <2>2 DEF Open, Ending
<1>7. CASE ExecuteInsert(t) \/ ExecuteSelect(t)
  BY Zenon, <1>0, <1>7, <1>a, ExecuteInsertDoes, ExecuteSelectDoes DEF Keeps, Ending
<1>8. CASE LockStatement(t) \/ TxWritePage(t)
  BY Zenon, <1>0, <1>8, <1>a, LockStatementDoes, WritePageDoes DEF Ending
<1>9. CASE FinishInsert(t) \/ FinishSelect(t)
  BY Zenon, <1>0, <1>9, <1>a, FinishInsertDoes, FinishSelectDoes DEF Back, Ending
<1>10. ASSUME NEW p \in Pages, ReadPage(t, p) \/ ScanPage(t, p)
       PROVE  wal' = wal /\ \A x : Open(t, x) => Open(t, x)'
  BY Zenon, <1>0, <1>10, <1>a, ReadPageDoes, ScanPageDoes DEF Keeps, Ending
<1>11. CASE RollbackRestore(t) \/ RollbackDone(t)
  BY Zenon, <1>0, <1>11, <1>b, RestoreDoes, RollbackDoneDoes DEF Ending
<1>12. CASE EndForget(t) \/ EndClear(t)
  BY Zenon, <1>0, <1>12, <1>b, ForgetDoes, ClearDoes DEF Ending
<1>13. CASE EndRaises(t) \/ EndRelease(t)
  BY Zenon, <1>0, <1>13, <1>b, EndRaisesDoes, EndReleaseDoes DEF Ending
<1> QED
  BY SMTT(20), Z3T(20), <1>1, <1>2, <1>3, <1>4, <1>5, <1>6, <1>7, <1>8, <1>9, <1>10, <1>11, <1>12, <1>13,
     LockKept DEF TxStep, TxBegin, TxStatement, TxEnd, LogAction, BeginGuard

\* So the log is bracketed as it was.
LEMMA BracketKept ==
  ASSUME ApartIInv, NEW t \in Callers, Frame(t), wal' = wal, \A x : Open(t, x) => Open(t, x)'
  PROVE  BeginsOK' /\ Bracketed'
<1>1. BeginsOK /\ Bracketed /\ load' = load
  BY DEF ApartIInv, Frame
<1>2. \A u \in Callers : \A x : Open(u, x) => Open(u, x)'
  <2> TAKE u \in Callers
  <2>1. CASE u = t
    BY <2>1
  <2>2. CASE u # t
    BY <2>2 DEF Open, Frame
  <2> QED
    BY <2>1, <2>2
<1>3. Bracketed'
  BY <1>1 DEF Bracketed
<1>4. \A i : Ended(i)' <=> Ended(i)
  BY DEF Ended
<1>5. ASSUME NEW i \in 1..Len(wal), wal[i].type = "BEGIN"
      PROVE  load'.tx # {} /\ (Ended(i)' \/ \E u \in Callers : Open(u, wal[i].tx)')
  <2>1. load.tx # {} /\ (Ended(i) \/ \E u \in Callers : Open(u, wal[i].tx))
    BY <1>1, <1>5 DEF BeginsOK
  <2> QED
    BY <1>1, <1>2, <1>4, <2>1
<1> QED
  BY <1>1, <1>3, <1>5 DEF BeginsOK

\* An append leaves the records before it.
LEMMA WalGrows ==
  ASSUME wal \in Seq(WalRecs), NEW r \in WalRecs, wal' = Append(wal, r)
  PROVE  /\ wal' \in Seq(WalRecs) /\ Len(wal) \in Nat /\ Len(wal') = Len(wal) + 1
         /\ DOMAIN wal = 1..Len(wal) /\ DOMAIN wal' = 1..(Len(wal) + 1)
         /\ wal'[Len(wal) + 1] = r /\ \A i \in 1..Len(wal) : wal'[i] = wal[i]
  OBVIOUS

\* A record of the thread that has the lock is of its transaction, if one is open:
\* nobody else's is.
LEMMA BracketGrows ==
  ASSUME LockIInv, ApartIInv, NEW t \in Callers, Frame(t), depth[t] > 0 \/ loc[t].lock = "write",
         NEW r \in WalRecs, wal' = Append(wal, r),
         \A x : Open(t, x) => r.tx = x /\ (Open(t, x)' \/ r.type \in {"COMMIT", "ROLLBACK"}),
         r.type = "BEGIN" => load.tx # {} /\ reached'[t] = "activate" /\ loc'[t].id = r.tx
  PROVE  BeginsOK' /\ Bracketed'
<1> DEFINE n == Len(wal)
<1>1. BeginsOK /\ Bracketed /\ load' = load
  BY DEF ApartIInv, Frame
<1>2. /\ wal' \in Seq(WalRecs) /\ n \in Nat /\ Len(wal') = n + 1
      /\ DOMAIN wal = 1..n /\ DOMAIN wal' = 1..(n + 1)
      /\ wal'[n + 1] = r /\ \A i \in 1..n : wal'[i] = wal[i]
  BY <1>1, WalGrows DEF BeginsOK
<1> HIDE DEF n
<1>3. ASSUME NEW i \in 1..n, wal[i].type = "BEGIN"
      PROVE  /\ load.tx # {}
             /\ \/ \E k \in (i + 1)..n : wal[k].type \in {"COMMIT", "ROLLBACK"} /\ wal[k].tx = wal[i].tx
                \/ r.tx = wal[i].tx /\ (Open(t, wal[i].tx)' \/ r.type \in {"COMMIT", "ROLLBACK"})
  <2>1. load.tx # {} /\ (Ended(i) \/ \E u \in Callers : Open(u, wal[i].tx))
    BY <1>1, <1>3 DEF BeginsOK, n
  <2>2. \A u \in Callers : Open(u, wal[i].tx) => u = t
    BY Alone DEF Open
  <2>3. Open(t, wal[i].tx) =>
          r.tx = wal[i].tx /\ (Open(t, wal[i].tx)' \/ r.type \in {"COMMIT", "ROLLBACK"})
    <3>1. wal'[i] = wal[i]
      BY SMTT(20), Z3T(20), <1>2, <1>3
    <3> QED
      BY <3>1
  <2> QED
    BY <2>1, <2>2, <2>3 DEF Ended, n
<1>4. ASSUME NEW i \in 1..(n + 1), wal'[i].type = "BEGIN"
      PROVE  /\ load'.tx # {}
             /\ Ended(i)' \/ \E u \in Callers : Open(u, wal[i].tx)'
             /\ \A j \in (i + 1)..(n + 1) :
                  \/ wal'[j].tx = wal'[i].tx
                  \/ \E k \in (i + 1)..(j - 1) : wal'[k].type \in {"COMMIT", "ROLLBACK"} /\ wal'[k].tx = wal'[i].tx
  <2>1. CASE i = n + 1
    <3>1. Open(t, wal[i].tx)' /\ load.tx # {}
      BY SMTT(20), Z3T(20), <1>2, <1>4, <2>1 DEF Open
    <3> QED
      BY SMTT(20), Z3T(20), <1>1, <1>2, <2>1, <3>1
  <2>2. CASE i \in 1..n
    <3>0. wal'[i] = wal[i] /\ wal[i].type = "BEGIN" /\ load'.tx # {}
      BY <1>1, <1>2, <1>3, <1>4, <2>2
    <3>1. ASSUME NEW j \in (i + 1)..(n + 1), j # n + 1
          PROVE  \/ wal'[j].tx = wal'[i].tx
                 \/ \E k \in (i + 1)..(j - 1) : wal'[k].type \in {"COMMIT", "ROLLBACK"} /\ wal'[k].tx = wal'[i].tx
      <4>1. j \in (i + 1)..n /\ \A k \in (i + 1)..j : k \in 1..n
        BY SMTT(20), Z3T(20), <1>2, <2>2, <3>1
      <4>2. \/ wal[j].tx = wal[i].tx
            \/ \E k \in (i + 1)..(j - 1) : wal[k].type \in {"COMMIT", "ROLLBACK"} /\ wal[k].tx = wal[i].tx
        BY SMTT(20), Z3T(20), <1>1, <1>2, <2>2, <3>0, <4>1 DEF Bracketed, n
      <4>3. \A k \in (i + 1)..j : wal'[k] = wal[k]
        BY <1>2, <4>1
      <4>4. j \in (i + 1)..j /\ \A k \in (i + 1)..(j - 1) : k \in (i + 1)..j
        BY SMTT(20), Z3T(20), <1>2, <2>2, <3>1
      <4> QED
        BY Zenon, <3>0, <4>2, <4>3, <4>4
    <3>2. CASE \E k \in (i + 1)..n : wal[k].type \in {"COMMIT", "ROLLBACK"} /\ wal[k].tx = wal[i].tx
      <4>1. PICK k \in (i + 1)..n : wal[k].type \in {"COMMIT", "ROLLBACK"} /\ wal[k].tx = wal[i].tx
        BY <3>2
      <4>2. k \in 1..n /\ k \in (i + 1)..(n + 1) /\ k \in (i + 1)..((n + 1) - 1)
        BY <1>2, <2>2
      <4>3. wal'[k].type \in {"COMMIT", "ROLLBACK"} /\ wal'[k].tx = wal'[i].tx
        BY SMTT(20), Z3T(20), <1>2, <3>0, <4>1, <4>2
      <4>4. Ended(i)'
        BY SMTT(20), Z3T(20), <1>2, <4>2, <4>3 DEF Ended
      <4> QED
        BY Zenon, <3>0, <3>1, <4>2, <4>3, <4>4
    <3>3. CASE r.tx = wal[i].tx /\ (Open(t, wal[i].tx)' \/ r.type \in {"COMMIT", "ROLLBACK"})
      <4>1. wal'[n + 1].tx = wal'[i].tx
        BY <1>2, <3>0, <3>3
      <4>2. ASSUME r.type \in {"COMMIT", "ROLLBACK"} PROVE Ended(i)'
        <5>1. n + 1 \in (i + 1)..(n + 1)
          BY SMTT(20), Z3T(20), <1>2, <2>2
        <5> QED
          BY <1>2, <4>1, <4>2, <5>1 DEF Ended
      <4> QED
        BY Zenon, <3>0, <3>1, <3>3, <4>1, <4>2
    <3> QED
      BY Zenon, <1>3, <2>2, <3>0, <3>2, <3>3
  <2> QED
    BY SMTT(20), Z3T(20), <1>2, <2>1, <2>2
<1>5. BeginsOK'
  BY SMTT(20), Z3T(20), <1>2, <1>4 DEF BeginsOK
<1>6. Bracketed'
  BY SMTT(20), Z3T(20), <1>2, <1>4 DEF Bracketed
<1> QED
  BY <1>5, <1>6

\* Whatever the step, transactions do not overlap in the log.
LEMMA BracketStep ==
  ASSUME LockIInv, ApartIInv, NEW t \in Callers, TxStep(t)
  PROVE  BeginsOK' /\ Bracketed'
<1>0. /\ Typed /\ GraphOK /\ HoldsOK(t) /\ LocalsOK(t) /\ Guarded(t) /\ Frame(t)
      /\ loc[t] \in Locals
  BY InvTyped, CountedSteps DEF LockIInv, ApartIInv, Typed
<1>1. CASE ~LogAction(t)
  BY SMTT(20), Z3T(20), <1>0, <1>1, OpenKept, BracketKept
<1>2. CASE BeginLog(t)
  <2> DEFINE r == BeginRec(nextTx)
  <2>1. /\ reached[t] = "locked" /\ reached'[t] = "activate" /\ active = 0 /\ loc'[t].id = nextTx
        /\ wal' = Append(wal, r)
    BY Zenon, <1>0, <1>2, BeginLogDoes
  <2>2. r \in WalRecs /\ r.tx = nextTx
    BY SMTT(20), Z3T(20), <1>0 DEF Typed, WalRecs, BeginRec
  <2>3. load.tx # {} /\ \A x : ~Open(t, x)
    BY SMTT(20), Z3T(20), <1>0, <2>1 DEF Guarded, Begins, Open, HoldsOK
  <2>4. depth[t] > 0
    BY SMTT(20), Z3T(20), <2>1, OwnerHolds
  <2> HIDE DEF r
  <2> QED
    BY SMTT(20), Z3T(20), <1>0, <2>1, <2>2, <2>3, <2>4, BracketGrows
<1>3. CASE LogPage(t)
  <2> DEFINE r == PageRec(active, loc[t].page, pages[loc[t].page], loc[t].img \cup {loc[t].row})
  <2>1. reached[t] = "log" /\ reached'[t] = "write" /\ loc' = loc /\ wal' = Append(wal, r)
    BY Zenon, <1>0, <1>3, LogPageDoes
  <2>2. /\ active \in Nat /\ loc[t].page \in Pages /\ pages[loc[t].page] \in SUBSET Nat
        /\ loc[t].img \cup {loc[t].row} \in SUBSET Nat
    BY Zenon, <1>0, <2>1 DEF Typed, LocalsOK, Locals
  <2>3. r \in WalRecs
    BY SMTT(20), Z3T(20), <2>2 DEF WalRecs
  <2>4. r.type = "PAGE" /\ r.tx = active
    BY SMTT(20), Z3T(20) DEF PageRec
  <2>5. \A x : Open(t, x) => active = x /\ Open(t, x)'
    BY Zenon, <1>0, <2>1 DEF Open, HoldsOK, Ending
  <2>6. depth[t] > 0 \/ loc[t].lock = "write"
    BY SMTT(20), Z3T(20), <2>1, WriterHolds DEF Inserting
  <2> HIDE DEF r
  <2> QED
    BY SMTT(20), Z3T(20), <1>0, <2>1, <2>3, <2>4, <2>5, <2>6, BracketGrows
<1>4. CASE CommitLog(t) \/ RollbackLog(t)
  <2>1. reached[t] = "idle" /\ loc[t].tx # 0
    BY Zenon, <1>0, <1>4, CommitLogDoes, RollbackLogDoes
  <2>2. PICK r \in {CommitRec(loc[t].tx), RollbackRec(loc[t].tx)} : wal' = Append(wal, r)
    BY SMTT(20), Z3T(20), <1>0, <1>4, CommitLogDoes, RollbackLogDoes
  <2>3. loc[t].tx \in Nat
    BY Zenon, <1>0 DEF Locals
  <2>4. r \in WalRecs /\ r.tx = loc[t].tx /\ r.type \in {"COMMIT", "ROLLBACK"}
    BY SMTT(20), Z3T(20), <2>3 DEF WalRecs, CommitRec, RollbackRec
  <2>5. \A x : Open(t, x) => loc[t].tx = x
    BY <2>1 DEF Open
  <2>6. depth[t] > 0
    BY <2>1, OwnerHolds
  <2> QED
    BY SMTT(20), Z3T(20), <1>0, <2>2, <2>4, <2>5, <2>6, BracketGrows
<1> QED
  BY <1>1, <1>2, <1>3, <1>4 DEF LogAction

\* ApartIInv is inductive.
LEMMA ApartStep ==
  ASSUME LockIInv, ApartIInv, \A l \in Workloads : Apart(l), NEW t \in Callers, TxStep(t)
  PROVE  ApartIInv'
<1>0. Typed /\ GraphOK /\ Frame(t)
  BY InvTyped, CountedSteps
<1>1. Guarded(t)' /\ DataOK(t)'
  BY SMTT(20), Z3T(20), GuardedStep, BeginData, StatementData, EndData DEF TxStep
<1>2. \/ depth[t] > 0 \/ loc[t].lock = "write"
      \/ UNCHANGED <<pages, acked, logged, active>>
  <2>1. CASE SteadyAction(t)
    BY <2>1, SteadySteps DEF Steady
  <2>2. CASE BeginLog(t) \/ ExecuteInsert(t)
    BY SMTT(20), Z3T(20), <1>0, <2>2, BeginLogDoes, ExecuteInsertDoes
  <2>3. CASE BeginActivate(t) \/ BeginReset(t)
    BY Zenon, <2>3, OwnerHolds DEF BeginActivate, BeginReset
  <2>4. CASE LogPage(t) \/ TxWritePage(t) \/ FinishInsert(t) \/ RollbackRestore(t) \/ EndClear(t) \/ EndRelease(t)
    <3>1. reached[t] \in Inserting \cup Ending
      BY <2>4 DEF LogPage, TxWritePage, FinishInsert, RollbackRestore, EndClear, EndRelease, Inserting, Ending
    <3> QED
      BY <3>1, WriterHolds
  <2> QED
    BY Zenon, <2>1, <2>2, <2>3, <2>4, LockKept DEF TxStep, TxBegin, TxStatement, TxEnd, SteadyAction, BeginGuard
<1>3. \A u \in Callers : Guarded(u)' /\ DataOK(u)'
  BY <1>0, <1>1, <1>2, OthersData
<1> QED
  BY <1>3, PagesStep, BracketStep DEF ApartIInv

LEMMA ApartInv ==
  ASSUME \A l \in Workloads : Apart(l)
  PROVE  TxSpec => [](~lockLost => ApartIInv)
<1>1. TxInit => ApartIInv
  <2> SUFFICES ASSUME TxInit PROVE ApartIInv
    OBVIOUS
  <2>1. \A t \in Callers : loc[t] = NoLocals /\ reached[t] = "idle" /\ depth[t] = 0
    BY Zenon DEF TxInit
  <2>2. NoLocals.tx = 0 /\ NoLocals.mine = {} /\ NoLocals.lock = "none" /\ DOMAIN NoLocals.seen = {}
    BY Zenon, NoLocalsTyped DEF NoLocals
  <2>3. \A p \in Pages : pages[p] = acked
    BY DEF TxInit
  <2>4. PagesOK
    BY <2>3 DEF PagesOK
  <2>5. wal = <<>> /\ wal \in Seq(WalRecs) /\ Len(wal) = 0 /\ DOMAIN wal = {}
    BY DEF TxInit
  <2>6. BeginsOK /\ Bracketed
    BY <2>5 DEF BeginsOK, Bracketed
  <2>7. \A t \in Callers : Guarded(t)
    BY Zenon, <2>1, <2>2 DEF Guarded, Inserting, Begins, Ending
  <2>8. \A t \in Callers : DataOK(t)
    BY Zenon, <2>1, <2>2 DEF DataOK, Inserting, Ending
  <2> QED
    BY SMTT(20), Z3T(20), <2>4, <2>6, <2>7, <2>8 DEF ApartIInv
<1>2. (~lockLost => LockIInv) /\ (~lockLost => ApartIInv) /\ [TxNext]_txVars => (~lockLost => ApartIInv)'
  <2> SUFFICES ASSUME ~lockLost => LockIInv, ~lockLost => ApartIInv, [TxNext]_txVars, ~lockLost' PROVE ApartIInv'
    OBVIOUS
  <2>0. LockIInv /\ ApartIInv
    BY NextKeeps
  <2>1. CASE \E t \in Callers : TxStep(t)
    BY <2>0, <2>1, ApartStep
  <2>2. CASE UNCHANGED txVars
    <3>1. UNCHANGED <<load, wal, pages, acked, logged, active, holdW, depth, reached, loc>>
      BY <2>2 DEF txVars
    <3>2. PagesOK'
      BY SMTT(20), Z3T(20), <2>0, <3>1 DEF ApartIInv, PagesOK
    <3>3. BeginsOK' /\ Bracketed'
      <4>1. Bracketed'
        BY <2>0, <3>1 DEF ApartIInv, Bracketed
      <4>2. \A i : Ended(i)' <=> Ended(i)
        BY <3>1 DEF Ended
      <4>3. \A u, i : Open(u, wal[i].tx)' <=> Open(u, wal[i].tx)
        BY <3>1 DEF Open
      <4> QED
        BY Zenon, <2>0, <3>1, <4>1, <4>2, <4>3 DEF ApartIInv, BeginsOK
    <3>4. \A t \in Callers : Guarded(t)'
      BY SMTT(20), Z3T(20), <2>0, <3>1 DEF ApartIInv, Guarded
    <3>5. ASSUME NEW t \in Callers PROVE DataOK(t)'
      <4>1. Base(t)' = Base(t)
        BY SMTT(20), Z3T(20), <3>1 DEF Base
      <4>2. (Undoes(logged)' <=> Undoes(logged)) /\ (Undoes(loc[t].undo)' <=> Undoes(loc[t].undo))
        BY <3>1 DEF Undoes
      <4>3. DataOK(t)
        BY <2>0 DEF ApartIInv
      <4> QED
        BY SMTT(20), Z3T(20), <3>1, <4>1, <4>2, <4>3 DEF DataOK
    <3> QED
      BY <3>2, <3>3, <3>4, <3>5 DEF ApartIInv
  <2> QED
    BY <2>1, <2>2, NextKeeps
<1> QED
  BY <1>1, <1>2, LockInv, PTL DEF TxSpec

\* Where threads work apart, transactions never overlap in the log: what replay
\* takes for granted of every BEGIN.
THEOREM TransactionsBracketed ==
  ASSUME \A l \in Workloads : Apart(l)
  PROVE  TxSpec => []LogBracketed
<1>1. (~lockLost => ApartIInv) => LogBracketed
  BY DEF ApartIInv, LogBracketed
<1> QED
  BY <1>1, ApartInv, PTL

\* When nobody is writing, every page holds exactly the acknowledged rows: no
\* update is lost between statements or transactions, and none survives its
\* ROLLBACK.
THEOREM PagesAcknowledged ==
  ASSUME \A l \in Workloads : Apart(l)
  PROVE  TxSpec => []QuietPagesAcked
<1>1. (~lockLost => ApartIInv) => QuietPagesAcked
  BY DEF ApartIInv, PagesOK, QuietPagesAcked, Quiescent
<1> QED
  BY <1>1, ApartInv, PTL

\* A SELECT sees the rows that are acknowledged and those of its own
\* transaction, all of them on every page it has scanned.
THEOREM SelectsCommitted ==
  ASSUME \A l \in Workloads : Apart(l)
  PROVE  TxSpec => []SelectsSeeCommitted
<1>1. (~lockLost => ApartIInv) => SelectsSeeCommitted
  <2> SUFFICES ASSUME ApartIInv PROVE ReadsWholeStatements /\ ReadsCommitted
    BY DEF SelectsSeeCommitted
  <2>1. \A t \in Callers : \A p \in DOMAIN loc[t].seen : loc[t].seen[p] = acked \cup loc[t].mine
    BY Zenon DEF ApartIInv, DataOK, Base
  <2> QED
    BY Zenon, <2>1 DEF ReadsWholeStatements, ReadsCommitted
<1> QED
  BY <1>1, ApartInv, PTL
-----------------------------------------------------------------------------
INSTANCE FiniteSetTheorems

\* The ids that begin() reserves past the bound are as many as the threads in it.
Beginning == {t \in Callers : reached[t] \in Begins}
IdsBounded == nextTx + Cardinality(Beginning) <= MaxTx + Cardinality(Callers)

\* The ids reserved stay within the threads that reserve them.
LEMMA IdsStep_Bounded ==
  ASSUME LockIInv, IdsBounded, IsFiniteSet(Callers), NEW t \in Callers, Frame(t), IdsStep(t)
  PROVE  IdsBounded'
<1>0. nextTx \in Nat /\ MaxTx \in Nat /\ nextTx + Cardinality(Beginning) <= MaxTx + Cardinality(Callers)
  BY TxBoundsAssumption DEF LockIInv, TxTypes, IdsBounded
<1>1. /\ Beginning \subseteq Callers /\ Beginning' \subseteq Callers
      /\ \A u \in Callers \ {t} : u \in Beginning' <=> u \in Beginning
      /\ t \in Beginning <=> reached[t] \in Begins
      /\ t \in Beginning' <=> reached'[t] \in Begins
  BY DEF Beginning, Frame
<1>2. /\ IsFiniteSet(Beginning) /\ IsFiniteSet(Beginning') /\ Cardinality(Beginning') <= Cardinality(Callers)
      /\ Cardinality(Callers) \in Nat /\ Cardinality(Beginning) \in Nat /\ Cardinality(Beginning') \in Nat
  BY SMTT(20), Z3T(20), <1>1, FS_Subset, FS_CardinalityType
<1>3. CASE nextTx' = nextTx /\ (reached'[t] \in Begins => reached[t] \in Begins)
  <2>1. Beginning' \subseteq Beginning
    BY SMTT(20), Z3T(20), <1>1, <1>3
  <2>2. Cardinality(Beginning') <= Cardinality(Beginning)
    BY SMTT(20), Z3T(20), <1>2, <2>1, FS_Subset
  <2> QED
    BY SMTT(20), Z3T(20), <1>0, <1>2, <1>3, <2>2 DEF IdsBounded
<1>4. CASE nextTx' = nextTx /\ nextTx <= MaxTx
  BY SMTT(20), Z3T(20), <1>0, <1>2, <1>4 DEF IdsBounded
<1>5. CASE nextTx' = nextTx + 1 /\ reached[t] \in Begins /\ reached'[t] \notin Begins
  <2>1. Beginning' = Beginning \ {t} /\ t \in Beginning
    BY SMTT(20), Z3T(20), <1>1, <1>5
  <2>2. Cardinality(Beginning') = Cardinality(Beginning) - 1
    BY <1>2, <2>1, FS_RemoveElement
  <2> QED
    BY SMTT(20), Z3T(20), <1>0, <1>2, <1>5, <2>2 DEF IdsBounded
<1> QED
  BY <1>3, <1>4, <1>5 DEF IdsStep

LEMMA IdsInv ==
  ASSUME IsFiniteSet(Callers), Callers # {}
  PROVE  TxSpec => [](~lockLost => IdsBounded)
<1>1. TxInit => IdsBounded
  <2> SUFFICES ASSUME TxInit PROVE IdsBounded
    OBVIOUS
  <2>1. nextTx = 1 /\ Beginning = {}
    BY DEF TxInit, Beginning, Begins
  <2>2. Cardinality(Beginning) = 0 /\ Cardinality(Callers) \in Nat
    BY SMTT(20), Z3T(20), <2>1, FS_EmptySet, FS_CardinalityType
  <2>3. Cardinality(Callers) # 0
    BY FS_EmptySet
  <2> QED
    BY SMTT(20), Z3T(20), <2>1, <2>2, <2>3, TxBoundsAssumption DEF IdsBounded
<1>2. (~lockLost => LockIInv) /\ (~lockLost => IdsBounded) /\ [TxNext]_txVars => (~lockLost => IdsBounded)'
  <2> SUFFICES ASSUME ~lockLost => LockIInv, ~lockLost => IdsBounded, [TxNext]_txVars, ~lockLost' PROVE IdsBounded'
    OBVIOUS
  <2>0. LockIInv /\ IdsBounded
    BY NextKeeps
  <2>1. CASE \E t \in Callers : TxStep(t)
    BY SMTT(20), Z3T(20), <2>0, <2>1, CountedSteps, IdsStep_Bounded
  <2>2. CASE UNCHANGED txVars
    BY <2>0, <2>2 DEF txVars, IdsBounded, Beginning
  <2> QED
    BY <2>1, <2>2, NextKeeps
<1> QED
  BY <1>1, <1>2, LockInv, PTL DEF TxSpec

\* What begin, commit and rollback take they give back: a thread back from its
\* calls with no transaction open has no level of the lock, no wait edge and no
\* active transaction left behind, whichever errors begin() raised, and
\* NestedTransactionError is for a thread's own transaction; for any number of
\* threads and any workload, those that work outside transactions included.
THEOREM LocksBack ==
  ASSUME IsFiniteSet(Callers), Callers # {}
  PROVE  TxSpec => []LocksGivenBack
<1>1. (~lockLost => LockIInv) /\ (~lockLost => IdsBounded) => LocksGivenBack
  <2> SUFFICES ASSUME LockIInv, IdsBounded PROVE TxTypeOK /\ NestedMeansOwn /\ NothingLeaks
    BY DEF LocksGivenBack
  <2>0. /\ \A t \in Callers : HoldsOK(t) /\ depth[t] \in Nat /\ loc[t].lock \in {"none", "read", "write"}
        /\ TxTypes /\ WaitsOK /\ LocksOK /\ ActiveOwned
    BY Zenon DEF LockIInv, TxTypes, Locals
  <2>1. TxTypeOK
    <3>1. \A t \in Callers : depth[t] \in 0..2
      <4> TAKE t \in Callers
      <4>1. Level(t) \in {0, 1, 2} /\ (loc[t].tx = 0 => Level(t) # 2)
        BY SMTT(20), Z3T(20) DEF Level
      <4>2. depth[t] = Level(t) \/ (depth[t] = Level(t) + 1 /\ loc[t].tx = 0)
        BY SMTT(20), Z3T(20), <2>0 DEF HoldsOK, Left
      <4> QED
        BY SMTT(20), Z3T(20), <4>1, <4>2
    <3>2. nextTx \in 1..(MaxTx + Cardinality(Callers))
      <4>1. IsFiniteSet(Beginning)
        BY FS_Subset DEF Beginning
      <4>2. Cardinality(Callers) \in Nat /\ Cardinality(Beginning) \in Nat
        BY SMTT(20), Z3T(20), <4>1, FS_CardinalityType
      <4> QED
        BY SMTT(20), Z3T(20), <2>0, <4>2, TxBoundsAssumption DEF TxTypes, IdsBounded
    <3>3. depth \in [Callers -> 0..2]
      BY SMTT(20), Z3T(20), <2>0, <3>1 DEF TxTypes
    <3> QED
      BY SMTT(20), Z3T(20), <2>0, <3>2, <3>3 DEF TxTypes, TxTypeOK, WaitsOK, RowsOf, Rows
  <2>2. NestedMeansOwn
    <3> SUFFICES ASSUME NEW t \in Callers, ~load.preempts, reached[t] = "locked", active # 0
                 PROVE  loc[t].tx = active
      BY SMTT(20), Z3T(20) DEF NestedMeansOwn
    <3>1. PICK u \in Callers : Owns(u)
      BY SMTT(20), Z3T(20), <2>0 DEF ActiveOwned
    <3>2. u = t
      <4>1. depth[t] > 0
        BY SMTT(20), Z3T(20), OwnerHolds
      <4> QED
        BY SMTT(20), Z3T(20), <3>1, <4>1, Alone DEF Owns
    <3>3. ~Left(t)
      BY SMTT(20), Z3T(20), <2>0 DEF HoldsOK
    <3> QED
      BY SMTT(20), Z3T(20), <3>1, <3>2, <3>3 DEF Owns
  <2>3. NothingLeaks
    <3> SUFFICES ASSUME ~load.preempts, \A t \in Callers : reached[t] = "idle" /\ loc[t].tx = 0
                 PROVE  /\ active = 0 /\ holdW = {} /\ holdR = {} /\ waits = NoWaits
                        /\ \A t \in Callers : depth[t] = 0
      BY SMTT(20), Z3T(20) DEF NothingLeaks
    <3>1. \A t \in Callers : depth[t] = 0 /\ loc[t].lock = "none" /\ ~Left(t)
      BY Zenon, <2>0 DEF HoldsOK, Level, Inserting
    <3>2. holdW = {} /\ holdR = {}
      BY SMTT(20), Z3T(20), <2>0, <3>1 DEF LocksOK
    <3>3. active = 0
      BY SMTT(20), Z3T(20), <2>0, <3>1 DEF ActiveOwned, Owns
    <3>4. DOMAIN waits = {} /\ waits = [w \in DOMAIN waits |-> waits[w]]
      BY Zenon, <2>0 DEF WaitsOK
    <3>5. waits = NoWaits
      BY <3>4 DEF NoWaits
    <3> QED
      BY SMTT(20), Z3T(20), <3>1, <3>2, <3>3, <3>5
  <2> QED
    BY <2>1, <2>2, <2>3
<1> QED
  BY <1>1, LockInv, IdsInv, PTL
=============================================================================
