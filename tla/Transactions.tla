---------------------------- MODULE Transactions ----------------------------
(***************************************************************************)
(* The threads of one process on one Database: TransactionManager.begin,   *)
(* commit and rollback, Database.execute, and the page accesses of the     *)
(* statements, interleaved between their accesses to shared state; an      *)
(* append to the log and the note of it in _logged_pages are one step, as  *)
(* are the two resets at the end of a transaction. The lock is RWLockSpec  *)
(* (which RWLock implements) under the reentrant guard of WriteLock; past  *)
(* _reentrant_for, an acquire or a release is one step.  A behaviour is    *)
(* followed until the lock is lost: two first begin()s overlap and one     *)
(* replaces the guard of the other (WriteLock follows that further), or    *)
(* the I/O of a begin, commit or rollback fails with the lock held.        *)
(*                                                                         *)
(* A statement is an INSERT, which adds its row to every page (as a multi- *)
(* row INSERT does), or a SELECT, which scans every page.  A page is the   *)
(* set of its rows; a row is the number of the statement that wrote it.    *)
(***************************************************************************)
EXTENDS RWLockSpec, DeadlockDetector, Recovery

CONSTANTS
  Pages,         \* heap pages
  Workloads,     \* what the threads do in a behaviour: the threads that open
                 \* transactions, and write inside them (tx), that write outside
                 \* transactions (auto), that read outside them (read), and
                 \* whether they may switch inside a DeadlockDetector call (preempts)
  MaxTx,         \* bound: no begin() once this many transactions were begun
  MaxInserts     \* bound on INSERT statements

ASSUME WorkloadsAssumption ==
  Workloads \subseteq [tx : SUBSET Callers, auto : SUBSET Callers, read : SUBSET Callers,
                       preempts : BOOLEAN]
ASSUME TxBoundsAssumption == MaxTx \in Nat /\ MaxInserts \in Nat

VARIABLES
  depth,      \* the depth of each thread in the guard of the lock
  guarded,    \* _REENTRANT has a guard for the lock
  lockLost,   \* (history) it was replaced in use, or an error left the lock held
  nextTx,     \* _next_tx_id
  active,     \* _active_tx (its id), 0 for None
  logged,     \* _logged_pages
  waits,      \* the detector's _waits_for
  wal, pages,
  reached,         \* where each thread is
  loc,        \* its local variables
  load,       \* the workload, which never changes
  inserts,    \* (bound) INSERTs started
  acked       \* (history) rows of acknowledged autocommit statements and of
              \* committed transactions

shared == <<nextTx, active, logged, waits>>
store  == <<wal, pages>>
guards == <<guarded, lockLost>>
txVars == <<holdR, holdW, depth, guarded, lockLost, nextTx, active, logged, waits, wal, pages, reached, loc,
          load, inserts, acked>>

\* tx: the transaction the thread has open; id, holder, victim: begin's
\* new_tx_id, the holder it read, detect_cycle's answer; lock: the side that
\* execute took; todo, page, img, row: a statement's progress; seen: what a
\* SELECT has read; undo: rollback's list; mine: rows of the open transaction;
\* waiting: the size of _waits_for before a call that iterates over it;
\* raised: how the last call failed.
NoRows == [p \in {} |-> {}]
NoLocals ==
  [tx |-> 0, id |-> 0, holder |-> 0, victim |-> 0, lock |-> "none", todo |-> {},
   page |-> CHOOSE p \in Pages : TRUE, img |-> {}, row |-> 0, seen |-> NoRows,
   undo |-> <<>>, mine |-> {}, waiting |-> 0, raised |-> "no"]

TxInit ==
  /\ LockInit
  /\ depth = [t \in Callers |-> 0] /\ guarded = FALSE /\ lockLost = FALSE
  /\ nextTx = 1 /\ active = 0 /\ logged = <<>> /\ waits = NoWaits
  /\ wal = <<>> /\ pages = [p \in Pages |-> {}]
  /\ reached = [t \in Callers |-> "idle"]
  /\ loc = [t \in Callers |-> NoLocals]
  /\ load \in Workloads
  /\ inserts = 0 /\ acked = {}

TxGoto(t, l) == reached' = [reached EXCEPT ![t] = l]

\* A call returns: of its locals, what the caller keeps.
Return(t, tx, mine, raised) ==
  /\ loc' = [loc EXCEPT ![t] = [NoLocals EXCEPT !.tx = tx, !.mine = mine, !.raised = raised]]
  /\ TxGoto(t, "idle")

TxRaise(t, error) == Return(t, loc[t].tx, loc[t].mine, error)

\* detect_cycle and remove iterate over a dict that no lock protects: one that
\* grows or shrinks meanwhile makes them raise RuntimeError.
GraphResized(t) == load.preempts /\ Cardinality(DOMAIN waits) # loc[t].waiting
-----------------------------------------------------------------------------
(* TransactionManager.begin *)

\* new_tx_id = self._next_tx_id, before any lock.
BeginReserve(t) ==
  /\ reached[t] = "idle" /\ t \in load.tx /\ nextTx <= MaxTx
  /\ loc' = [loc EXCEPT ![t].id = nextTx]
  /\ TxGoto(t, "begin")
  /\ UNCHANGED <<load, lockVars, depth, guards, shared, store, inserts, acked>>

BeginTest(t) ==
  /\ reached[t] = "begin"
  /\ TxGoto(t, IF active = 0 THEN "lock" ELSE "holder")
  /\ UNCHANGED <<load, lockVars, depth, guards, shared, store, loc, inserts, acked>>

\* self._active_tx.tx_id: read again, and None by now if the holder is done.
BeginReadHolder(t) ==
  /\ reached[t] = "holder"
  /\ IF active = 0
       THEN TxRaise(t, "AttributeError")
       ELSE /\ loc' = [loc EXCEPT ![t].holder = active]
            /\ TxGoto(t, "wait")
  /\ UNCHANGED <<load, lockVars, depth, guards, shared, store, inserts, acked>>

BeginAddWait(t) ==
  /\ reached[t] = "wait"
  /\ waits' = AddWait(waits, loc[t].id, loc[t].holder)
  /\ loc' = [loc EXCEPT ![t].waiting = Cardinality(DOMAIN waits')]
  /\ TxGoto(t, "detect")
  /\ UNCHANGED <<load, lockVars, depth, guards, nextTx, active, logged, store, inserts, acked>>

BeginDetect(t) ==
  /\ reached[t] = "detect"
  /\ loc' = [loc EXCEPT ![t].victim = DetectCycle(waits),
                        ![t].waiting = Cardinality(DOMAIN waits)]
  /\ TxGoto(t, "unwait")
  /\ UNCHANGED <<load, lockVars, depth, guards, shared, store, inserts, acked>>

\* The message of DeadlockError reads self._active_tx.tx_id once more.
BeginRemoveWait(t) ==
  /\ reached[t] = "unwait"
  /\ waits' = RemoveWaits(waits, loc[t].id)
  /\ IF loc[t].victim # 0
       THEN TxRaise(t, IF active = 0 THEN "AttributeError" ELSE "DeadlockError")
       ELSE TxGoto(t, "lock") /\ UNCHANGED loc
  /\ UNCHANGED <<load, lockVars, depth, guards, nextTx, active, logged, store, inserts, acked>>

\* Nothing catches the exception: the edges not yet removed stay.
BeginRaises(t) ==
  /\ reached[t] \in {"detect", "unwait"} /\ GraphResized(t)
  /\ waits' = IF reached[t] = "unwait" THEN PopWait(waits, loc[t].id) ELSE waits
  /\ TxRaise(t, "RuntimeError")
  /\ UNCHANGED <<load, lockVars, depth, guards, nextTx, active, logged, store, inserts, acked>>

\* WriteLock.acquire: _reentrant_for looks the guard up, ...
BeginLookup(t) ==
  /\ reached[t] = "lock"
  /\ TxGoto(t, IF guarded THEN "acquire" ELSE "create")
  /\ UNCHANGED <<load, lockVars, depth, guards, shared, store, loc, inserts, acked>>

\* ... or stores a new one, whatever the dict holds by now: whoever is counted
\* in the one it replaces, or about to be, is not found again.
GuardInUse == \E t \in Callers : depth[t] > 0 \/ reached[t] = "acquire"

BeginStore(t) ==
  /\ reached[t] = "create"
  /\ guarded' = TRUE /\ lockLost' = GuardInUse
  /\ TxGoto(t, "acquire")
  /\ UNCHANGED <<load, lockVars, depth, shared, store, loc, inserts, acked>>

\* Reentrant, else RWLock's write side.
BeginLock(t) ==
  /\ reached[t] = "acquire"
  /\ depth' = [depth EXCEPT ![t] = @ + 1]
  /\ IF depth[t] > 0 THEN UNCHANGED lockVars ELSE EnterWrite(t)
  /\ TxGoto(t, "locked")
  /\ UNCHANGED <<load, guards, shared, store, loc, inserts, acked>>

\* WriteLock.release; until the lock is lost, the guard counts whoever calls it.
ReleaseLevel(t) ==
  /\ depth[t] > 0
  /\ depth' = [depth EXCEPT ![t] = @ - 1]
  /\ IF depth[t] = 1 THEN ExitWrite(t) ELSE UNCHANGED lockVars

BeginNested_KeepsLock(t) ==
  /\ reached[t] = "locked" /\ active # 0
  /\ TxRaise(t, "NestedTransactionError")
  /\ UNCHANGED <<load, lockVars, depth, guards, shared, store, inserts, acked>>
BeginNested(t) ==
  /\ reached[t] = "locked" /\ active # 0
  /\ ReleaseLevel(t)
  /\ TxRaise(t, "NestedTransactionError")
  /\ UNCHANGED <<load, guards, shared, store, inserts, acked>>

BeginLog_Unchecked(t) ==
  /\ reached[t] = "locked"
  /\ loc' = [loc EXCEPT ![t].id = nextTx]
  /\ nextTx' = nextTx + 1
  /\ wal' = Append(wal, BeginRec(nextTx))
  /\ TxGoto(t, "activate")
  /\ UNCHANGED <<load, lockVars, depth, guards, active, logged, waits, pages, inserts, acked>>
BeginLog(t) ==
  /\ reached[t] = "locked" /\ active = 0
  /\ loc' = [loc EXCEPT ![t].id = nextTx]
  /\ nextTx' = nextTx + 1
  /\ wal' = Append(wal, BeginRec(nextTx))
  /\ TxGoto(t, "activate")
  /\ UNCHANGED <<load, lockVars, depth, guards, active, logged, waits, pages, inserts, acked>>

\* The append raises: the id is used up, and nothing lets go of the lock.
BeginLogFails(t) ==
  /\ reached[t] = "locked" /\ active = 0
  /\ nextTx' = nextTx + 1
  /\ TxRaise(t, "OSError")
  /\ lockLost' = TRUE
  /\ UNCHANGED <<load, lockVars, depth, guarded, active, logged, waits, store, inserts, acked>>

\* _active_tx is set first, _logged_pages last.
BeginActivate(t) ==
  /\ reached[t] = "activate"
  /\ active' = loc[t].id
  /\ TxGoto(t, "reset")
  /\ UNCHANGED <<load, lockVars, depth, guards, nextTx, logged, waits, store, loc, inserts, acked>>

BeginReset(t) ==
  /\ reached[t] = "reset"
  /\ logged' = <<>>
  /\ Return(t, loc[t].id, {}, "no")
  /\ UNCHANGED <<load, lockVars, depth, guards, nextTx, active, waits, store, inserts, acked>>
-----------------------------------------------------------------------------
(* Database.execute *)

\* inside_tx: any active transaction, whoever opened it, skips the lock.
Enter(t, body, locking) ==
  /\ TxGoto(t, IF active # 0 THEN body ELSE locking)
  /\ UNCHANGED <<load, lockVars, depth, guards, shared, store, acked>>

ExecuteInsert(t) ==
  /\ reached[t] = "idle" /\ inserts < MaxInserts
  /\ loc[t].tx # 0 \/ t \in load.auto
  /\ inserts' = inserts + 1
  /\ loc' = [loc EXCEPT ![t].todo = Pages, ![t].row = inserts + 1]
  /\ Enter(t, "insert", "lockW")

ExecuteSelect(t) ==
  /\ reached[t] = "idle"
  /\ loc[t].tx # 0 \/ t \in load.read
  /\ loc' = [loc EXCEPT ![t].todo = Pages]
  /\ Enter(t, "select", "lockR")
  /\ UNCHANGED inserts

LockStatement(t) ==
  /\ \/ /\ reached[t] = "lockW" /\ EnterWrite(t)
        /\ loc' = [loc EXCEPT ![t].lock = "write"] /\ TxGoto(t, "insert")
     \/ /\ reached[t] = "lockR" /\ EnterRead(t)
        /\ loc' = [loc EXCEPT ![t].lock = "read"] /\ TxGoto(t, "select")
  /\ UNCHANGED <<load, depth, guards, shared, store, inserts, acked>>

\* Heap.insert reads the page it will change ...
ReadPage(t, p) ==
  /\ reached[t] = "insert" /\ p \in loc[t].todo
  /\ loc' = [loc EXCEPT ![t].page = p, ![t].img = pages[p], ![t].todo = @ \ {p}]
  /\ TxGoto(t, "log")
  /\ UNCHANGED <<load, lockVars, depth, guards, shared, store, inserts, acked>>

\* ... _write_page_logged reads it again for the before-image and has
\* log_page_write record both, under whatever transaction is active ...
LogPage(t) ==
  /\ reached[t] = "log"
  /\ LET l == loc[t] IN
       /\ wal' = Append(wal, PageRec(active, l.page, pages[l.page], l.img \cup {l.row}))
       /\ logged' = Append(logged, <<l.page, pages[l.page]>>)
  /\ TxGoto(t, "write")
  /\ UNCHANGED <<load, lockVars, depth, guards, nextTx, active, waits, pages, loc, inserts, acked>>

\* ... and the page is written.
TxWritePage(t) ==
  /\ reached[t] = "write"
  /\ pages' = [pages EXCEPT ![loc[t].page] = loc[t].img \cup {loc[t].row}]
  /\ TxGoto(t, "insert")
  /\ UNCHANGED <<load, lockVars, depth, guards, shared, wal, loc, inserts, acked>>

ScanPage_Unlocks(t, p) ==
  /\ reached[t] = "select" /\ p \in loc[t].todo
  /\ loc' = [loc EXCEPT ![t].todo = @ \ {p}, ![t].lock = "none",
                        ![t].seen = [q \in DOMAIN @ \cup {p} |-> IF q = p THEN pages[p] ELSE @[q]]]
  /\ holdR' = holdR \ {t}
  /\ UNCHANGED <<load, holdW, depth, guards, shared, store, reached, inserts, acked>>
ScanPage(t, p) ==
  /\ reached[t] = "select" /\ p \in loc[t].todo
  /\ loc' = [loc EXCEPT ![t].todo = @ \ {p},
                        ![t].seen = [q \in DOMAIN @ \cup {p} |-> IF q = p THEN pages[p] ELSE @[q]]]
  /\ UNCHANGED <<load, lockVars, depth, guards, shared, store, reached, inserts, acked>>

\* Leaving "with rw_cm", and the answer to the caller.
UnlockStatement(t) ==
  CASE loc[t].lock = "write" -> ExitWrite(t)
    [] loc[t].lock = "read"  -> ExitRead(t)
    [] OTHER                 -> UNCHANGED lockVars

FinishInsert(t) ==
  /\ reached[t] = "insert" /\ loc[t].todo = {}
  /\ UnlockStatement(t)
  /\ IF loc[t].tx = 0
       THEN Return(t, 0, {}, "no") /\ acked' = acked \cup {loc[t].row}
       ELSE Return(t, loc[t].tx, loc[t].mine \cup {loc[t].row}, "no") /\ UNCHANGED acked
  /\ UNCHANGED <<load, depth, guards, shared, store, inserts>>

FinishSelect(t) ==
  /\ reached[t] = "select" /\ loc[t].todo = {}
  /\ UnlockStatement(t)
  /\ Return(t, loc[t].tx, loc[t].mine, "no")
  /\ UNCHANGED <<load, depth, guards, shared, store, inserts, acked>>
-----------------------------------------------------------------------------
(* TransactionManager.commit and rollback *)

CommitLog(t) ==
  /\ reached[t] = "idle" /\ loc[t].tx # 0 /\ active = loc[t].tx
  /\ wal' = Append(wal, CommitRec(loc[t].tx))
  /\ loc' = [loc EXCEPT ![t].waiting = Cardinality(DOMAIN waits)]
  /\ TxGoto(t, "end")
  /\ UNCHANGED <<load, lockVars, depth, guards, shared, pages, inserts, acked>>

RollbackLog(t) ==
  /\ reached[t] = "idle" /\ loc[t].tx # 0 /\ active = loc[t].tx
  /\ wal' = Append(wal, RollbackRec(loc[t].tx))
  /\ loc' = [loc EXCEPT ![t].undo = logged]
  /\ TxGoto(t, "undo")
  /\ UNCHANGED <<load, lockVars, depth, guards, shared, pages, inserts, acked>>

\* One turn of the loop over reversed(_logged_pages).
RollbackRestore_OldestFirst(t) ==
  /\ reached[t] = "undo" /\ loc[t].undo # <<>>
  /\ LET first == Head(loc[t].undo)
     IN  pages' = [pages EXCEPT ![first[1]] = first[2]]
  /\ loc' = [loc EXCEPT ![t].undo = Tail(@)]
  /\ UNCHANGED <<load, lockVars, depth, guards, shared, wal, reached, inserts, acked>>
RollbackRestore(t) ==
  /\ reached[t] = "undo" /\ loc[t].undo # <<>>
  /\ LET last == loc[t].undo[Len(loc[t].undo)]
     IN  pages' = [pages EXCEPT ![last[1]] = last[2]]
  /\ loc' = [loc EXCEPT ![t].undo = SubSeq(@, 1, Len(@) - 1)]
  /\ UNCHANGED <<load, lockVars, depth, guards, shared, wal, reached, inserts, acked>>

RollbackDone(t) ==
  /\ reached[t] = "undo" /\ loc[t].undo = <<>>
  /\ loc' = [loc EXCEPT ![t].mine = {}, ![t].waiting = Cardinality(DOMAIN waits)]
  /\ TxGoto(t, "end")
  /\ UNCHANGED <<load, lockVars, depth, guards, shared, store, inserts, acked>>

\* Both end alike: forget the waits, the pages and the transaction ...
EndForget(t) ==
  /\ reached[t] = "end"
  /\ waits' = RemoveWaits(waits, loc[t].tx)
  /\ TxGoto(t, "clear")
  /\ UNCHANGED <<load, lockVars, depth, guards, nextTx, active, logged, store, loc, inserts, acked>>

EndClear(t) ==
  /\ reached[t] = "clear"
  /\ logged' = <<>> /\ active' = 0
  /\ TxGoto(t, "release")
  /\ UNCHANGED <<load, lockVars, depth, guards, nextTx, waits, store, loc, inserts, acked>>

\* (unless remove raises: transaction() passes the exception on, and neither
\* the transaction nor the lock is let go)
EndRaises(t) ==
  /\ reached[t] = "end" /\ GraphResized(t)
  /\ waits' = PopWait(waits, loc[t].tx)
  /\ Return(t, 0, {}, "RuntimeError")
  /\ UNCHANGED <<load, lockVars, depth, guards, nextTx, active, logged, store, inserts, acked>>

\* (or the append or the fsync raises, or a write_page of the rollback: likewise)
EndFails(t) ==
  /\ \/ /\ reached[t] = "idle" /\ loc[t].tx # 0 /\ active = loc[t].tx
        /\ \/ UNCHANGED wal
           \/ wal' = Append(wal, CommitRec(loc[t].tx))
           \/ wal' = Append(wal, RollbackRec(loc[t].tx))
     \/ reached[t] = "undo" /\ loc[t].undo # <<>> /\ UNCHANGED wal
  /\ Return(t, 0, {}, "OSError")
  /\ lockLost' = TRUE
  /\ UNCHANGED <<load, lockVars, depth, guarded, shared, pages, inserts, acked>>

\* ... then the lock.
EndRelease_KeepsLock(t) ==
  /\ reached[t] = "release"
  /\ acked' = acked \cup loc[t].mine
  /\ Return(t, 0, {}, "no")
  /\ UNCHANGED <<load, lockVars, depth, guards, shared, store, inserts>>
EndRelease(t) ==
  /\ reached[t] = "release"
  /\ ReleaseLevel(t)
  /\ acked' = acked \cup loc[t].mine
  /\ Return(t, 0, {}, "no")
  /\ UNCHANGED <<load, guards, shared, store, inserts>>
-----------------------------------------------------------------------------
TxBegin(t) ==
  /\ ~lockLost
  /\ \/ BeginReserve(t) \/ BeginTest(t) \/ BeginReadHolder(t) \/ BeginAddWait(t)
     \/ BeginDetect(t) \/ BeginRemoveWait(t) \/ BeginRaises(t) \/ BeginLookup(t)
     \/ BeginStore(t) \/ BeginLock(t) \/ BeginNested(t) \/ BeginLog(t) \/ BeginLogFails(t)
     \/ BeginActivate(t) \/ BeginReset(t)
TxStatement(t) ==
  /\ ~lockLost
  /\ \/ ExecuteInsert(t) \/ ExecuteSelect(t) \/ LockStatement(t) \/ LogPage(t)
     \/ TxWritePage(t) \/ FinishInsert(t) \/ FinishSelect(t)
     \/ \E p \in Pages : ReadPage(t, p) \/ ScanPage(t, p)
TxEnd(t) ==
  /\ ~lockLost
  /\ \/ CommitLog(t) \/ RollbackLog(t) \/ RollbackRestore(t) \/ RollbackDone(t)
     \/ EndForget(t) \/ EndClear(t) \/ EndRaises(t) \/ EndFails(t) \/ EndRelease(t)

TxNext == \E t \in Callers : TxBegin(t) \/ TxStatement(t) \/ TxEnd(t)

TxSpec == TxInit /\ [][TxNext]_txVars

\* Callers run (WF); a thread that keeps finding the lock free gets it (SF,
\* what RWLock's liveness run shows); the block of a transaction ends (SF, as
\* the thread may run any number of statements first).
TxFairness ==
  \A t \in Callers :
    /\ WF_txVars(reached[t] # "idle" /\ (TxBegin(t) \/ TxStatement(t) \/ TxEnd(t)))
    /\ SF_txVars(~lockLost /\ BeginLock(t)) /\ SF_txVars(~lockLost /\ LockStatement(t))
    /\ SF_txVars(~lockLost /\ (CommitLog(t) \/ RollbackLog(t)))

TxFairSpec == TxSpec /\ TxFairness
-----------------------------------------------------------------------------
Labels == {"idle", "begin", "holder", "wait", "detect", "unwait", "lock", "create", "acquire",
           "locked", "activate", "reset", "lockW", "lockR", "insert", "log", "write", "select",
           "undo", "end", "clear", "release"}

TxTypeOK ==
  /\ holdR \subseteq Callers /\ holdW \subseteq Callers
  /\ depth \in [Callers -> 0..2]
  /\ nextTx \in 1..(MaxTx + Cardinality(Callers)) /\ active \in 0..(nextTx - 1)
  /\ \A k \in DOMAIN logged : logged[k] \in Pages \X SUBSET (1..inserts)
  /\ \A w \in DOMAIN waits : w \in 1..nextTx /\ waits[w] \in 1..(nextTx - 1)
  /\ pages \in [Pages -> SUBSET (1..inserts)]
  /\ reached \in [Callers -> Labels]
  /\ inserts \in 0..MaxInserts /\ acked \subseteq 1..inserts

\* Nobody is writing: no thread has the write lock or is inside an INSERT.
Quiescent == holdW = {} /\ \A t \in Callers : reached[t] \notin {"insert", "log", "write"}

\* When nobody is writing, every page holds exactly the rows of the calls that
\* succeeded: no update is lost to an interleaved read-modify-write, none
\* survives its ROLLBACK, and no acknowledged row is undone by somebody else's.
QuietPagesAcked == ~lockLost /\ Quiescent => \A p \in Pages : pages[p] = acked

\* Transactions do not overlap in the log: between the BEGIN of one and its
\* end, every record is its own, which is what replay takes for granted.
Bracketed ==
  \A i \in DOMAIN wal : wal[i].type = "BEGIN" =>
    \A j \in (i + 1)..Len(wal) :
      \/ wal[j].tx = wal[i].tx
      \/ \E k \in (i + 1)..(j - 1) :
           wal[k].type \in {"COMMIT", "ROLLBACK"} /\ wal[k].tx = wal[i].tx

LogBracketed == ~lockLost => Bracketed

\* A SELECT sees rows of acknowledged calls and of its own transaction only:
\* "事务 T2 的 SELECT 看不到 T1 的修改" (REQ-TRX-4).
ReadsCommitted ==
  \A t \in Callers : \A p \in DOMAIN loc[t].seen : loc[t].seen[p] \subseteq acked \cup loc[t].mine

\* ... and all of a statement or none of it, whichever pages it scans.
ReadsWholeStatements ==
  \A t \in Callers : \A p, q \in DOMAIN loc[t].seen : loc[t].seen[p] = loc[t].seen[q]

\* NestedTransactionError is for a thread that has a transaction open itself
\* (or that an interrupted commit left one open for).
NestedMeansOwn ==
  \A t \in Callers : ~load.preempts /\ reached[t] = "locked" /\ active # 0 => loc[t].tx = active

\* "The lock is held until commit() or rollback() is called", and no longer:
\* once every thread is back from its calls and no transaction is open, the
\* lock is free at every level and no wait edge is left, whichever errors
\* begin() raised; unless a commit was interrupted inside the detector.
NothingLeaks ==
  ~load.preempts /\ (\A t \in Callers : reached[t] = "idle" /\ loc[t].tx = 0) =>
    /\ active = 0 /\ holdW = {} /\ holdR = {} /\ waits = NoWaits
    /\ \A t \in Callers : depth[t] = 0

\* begin, commit and rollback, whichever way they end: no lock, depth, wait edge
\* or active transaction is left, and none is taken for somebody else's; unless
\* the lock is lost.
LocksGivenBack == ~lockLost => TxTypeOK /\ NestedMeansOwn /\ NothingLeaks

\* Database.execute of a SELECT: whole statements, and acknowledged ones.
SelectsSeeCommitted == ~lockLost => ReadsWholeStatements /\ ReadsCommitted

\* Every call returns, and every transaction is ended and gives the lock back;
\* unless a commit was interrupted inside the detector, or the lock is lost.
CallsReturn ==
  \A t \in Callers :
    (~load.preempts /\ reached[t] # "idle") ~> (reached[t] = "idle" \/ lockLost)
=============================================================================
