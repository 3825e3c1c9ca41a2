------------------------------ MODULE Processes ------------------------------
(***************************************************************************)
(* Processes that have one database open with use_process_lock=True:       *)
(* Database.execute under ProcessLock, WAL.append under a ProcessLock of   *)
(* its own on the same descriptor, the LSN that commit stamps into the     *)
(* header, and Database.close.  Each process has one thread.               *)
(*                                                                         *)
(* flock belongs to the open file, not to the with block: locking again    *)
(* replaces the lock the process has, and unlocking once drops it.         *)
(***************************************************************************)
EXTENDS Integers, Sequences

CONSTANTS
  Writers,      \* processes that run INSERT
  Committers,   \* processes that commit transactions (only commit() is here)
  Readers,      \* processes that run SELECT
  Pages,        \* heap pages, numbered along their chain: INSERT adds its row to
                \* each, SELECT scans each
  MaxCalls      \* bound on INSERTs, COMMITs and closes

Procs == Writers \cup Committers \cup Readers

ASSUME MaxCallsAssumption == MaxCalls \in Nat

VARIABLES
  flock,    \* the lock each process has on the WAL: "none", "sh" or "ex"
  at,
  loc,      \* locals of the running call
  nextLsn,  \* each process's _next_lsn
  cached,   \* each process's Pager._last_lsn
  header,   \* last_lsn in page 0
  wal,      \* the frames in the file: [proc, lsn]
  pages,
  calls,    \* (bound) INSERTs, COMMITs and closes started; names the rows
  appended  \* (history) frames whose append returned

procVars == <<flock, at, loc, nextLsn, cached, header, wal, pages, calls, appended>>
files == <<header, wal, pages>>

NoRows == [g \in {} |-> {}]
NoLocals == [todo |-> {}, page |-> CHOOSE g \in Pages : TRUE, img |-> {}, row |-> 0,
             seen |-> NoRows, end |-> 0]

\* All have opened the new, empty database.
ProcInit ==
  /\ flock = [p \in Procs |-> "none"]
  /\ at = [p \in Procs |-> "idle"]
  /\ loc = [p \in Procs |-> NoLocals]
  /\ nextLsn = [p \in Procs |-> 1]
  /\ cached = [p \in Procs |-> 0] /\ header = 0
  /\ wal = <<>> /\ pages = [g \in Pages |-> {}]
  /\ calls = 0 /\ appended = {}

ProcGoto(p, l) == at' = [at EXCEPT ![p] = l]

\* flock(2): blocks until it is compatible with the locks of the others.
LockEx(p) ==
  /\ \A q \in Procs \ {p} : flock[q] = "none"
  /\ flock' = [flock EXCEPT ![p] = "ex"]
LockSh(p) ==
  /\ \A q \in Procs \ {p} : flock[q] # "ex"
  /\ flock' = [flock EXCEPT ![p] = "sh"]
Unlock(p) == flock' = [flock EXCEPT ![p] = "none"]
-----------------------------------------------------------------------------
(* Database.execute: INSERT *)
ExecuteInsert(p) ==
  /\ at[p] = "idle" /\ p \in Writers /\ calls < MaxCalls
  /\ LockEx(p)
  /\ calls' = calls + 1
  /\ loc' = [loc EXCEPT ![p] = [NoLocals EXCEPT !.todo = Pages, !.row = calls + 1]]
  /\ ProcGoto(p, "insert")
  /\ UNCHANGED <<nextLsn, cached, files, appended>>

\* _write_header_unlocked: all of the header from what the process has cached,
\* last_lsn too, whatever another has stamped since.
WriteHeader(p) == header' = cached[p]

OnChain(p, g) == g \in loc[p].todo /\ \A h \in loc[p].todo : g <= h

\* A page with room, or one that allocate_page makes first.
ReadPage(p, g) ==
  /\ at[p] = "insert" /\ OnChain(p, g)
  /\ UNCHANGED header \/ WriteHeader(p)
  /\ loc' = [loc EXCEPT ![p].page = g, ![p].img = pages[g], ![p].todo = @ \ {g}]
  /\ ProcGoto(p, "append")
  /\ UNCHANGED <<flock, nextLsn, cached, wal, pages, calls, appended>>

WritePage(p) ==
  /\ at[p] = "write"
  /\ pages' = [pages EXCEPT ![loc[p].page] = loc[p].img \cup {loc[p].row}]
  /\ ProcGoto(p, "insert")
  /\ UNCHANGED <<flock, loc, nextLsn, cached, header, wal, calls, appended>>

FinishInsert(p) ==
  /\ at[p] = "insert" /\ loc[p].todo = {}
  /\ Unlock(p)
  /\ loc' = [loc EXCEPT ![p] = NoLocals]
  /\ ProcGoto(p, "idle")
  /\ UNCHANGED <<nextLsn, cached, files, calls, appended>>
-----------------------------------------------------------------------------
(* WAL.append with its own ProcessLock, for a PAGE or a COMMIT record *)
AppendLock_Skipped(p) ==
  /\ at[p] \in {"append", "commit"}
  /\ loc' = [loc EXCEPT ![p].end = Len(wal)]
  /\ ProcGoto(p, IF at[p] = "append" THEN "frame" ELSE "lastframe")
  /\ UNCHANGED <<flock, nextLsn, cached, files, calls, appended>>
AppendLock(p) ==
  /\ at[p] \in {"append", "commit"}
  /\ LockEx(p)
  /\ loc' = [loc EXCEPT ![p].end = Len(wal)]    \* seek to the end
  /\ ProcGoto(p, IF at[p] = "append" THEN "frame" ELSE "lastframe")
  /\ UNCHANGED <<nextLsn, cached, files, calls, appended>>

\* Write at that place, whatever is there by now, and unlock.
AppendWrite(p) ==
  /\ at[p] \in {"frame", "lastframe"}
  /\ LET frame == [proc |-> p, lsn |-> nextLsn[p]]
     IN  /\ wal' = [i \in DOMAIN wal \cup {loc[p].end + 1} |->
                      IF i = loc[p].end + 1 THEN frame ELSE wal[i]]
         /\ appended' = appended \cup {frame}
  /\ nextLsn' = [nextLsn EXCEPT ![p] = @ + 1]
  /\ Unlock(p)
  /\ ProcGoto(p, IF at[p] = "frame" THEN "write" ELSE "stamp")
  /\ UNCHANGED <<loc, cached, header, pages, calls>>
-----------------------------------------------------------------------------
(* TransactionManager.commit: the record, then set_last_lsn *)
Commit(p) ==
  /\ at[p] = "idle" /\ p \in Committers /\ calls < MaxCalls
  /\ calls' = calls + 1
  /\ ProcGoto(p, "commit")
  /\ UNCHANGED <<flock, loc, nextLsn, cached, files, appended>>

StampHeader(p) ==
  /\ at[p] = "stamp"
  /\ LET lsn == nextLsn[p] - 1
     IN  IF lsn > cached[p]
           THEN cached' = [cached EXCEPT ![p] = lsn] /\ header' = lsn
           ELSE UNCHANGED <<cached, header>>
  /\ loc' = [loc EXCEPT ![p] = NoLocals]
  /\ ProcGoto(p, "idle")
  /\ UNCHANGED <<flock, nextLsn, wal, pages, calls, appended>>
-----------------------------------------------------------------------------
(* Database.execute: SELECT *)
ExecuteSelect(p) ==
  /\ at[p] = "idle" /\ p \in Readers
  /\ LockSh(p)
  /\ loc' = [loc EXCEPT ![p] = [NoLocals EXCEPT !.todo = Pages]]
  /\ ProcGoto(p, "select")
  /\ UNCHANGED <<nextLsn, cached, files, calls, appended>>

ScanPage(p, g) ==
  /\ at[p] = "select" /\ OnChain(p, g)
  /\ loc' = [loc EXCEPT ![p].todo = @ \ {g},
                        ![p].seen = [h \in DOMAIN @ \cup {g} |-> IF h = g THEN pages[g] ELSE @[h]]]
  /\ UNCHANGED <<flock, at, nextLsn, cached, files, calls, appended>>

FinishSelect_KeepsLock(p) ==
  /\ at[p] = "select" /\ loc[p].todo = {}
  /\ loc' = [loc EXCEPT ![p] = NoLocals]
  /\ ProcGoto(p, "idle")
  /\ UNCHANGED <<flock, nextLsn, cached, files, calls, appended>>
FinishSelect(p) ==
  /\ at[p] = "select" /\ loc[p].todo = {}
  /\ Unlock(p)
  /\ loc' = [loc EXCEPT ![p] = NoLocals]
  /\ ProcGoto(p, "idle")
  /\ UNCHANGED <<nextLsn, cached, files, calls, appended>>

\* Database.close; Pager.close takes no lock.
Close(p) ==
  /\ at[p] = "idle" /\ calls < MaxCalls
  /\ WriteHeader(p)
  /\ calls' = calls + 1
  /\ ProcGoto(p, "closed")
  /\ UNCHANGED <<flock, loc, nextLsn, cached, wal, pages, appended>>

ProcStep(p) ==
  \/ ExecuteInsert(p) \/ WritePage(p) \/ FinishInsert(p)
  \/ AppendLock(p) \/ AppendWrite(p) \/ Commit(p) \/ StampHeader(p)
  \/ ExecuteSelect(p) \/ FinishSelect(p) \/ Close(p)
  \/ \E g \in Pages : ReadPage(p, g) \/ ScanPage(p, g)

ProcNext == \E p \in Procs : ProcStep(p)
ProcSpec == ProcInit /\ [][ProcNext]_procVars

\* Processes run, and get the lock if they find it free often enough.
ProcFairness ==
  \A p \in Procs :
    /\ WF_procVars(at[p] # "idle" /\ ProcStep(p))
    /\ SF_procVars(AppendLock(p))
ProcFairSpec == ProcSpec /\ ProcFairness
-----------------------------------------------------------------------------
ProcTypeOK ==
  /\ flock \in [Procs -> {"none", "sh", "ex"}]
  /\ at \in [Procs -> {"idle", "insert", "append", "frame", "write", "commit", "lastframe",
                       "stamp", "select", "closed"}]
  /\ wal \in Seq([proc : Procs, lsn : Nat])
  /\ pages \in [Pages -> SUBSET (1..calls)]
  /\ calls \in 0..MaxCalls /\ header \in Nat

\* "防止多进程同时写入", "不出现撕裂写" (REQ-CONC-2): no append overwrites the
\* frame of another; every frame whose append returned is in the file, once.
AppendsKept ==
  \A f \in appended : \E i \in DOMAIN wal : wal[i] = f /\ \A j \in DOMAIN wal : wal[j] = f => j = i

\* The lock taken again inside a statement does not leave two processes waiting
\* for each other: every call returns, provided that the SELECTs of several
\* readers do not overlap for ever (LOCK_EX is not granted while one has LOCK_SH).
ReadersPause == []<>(\A p \in Readers : at[p] # "select")
CallsReturn ==
  ReadersPause => \A p \in Procs : at[p] \notin {"idle", "closed"} ~> at[p] = "idle"

\* "a subprocess writer committing cannot interleave with a subprocess reader's
\* SELECT": a SELECT sees the row of an INSERT on all pages or on none.
ReadsWholeStatements ==
  \A p \in Procs : \A g, h \in DOMAIN loc[p].seen : loc[p].seen[g] = loc[p].seen[h]

\* "so other processes can detect the change": a COMMIT moves the header's
\* last_lsn, however the appends and the header writes of other processes fall
\* between (provided one process commits: each counts its own LSNs, and two may
\* stamp the same one).  It need not stay: a process that allocates a page or
\* closes writes back the LSN it had cached.
CommitsDetectable == \A p \in Procs : StampHeader(p) => header' # header

\* "LSN of the most recent WAL frame whose effects are on disk": the header's
\* last_lsn, stamped or written back, is that of a frame in the log.
HeaderLogged == header = 0 \/ \E i \in DOMAIN wal : wal[i].lsn = header

\* WAL.append, set_last_lsn and the header writes: no process undoes in the log
\* what another has done there, the header never runs ahead of the log, and a
\* COMMIT changes it.
SharedFilesKept == [][ProcTypeOK' /\ AppendsKept' /\ HeaderLogged' /\ CommitsDetectable]_procVars
=============================================================================
