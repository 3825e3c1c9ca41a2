----------------------------- MODULE Durability -----------------------------
(***************************************************************************)
(* One database file and its log through the life of the processes that    *)
(* open it one after the other: TransactionManager over Pager, WAL and     *)
(* Recovery, with a crash possible between any two writes to a file.       *)
(*                                                                         *)
(* Callers are serialised (Transactions is about their interleaving), so   *)
(* the manager's write lock does not appear.  A page image is the number   *)
(* of the write that made it; the header, page 0, holds last_lsn.  LSNs    *)
(* are positions in the log.                                               *)
(***************************************************************************)
EXTENDS Recovery, FiniteSets

CONSTANTS
  Pages,            \* heap pages, numbered from 1
  WithTx,           \* whether callers open transactions
  WithAutocommit,   \* whether callers run statements outside them
  Rewrites,         \* whether a transaction may write a page more than once
  PowerFails,       \* when the power may fail: "never", at "any" time, or
                    \* only while every PAGE record is "settled" by an fsync
  WritingSessions,  \* how many processes, one after the other, write
  MaxTx, MaxWrites, MaxRecords   \* bounds: transactions per session, page
                                 \* writes in all, length of the log

ASSUME PagesAssumption == Pages \subseteq Nat \ {0}
ASSUME WorkloadAssumption ==
  /\ {WithTx, WithAutocommit, Rewrites} \subseteq BOOLEAN
  /\ PowerFails \in {"never", "settled", "any"}
ASSUME BoundsAssumption == {WritingSessions, MaxTx, MaxWrites, MaxRecords} \subseteq Nat

HeaderPage == 0

VARIABLES
  wal,       \* the records in the log file
  synced,    \* how many of them an fsync has covered
  pages,     \* the data file as the operating system shows it
  media,     \* the images a page may have once the power has failed
  phase,     \* "down", "replaying" or "up"
  todo,      \* while replaying: the pages replay has yet to write
  step,      \* where the running call is
  cur,       \* the page write in flight: <<page, image>>
  nextTx,    \* _next_tx_id
  active,    \* _active_tx, 0 for None
  logged,    \* _logged_pages
  session,   \* how many processes have opened the file
  fresh,     \* number of page writes so far
  outcomes   \* (history) what the file may show once it is reopened: the
             \* acknowledged state, or that state with all of the call that
             \* was about to be acknowledged

files == <<wal, synced, pages, media>>
manager == <<step, cur, nextTx, active, logged>>
vars == <<wal, synced, pages, media, phase, todo, step, cur, nextTx, active, logged,
          session, fresh, outcomes>>

\* The data a client can see: the file without its header.
Contents(f) == [p \in Pages |-> f[p]]

NoWrite == <<HeaderPage, 0>>

\* A file just created, opened for the first time.
Init ==
  /\ wal = <<>> /\ synced = 0
  /\ pages = [p \in Pages \cup {HeaderPage} |-> 0]
  /\ media = [p \in Pages \cup {HeaderPage} |-> {0}]
  /\ phase = "up" /\ todo = {}
  /\ step = "ready" /\ cur = NoWrite
  /\ nextTx = 1 /\ active = 0 /\ logged = <<>>
  /\ session = 1 /\ fresh = 0
  /\ outcomes = {[p \in Pages |-> 0]}

\* Pager.write_page writes and flushes; only close() fsyncs the data file.
WriteFile(p, image) ==
  /\ pages' = [pages EXCEPT ![p] = image]
  /\ media' = [media EXCEPT ![p] = @ \cup {image}]

\* WAL.append writes and flushes; WAL.fsync is a call of its own.
AppendWal(r) == Len(wal) < MaxRecords /\ wal' = Append(wal, r)

Running(at) == phase = "up" /\ step = at

Begin ==
  /\ Running("ready") /\ active = 0
  /\ WithTx /\ session <= WritingSessions /\ nextTx <= MaxTx
  /\ AppendWal(BeginRec(nextTx))
  /\ active' = nextTx
  /\ nextTx' = nextTx + 1
  /\ logged' = <<>>
  /\ UNCHANGED <<synced, pages, media, phase, todo, step, cur, session, fresh, outcomes>>

\* Heap._write_page_logged up to the page write: read the before-image, have
\* log_page_write append the record and remember the image.
LogWrite_PageFirst(p) ==
  /\ Running("ready") /\ fresh < MaxWrites
  /\ active = 0 => WithAutocommit /\ session <= WritingSessions
  /\ Rewrites \/ active = 0 \/ \A k \in DOMAIN logged : logged[k][1] # p
  /\ fresh' = fresh + 1
  /\ AppendWal(PageRec(active, p, pages[p], fresh + 1))
  /\ WriteFile(p, fresh + 1)
  /\ logged' = Append(logged, <<p, pages[p]>>)
  /\ cur' = <<p, fresh + 1>>
  /\ step' = "logged"
  /\ outcomes' = IF active # 0 THEN outcomes
                 ELSE outcomes \cup {[f EXCEPT ![p] = fresh + 1] : f \in outcomes}
  /\ UNCHANGED <<synced, phase, todo, nextTx, active, session>>
LogWrite(p) ==
  /\ Running("ready") /\ fresh < MaxWrites
  /\ active = 0 => WithAutocommit /\ session <= WritingSessions
  /\ Rewrites \/ active = 0 \/ \A k \in DOMAIN logged : logged[k][1] # p
  /\ fresh' = fresh + 1
  /\ AppendWal(PageRec(active, p, pages[p], fresh + 1))
  /\ logged' = Append(logged, <<p, pages[p]>>)
  /\ cur' = <<p, fresh + 1>>
  /\ step' = "logged"
  /\ outcomes' = IF active # 0 THEN outcomes
                 ELSE outcomes \cup {[f EXCEPT ![p] = fresh + 1] : f \in outcomes}
  /\ UNCHANGED <<synced, pages, media, phase, todo, nextTx, active, session>>

\* ... and the page write itself.  In autocommit it ends the statement.
ApplyWrite ==
  /\ Running("logged")
  /\ WriteFile(cur[1], cur[2])
  /\ step' = "ready" /\ cur' = NoWrite
  /\ outcomes' = IF active # 0 THEN outcomes ELSE {Contents(pages')}
  /\ UNCHANGED <<wal, synced, phase, todo, nextTx, active, logged, session, fresh>>

AppendCommit ==
  /\ Running("ready") /\ active # 0
  /\ AppendWal(CommitRec(active))
  /\ step' = "committing"
  /\ outcomes' = outcomes \cup {Contents(pages)}
  /\ UNCHANGED <<synced, pages, media, phase, todo, cur, nextTx, active, logged, session, fresh>>

\* fsync, called on the way out of commit and of rollback.
FsyncWal(at, next) ==
  /\ Running(at)
  /\ synced' = Len(wal)
  /\ step' = next
  /\ UNCHANGED <<wal, pages, media, phase, todo, cur, nextTx, active, logged, session, fresh, outcomes>>

FsyncCommit == FsyncWal("committing", "stamping")

\* set_last_lsn: only ever raises the header's last_lsn.
StampHeader ==
  /\ Running("stamping")
  /\ IF Len(wal) > pages[HeaderPage] THEN WriteFile(HeaderPage, Len(wal))
                                     ELSE UNCHANGED <<pages, media>>
  /\ step' = "finishing"
  /\ UNCHANGED <<wal, synced, phase, todo, cur, nextTx, active, logged, session, fresh, outcomes>>

FinishCommit ==
  /\ Running("finishing")
  /\ active' = 0 /\ logged' = <<>> /\ step' = "ready"
  /\ outcomes' = {Contents(pages)}
  /\ UNCHANGED <<files, phase, todo, cur, nextTx, session, fresh>>

AppendRollback ==
  /\ Running("ready") /\ active # 0
  /\ AppendWal(RollbackRec(active))
  /\ step' = "aborting"
  /\ UNCHANGED <<synced, pages, media, phase, todo, cur, nextTx, active, logged, session,
                 fresh, outcomes>>

FsyncRollback == FsyncWal("aborting", "undoing")

\* One before-image of the loop over reversed(_logged_pages).
UndoWrite ==
  /\ Running("undoing") /\ logged # <<>>
  /\ LET last == logged[Len(logged)] IN WriteFile(last[1], last[2])
  /\ logged' = SubSeq(logged, 1, Len(logged) - 1)
  /\ UNCHANGED <<wal, synced, phase, todo, step, cur, nextTx, active, session, fresh, outcomes>>

FinishRollback_Early ==
  /\ Running("undoing")
  /\ active' = 0 /\ step' = "ready"
  /\ UNCHANGED <<files, phase, todo, cur, nextTx, logged, session, fresh, outcomes>>
FinishRollback ==
  /\ Running("undoing") /\ logged = <<>>
  /\ active' = 0 /\ step' = "ready"
  /\ UNCHANGED <<files, phase, todo, cur, nextTx, logged, session, fresh, outcomes>>

\* Checkpoint.run: one more record, which replay ignores.
Checkpoint ==
  /\ Running("ready")
  /\ AppendWal([type |-> "CKPT", lsn |-> Len(wal) + 1])
  /\ UNCHANGED <<synced, pages, media, phase, todo, manager, session, fresh, outcomes>>

Volatile ==   \* what a process takes with it
  /\ phase' = "down" /\ todo' = {}
  /\ step' = "ready" /\ cur' = NoWrite
  /\ nextTx' = 1 /\ active' = 0 /\ logged' = <<>>

\* Database.close: the WAL is flushed, the data file fsynced; a transaction
\* left open is simply dropped.
Close ==
  /\ Running("ready")
  /\ Volatile
  /\ media' = [p \in DOMAIN pages |-> {pages[p]}]
  /\ UNCHANGED <<wal, synced, pages, session, fresh, outcomes>>

\* The process dies; what it wrote is in the operating system's hands.
Crash ==
  /\ phase # "down"
  /\ Volatile
  /\ UNCHANGED <<files, session, fresh, outcomes>>

\* The machine dies: the log keeps a prefix that holds every synced record,
\* each page any image written since the file was last synced.
PowerLoss ==
  /\ PowerFails # "never"
  /\ PowerFails = "settled" => \A i \in (synced + 1)..Len(wal) : wal[i].type # "PAGE"
  /\ Volatile
  /\ \E n \in synced..Len(wal) : wal' = SubSeq(wal, 1, n)
  /\ pages' \in [DOMAIN pages -> UNION {media[p] : p \in DOMAIN pages}]
  /\ \A p \in DOMAIN pages : pages'[p] \in media[p]
  /\ media' = [p \in DOMAIN pages |-> {pages'[p]}]
  /\ UNCHANGED <<synced, session, fresh, outcomes>>

\* Database.__init__: replay computes what to restore from the whole log ...
Open ==
  /\ phase = "down"
  /\ phase' = "replaying"
  /\ todo' = {p \in Pages : Restored(wal, p)}
  /\ session' = IF session <= WritingSessions THEN session + 1 ELSE session
  /\ UNCHANGED <<files, manager, fresh, outcomes>>

\* ... and writes it page by page (in page order; the order is left open).
ReplayPage(p) ==
  /\ phase = "replaying" /\ p \in todo
  /\ WriteFile(p, Image(wal, p))
  /\ todo' = todo \ {p}
  /\ UNCHANGED <<wal, synced, phase, manager, session, fresh, outcomes>>

OpenDone ==
  /\ phase = "replaying" /\ todo = {}
  /\ phase' = "up"
  /\ outcomes' = IF Contents(pages) \in outcomes THEN {Contents(pages)} ELSE outcomes
  /\ UNCHANGED <<files, todo, manager, session, fresh>>

Next ==
  \/ Begin \/ ApplyWrite
  \/ \E p \in Pages : LogWrite(p) \/ ReplayPage(p)
  \/ AppendCommit \/ FsyncCommit \/ StampHeader \/ FinishCommit
  \/ AppendRollback \/ FsyncRollback \/ UndoWrite \/ FinishRollback
  \/ Checkpoint \/ Close \/ Crash \/ PowerLoss \/ Open \/ OpenDone

Spec == Init /\ [][Next]_vars
-----------------------------------------------------------------------------
Steps == {"ready", "logged", "committing", "stamping", "finishing", "aborting", "undoing"}

TypeOK ==
  /\ wal \in Seq([type : {"BEGIN", "COMMIT", "ROLLBACK"}, tx : Nat]
                 \cup [type : {"PAGE"}, tx : Nat, page : Pages, before : Nat, after : Nat]
                 \cup [type : {"CKPT"}, lsn : Nat])
  /\ synced \in 0..Len(wal)
  /\ pages \in [Pages \cup {HeaderPage} -> Nat]
  /\ media \in [Pages \cup {HeaderPage} -> SUBSET Nat]
  /\ phase \in {"down", "replaying", "up"}
  /\ todo \in SUBSET Pages
  /\ step \in Steps
  /\ cur \in (Pages \cup {HeaderPage}) \X Nat
  /\ nextTx \in Nat /\ active \in Nat
  /\ logged \in Seq(Pages \X Nat)
  /\ session \in Nat /\ fresh \in Nat
  /\ outcomes \in SUBSET [Pages -> Nat]

\* What replay needs of a log (see Recovery): no transaction id is used twice,
\* which only one process can promise, and no transaction wrote a page twice
\* (or only autocommit wrote the page).
LogIsClean ==
  /\ \A i, j \in DOMAIN wal :
       wal[i].type = "BEGIN" /\ wal[j].type = "BEGIN" /\ wal[i].tx = wal[j].tx => i = j
  /\ \A p \in Pages : TouchedOncePerTx(wal, p)

\* A process that dies now, wherever it is, replay included, reopens to the
\* acknowledged state, or to that state with the whole of the call it was
\* about to acknowledge: "所有已 COMMIT 事务的修改恢复", "所有未提交修改不
\* 出现" (REQ-TRX-5), and a replay cut short is repaired by the next.
Recoverable == Contents(Replay(wal, pages)) \in outcomes

\* ... and the code does so as long as the log is clean.
CleanLogRecoverable == LogIsClean => Recoverable

\* Between calls, and once reopened, clients see the acknowledged state:
\* COMMIT shows all of the transaction, ROLLBACK none of it.
LiveStateAcknowledged ==
  LogIsClean /\ phase = "up" /\ step = "ready" /\ active = 0 => Contents(pages) \in outcomes

\* The header's last_lsn names a COMMIT record that the log cannot lose, so a
\* process that reads it may rely on the commit.
HeaderLsnIsDurable ==
  LET lsn == pages[HeaderPage]
  IN  lsn # 0 => lsn <= synced /\ wal[lsn].type = "COMMIT"

\* "系统先写 WAL 记录 ... 然后修改数据页" (REQ-TRX-6): a page only ever takes an
\* image that some record already in the log has as its before or after image,
\* in a write, in a rollback and in a replay alike.
WalBeforeData ==
  \A p \in Pages : pages'[p] # pages[p] =>
    \E i \in DOMAIN wal : /\ wal[i].type = "PAGE" /\ wal[i].page = p
                          /\ pages'[p] \in {wal[i].before, wal[i].after}

\* log_page_write, commit and set_last_lsn: the log is ahead of the pages and of
\* the header.
LogLeads == [][TypeOK' /\ HeaderLsnIsDurable' /\ WalBeforeData]_vars
=============================================================================
