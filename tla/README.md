# A TLA+ verification of tinydb

tinydb is an embedded SQL database in Python: one data file of 4 KiB pages, one
write-ahead log (WAL) beside it, an SQL front end, and a TCP server with Python and
JDBC clients. This directory models it from the SQL text down to the single page
write, and from the client call to the server session. Every definition is translated
from the source; `PROJECT.json` maps it to the lines it stands for.

Run a model with `tlc -config X.cfg M` and a proof with `tlapm M.tla`; the runs are
listed in `PROJECT.json`.

## 1. The system

| Part | State | Hard behaviour | Module |
|---|---|---|---|
| RWLock (`concurrent/rwlock.py`) | `_readers`, `_writer`, `_writers_waiting`, a condition variable | wakeups, starvation, a deadline racing a release | RWLock, RWLockSpec |
| WriteLock (`tx/lock.py`) | module-level guard registry, depth per thread | the registry is unlocked; nesting | WriteLock |
| DeadlockDetector (`concurrent/deadlock.py`) | `_waits_for` | called by several threads without a lock | DeadlockDetector, DeadlockCheck |
| ProcessLock (`concurrent/fcntl_lock.py`) | flock on the WAL's descriptor | nested uses share one lock | Processes |
| WAL (`tx/wal.py`) | file of frames, `_next_lsn` | frames cut short; several processes | WalFile, Durability, Processes |
| Recovery, Checkpoint (`tx/`) | two dicts keyed by (transaction, page) | insertion order of keys; a crash during replay | Recovery, RecoveryCheck, Durability |
| TransactionManager (`tx/manager.py`) | `_active_tx`, `_next_tx_id`, `_logged_pages` | fields read outside the lock; partial completion | Transactions, Durability |
| Database (`api.py`) | all of the above | whether a statement locks depends on any active transaction | Transactions, Storage, Durability |
| Pager (`storage/pager.py`) | header, free list, page images | a kill between two writes; the header is cached per process | PagerCalls, Pager, Storage |
| Heap, free space (`storage/`) | chained pages with slots | a page that just fits; overflow; a kill while linking | HeapPages, Storage |
| Buffer pool (`storage/buffer_pool.py`) | frames, dirty flags, LRU order | a full pool; changes under a read lock | BufferPool |
| Catalog (`storage/catalog.py`) | tables and indexes, pages 1 and 2 | not logged; a full page | Storage |
| B+tree (`index/btree*.py`) | pages of keys | separators, sibling chain | BTree |
| IndexManager, DML (`index/manager.py`, `executor/dml.py`) | heap and indexes together | one of several steps failing | Statements |
| Planner, operators, expressions (`executor/`) | none beyond a cursor | index bounds, column layouts, NULL, ties | Values, Expressions, Plans, Queries |
| Tokenizer, parser (`sql/`) | token position | precedence, leftovers | Syntax, Parser, Sentences, Binding |
| Types (`types/`) | – | ranges and rounding | Binding |
| Wire protocol (`protocol/`) | receive buffer | frames cut anywhere | Frames, Binding |
| Server (`server/`) | sessions, their transaction | all sessions on one thread and one manager | Network, Binding |
| Client (`client/sync.py`) | socket, response queue | late answers, retries, calls that overlap | Network |
| Client pool (`client/pool.py`) | idle clients, a counter | waiting for a client that never comes back | ClientPool |

How they meet: `Client.execute` sends an EXEC frame; the server session substitutes
the parameters into the text and calls `Database.execute`, which tokenizes, parses and
plans it, takes the write or the read side of the RWLock (through WriteLock) and
optionally a ProcessLock, and runs operators that reach pages through the heap and the
indexes. The heap has the TransactionManager log each page write; the manager holds
the WriteLock from begin to commit or rollback; Recovery reads the log when the file
is opened, after the catalog has been loaded.

What must hold: acknowledged work survives, unacknowledged work leaves no trace, a
statement means what was written and sees whole committed statements, indexes agree
with rows, a page has one owner, locks and clients are given back, calls return, an
answer belongs to its request.

## 2. Modules

```
MCSharing ------+-- RWLock ---implements---> RWLockSpec
                +-- ClientPool
                +-- MCTransactions --+
                                     +-- Transactions -- RWLockSpec, DeadlockDetector, Recovery
MCEngine -------+-- MCTransactions --+
                +-- Storage -- HeapPages, PagerCalls
                +-- Pager ---- PagerCalls
                +-- BufferPool

MCDatabase -----+-- Durability -- Recovery
                +-- MCStatements -- Statements
                +-- MCQueries -- Queries -- Plans -- Expressions -- Values, Syntax
                +-- MCTexts -- Sentences -- Parser -- Syntax
                            +- Binding

Algorithms -----+-- RecoveryCheck, DeadlockCheck, WalFile, BTree, Frames, WriteLock

MCNetwork -- Network          Processes

proofs:  Sharing_proofs (RWLock, WriteLock, ClientPool)
         Files_proofs (Processes, BufferPool)
         DurableLog_proofs, Durability_proofs (Recovery, Durability)
         TxSteps_proofs, TxLocks_proofs, TxIsolation_proofs, Transactions_proofs (Transactions)
```

MCSharing, MCEngine, MCDatabase and Algorithms put parts that do not interact into one
run: a variable `part` says which of them a behaviour is about. The other MC modules
name the values of the constants.

**RWLockSpec** is what callers rely on: the sets of threads inside `read()` and
`write()`. **RWLock** is the code: its counters, and a `pc` per thread that tells
sleeping in `wait()` from being awake and about to test the condition again. One step
is what a thread does between taking the condition's mutex and releasing it.

**WriteLock** is the reentrant guard. `_reentrant_for`'s lookup and store are two
steps, because nothing locks them. The underlying lock is RWLockSpec. A guard that is
replaced lives on with the calls that run on it; when the last of them returns CPython
frees it, and with it the `write()` blocks it has on its stacks: the lock is then given
up in the middle of a section (`Free`). `raced` records that a guard in use was replaced.

**DeadlockDetector** has the graph and what `detect_cycle` returns, in closed form;
**DeadlockCheck** has the recursive search and compares the two on every graph.

**Recovery** is `replay` as a function of the log, in closed form: the only things
replay takes from its dicts are the last value of a key and the order of first
insertions. **RecoveryCheck** folds over the log with the dicts themselves and
compares, and also compares with *Outcome*, what the log means.

**Durability** is one file through a succession of processes: every write to a file is
a step, and a crash can come between any two, during replay too. `outcomes` is a
history variable: the states the file may show when it is next opened. `media` holds
what a page may contain after a power failure, since pages are synced only on close.

**Transactions** is one process with several threads: begin, commit, rollback and
statements, interleaved at each access to shared state. `begin` is up to a dozen steps,
because it reads `_active_tx` and `_next_tx_id`, updates the wait-for graph and looks
the guard up before it takes the lock. A behaviour is followed until the lock is lost
(`lockLost`): two first `begin`s replace each other's guard, or the append of BEGIN,
COMMIT or ROLLBACK, or a page write of a rollback, raises with the lock held. An INSERT
adds its row to each page, reading, logging and writing it; a SELECT scans each page. A
behaviour has one workload, which says which threads use transactions, autocommit or
plain reads, and whether a thread can be preempted inside a detector call, where the
iteration over a dict that changed its size raises.

**WalFile** is the log as bytes: a frame has `size` bytes and `have` of them are in the
file. **Processes** is several processes with `use_process_lock=True`: statements and
appends under flock, and the header, which `allocate_page` and `close` rewrite from what
the process has cached without taking it.

**BTree** is the index page by page: splits, borrows, merges, the collapse of the root,
`search`, `range` and the leaf walks of `IndexLookup`. A page the tree lets go keeps its
contents, as in the file. `entries` is the history look-ups are compared with.

**PagerCalls** turns `allocate_page`, `free_page` and a logged page write into the
single writes they consist of. **Pager** runs them in two processes that open one file,
each with the header it cached at open, one of which may be killed. **HeapPages** is a
heap page with its byte offsets: where a record goes, what it overwrites, what the
free-space map accepts. **Storage** is a Database over them: create and drop of tables
and indexes, INSERT, DELETE and SELECT, each a list of page writes (`todo`) performed
one per step, so that a kill falls between any two; reopening loads the catalog and
replays the log.

**BufferPool** interleaves `fetch_page` at each access to the cache, with writers that
hold the lock exclusively: the look-up, the move to the end, the read from the file, the
`popitem` that picks a victim, the test whether it is dirty, its write and the admission
are steps of their own.

**Statements** is one table with three indexes through INSERT (one row or two), UPDATE,
DELETE, CREATE and DROP INDEX, transactions and their rollback, kills and reopenings.
A statement is one step (execute holds the lock throughout), but its effect is computed
operation by operation, so an exception leaves what had been done by then. `spoilt`
records which accident, if any, has separated heap and indexes.

**Values** are SQL's, **Expressions** is `eval_expr`, **Plans** the validation of names
and the layout of columns, **Queries** the planner and the operators: the queries of
MCQueries are evaluated through plan, operators and projection and compared with a
reference that knows nothing of plans (`Value`, `Joined`, `Meaning`, `Selected`,
`Expected`), written from SQL's three-valued logic, on every content of two tables up to
a size, every set of indexes, and index entries left behind by rollbacks.

**Syntax** is the AST, **Parser** the recursive descent over tokens. **Sentences**
writes statements down with the fewest brackets (*Written*) and reads them; then
changes a token and reads them again. **Binding** is one value's way into a table and
back: EXEC encoding, substitution into the text, tokenizer, coercion, cell, row
encoding. Numbers are scaled down: `IntBits`, `Mantissa` and `ExpFrom` stand for 64
bits, 53 bits and the first power of ten `repr` writes with an exponent.

**Frames** is a byte stream of frames, some too long, some cut, and the four readers:
`FrameReader.feed`, `read_frame`, the client's and AsyncClient's. **Network** is clients
with their reader threads, connections that are closed, break or vanish without a word,
a log that may fail, and the server's sessions on one Database: each caller runs a
program of statements, transactions, pings and closes.

**ClientPool** is `acquire`, `release`, `_forget`, `connection()` and `close` of the
pool, interleaved at the lock and the idle queue.

The suffix `_Name` on a definition marks a faulty variant of the definition below it (a
dropped guard, a swapped order). A property is worth stating only if such a fault breaks
it; `PROJECT.json` pairs each property with one. The specifications use none of them.

## 3. Runs

Passing:

| Run | Part | Properties |
|---|---|---|
| sharing | lock | CountersAgree, MutualExclusion, NoLostWakeup, ImplementsRWLockSpec, NobodyStarves (WriterNotStarved, ReaderNotStarved) |
| | client pool | ClientsAccountedFor (a client is in one place; no more than `max_size` are open, none after close), WaiterServed |
| | transactions | CallsReturn |
| algorithms | replay | ReplayRight: the dicts equal Replay on every log of five records; Replay equals Outcome where no transaction wrote a page twice |
| | detector | VictimIsYoungestOnCycle, on all 625 graphs over four transactions |
| | log file | LogReadsBack, with torn frames, reopenings and truncations |
| | B-tree | TreeSound: eleven calls, up to three levels; balanced, search and range find the entries |
| | frames | FramesReadWhole: frames come out whole and in order, whatever the chunks |
| | write lock | SectionsHeld: three threads nested three deep, on a new lock and on one with a guard |
| processes | | SharedFilesKept (appends are kept, the header is never ahead of the log, a commit changes it), CallsReturn |
| database | log | CleanLogRecoverable, LiveStateAcknowledged, LogLeads (log before data, header LSN durable) |
| | rows | IndexesAgree (entries match rows, unique keys are), StatementsWhole (a failed INSERT leaves nothing, an UPDATE visits a row once) |
| | queries | AnswersAsSqlSays: rows, order, limits and aggregates are those of the reference |
| | text | ParsesWhatIsWritten, NothingSwallowed |
| | values | ParamsAreLiterals, ComesBackEqual |
| engine | storage | CatalogSurvives, OnePageOneOwner, RowsSurviveKills |
| | pager | PagesAccountedFor (free list sound, no page lost, header within the file), HandedOutOnce |
| | buffer pool | CacheCoherent (copies are newest, dirty pages are kept, the cache is bounded) |
| | threads | QuietPagesAcked, LogBracketed, LocksGivenBack, SelectsSeeCommitted |
| network | | OwnAnswer, WritesOnceAndStay, TransactionsOwned, OrphansEnd |

Violated (each states what a comment or a specification of the repository says;
`findings` in `PROJECT.json` quotes it):

| Run | What the code does |
|---|---|
| durability_rewrites | an uncommitted transaction that wrote a page twice is undone to its own first write |
| transactions_bypass | an autocommit INSERT during another thread's transaction is not locked, and is lost |
| statements_update | an UPDATE with a value of the wrong type deletes the row and then raises |
| queries_ranges | `v < 2` on an indexed column is scanned from 2 upwards, and misses the rows below |
| wal_past_torn_tail | appending behind a torn frame makes the log unreadable |
| processes_half_read | WAL.append drops the statement's flock; another process reads half an INSERT |

### Where the code stops short

The conditions in the properties above are there because the code needs them. Each can
be seen by dropping the condition or changing a constant.

| Condition | Without it |
|---|---|
| ReaderNotStarved: `[]<>(readers = 0)` | a writer that times out (`rwlock.py:132`) wakes nobody, and a reader sleeps on behind it while other readers overlap |
| HeldWhileWanted, SectionsExclude: `~raced` | two first acquires make two guards (`lock.py:121`). A guard replaced while its acquire still runs is freed when that returns, and the lock with it: the section is not exclusive. One replaced later leaves the lock held, and its release raises |
| QuietPagesAcked, LogBracketed, LocksGivenBack, SelectsSeeCommitted, CallsReturn: `~lockLost` | the same race between two first `begin`s; and an append of BEGIN that raises after the lock was taken (`manager.py:223`), or I/O that fails in commit or rollback before the release, leaves the lock held for good |
| LogIsClean: no id twice | ids restart at 1 in every process (`manager.py:128`), so an uncommitted transaction is redone because an older one of its id committed |
| LogIsClean: one touch per page | autocommit, committed transaction, autocommit on one page: replay restores them in the order of first touches, and the last write is lost (`recovery.py:233`) |
| `PowerFails = "settled"` | page records are not synced before the page is written (`manager.py:245`), so a power failure may keep a page and lose its record |
| workloads kept apart | a SELECT during another thread's transaction takes no lock (`api.py:292`) and sees its uncommitted rows |
| NothingLeaks, NestedMeansOwn: `~load.preempts` | an edge added while commit iterates over the graph makes commit raise with the lock held (`deadlock.py:56`, `manager.py:284`) |
| SearchFinds, RangeFinds: `~rotated` | an internal node that borrows a child takes the moved key for its own separator instead of the parent's old one (`btree_rebalance.py:108`); keys between the two are not found any more |
| RangeFinds: `ChainInTree` | after a merge the leaf before still points to the dropped page (`btree_rebalance.py:194`); a range scan passes through it and yields entries twice, or deleted ones |
| `Rids = {1}` | rows under one key that a split distributed over two leaves: search reads only the right one (`btree.py:186`) |
| Balanced: two minimal nodes fit a page | the minimum is 63 entries whatever their size (`btree.py:71`); with keys longer than some 25 bytes a merge raises BTreeOverflowError out of DELETE |
| CommitsDetectable: `Committers` has one process | each process counts its own LSNs, and a commit may stamp the value the header already has (`pager.py:310`) |
| CommitsDetectable: the step only | the stamp need not stay: `allocate_page` and `close` of another process write back the LSN it had cached (`pager.py:238`) |
| CallsReturn (Processes): `ReadersPause` | flock grants LOCK_EX only while nobody has LOCK_SH; SELECTs of several processes that always overlap starve a writer |
| AlwaysOpens, CatalogKept: not "full" | `_persist` stops at the end of page 1 without an error (`catalog.py:281`); the last tables are gone after a reopening |
| PagesOwnedOnce, RowsKept: not "torn" | a kill between the two writes of `allocate_page` (`pager.py:409`) leaves a zeroed page at the head of the free list, and the list continues with page 0 |
| PagesOwnedOnce, RowsKept: not `poisoned` | a kill between linking an overflow page and initialising it (`heap.py:283`) leaves a chain that leads to page 0; a record of more than 4078 bytes overwrites its own slot. *RowsSurvive* says it without the exception, as the repository's README does |
| pager properties: fresh header | two processes with their own cached free lists hand out one page twice (`pager.py:401`) |
| DirtyKept, CopiesNewest: not `lost`, not `reread` | `fetch_page` with a snapshot, and `invalidate`, drop dirty pages; an evicted page may be read again before it is written (`buffer_pool.py:94`) |
| CacheBounded: + threads - 1 | every thread inside `fetch_page` may admit one page more |
| WaiterServed: no block failed, pool open | `_forget` makes room and wakes nobody (`pool.py:75`), neither does `close` |
| OwnAnswer, WritesOnceAndStay: client not `mixed` | after a timeout the late answer stays in the queue and is returned to the next call (`sync.py:455`); calls of two threads take each other's frames |
| WritesOnceAndStay: not `shared` | an INSERT of one session while another has a transaction open is part of it, and is undone by its ROLLBACK (`session.py:113`) |
| TransactionsOwned, OrphansEnd: the log does not fail | a COMMIT that raises has already forgotten its transaction (`session.py:128`); nobody can end it, and BEGIN fails from then on |
| OrphansEnd: the server is told | connections are read without a timeout or keepalive (`app.py:60`); when the peer vanishes without FIN or RST its transaction stays open (`session.py:178` runs only at the end of the session) |
| FramesInOrder: no read was cancelled | AsyncClient drops the bytes of a header it had read when `wait_for` is cancelled |
| IndexesAgree: not `spoilt` | a rollback leaves the entries of its rows (`index/manager.py:293`), a failed UPDATE has removed the old ones, a root split is forgotten by the next open (`index/manager.py:94`), a UNIQUE index can be created over duplicates |
| FailedInsertLeavesNothing: rows that fit and do not clash with each other | a duplicate inside one VALUES list, or a misfit after the first row, fails after rows were written (`dml.py:107`). *FailedInsertsLeaveNothing* says it without the exception |
| AnswersExactly: no *NullsMeet* | two NULLs compare as equal, NULL as different from any value, and NOT of a NULL test is true (`eval_expr.py:96`), so `v = NULL` and `v != 1` return NULL rows |
| AnswersExactly: *Plain* (*Kept*) | result columns of one name are laid out once: `SELECT id, id, 5` and `SELECT t.id, o.id` come back misaligned |
| AnswersExactly: *IndexSound* (*Bounded*, *OnInOrder*) | `v < 2` alone (`planner.py:391`), `1 >= v`, `v = 1 AND v >= 0` and an ON with its sides reversed lose rows on an indexed column |
| AggregatesExact: groups of keys without NULL | SQL makes a group of the rows whose GROUP BY key is NULL; the code drops them |
| AnswersExactly: no leftovers in a range | an entry left by a rollback may name a slot that has a new row, which then comes twice |
| NothingSwallowed: `~Lenient` | any operator is taken for the = of SET, a UNIQUE may be repeated, and the table of an ORDER BY column is dropped |
| ParamsAreLiterals: *Tidy* texts | an apostrophe in a comment flips the substitution's idea of a string (`handler.py:92`); adjacent strings or `??` merge; `5-?` with a negative number becomes a comment; `1e+20`, `inf` and `nan` are not literals |
| ComesBackEqual: exact numbers | an int beyond 2^53 is rounded in a FLOAT column, which `coerce.py:88` calls lossless; DECIMAL comes back as text; a negative number in VALUES is a ParseError |

`begin` may also raise without reason: DeadlockError when the id it reserved unlocked
(`manager.py:197`) was taken by the transaction it waits for, and AttributeError when
that transaction ends between the two reads of `_active_tx` (`manager.py:201`). Both are
in the model (`raised`); NothingLeaks shows that they leave nothing behind.

An unreadable DECIMAL literal raises decimal.InvalidOperation, which is no ValueError and
passes the handler that turns the others into ParseError (`parser.py:842`). The statement
is refused either way.

### Bounds

Every bound is a constant, most with a name that begins with `Max`, and appears only in
guards.

* Lock, calls: three or four threads give a holder, a queued writer, a sleeping reader
  and a newcomer. Unbounded in time. The pool has three threads (one with a timeout) for
  two clients, five borrowings and one broken connection.
* Log and pages: two pages tell "all of a statement" from "part of it" and order undo
  writes; two transactions on a page are needed for every case of replay. Six records
  hold two complete transactions, or one with two pages and an autocommit write.
  `LogIsClean` is a state constraint of the database run: nothing is claimed of a log
  once it is not clean, so its continuations are not explored.
* Log file, frames: four frames of two sizes cut at every byte; three protocol frames of
  which one may be too long, cut into any chunks.
* B-tree: six keys, two to a leaf and three children to a node, make three levels, both
  borrows, both merges and a collapse from three levels to two within eleven calls.
* Storage: two tables, four DDL statements, two rows of which one fills a page, ten
  pages, one kill. That is a drop, the reuse of its pages, an overflow chain and a
  catalog that is full (`Room` = 1). Pager: two processes, seven pages. Buffer pool: two
  threads, three pages, a cache of one, so that every fetch evicts.
* Statements: three slots, three statements, three indexes (the primary key, one unique,
  one not) of which a third entry splits the root.
* Queries: two tables of up to three rows over values that tie, are NULL or differ, and
  one question of each shape the planner tells apart; entries are left over only where
  the table's one index is the only one.
* Text: an expression of each operator beside and below each other, one statement of
  each kind, one changed token. Values: every text of six characters with one
  placeholder or four with two, and nine longer ones; ints of five bits against a
  mantissa of three, so that there are ints no FLOAT column keeps, and floats written
  with an exponent.
* Network: three threads on two clients, five programs, three connections, one retry.
* Processes: two writers, one of which commits, two readers, of which one also writes,
  and three INSERTs, COMMITs or closes; SELECTs are not counted.

Bounded runs stop when the workload is used up and do not check for deadlock; sharing
does, and its lock part never stops.

### Fairness

RWLock: a woken thread re-tests its condition and a holder leaves its block. Nobody has
to call, and no deadline has to pass. Client pool: a thread inside `acquire` or
`connection()` takes its next step when it can; no timeout has to pass. Transactions: a
thread inside a call takes its next step (the interpreter schedules every thread);
strong fairness for taking the lock, which NobodyStarves justifies (a queued writer is
not overtaken for ever); and an open transaction is committed or rolled back in the end;
all this while the lock is not lost. Processes: a process inside a call goes on, and
flock is granted to an append that keeps asking while it is free again and again; that
it becomes free is the premise `ReadersPause`, which nothing in the code ensures.
Network: the server's event loop goes on while a session has a frame to handle or has
been told that its connection is gone (`Told`); clients need not do anything, and
connections need not break.

## 4. Proofs

Eight modules hold theorems, for every value of the constants that satisfies the named
assumptions. Each safety theorem goes the same way: an inductive invariant holds at the
start, each action keeps it (one lemma per action or group of actions, one step per
conjunct), and it implies the property.

**Sharing_proofs**

* RWLock, for every finite set of threads, either `prefer_writer` and any choice of threads
  that pass timeouts (`ThreadsAssumption`, `ModeAssumption`): `TypeCorrect`,
  `CountersCorrect`, `Exclusion`, `WakeupsReachSomeone` are TypeOK, CountersAgree,
  MutualExclusion and NoLostWakeup; `Implements` says that RWLock implements RWLockSpec.
  `IInv` is the conjunction of the four. None of the last three is inductive alone:
  exclusion needs the counters to mean what they count (a reader enters because `_writer`
  is None, and that must imply that nobody writes), and so does the wakeup property,
  because a thread goes to sleep on the value of a counter. `MoveOne` and `MoveCounts` say
  how one thread's move changes the sets and their sizes.
* WriteLock, for any threads, depth and first guard (`GuardAssumption`, `DepthAssumption`):
  `NestedSections`, that is SectionsHeld. `GuardIInv` adds to the types `GuardsKnown` (every
  call works on some guard) and, until `raced`, `GuardSound`: all work on the guard in
  the registry, its depths are the sections less what the calls in flight will do, and the
  lock is held by whoever it counts.
* ClientPool, for any threads and any size (`ClientPoolAssumption`): `PoolAccounts`, that is
  ClientsAccountedFor. `PoolIInv` adds `UsingMatchesStage` (who has a client, by place in
  the code) and `KnownBounds`: `_all_clients`, against which the cap is tested, bounds the
  open clients, and `close` empties it last.

**Files_proofs**

* Processes, for any processes and pages (`MaxCallsAssumption`): `FramesStay` (no append
  overwrites another, and the header is never ahead of the log) for any number of
  committers; `SharedFiles`, that is SharedFilesKept, with at most one. `ProcIInv` adds the
  locals of an INSERT (`LocalsOK`); that flock excludes, and an append that runs under it
  has looked up what is still the end of the log (`LocksOK`); that each process numbers its
  frames upwards (`FramesOK`); that a committer has cached less than it is about to stamp
  (`StampsOK`); and that what a process has cached was logged, and the header is what some
  process has cached (`HeaderOK`).
* BufferPool, for any threads, pages and capacity (`PoolAssumption`): `PoolCoherent`, that
  is CacheCoherent. `CacheIInv` adds what fetches in flight have loaded, evicted or not yet
  written back (`CacheOK`), and counts the fetches that have made room and not yet filled it
  (`RoomLeft`).

**DurableLog_proofs, Durability_proofs**, for any pages, sessions and bounds
(`PagesAssumption`, `WorkloadAssumption`, `BoundsAssumption`)

* `ReplayGivesOutcome`: of any log, replay leaves a page as the log means it to be, if no
  transaction wrote the page twice, or only autocommit wrote it.
* `HeaderDurable`: the header's LSN is that of a synced COMMIT. `LogAhead`, unless
  `PowerFails = "any"`: a page takes no image that the log does not have (LogLeads).
* `CleanRecovery`, unless `PowerFails = "any"`: if the log stays clean throughout
  (LogIsClean), the file opens to an acknowledged state, and the running process shows one
  (CleanLogRecoverable, LiveStateAcknowledged). `CrashRecovery`: when processes are killed
  but the power does not fail, it is enough that the log is clean at the time, because an
  unclean log stays unclean.
* `DurIInv` relates the manager's fields to the log it has written, and the header to what
  is synced. `ImagesOK` says that every image a page or the media may have is one of the
  log. `CleanIInv`, of a clean log, follows the open transaction (`OpenTxOK`), the records
  that end others (`EndsOK`), and what pages and `outcomes` hold at each place in the code
  (`StateOK`). `Sound` is all of these together.

**TxSteps_proofs, TxLocks_proofs, TxIsolation_proofs, Transactions_proofs**, for any threads,
pages and bounds (`WorkloadsAssumption`, `TxBoundsAssumption`). All of it holds until the
lock is lost.

* TxSteps says what each step of a call leaves alone. TxLocks has `LockIInv`: who holds the
  lock at which place of begin, statement, commit and rollback, that `_active_tx` belongs to
  the holder, and which wait edges are whose. From it `LocksBack`: LocksGivenBack, for
  finitely many threads and any workload.
* TxIsolation has `ApartIInv`: pages hold the acknowledged rows and those of the holder as far
  as it has come, and undoing what is in its log gives the acknowledged ones. It needs
  LockIInv, since only exclusion keeps another thread's write out. From it
  `TransactionsBracketed`, `PagesAcknowledged` and `SelectsCommitted`: LogBracketed,
  QuietPagesAcked and SelectsSeeCommitted, for workloads in which transactions do not meet
  autocommit or plain reads (`Apart`). Without that QuietPagesAcked is false
  (transactions_bypass).

Only model-checked:

* liveness: NobodyStarves, WaiterServed, CallsReturn, OrphansEnd (fairness is out of the
  prover's reach);
* whatever a recursive definition computes: the detector's search, B-tree, parser,
  tokenizer, plans, expressions, and that replay's loop over the dicts is `Replay`;
* Pager (that a page is on the free list is reachability), Storage, Statements, WalFile,
  Frames and Network.

## 5. Not modelled

* **Command line** (`cli/`): reads lines, calls `execute`, prints. Its only state is the
  text typed so far.
* **JDBC driver** (`jdbc/`): a second client of the same protocol in Java; the server it
  talks to is modelled.
* **Handshake, message layouts, error codes, server configuration and start-up**: fixed
  sequences without alternatives that a property could tell apart.
* **AsyncClient** except its frame reader: its calls are the sync client's on one task.
* **Database's connection pool, explain, script execution**: they call what is modelled.
  (The pool's `release` accepts one connection twice.)
* **Bytes of dates, times and blobs**: no parameter becomes one, and the row codec treats
  every type alike.
* **Snapshot**: `begin` stores it, and only the optional argument of
  `BufferPool.fetch_page` reads it.
* **Windows**, where ProcessLock locks a byte range of the file instead.

Abstractions throughout: a page image is a value, a set of rows or a list of slots with
offsets, not bytes; the CRC finds every mixture of two frames; Python's own primitives
(Condition, dict, GIL, asyncio's single thread) do what their documentation says.
