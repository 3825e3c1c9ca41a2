------------------------------- MODULE Storage -------------------------------
(***************************************************************************)
(* The database file under a sequence of statements outside transactions:  *)
(* tables and indexes come and go (storage/catalog.py, index/manager.py),  *)
(* rows are inserted and deleted (storage/heap.py), indexes grow by page   *)
(* splits, and the process is closed or killed between any two writes and  *)
(* started again (api.py, Database.__init__).                              *)
(*                                                                         *)
(* The catalog is one page of table entries and one of index entries, each *)
(* rewritten whole and without a log record.  What an index contains is    *)
(* BTree's and Statements' subject; here it is the set of its pages.       *)
(***************************************************************************)
EXTENDS HeapPages, SequencesExt

CONSTANTS
  Tables,     \* table names: naturals, sorted as the code sorts strings
  PkTables,   \* the tables declared with a primary key
  Lengths,    \* lengths of the records inserted
  Room,       \* catalog entries that fit one page
  MaxRows,    \* bound on INSERTs
  MaxDdl,     \* bound on CREATEs and DROPs
  MaxKills    \* bound on kills

ASSUME StorageAssumption ==
  /\ Tables \subseteq Nat /\ PkTables \subseteq Tables
  /\ Lengths \subseteq Nat /\ {Room, MaxRows, MaxDdl, MaxKills} \subseteq Nat

VARIABLES
  disk,     \* the database file: page id -> page
  log,      \* the WAL: page id -> the image logged last
  mem,      \* what the process keeps in memory
  todo,     \* writes the running statement has still to make
  doing,    \* what the running statement does to the rows once it returns
  rows,     \* (history) table -> rows whose INSERT returned, less those deleted
  maybe,    \* (history) rows whose INSERT or DELETE has not returned
  poisoned, \* (history) tables an INSERT failed on, or was killed while it linked a page
  spoilt,   \* (history) "torn": killed inside a pop; "full": entries that did not fit
  nrows, nddl, kills

storeVars == <<disk, log, mem, todo, doing, rows, maybe, poisoned, spoilt, nrows, nddl, kills>>

TABLE_PAGE == 1         \* CATALOG_PAGE
INDEX_PAGE == 2         \* INDEX_CATALOG_PAGE
CatalogMagic == 1280590147   \* CATALOG_MAGIC as a u32

Effect(t, add, del) == [table |-> t, add |-> add, del |-> del]
Nothing == Effect(0, {}, {})
None   == [x \in {} |-> 0]
Down   == [up |-> FALSE, num |-> 0, free |-> NO_FREE, tabs |-> None, idxs |-> None,
           roots |-> None, nextId |-> 1, heaps |-> None]
Without(f, x) == [y \in DOMAIN f \ {x} |-> f[y]]
With(f, x, v) == [y \in DOMAIN f \cup {x} |-> IF y = x THEN v ELSE f[y]]

\* A statement is a call of the pager that also carries the process's memory.
Statement == mem @@ Call(disk, mem)
-----------------------------------------------------------------------------
(* storage/catalog.py *)
Entries(f) == {f[x] : x \in DOMAIN f}
ByName(f)  == SetToSortSeq(Entries(f), LAMBDA a, b : a.name < b.name)

\* _persist and _persist_indexes stop at the first entry that does not fit.
Saved(f)   == Page(CatalogMagic, [kind |-> "catalog",
                                  list |-> SubSeq(ByName(f), 1, Min({Room, Cardinality(DOMAIN f)}))])
Persist(c) == WritePage(c, TABLE_PAGE, Saved(c.tabs))
PersistIndexes(c) == WritePage(c, INDEX_PAGE, Saved(c.idxs))

\* _load_from_disk and _load_indexes_from_disk
Load(page) ==
  IF page.body.kind = "catalog"
  THEN [n \in {page.body.list[i].name : i \in DOMAIN page.body.list} |->
          CHOOSE e \in Range(page.body.list) : e.name = n]
  ELSE None
NextTableId_Count(tabs) == Cardinality(DOMAIN tabs) + 1
NextTableId(tabs) == CHOOSE n \in 1..(MaxDdl + 1) :
  /\ \A t \in DOMAIN tabs : tabs[t].id < n
  /\ n = 1 \/ \E t \in DOMAIN tabs : tabs[t].id = n - 1

\* Catalog.create_table
AddTable(c, t) ==
  LET c1   == NewHeap(c)
      meta == [name |-> t, id |-> c.nextId, head |-> c1.got]
  IN  IF c1.err THEN [c1 EXCEPT !.nextId = @ + 1]
      ELSE Persist([c1 EXCEPT !.nextId = @ + 1, !.tabs = With(@, t, meta)])
\* Catalog.drop_table
RemoveTable(c, t) == Persist([c EXCEPT !.tabs = Without(@, t)])
-----------------------------------------------------------------------------
(* index/manager.py, and the pages of a B-tree *)
Leaf(next) == Page(1, [kind |-> "leaf", next |-> next])
Node(kids) == Page(2, [kind |-> "node", kids |-> kids])

\* create_index: the backfill builds a Heap to scan the table.
CreateIndex(c, t) ==
  LET c1   == AllocatePage(c)
      meta == [name |-> t, table |-> t, root |-> c1.got]
      c2   == PersistIndexes([c1 EXCEPT !.idxs = With(@, t, meta)])
  IN  IF c1.err THEN c1
      ELSE NewHeap([c2 EXCEPT !.roots = With(@, t, meta.root)])

\* all_page_ids: down from the root, then along the leaves.
Kids(page)  == IF page.body.kind = "node" THEN Range(page.body.kids) ELSE {}
NextLeaf(page) == IF page.body.kind = "leaf" THEN {page.body.next} \ {NO_NEXT} ELSE {}
AllPageIds(pages, root) ==
  LET Reach[n \in 0..MaxPages] ==
        IF n = 0 THEN {root}
        ELSE LET seen == Reach[n - 1]
             IN  seen \cup UNION {Kids(pages[i]) \cup NextLeaf(pages[i]) : i \in seen}
  IN  Reach[MaxPages]

\* drop_index: first the catalog entry, then page after page.
DropIndex(c, t) ==
  LET c1   == PersistIndexes([c EXCEPT !.idxs = Without(@, t), !.roots = Without(@, t)])
      pids == SetToSortSeq(AllPageIds(c.pages, c.roots[t]) \ 0..(Reserved - 1), <)
  IN  FoldLeft(FreePage, c1, pids)

\* A leaf is split: a right neighbour and, if the leaf was the root, a new
\* root, which only the process knows of.
SplitLeaf(c, t, pid) ==
  LET right == AllocatePage(c)
      next  == IF c.pages[pid].body.kind = "leaf" THEN c.pages[pid].body.next ELSE NO_NEXT
      c1    == WritePage(right, pid, Leaf(right.got))
      c2    == WritePage(c1, right.got, Leaf(next))
      top   == AllocatePage(c2)
  IN  IF c2.err \/ top.err THEN Raise(c2)
      ELSE IF pid = c.roots[t]
      THEN [WritePage(top, top.got, Node(<<pid, right.got>>)) EXCEPT !.roots[t] = top.got]
      ELSE WritePage(c2, c.roots[t], Node(Append(c.pages[c.roots[t]].body.kids, right.got)))
-----------------------------------------------------------------------------
(* Statements (api.py, _execute_unlocked; executor/dml.py) *)
Memory(c) == [f \in DOMAIN Down |-> c[f]]

\* A statement runs up to its first write, and only in a database that did not
\* lose its free list; "maybe" is what a kill may leave done or undone.
Overfull(m) == Cardinality(DOMAIN m.tabs) > Room \/ Cardinality(DOMAIN m.idxs) > Room
Idle == mem.up /\ todo = <<>> /\ "torn" \notin spoilt
Begin(c, effect, certain) ==
  /\ c.num <= MaxPages
  /\ mem' = Memory(c) /\ todo' = c.out
  /\ doing' = IF c.err THEN Nothing ELSE effect
  /\ rows' = certain
  /\ spoilt' = IF Overfull(c) THEN spoilt \cup {"full"} ELSE spoilt
  /\ UNCHANGED <<disk, log, kills>>

CreateTable(t) ==
  LET c1 == AddTable(Statement, t)
  IN  /\ Idle /\ nddl < MaxDdl /\ nddl' = nddl + 1
      /\ t \notin DOMAIN mem.tabs
      /\ Begin(IF t \in PkTables /\ ~c1.err THEN CreateIndex(c1, t) ELSE c1,
               Nothing, [rows EXCEPT ![t] = {}])
      /\ poisoned' = poisoned \ {t}
      /\ UNCHANGED <<nrows, maybe>>

CreateIndexOn(t) ==
  /\ Idle /\ nddl < MaxDdl /\ nddl' = nddl + 1
  /\ t \in DOMAIN mem.tabs \ DOMAIN mem.idxs
  /\ Begin(CreateIndex(Statement, t), Nothing, rows)
  /\ UNCHANGED <<nrows, maybe, poisoned>>

DropTable_CatalogFirst(t) ==
  /\ Idle /\ nddl < MaxDdl /\ nddl' = nddl + 1
  /\ t \in DOMAIN mem.tabs
  /\ LET c == RemoveTable(Statement, t)
     IN  Begin(IF t \in DOMAIN mem.idxs THEN DropIndex(c, t) ELSE c, Nothing, rows)
  /\ UNCHANGED <<nrows, maybe, poisoned>>
DropTable(t) ==
  /\ Idle /\ nddl < MaxDdl /\ nddl' = nddl + 1
  /\ t \in DOMAIN mem.tabs
  /\ LET c == IF t \in DOMAIN mem.idxs THEN DropIndex(Statement, t) ELSE Statement
     IN  Begin(RemoveTable(c, t), Nothing, rows)
  /\ UNCHANGED <<nrows, maybe, poisoned>>

\* Insert.open: bind_heap builds a Heap, and with it a page, for every
\* statement; then heap.insert and on_insert, which may split a leaf.
Leaves(t) == IF disk[mem.roots[t]].body.kind = "node" THEN Kids(disk[mem.roots[t]]) ELSE {mem.roots[t]}
Insert(t, len) ==
  LET c1 == NewHeap(Statement)
      c  == InsertRecord(c1, mem.tabs[t].head, nrows + 1, len)
  IN  /\ Idle /\ t \in DOMAIN mem.tabs /\ nrows < MaxRows /\ nrows' = nrows + 1
      /\ \/ Begin(c, Effect(t, {nrows + 1}, {}), rows)
         \/ /\ t \in DOMAIN mem.roots /\ ~c.err
            /\ \E i \in Leaves(t) :
                 Begin(SplitLeaf(c, t, i), Effect(t, {nrows + 1}, {}), rows)
      /\ maybe' = maybe \cup {nrows + 1}
      /\ poisoned' = IF c.err THEN poisoned \cup {t} ELSE poisoned
      /\ UNCHANGED nddl

\* Delete.open for one row.
Delete(t, rid) ==
  LET c1  == NewHeap(Statement)
      row == RecordAt(disk, rid).row
  IN  /\ Idle /\ rid \in Live(disk, mem.tabs[t].head)
      /\ Begin(DeleteRecord(c1, rid[1], rid[2]), Effect(t, {}, {row}), [rows EXCEPT ![t] = @ \ {row}])
      /\ maybe' = maybe \cup {row}
      /\ UNCHANGED <<nrows, nddl, poisoned>>

\* SELECT: Executor.heap_for binds a Heap per table id and keeps it.
Select(t) ==
  LET meta == mem.tabs[t]
      c    == NewHeap(Statement)
  IN  /\ Idle /\ t \in DOMAIN mem.tabs /\ meta.id \notin DOMAIN mem.heaps
      /\ Begin(IF c.err THEN c ELSE [c EXCEPT !.heaps = With(@, meta.id, meta.head)],
               Nothing, rows)
      /\ UNCHANGED <<nrows, nddl, maybe, poisoned>>
-----------------------------------------------------------------------------
(* The process *)
Apply(w) ==
  IF IsLogged(w)
  THEN log' = Put(log, w) /\ UNCHANGED disk
  ELSE disk' = Put(disk, w) /\ UNCHANGED log

Flush ==
  /\ todo # <<>>
  /\ Apply(Head(todo)) /\ todo' = Tail(todo)
  /\ IF Len(todo) = 1 /\ doing # Nothing
       THEN /\ rows' = [rows EXCEPT ![doing.table] = @ \cup doing.add]
            /\ maybe' = maybe \ (doing.add \cup doing.del)
            /\ doing' = Nothing
       ELSE UNCHANGED <<rows, maybe, doing>>
  /\ UNCHANGED <<mem, poisoned, spoilt, nrows, nddl, kills>>

\* Between the two writes of a pop the header names a page that is zero.
Popping ==
  todo # <<>> /\ Header(disk).free \in DOMAIN disk /\ disk[Header(disk).free] = Blank
\* Between the log record that links a new page to its chain and the one that
\* makes it a heap page: the chain will lead through a page of zeros.
Linking ==
  \E i \in DOMAIN todo :
    /\ IsLogged(todo[i]) /\ todo[i].page = EmptyHeap
    /\ i = 1 \/ (i = 2 /\ ~IsLogged(todo[1]) /\ todo[1].page.word \in todo[2].at)
Stop ==
  /\ spoilt' = IF Popping THEN spoilt \cup {"torn"} ELSE spoilt
  /\ mem' = Down /\ todo' = <<>> /\ doing' = Nothing

Kill ==
  /\ mem.up /\ kills < MaxKills /\ kills' = kills + 1
  /\ Stop
  /\ poisoned' = IF Linking THEN poisoned \cup {doing.table} ELSE poisoned
  /\ UNCHANGED <<disk, log, rows, maybe, nrows, nddl>>

\* Database.close: the pager writes its header.
Close ==
  /\ mem.up /\ todo = <<>>
  /\ disk' = WriteHeader(Statement).pages
  /\ Stop
  /\ UNCHANGED <<log, rows, maybe, poisoned, nrows, nddl, kills>>

\* Database.__init__: the catalog is read before replay writes the pages in
\* the log; then every index must find its table.
Replayed == [i \in DOMAIN disk |-> IF i \in DOMAIN log THEN log[i] ELSE disk[i]]
CanOpen ==
  /\ HasMagic(disk)
  /\ \A i \in DOMAIN Load(disk[INDEX_PAGE]) :
       Load(disk[INDEX_PAGE])[i].table \in DOMAIN Load(disk[TABLE_PAGE])
Open ==
  LET tabs == Load(disk[TABLE_PAGE])
      idxs == Load(disk[INDEX_PAGE])
  IN  /\ ~mem.up /\ CanOpen
      /\ mem' = [up |-> TRUE, num |-> Header(disk).num, free |-> Header(disk).free,
                 tabs |-> tabs, idxs |-> idxs, roots |-> [i \in DOMAIN idxs |-> idxs[i].root],
                 nextId |-> NextTableId(tabs), heaps |-> None]
      /\ disk' = Replayed
      /\ UNCHANGED <<log, todo, doing, rows, maybe, poisoned, spoilt, nrows, nddl, kills>>

StoreInit ==
  /\ disk = EmptyFile /\ log = None /\ mem = Down /\ todo = <<>> /\ doing = Nothing
  /\ rows = [t \in Tables |-> {}] /\ maybe = {} /\ poisoned = {} /\ spoilt = {}
  /\ nrows = 0 /\ nddl = 0 /\ kills = 0

StoreNext ==
  \/ Flush \/ Kill \/ Close \/ Open
  \/ \E t \in Tables :
       \/ CreateTable(t) \/ CreateIndexOn(t) \/ DropTable(t) \/ Select(t)
       \/ \E len \in Lengths : Insert(t, len)
       \/ t \in DOMAIN mem.tabs /\ todo = <<>> /\ \E rid \in Live(disk, mem.tabs[t].head) : Delete(t, rid)

StoreSpec == StoreInit /\ [][StoreNext]_storeVars
-----------------------------------------------------------------------------
\* "schemas survive a process restart": the file can always be opened again,
\* whichever statement was killed, unless the catalog had outgrown its page.
AlwaysOpens == "full" \notin spoilt => CanOpen

\* The tables in memory are those on the page when no statement is running,
\* while they fit it.
CatalogKept ==
  mem.up /\ todo = <<>> /\ ~Overfull(mem) =>
    Load(disk[TABLE_PAGE]) = mem.tabs /\ DOMAIN Load(disk[INDEX_PAGE]) = DOMAIN mem.idxs

\* Pages that belong to somebody, by owner, as the file says once replayed.
FreePages ==
  LET Reach[n \in 0..MaxPages] ==
        IF n = 0 THEN {Header(disk).free} \ {NO_FREE}
        ELSE LET seen == Reach[n - 1] IN seen \cup ({disk[i].word : i \in seen} \ {NO_FREE})
  IN  Reach[MaxPages]
TablePages(t) == Range(Chain(Replayed, Load(disk[TABLE_PAGE])[t].head))
IndexPages(i) == AllPageIds(disk, Load(disk[INDEX_PAGE])[i].root)

\* No page belongs to two owners, at no moment and after no kill: not to two
\* tables or indexes, not to one and the free list, and none to the catalog.
PagesOwnedOnce ==
  "torn" \notin spoilt /\ ~Popping /\ ~Linking =>
    LET tabs == DOMAIN Load(disk[TABLE_PAGE]) \ poisoned
        idxs == DOMAIN Load(disk[INDEX_PAGE])
    IN  /\ \A t, u \in tabs : t # u => TablePages(t) \cap TablePages(u) = {}
        /\ \A i, j \in idxs : i # j => IndexPages(i) \cap IndexPages(j) = {}
        /\ \A t \in tabs, i \in idxs : TablePages(t) \cap IndexPages(i) = {}
        /\ (UNION {TablePages(t) : t \in tabs} \cup UNION {IndexPages(i) : i \in idxs})
             \cap (FreePages \cup 0..(Reserved - 1)) = {}

\* Rows whose INSERT returned are found whole by a scan of the reopened file,
\* once, and no others but those a killed or failed statement may have left.
Found(t) == {RecordAt(Replayed, rid) : rid \in Live(Replayed, Load(disk[TABLE_PAGE])[t].head)}
RowsKeptIn(t) ==
  LET found == Found(t)
  IN  /\ ChainEnds(Replayed, Load(disk[TABLE_PAGE])[t].head)
      /\ rows[t] \subseteq {r.row : r \in {r \in found : r.whole}}
      /\ {r.row : r \in found} \subseteq rows[t] \cup maybe
      /\ Cardinality(found) = Cardinality(Live(Replayed, Load(disk[TABLE_PAGE])[t].head))
RowsKept ==
  "torn" \notin spoilt /\ ~Linking =>
    \A t \in DOMAIN Load(disk[TABLE_PAGE]) \ poisoned : RowsKeptIn(t)

\* Replaying the log over a file whose last statement was finished changes
\* nothing: no page in it has been given to anyone but its table.
ReplayHarmless == todo = <<>> /\ mem.up /\ "torn" \notin spoilt => Replayed = disk

\* A Heap kept for a table id is the heap of the table that has this id now,
\* however tables were dropped and created in between.
HeapCacheFresh ==
  \A t \in DOMAIN mem.tabs :
    mem.tabs[t].id \in DOMAIN mem.heaps => mem.heaps[mem.tabs[t].id] = mem.tabs[t].head

\* "committed transactions survive process exit and machine crash": a process
\* killed at any point leaves every table with the rows that were acknowledged.
RowsSurvive == ~mem.up => \A t \in DOMAIN Load(disk[TABLE_PAGE]) : RowsKeptIn(t)

\* Catalog._persist and _load: the file opens, with the tables it had.
CatalogSurvives == AlwaysOpens /\ CatalogKept

\* Pager.allocate_page and free_page under Catalog, Heap and IndexManager: a page
\* has one owner, in the file and in the table of cached heaps.
OnePageOneOwner == PagesOwnedOnce /\ HeapCacheFresh

\* Heap.insert and delete under log_page_write: rows survive, and replay agrees.
RowsSurviveKills == ReplayHarmless /\ RowsKept
=============================================================================
