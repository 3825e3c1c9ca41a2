----------------------------- MODULE Statements -----------------------------
(***************************************************************************)
(* tinydb.executor.dml and tinydb.index.manager: INSERT, UPDATE, DELETE,   *)
(* CREATE and DROP INDEX on one table, in and out of a transaction, and a  *)
(* process killed in one of them.  The heap is the sequence of its slots   *)
(* (a Rid is a position), an index the set of its <<key, rid>> entries.    *)
(* Heap pages are logged and undone; index pages are neither.              *)
(***************************************************************************)
EXTENDS Values

CONSTANTS
  Rows,        \* rows: tuples of column values
  NotNull,     \* the positions of NOT NULL columns
  Misfits,     \* rows with a value that its column's type does not take
  Indexes,     \* index name -> [cols, unique]
  Primary,     \* the index CREATE TABLE makes
  Conditions,  \* the rows each WHERE clause in use selects
  Settings,    \* what each SET clause in use makes of a row: functions on rows
  RootCap,     \* entries a root leaf holds before it splits
  MaxSlots, MaxStatements   \* bounds

ASSUME StatementsAssumption ==
  /\ \A f \in Settings : DOMAIN f = Rows
  /\ Conditions \subseteq SUBSET Rows /\ Misfits \subseteq Rows
  /\ Primary \in DOMAIN Indexes /\ RootCap \in Nat

VARIABLES
  slots,      \* the heap: a row or Dead in each slot
  live,       \* _meta_by_name, in the order of creation
  ents,       \* the entries of each index
  txn,        \* {the heap that ROLLBACK restores}, Idle outside a transaction
  grown,      \* indexes whose root has split since the file was opened
  spoilt,     \* (history) index and heap have parted, see IndexesAgree
  unchecked,  \* (history) unique indexes made on a table with duplicates
  count       \* (bound)

stmtVars == <<slots, live, ents, txn, grown, spoilt, unchecked, count>>

Dead == <<>>
Idle == {}

StmtInit ==
  /\ slots = <<>> /\ live = <<Primary>> /\ ents = [i \in DOMAIN Indexes |-> {}]
  /\ txn = Idle /\ grown = {}
  /\ spoilt = FALSE /\ unchecked = {} /\ count = 0

IsRow(s) == s # Dead
LiveRids(h) == {r \in DOMAIN h : IsRow(h[r])}
Scan(h) == SelectSeq([r \in DOMAIN h |-> r], LAMBDA r : IsRow(h[r]))   \* list(heap.scan())
-----------------------------------------------------------------------------
(* A statement at work: the heap, the entries, whether it has raised, and    *)
(* the states its page writes went through                                   *)
Started == [slots |-> slots, ents |-> ents, ok |-> TRUE, trail |-> <<>>]
Wrote(x) == [x EXCEPT !.trail = Append(@, [slots |-> x.slots, ents |-> x.ents])]
Raised(x) == [x EXCEPT !.ok = FALSE]

\* heap.insert(encode_row_coerced(row)), which raises on a misfit
HeapInsert(x, row) ==
  IF row \in Misfits THEN Raised(x) ELSE Wrote([x EXCEPT !.slots = Append(@, row)])
HeapDelete(x, rid) == Wrote([x EXCEPT !.slots[rid] = Dead])

\* _extract_key and _key_contains_none
ExtractKey(i, row) == [k \in DOMAIN Indexes[i].cols |-> row[Indexes[i].cols[k]]]
HasNone(key) == \E k \in DOMAIN key : key[k] = NULL

\* idx.search(key)
Search(x, i, key) == \E e \in x.ents[i] : e[1] = key

CheckUnique(x, row) ==
  IF \E n \in DOMAIN live :
       /\ Indexes[live[n]].unique /\ ~HasNone(ExtractKey(live[n], row))
       /\ Search(x, live[n], ExtractKey(live[n], row))
    THEN Raised(x) ELSE x

IndexInsert(x, i, key, rid) == Wrote([x EXCEPT !.ents[i] = @ \cup {<<key, rid>>}])

OnInsert(x, rid, row) ==
  LET add(y, i) ==
        LET key == ExtractKey(i, row) IN
        IF ~y.ok \/ HasNone(key) THEN y
        ELSE IF Indexes[i].unique /\ Search(y, i, key) THEN Raised(y)
        ELSE IndexInsert(y, i, key, rid)
  IN  FoldLeft(add, x, live)

OnDelete_FirstIndex(x, rid, row) ==
  LET i == live[1] IN Wrote([x EXCEPT !.ents[i] = @ \ {<<ExtractKey(i, row), rid>>}])
OnDelete(x, rid, row) ==
  LET remove(y, i) ==
        LET key == ExtractKey(i, row) IN
        IF HasNone(key) THEN y ELSE Wrote([y EXCEPT !.ents[i] = @ \ {<<key, rid>>}])
  IN  FoldLeft(remove, x, live)

NullRefused(row) == \E k \in NotNull : row[k] = NULL        \* _assert_not_null
-----------------------------------------------------------------------------
(* The three plans *)
AddRow(x, row) ==
  LET y == HeapInsert(x, row) IN IF y.ok THEN OnInsert(y, Len(y.slots), row) ELSE y

\* Insert.open: every row is checked, then every row is written.
Inserted(rows) ==
  LET add(x, row) == IF x.ok THEN AddRow(x, row) ELSE x
      refused == \E n \in DOMAIN rows : NullRefused(rows[n]) \/ ~CheckUnique(Started, rows[n]).ok
  IN  IF refused THEN Raised(Started) ELSE FoldLeft(add, Started, rows)

\* Update.open, one row: the old entries go before the new key is checked, and
\* the old row before the new one is encoded.
UpdateRow(x, rid, set) ==
  LET old == x.slots[rid]
      y   == OnDelete(x, rid, old)
      z   == HeapInsert(HeapDelete(y, rid), set[old]) IN
  IF NullRefused(set[old]) THEN Raised(x)
  ELSE IF ~CheckUnique(y, set[old]).ok THEN Raised(y)
  ELSE IF ~z.ok THEN z
  ELSE OnInsert(z, Len(z.slots), set[old])

Updated_LiveScan(where, set) ==
  LET visit(x, rid) ==
        IF ~x.ok \/ rid \notin DOMAIN x.slots \/ x.slots[rid] \notin where THEN x
        ELSE UpdateRow(x, rid, set)
  IN  FoldLeft(visit, Started, [r \in 1..MaxSlots |-> r])
Updated(where, set) ==
  LET visit(x, rid) == IF x.ok /\ x.slots[rid] \in where THEN UpdateRow(x, rid, set) ELSE x
  IN  FoldLeft(visit, Started, Scan(slots))

\* Delete.open
Deleted(where) ==
  LET visit(x, rid) ==
        IF x.slots[rid] \in where THEN OnDelete(HeapDelete(x, rid), rid, x.slots[rid]) ELSE x
  IN  FoldLeft(visit, Started, Scan(slots))

\* IndexManager._backfill_index: no check for duplicates.
Backfilled(i) ==
  LET add(x, rid) ==
        LET key == ExtractKey(i, slots[rid]) IN
        IF HasNone(key) THEN x ELSE IndexInsert(x, i, key, rid)
  IN  FoldLeft(add, Started, Scan(slots))
-----------------------------------------------------------------------------
\* VALUES lists of one row and of two.
Batches == {<<r>> : r \in Rows} \cup {<<r, s>> : r, s \in Rows}

Results ==
  {Inserted(rows) : rows \in Batches}
  \cup {Updated(where, set) : where \in Conditions, set \in Settings}
  \cup {Deleted(where) : where \in Conditions}

Fits(x) == Len(x.slots) <= MaxSlots
Counted == count < MaxStatements /\ count' = count + 1
Overfull(x) == {i \in DOMAIN x.ents : Cardinality(x.ents[i]) > RootCap}

\* A statement runs to its end, or to the exception it raises; what it wrote
\* until then stays.
RunDml ==
  /\ Counted
  /\ \E x \in Results :
       /\ Fits(x)
       /\ slots' = x.slots /\ ents' = x.ents
       /\ grown' = grown \cup Overfull(x)
       /\ spoilt' = (spoilt \/ (~x.ok /\ x.trail # <<>>))
  /\ UNCHANGED <<live, txn, unchecked>>

CreateIndex(i) ==
  LET x == Backfilled(i) IN
  /\ Counted /\ ~Contains(live, i)
  /\ live' = Append(live, i)
  /\ ents' = x.ents
  /\ grown' = grown \cup Overfull(x)
  /\ unchecked' = IF Indexes[i].unique /\ \E e, f \in x.ents[i] : e # f /\ e[1] = f[1]
                    THEN unchecked \cup {i} ELSE unchecked
  /\ UNCHANGED <<slots, txn, spoilt>>

DropIndex(i) ==
  /\ Counted /\ Contains(live, i) /\ i # Primary
  /\ live' = Remove(live, i)
  /\ ents' = [ents EXCEPT ![i] = {}]
  /\ grown' = grown \ {i} /\ unchecked' = unchecked \ {i}
  /\ UNCHANGED <<slots, txn, spoilt>>

BeginTx ==
  /\ txn = Idle
  /\ txn' = {slots}
  /\ UNCHANGED <<slots, live, ents, grown, spoilt, unchecked, count>>

CommitTx ==
  /\ txn # Idle
  /\ txn' = Idle
  /\ UNCHANGED <<slots, live, ents, grown, spoilt, unchecked, count>>

\* ROLLBACK writes the logged before-images back: the heap only.
RollbackTx ==
  /\ \E before \in txn : slots' = before /\ spoilt' = (spoilt \/ slots # before)
  /\ txn' = Idle
  /\ UNCHANGED <<live, ents, grown, unchecked, count>>

\* The process ends and the file is opened again: recovery undoes the open
\* transaction, and an index is opened at the root page the catalog names,
\* which a split has left with a part of the entries.
Lost(x) ==
  /\ slots' \in IF txn = Idle THEN {x.slots} ELSE txn
  /\ \E gone \in SUBSET {e[2] : e \in UNION {x.ents[i] : i \in grown}} :
       ents' = [i \in DOMAIN Indexes |->
                  IF i \in grown THEN {e \in x.ents[i] : e[2] \notin gone} ELSE x.ents[i]]
  /\ spoilt' = (spoilt \/ x.trail # <<>> \/ txn \notin {Idle, {slots}} \/ grown # {})
  /\ txn' = Idle /\ grown' = {}
  /\ UNCHANGED <<live, unchecked>>

Reopen == Lost(Started) /\ UNCHANGED count

\* Killed in a statement, after some of its page writes.
Killed ==
  /\ Counted
  /\ \E x \in Results : \E n \in DOMAIN x.trail :
       Fits(x) /\ Lost([x EXCEPT !.slots = x.trail[n].slots, !.ents = x.trail[n].ents])

StmtNext ==
  \/ RunDml \/ BeginTx \/ CommitTx \/ RollbackTx \/ Reopen \/ Killed
  \/ \E i \in DOMAIN Indexes : CreateIndex(i) \/ DropIndex(i)

StmtSpec == StmtInit /\ [][StmtNext]_stmtVars
-----------------------------------------------------------------------------
\* "every INSERT / UPDATE / DELETE on a table maintains all indexes declared
\* for that table": whatever statements ran, an index holds the key of every
\* live row that has one, under the row's Rid, and nothing else; until a
\* statement fails half-way or is killed, a transaction that changed rows is
\* rolled back, or the file is reopened after a root has split.
EntriesMatchRows ==
  spoilt \/ \A n \in DOMAIN live :
    ents[live[n]] =
      {<<ExtractKey(live[n], slots[r]), r>> :
         r \in {q \in LiveRids(slots) : ~HasNone(ExtractKey(live[n], slots[q]))}}

\* "UNIQUE indexes reject duplicate keys at insert time and allow NULL values":
\* no two live rows share the key of a unique index, with the same exceptions,
\* and but for an index made when they already did.
UniqueKept ==
  spoilt \/ \A n \in DOMAIN live : Indexes[live[n]].unique /\ live[n] \notin unchecked =>
    \A q, r \in LiveRids(slots) :
      LET key == ExtractKey(live[n], slots[q]) IN
      q # r /\ ~HasNone(key) => key # ExtractKey(live[n], slots[r])

\* IndexManager.on_insert, on_delete and check_unique:
\* heap and indexes agree, and so do the rows with what UNIQUE says of them.
IndexesAgree == EntriesMatchRows /\ UniqueKept

\* An INSERT into a used table that raises leaves heap and indexes as they
\* were, if the rows of its own VALUES list do not clash with each other and
\* none after the first is a misfit.
Clash(rows) ==
  \E n \in DOMAIN live : Indexes[live[n]].unique /\
    \E j, k \in DOMAIN rows :
      LET key == ExtractKey(live[n], rows[j]) IN
      j # k /\ ~HasNone(key) /\ key = ExtractKey(live[n], rows[k])
FailedInsertLeavesNothing ==
  slots # <<>> =>
    \A rows \in Batches :
      ~Clash(rows) /\ (\A k \in 2..Len(rows) : rows[k] \notin Misfits) /\ ~Inserted(rows).ok =>
        Inserted(rows).trail = <<>>

\* "If any row collides we raise before mutating the heap": every INSERT that
\* raises has written nothing.
FailedInsertsLeaveNothing ==
  \A rows \in Batches : ~Inserted(rows).ok => Inserted(rows).trail = <<>>

\* An UPDATE changes every row that its WHERE selects, and once: the rows it
\* appends are not visited again.
Times(h, row) == Cardinality({r \in DOMAIN h : h[r] = row})
UpdatesOnce ==
  slots # <<>> => \A where \in Conditions, set \in Settings :
    LET x == Updated(where, set)
        to(row) == IF row \in where THEN set[row] ELSE row IN
    x.ok => \A row \in Rows :
      Times(x.slots, row) = Cardinality({r \in LiveRids(slots) : to(slots[r]) = row})

\* "MUST check all constraints (PRIMARY KEY, UNIQUE, NOT NULL, type)", a violation
\* undoes the statement: an UPDATE that raises has taken no row from the table.
FailedUpdateKeepsRows ==
  \A where \in Conditions, set \in Settings :
    ~Updated(where, set).ok => Cardinality(LiveRids(Updated(where, set).slots)) = Cardinality(LiveRids(slots))

\* Insert.open and Update.open as a whole: all of the statement or, with the
\* exceptions above, nothing, and no row twice.
StatementsWhole == FailedInsertLeavesNothing /\ UpdatesOnce
=============================================================================
