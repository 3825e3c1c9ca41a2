------------------------------- MODULE Plans -------------------------------
(***************************************************************************)
(* tinydb.executor.ops, join and aggregate: what each operator of a plan   *)
(* yields.  open materialises its rows here (Executor.execute lists them); *)
(* it is Raise when an operator raises.  A result label is <<"", column>>, *)
(* <<function, column>> for an aggregate, <<"L", value>> for a literal.    *)
(***************************************************************************)
EXTENDS Expressions, TLC

CONSTANT Columns   \* table -> its column names, in order

VARIABLES
  heaps,      \* table -> its rows; a rid is a position
  indexes,    \* the indexed columns, as <<table, column>>
  leftover    \* entries <<table, column, key, rid>> a ROLLBACK left behind

Names(t) == ToSet(Columns[t])
Position(t, c) == CHOOSE i \in DOMAIN Columns[t] : Columns[t][i] = c
Width(t) == Len(Columns[t])

\* IndexManager: the entries of the index on t(c); NULL keys are not indexed
Entries(t, c) ==
  {<<heaps[t][r][Position(t, c)], r>> :
     r \in {q \in DOMAIN heaps[t] : heaps[t][q][Position(t, c)] # NULL}}
  \cup {<<l[3], l[4]>> : l \in {m \in leftover : m[1] = t /\ m[2] = c}}

InKeyOrder(entries) ==
  LET Before(a, b) == a[1] < b[1] \/ (a[1] = b[1] /\ a[2] < b[2])
      at(e) == Cardinality({d \in entries : Before(d, e)}) + 1
  IN [i \in 1..Cardinality(entries) |-> CHOOSE e \in entries : at(e) = i]

\* IndexLookup.equality and range, _passes_lo and _is_past_hi, in key order
PassesLo_Strict(k, lo, incl) == lo = NULL \/ k > lo
PassesLo(k, lo, incl) == lo = NULL \/ (IF incl THEN k >= lo ELSE k > lo)
IsPastHi(k, hi, incl) == hi # NULL /\ (IF incl THEN k > hi ELSE k >= hi)
Lookup(t, c, lo, hi, loIncl, hiIncl) ==
  InKeyOrder({e \in Entries(t, c) : PassesLo(e[1], lo, loIncl) /\ ~IsPastHi(e[1], hi, hiIncl)})

\* heap.read of each entry's rid; a rid without a row is passed over
Fetched(t, entries) ==
  LET found == SelectSeq(entries, LAMBDA e : e[2] \in DOMAIN heaps[t])
  IN [i \in DOMAIN found |-> heaps[t][found[i][2]]]
-----------------------------------------------------------------------------
(* The layouts of rows                                                       *)
SeqScan(t) == [op |-> "SeqScan", table |-> t]
IsJoin(p) == p.op \in {"NestedLoopJoin", "IndexedNestedLoopJoin"}
IsScan(p) == p.op \in {"SeqScan", "IndexScan"}

RECURSIVE TableOf(_), JoinUnder(_), RowN2i(_, _)
TableOf(p) == IF IsScan(p) THEN p.table ELSE IF IsJoin(p) THEN TableOf(p.left) ELSE TableOf(p.src)

\* the join below Filter, Sort and Limit, or the scan there
JoinUnder(p) == IF IsJoin(p) \/ IsScan(p) THEN p ELSE JoinUnder(p.src)

NameToIdx(t) == [k \in {<<"", c>> : c \in Names(t)} |-> Position(t, k[2])]
Qualified(t, a) == [k \in {<<a, c>> : c \in Names(t)} |-> Position(t, k[2])]

\* The offset of the right side: the largest position of the left side's layout
LeftWidth(n2i) == Max(Range(n2i))

Merge(l, r) ==
  LET shifted == [k \in DOMAIN r |-> r[k] + LeftWidth(l)]
      kept == {k \in DOMAIN r : k[1] # "" \/ k \notin DOMAIN l}
  IN [k \in kept |-> shifted[k]] @@ l

\* row_n2i_for_plan
RowN2i(p, alias) ==
  CASE IsScan(p) -> IF alias = "" THEN NameToIdx(p.table)
                    ELSE NameToIdx(p.table) @@ Qualified(p.table, alias)
    [] IsJoin(p) -> Merge(RowN2i(p.left, p.aliasLeft), RowN2i(p.right, p.aliasRight))
    [] OTHER -> RowN2i(p.src, alias)

\* the labels an Aggregate's rows carry: group keys, then aggregates
AggLayout(p) ==
  LET labels == [i \in DOMAIN p.keys |-> <<"", p.keys[i]>>] \o p.aggregates
  IN [l \in ToSet(labels) |-> Max({i \in DOMAIN labels : labels[i] = l})]

\* the layout of the rows under p (_project_source_n2i, and in Aggregate.open)
BaseLayout(p) ==
  IF IsJoin(JoinUnder(p)) THEN RowN2i(JoinUnder(p), "") ELSE NameToIdx(TableOf(p))

\* _project_name_to_idx
SourceLayout(p) == IF p.op = "Aggregate" THEN AggLayout(p) ELSE BaseLayout(p)
-----------------------------------------------------------------------------
(* The operators                                                             *)
IndexScanRows(p) == Fetched(p.table, Lookup(p.table, p.column, p.lo, p.hi, p.loIncl, p.hiIncl))

Filtered(p, rows) ==
  LET n2i == IF IsJoin(p.src) THEN RowN2i(p.src, "") ELSE NameToIdx(TableOf(p.src))
      value == [i \in DOMAIN rows |-> EvalExpr(p.predicate, rows[i], n2i)]
      kept == SelectSeq([i \in DOMAIN rows |-> i], LAMBDA i : Truthy(value[i]))
  IN IF \E i \in DOMAIN rows : value[i] = Raise THEN Raise
     ELSE [i \in DOMAIN kept |-> rows[kept[i]]]

\* one result column of Project.open: items is parallel to columns only as
\* long as no column was dropped as a duplicate
Projected(p, i, row, n2i) ==
  LET label == p.columns[i]
      item == IF i <= Len(p.items) THEN p.items[i] ELSE NoNode
      owner == IF item.node = "ColumnRef" THEN item.table ELSE ""
  IN CASE owner # "" /\ label[1] = "" /\ <<owner, label[2]>> \in DOMAIN n2i ->
            row[n2i[<<owner, label[2]>>]]
       [] label \in DOMAIN n2i -> row[n2i[label]]
       [] OTHER -> EvalExpr(item, row, n2i)

ProjectRows(p, rows) ==
  LET n2i == SourceLayout(p.src)
      out == [r \in DOMAIN rows |-> [i \in DOMAIN p.columns |-> Projected(p, i, rows[r], n2i)]]
  IN IF \E r \in DOMAIN out : Raise \in ToSet(out[r]) THEN Raise ELSE out

\* _sort_key, _neg: NULL last when ascending, first when descending
SortKey(v, desc) ==
  IF v = NULL THEN IF desc THEN <<0, 0>> ELSE <<1, 0>>
  ELSE IF desc THEN <<1, -v>> ELSE <<0, v>>

Less(a, b) == a[1] < b[1] \/ (a[1] = b[1] /\ a[2] < b[2])
KeyLess(a, b) == \E i \in DOMAIN a : Less(a[i], b[i]) /\ \A j \in 1..i-1 : a[j] = b[j]

\* list.sort, which is stable
Sorted(rows, keys, n2i) ==
  LET key == [r \in DOMAIN rows |->
                [i \in DOMAIN keys |-> SortKey(rows[r][n2i[keys[i].column]], keys[i].desc)]]
      Before(i, j) == KeyLess(key[i], key[j]) \/ (key[i] = key[j] /\ i < j)
      order == SortSeq([r \in DOMAIN rows |-> r], Before)
  IN [i \in DOMAIN order |-> rows[order[i]]]

Keyed(keys, n2i) == \A i \in DOMAIN keys : keys[i].column \in DOMAIN n2i

\* _resolve_proj_index: the position of a projected label in a base row, 0 if none
ResolveProjIndex(base, item, label) ==
  LET owner == IF item.node = "ColumnRef" THEN item.table ELSE ""
  IN CASE owner # "" /\ <<owner, label[2]>> \in DOMAIN base -> base[<<owner, label[2]>>]
       [] label \in DOMAIN base -> base[label]
       [] OTHER -> 0

\* Sort.open above a Project that does not carry every key: the base rows are
\* sorted, then projected by position
SortBase(p, base) ==
  LET n2i == BaseLayout(p.src.src)
      proj == p.src
      n == IF proj.items = <<>> THEN Len(proj.columns)
           ELSE Min({Len(proj.items), Len(proj.columns)})
      at == [i \in 1..n |->
               ResolveProjIndex(n2i, IF proj.items = <<>> THEN NoNode ELSE proj.items[i],
                                proj.columns[i])]
      sorted == Sorted(base, p.keys, n2i)
  IN IF base = Raise \/ 0 \in ToSet(at) \/ ~Keyed(p.keys, n2i) THEN Raise
     ELSE [r \in DOMAIN sorted |-> [i \in 1..n |-> sorted[r][at[i]]]]

\* Sort.open otherwise
SortRows(p, rows) ==
  LET n2i == IF p.src.op = "Aggregate" THEN AggLayout(p.src)
             ELSE [l \in ToSet(p.src.columns) |->
                     Max({i \in DOMAIN p.src.columns : p.src.columns[i] = l})]
  IN IF Keyed(p.keys, n2i) THEN Sorted(rows, p.keys, n2i) ELSE Raise

NeedsBase(p) ==
  p.src.op = "Project" /\ \E i \in DOMAIN p.keys : p.keys[i].column \notin ToSet(p.src.columns)

LimitRows(p, rows) == SubSeq(rows, p.offset + 1, Min({p.offset + p.limit, Len(rows)}))
-----------------------------------------------------------------------------
(* aggregate                                                                 *)
NewState == [count |-> 0, sum |-> NULL, min |-> NULL, max |-> NULL]

Skips(func, hasValue, v) == IF func = "COUNT" THEN hasValue /\ v = NULL ELSE ~hasValue \/ v = NULL

\* _accumulate; hasValue is FALSE for "*"
Accumulate(s, func, hasValue, v) ==
  CASE Skips(func, hasValue, v) -> s
    [] func = "COUNT" -> [s EXCEPT !.count = @ + 1]
    [] func \in {"SUM", "AVG"} ->
         [s EXCEPT !.count = @ + 1, !.sum = (IF @ = NULL THEN 0 ELSE @) + v]
    [] func = "MIN" -> [s EXCEPT !.min = IF @ = NULL THEN v ELSE Min({@, v})]
    [] func = "MAX" -> [s EXCEPT !.max = IF @ = NULL THEN v ELSE Max({@, v})]

\* _finalize; an average is kept as <<sum, count>>
Finalize(s, func) ==
  CASE func = "COUNT" -> s.count
    [] func = "MIN" -> s.min
    [] func = "MAX" -> s.max
    [] s.count = 0 -> NULL
    [] func = "SUM" -> s.sum
    [] func = "AVG" -> <<s.sum, s.count>>

\* Aggregate.open, _extract_key, _resolve and _emit: groups in the order they
\* are met; a row with a NULL in its key is dropped; no row and no GROUP BY
\* still gives one result row
AggregateRows(p, rows) ==
  LET n2i == BaseLayout(p.src)
      Key(row) == [i \in DOMAIN p.keys |-> row[n2i[<<"", p.keys[i]>>]]]
      Fold(s, a, row) ==
        IF a[2] = "*" THEN Accumulate(s, a[1], FALSE, NULL)
        ELSE Accumulate(s, a[1], TRUE, row[n2i[<<"", a[2]>>]])
      fresh == [i \in DOMAIN p.aggregates |-> NewState]
      Step(acc, row) ==
        LET k == Key(row)
            old == IF k \in DOMAIN acc.groups THEN acc.groups[k] ELSE fresh
        IN IF NULL \in ToSet(k) THEN acc
           ELSE [order |-> IF k \in DOMAIN acc.groups THEN acc.order ELSE Append(acc.order, k),
                 groups |-> (k :> [i \in DOMAIN old |-> Fold(old[i], p.aggregates[i], row)])
                            @@ acc.groups]
      Values(states) == [i \in DOMAIN states |-> Finalize(states[i], p.aggregates[i][1])]
      end == FoldLeft(Step, [order |-> <<>>, groups |-> <<>>], rows)
      Known(cols) == \A c \in cols \ {"*"} : <<"", c>> \in DOMAIN n2i
      counted == {a[2] : a \in ToSet(p.aggregates)}
  IN IF rows # <<>> /\ ~Known(ToSet(p.keys)) THEN Raise
     ELSE IF ~Known(counted) /\ \E r \in ToSet(rows) : NULL \notin ToSet(Key(r)) THEN Raise
     ELSE IF p.keys = <<>> /\ end.order = <<>> THEN <<Values(fresh)>>
     ELSE [i \in DOMAIN end.order |-> end.order[i] \o Values(end.groups[end.order[i]])]
-----------------------------------------------------------------------------
(* join                                                                      *)
NullRow(p) == [i \in 1..Width(TableOf(p)) |-> NULL]
Padded(p, left, matches) ==
  IF matches = <<>> /\ p.kind = "LEFT" THEN <<left \o NullRow(p.right)>> ELSE matches

\* the right rows for which the ON clause holds, joined to the left row
Matching(p, left, rights) ==
  LET n2i == RowN2i(p, "")
      kept == SelectSeq(rights, LAMBDA r : Truthy(EvalExpr(p.on, left \o r, n2i)))
  IN Padded(p, left, [i \in DOMAIN kept |-> left \o kept[i]])

\* NestedLoopJoin.open: every right row, for each left row
NestedRows(p, lefts, rights) ==
  LET n2i == RowN2i(p, "")
  IN IF \E l \in ToSet(lefts), r \in ToSet(rights) : EvalExpr(p.on, l \o r, n2i) = Raise THEN Raise
     ELSE FlattenSeq([i \in DOMAIN lefts |-> Matching(p, lefts[i], rights)])

\* _extract_join_keys_nested: the left row's position of the key, 0 if none.
\* Only the order "left = right" is understood.
LeftKeyIdx(p) ==
  LET n2i == RowN2i(p.left, p.leftKeyAlias)
      key == Resolve(p.on.left, n2i)
  IN IF key \in DOMAIN n2i THEN n2i[key] ELSE 0
RightKeyKnown(p) == p.on.right.name \in Names(TableOf(p.right))

\* IndexedNestedLoopJoin.open: the right rows the index gives for the left key
IndexedRows(p, lefts) ==
  LET at == LeftKeyIdx(p)
      Rights(key) == IF key = NULL THEN <<>>
                     ELSE Fetched(p.right.table, Lookup(p.right.table, p.column, key, key, TRUE, TRUE))
  IN IF at = 0 \/ ~RightKeyKnown(p) THEN <<>>
     ELSE FlattenSeq([i \in DOMAIN lefts |-> Matching(p, lefts[i], Rights(lefts[i][at]))])

RECURSIVE OpenPlan(_)
OpenPlan(p) ==
  CASE p.op = "SeqScan" -> heaps[p.table]
    [] p.op = "IndexScan" -> IndexScanRows(p)
    [] IsJoin(p) -> LET lefts == OpenPlan(p.left)
                    IN CASE lefts = Raise -> Raise
                         [] p.op = "NestedLoopJoin" -> NestedRows(p, lefts, OpenPlan(p.right))
                         [] OTHER -> IndexedRows(p, lefts)
    [] p.op = "Sort" /\ NeedsBase(p) -> SortBase(p, OpenPlan(p.src.src))
    [] OTHER -> LET rows == OpenPlan(p.src)
                IN CASE rows = Raise -> Raise
                     [] p.op = "Filter" -> Filtered(p, rows)
                     [] p.op = "Project" -> ProjectRows(p, rows)
                     [] p.op = "Aggregate" -> AggregateRows(p, rows)
                     [] p.op = "Sort" -> SortRows(p, rows)
                     [] p.op = "Limit" -> LimitRows(p, rows)
=============================================================================
