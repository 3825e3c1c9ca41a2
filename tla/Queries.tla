------------------------------ MODULE Queries ------------------------------
(***************************************************************************)
(* tinydb.executor.planner, logical and physical: how a SELECT becomes a   *)
(* plan, on which Plans works.  A query is a SelectStmt of Syntax.         *)
(* Planning raises UnknownTable, UnknownColumn, Ambiguous... as Raise.     *)
(***************************************************************************)
EXTENDS Plans

CONSTANTS
  Asks,        \* the queries put to the database
  TableRows,   \* table -> the rows that may be inserted
  MaxRows,     \* (bound) table -> rows it may hold
  IndexSets,   \* the sets of indexes looked at
  Leftovers    \* the sets of stale index entries looked at

VARIABLES
  asked,   \* {the query last run}, or {}
  answer   \* its rows, or Raise

queryVars == <<heaps, indexes, leftover, asked, answer>>
-----------------------------------------------------------------------------
(* The FROM tree                                                             *)
RECURSIVE Tables(_), UsesIn(_)

\* _all_tables_in_from
Tables(f) == IF f.node = "Table" THEN <<f.name>> ELSE Tables(f.left) \o Tables(f.right)
\* its leaves, left to right
UsesIn(f) == IF f.node = "Table" THEN <<f>> ELSE UsesIn(f.left) \o UsesIn(f.right)

\* _alias_for: the name a leaf goes by; a join has none
AliasFor(f) == IF f.node # "Table" THEN "" ELSE IF f.alias = "" THEN f.name ELSE f.alias

Exists(t) == t \in DOMAIN Columns
AllColumns(f) == UNION {Names(t) : t \in ToSet(Tables(f))}

\* build_alias_map, _collect_aliased_canonicals, _build_catalog_owner
AliasMap(f) ==
  LET uses == UsesIn(f)
  IN [a \in {AliasFor(u) : u \in ToSet(uses)} |->
        uses[Max({i \in DOMAIN uses : AliasFor(uses[i]) = a})].name]
AliasedTables(f) == {u.name : u \in {w \in ToSet(UsesIn(f)) : w.alias # ""}}
Owners(f, c) == {t \in Range(AliasMap(f)) : Exists(t) /\ c \in Names(t)}

\* rewrite_using: USING (c, ...) as an AND chain of equalities
RewriteUsing(f) ==
  LET term(c) == BinaryOp("=", ColumnRef(AliasFor(f.left), c), ColumnRef(AliasFor(f.right), c))
      And(e, c) == BinaryOp("AND", e, term(c))
  IN IF f.using = <<>> THEN f.on ELSE FoldLeft(And, term(Head(f.using)), Tail(f.using))

\* _walk_expr of logical: may this reference be used in the join f?
OwnedOnce(f, e) == Cardinality(Owners(f, e.name)) <= 1

RefAllowed(f, e) ==
  LET aliases == AliasMap(f)
      isTable == \/ \E c \in AllColumns(f) : e.table \in Owners(f, c)
                 \/ e.table \in AllColumns(f)
  IN CASE e.table = "" -> OwnedOnce(f, e)
       [] e.table \in DOMAIN aliases ->
            ~(aliases[e.table] \in AliasedTables(f) /\ e.table = aliases[e.table])
       [] OTHER -> isTable /\ e.table \notin AliasedTables(f)

RECURSIVE ValidRefs(_, _), KnownColumns(_, _)
\* validate_columns; only column references and binary operators are entered
ValidRefs(f, e) ==
  CASE e.node = "ColumnRef" -> RefAllowed(f, e)
    [] e.node = "BinaryOp" -> ValidRefs(f, e.left) /\ ValidRefs(f, e.right)
    [] OTHER -> TRUE
\* _walk_expr of planner
KnownColumns(known, e) ==
  CASE e.node = "ColumnRef" -> e.name \in known
    [] e.node = "BinaryOp" -> KnownColumns(known, e.left) /\ KnownColumns(known, e.right)
    [] OTHER -> TRUE
-----------------------------------------------------------------------------
(* Scans and joins                                                           *)
IndexScan(t, c, lo, hi, loIncl, hiIncl) ==
  [op |-> "IndexScan", table |-> t, column |-> c, lo |-> lo, hi |-> hi,
   loIncl |-> loIncl, hiIncl |-> hiIncl]
Filter(src, e) == [op |-> "Filter", src |-> src, predicate |-> e]

\* _try_index_plan, for the bound b: a lone bound is always the lower one
IndexPlan(t, b) ==
  IF b.hiOp = NoOp /\ b.op = "="
    THEN IndexScan(t, b.column, b.value, b.value, TRUE, TRUE)
    ELSE IndexScan(t, b.column, b.value, b.hiValue, b.op \in {"=", ">=", "<="},
                   b.hiOp \in {NoOp, "=", ">=", "<="})

\* _find_index_for_column
Usable(t, where) == {b \in ExtractIndexable(where, Names(t)) : <<t, b.column>> \in indexes}

\* the source of a single-table SELECT: the full predicate stays above the scan
TableSource(t, where) ==
  IF where = {} THEN SeqScan(t)
  ELSE LET e == CHOOSE w \in where : TRUE
           scans == {IndexPlan(t, b) : b \in Usable(t, e)}
       IN Filter(IF scans = {} THEN SeqScan(t) ELSE CHOOSE s \in scans : TRUE, e)

\* _try_indexed_join: the side of ON that names the right table, {} if neither
RightRef(f, on) ==
  LET Belongs(e) == e.table # "" /\ e.table \in {f.right.alias, f.right.name}
  IN IF on.node # "BinaryOp" THEN {}
     ELSE IF on.op # "=" \/ {on.left.node, on.right.node} # {"ColumnRef"} THEN {}
     ELSE IF Belongs(on.right) THEN {<<on.right, on.left>>}
     ELSE IF Belongs(on.left) THEN {<<on.left, on.right>>} ELSE {}

RECURSIVE EmitFrom(_)
\* _emit_from, emit_physical, _emit_tableref and _emit_join
EmitFrom(f) ==
  IF f.node = "Table" THEN SeqScan(f.name)
  ELSE LET on == RewriteUsing(f)
           keyed == {r \in RightRef(f, on) : <<f.right.name, r[1].name>> \in indexes}
           join == [op |-> "NestedLoopJoin", left |-> EmitFrom(f.left), right |-> EmitFrom(f.right),
                    on |-> on, kind |-> f.kind,
                    aliasLeft |-> AliasFor(f.left), aliasRight |-> AliasFor(f.right)]
           r == CHOOSE k \in keyed : TRUE
       IN IF keyed = {} THEN join
          ELSE [op |-> "IndexedNestedLoopJoin", column |-> r[1].name,
                leftKeyAlias |-> IF r[2].table = "" THEN AliasFor(f.left) ELSE r[2].table] @@ join
-----------------------------------------------------------------------------
(* The clauses around them                                                   *)
Label(item) ==
  CASE item.node = "ColumnRef" -> <<"", item.name>>
    [] item.node = "Aggregate" -> <<item.func, item.column>>
    [] item.node = "Literal" -> <<"L", item.value>>
    [] OTHER -> <<"expression", item.node>>

AddNew(out, l) == IF l \in ToSet(out) THEN out ELSE Append(out, l)

\* _project_columns: a repeated column is dropped, its item is not
ProjectColumns(q, t) ==
  LET Add(out, item) == IF item.node = "ColumnRef" THEN AddNew(out, Label(item))
                        ELSE Append(out, Label(item))
  IN IF q.columns = <<Star>> THEN [i \in DOMAIN Columns[t] |-> <<"", Columns[t][i]>>]
     ELSE FoldLeft(Add, <<>>, q.columns)

\* _join_projection_columns: every repeated label is dropped, for * too
JoinProjectionColumns(q) ==
  LET all == FlattenSeq([i \in DOMAIN Tables(q.from) |-> Columns[Tables(q.from)[i]]])
      labels == IF q.columns = <<Star>> THEN [i \in DOMAIN all |-> <<"", all[i]>>]
                ELSE [i \in DOMAIN q.columns |-> Label(q.columns[i])]
  IN FoldLeft(AddNew, <<>>, labels)

Aggregates(q) ==
  LET calls == SelectSeq(q.columns, LAMBDA c : c.node = "Aggregate")
  IN [i \in DOMAIN calls |-> <<calls[i].func, calls[i].column>>]

Aggregated(q) == Aggregates(q) # <<>> \/ q.groupBy # <<>>
AggregatePlan(q, src) == [op |-> "Aggregate", src |-> src, aggregates |-> Aggregates(q), keys |-> q.groupBy]
Project(src, labels, items) == [op |-> "Project", src |-> src, columns |-> labels, items |-> items]

SortKeys(q) == [i \in DOMAIN q.orderBy |-> [column |-> <<"", q.orderBy[i].column>>, desc |-> q.orderBy[i].desc]]
WithSort(q, src) == IF q.orderBy = <<>> THEN src ELSE [op |-> "Sort", src |-> src, keys |-> SortKeys(q)]
WithLimit(q, src) ==
  IF q.limit = -1 /\ q.offset = 0 THEN src
  ELSE [op |-> "Limit", src |-> src, limit |-> Max({q.limit, 0}), offset |-> q.offset]

\* the names a single-table SELECT has to find in the table
NamesUsed(q) ==
  {q.orderBy[i].column : i \in DOMAIN q.orderBy} \cup ToSet(q.groupBy)
  \cup (IF Aggregated(q) THEN {}
        ELSE {c.name : c \in {d \in ToSet(q.columns) : d.node = "ColumnRef"}})

PlanTable(q) ==
  LET t == q.from.name
      src == TableSource(t, q.where)
  IN IF ~Exists(t) THEN Raise
     ELSE IF ~(NamesUsed(q) \subseteq Names(t)) \/ \E e \in q.where : ~KnownColumns(Names(t), e) THEN Raise
     ELSE WithLimit(q, WithSort(q, IF Aggregated(q) THEN AggregatePlan(q, src)
                                   ELSE Project(src, ProjectColumns(q, t), q.columns)))

\* _wrap_with_select_clauses
WrapJoin(q, src) ==
  LET labels == FoldLeft(AddNew, <<>>, [i \in DOMAIN q.columns |-> Label(q.columns[i])])
  IN IF Aggregated(q)
       THEN Project(AggregatePlan(q, src), IF q.columns = <<Star>> THEN <<>> ELSE labels, <<>>)
       ELSE Project(src, JoinProjectionColumns(q), q.columns)

\* emit_logical, PhysicalPlanner.plan and the checks of _validate_join_where
PlanJoin(q) ==
  LET f == q.from
      refs == {c \in ToSet(q.columns) : c.node = "ColumnRef"}
      src == EmitFrom(f)
  IN IF \/ \E e \in q.where \cup refs : ~ValidRefs(f, e)
        \/ \E t \in ToSet(Tables(f)) : ~Exists(t)
        \/ \E e \in q.where : ~KnownColumns(AllColumns(f), e)
        \/ ~(ToSet(q.groupBy) \subseteq AllColumns(f))
       THEN Raise
       ELSE LET filtered == IF q.where = {} THEN src ELSE Filter(src, CHOOSE e \in q.where : TRUE)
            IN WithLimit(q, WithSort(q, WrapJoin(q, filtered)))

\* plan, then Executor.execute
PlanSelect(q) == IF q.from.node = "Table" THEN PlanTable(q) ELSE PlanJoin(q)
Execute(q) == LET p == PlanSelect(q) IN IF p = Raise THEN Raise ELSE OpenPlan(p)
-----------------------------------------------------------------------------
\* Entries are left over in the only index (bound)
QueryInit ==
  /\ heaps = [t \in DOMAIN Columns |-> <<>>]
  /\ indexes \in IndexSets /\ leftover \in Leftovers
  /\ \A e \in leftover : indexes = {<<e[1], e[2]>>}
  /\ asked = {} /\ answer = <<>>

\* The tables are filled before they are queried
Fill(t, row) ==
  /\ asked = {} /\ Len(heaps[t]) < MaxRows[t]
  /\ heaps' = [heaps EXCEPT ![t] = Append(@, row)]
  /\ UNCHANGED <<indexes, leftover, asked, answer>>

\* Database.execute of a SELECT; tables it does not name are left empty (bound)
Select(q) ==
  /\ asked = {}
  /\ \A t \in DOMAIN Columns \ ToSet(Tables(q.from)) : heaps[t] = <<>>
  /\ asked' = {q} /\ answer' = Execute(q)
  /\ UNCHANGED <<heaps, indexes, leftover>>

Answered ==
  /\ asked # {} /\ asked' = {} /\ answer' = <<>>
  /\ UNCHANGED <<heaps, indexes, leftover>>

QueryNext ==
  \/ \E t \in DOMAIN Columns : \E row \in TableRows[t] : Fill(t, row)
  \/ \E q \in Asks : Select(q)
  \/ Answered

QuerySpec == QueryInit /\ [][QueryNext]_queryVars
-----------------------------------------------------------------------------
(* What SQL says a query means: rows are combined leaf by leaf (an           *)
(* environment is one row per table named in FROM), names are looked up by   *)
(* the leaf they belong to, and no plan, position or index is involved.      *)
RECURSIVE Value(_, _, _), Meaning(_)

LeafOf(f, e) ==
  LET uses == UsesIn(f)
  IN Min({i \in DOMAIN uses : e.name \in Names(uses[i].name)
                              /\ (e.table = "" \/ AliasFor(uses[i]) = e.table)})
ValueOf(f, env, e) == env[LeafOf(f, e)][Position(UsesIn(f)[LeafOf(f, e)].name, e.name)]

\* three-valued logic, with NULL for unknown: a comparison or a sum with a NULL
\* is NULL, and AND, OR and NOT of it are NULL unless the other side decides
And3(l, r) == IF 0 \in {l, r} THEN 0 ELSE IF NULL \in {l, r} THEN NULL ELSE 1
Not3(v) == IF v = NULL THEN NULL ELSE Bool(v = 0)
Known(op, l, r) ==
  CASE op = "AND" -> And3(l, r)
    [] op = "OR" -> Not3(And3(Not3(l), Not3(r)))
    [] OTHER -> IF NULL \in {l, r} THEN NULL
                ELSE CASE op = "=" -> Bool(l = r)
                       [] op = "!=" -> Bool(l # r)
                       [] op \in {"<", "<=", ">", ">="} -> Bool(Holds(op, l, r))
                       [] OTHER -> Computed(op, l, r)
KnownOf(op, v) ==
  CASE op = "IS NULL" -> Bool(v = NULL)
    [] op = "IS NOT NULL" -> Bool(v # NULL)
    [] op = "NOT" -> Not3(v)

Value(f, env, e) ==
  CASE e.node = "Literal" -> e.value
    [] e.node = "ColumnRef" -> ValueOf(f, env, e)
    [] e.node = "BinaryOp" -> Known(e.op, Value(f, env, e.left), Value(f, env, e.right))
    [] e.node = "UnaryOp" -> KnownOf(e.op, Value(f, env, e.operand))

UsingPairs(f, l, r) ==
  {<<ValueOf(f.left, l, ColumnRef("", c)), ValueOf(f.right, r, ColumnRef("", c))>> : c \in ToSet(f.using)}
Joined(f, l, r) ==
  IF f.using = <<>> THEN Value(f, l \o r, f.on) = 1
  ELSE \A p \in UsingPairs(f, l, r) : Known("=", p[1], p[2]) = 1

Meaning(f) ==
  IF f.node = "Table" THEN [i \in DOMAIN heaps[f.name] |-> <<heaps[f.name][i]>>]
  ELSE LET rights == Meaning(f.right)
           For(l) == LET m == SelectSeq(rights, LAMBDA r : Joined(f, l, r))
                     IN IF m # <<>> THEN [i \in DOMAIN m |-> l \o m[i]]
                        ELSE IF f.kind = "LEFT" THEN <<l \o <<[i \in 1..Width(f.right.name) |-> NULL]>>>>
                        ELSE <<>>
           lefts == Meaning(f.left)
       IN FlattenSeq([i \in DOMAIN lefts |-> For(lefts[i])])

Selected(q) == SelectSeq(Meaning(q.from), LAMBDA env : \A e \in q.where : Value(q.from, env, e) = 1)
Shown(q, env) ==
  IF q.columns = <<Star>> THEN FlattenSeq(env)
  ELSE [i \in DOMAIN q.columns |-> Value(q.from, env, q.columns[i])]
Expected(q) == LET envs == Selected(q) IN [i \in DOMAIN envs |-> Shown(q, envs[i])]

\* Where eval_expr leaves three-valued logic: _eq takes two NULLs for equal and
\* a NULL and a value for different, and NOT makes a false or a NULL true
RECURSIVE Departs(_, _, _), JoinDeparts(_)
EqDeparts(op, l, r) ==
  \/ op = "=" /\ l = NULL /\ r = NULL
  \/ op = "!=" /\ NULL \in {l, r} /\ l # r
Departs(f, env, e) ==
  CASE e.node = "UnaryOp" -> e.op = "NOT" /\ Value(f, env, e.operand) = NULL
    [] e.node # "BinaryOp" -> FALSE
    [] e.op \in {"AND", "OR"} -> Departs(f, env, e.left) \/ Departs(f, env, e.right)
    [] OTHER -> EqDeparts(e.op, Value(f, env, e.left), Value(f, env, e.right))
JoinDeparts(f) ==
  f.node = "Join"
  /\ \/ JoinDeparts(f.left)
     \/ \E l \in ToSet(Meaning(f.left)), r \in ToSet(Meaning(f.right)) :
          IF f.using = <<>> THEN Departs(f, l \o r, f.on) ELSE <<NULL, NULL>> \in UsingPairs(f, l, r)

\* some row or pair of rows of the tables meets such a test
NullsMeet(q) ==
  JoinDeparts(q.from) \/ \E env \in ToSet(Meaning(q.from)), e \in q.where : Departs(q.from, env, e)
-----------------------------------------------------------------------------
(* Where the planner's use of an index is sound                              *)
ColumnFirst(e) == e.left.node = "ColumnRef"
Bounded(e) ==
  IF e.op = "AND"
    THEN /\ ColumnFirst(e.left) /\ ColumnFirst(e.right)
         /\ ~({e.left.op, e.right.op} \subseteq UpperOps)
         /\ ~(e.left.op = "=" /\ e.right.op \in LowerOps)
         /\ ~(e.left.op \in UpperOps /\ e.right.op = "=")
    ELSE ColumnFirst(e) /\ e.op \notin UpperOps

RECURSIVE OnInOrder(_)
OnInOrder(f) ==
  f.node = "Table"
  \/ /\ OnInOrder(f.left)
     /\ \A r \in RightRef(f, RewriteUsing(f)) :
          <<f.right.name, r[1].name>> \in indexes =>
             r[1] = RewriteUsing(f).right

IndexSound(q) ==
  IF q.from.node = "Table"
    THEN \A e \in q.where : Usable(q.from.name, e) # {} => Bounded(e)
    ELSE OnInOrder(q.from)

\* no result column is dropped as a repetition
Kept(q) ==
  LET names == IF q.columns = <<Star>>
                 THEN FlattenSeq([i \in DOMAIN Tables(q.from) |-> Columns[Tables(q.from)[i]]])
                 ELSE [i \in DOMAIN q.columns |-> Label(q.columns[i])]
  IN Cardinality(ToSet(names)) = Len(names)

Plain(q) == ~Aggregated(q) /\ q.limit = -1 /\ Kept(q)

(* A SELECT answers with exactly the rows SQL gives it, as often as it gives *)
(* them, whichever of IndexScan, SeqScan, NestedLoopJoin and                 *)
(* IndexedNestedLoopJoin the planner picks, through nested and self joins    *)
(* whose tables share column names: ops.py, join.py, planner.py, physical.py *)
AnswersExactly ==
  \A q \in asked :
    (leftover = {} /\ answer # Raise /\ Plain(q) /\ IndexSound(q) /\ ~NullsMeet(q)) =>
      ToBag(answer) = ToBag(Expected(q))

(* The same, with no exception for the shape of the WHERE clause: what       *)
(* index_plan.py:1-6 promises of "equality, range or AND-of-same-column      *)
(* bounds"                                                                   *)
IndexAnswersEveryRange ==
  \A q \in asked :
    (leftover = {} /\ answer # Raise /\ Plain(q) /\ q.from.node = "Table") =>
      ToBag(answer) = ToBag(Expected(q))

(* An index entry that a ROLLBACK left behind (index pages are not undone)   *)
(* never brings a row into an answer that does not belong there: the         *)
(* predicate is evaluated again above IndexScan and in IndexedNestedLoopJoin *)
StaleEntriesHarmless ==
  \A q \in asked :
    (answer # Raise /\ Plain(q) /\ q.from.node = "Table" /\ ~NullsMeet(q)) =>
      ToSet(answer) \subseteq ToSet(Expected(q))

\* the order ORDER BY asks for, NULL after every value
Rank(v) == IF v = NULL THEN <<1, 0>> ELSE <<0, v>>
Precedes(q, a, b) ==
  \E i \in DOMAIN q.orderBy :
    LET c(env) == Rank(ValueOf(q.from, env, ColumnRef("", q.orderBy[i].column)))
    IN /\ IF q.orderBy[i].desc THEN Less(c(b), c(a)) ELSE Less(c(a), c(b))
       /\ \A j \in 1..i-1 : LET d(env) == ValueOf(q.from, env, ColumnRef("", q.orderBy[j].column))
                             IN d(a) = d(b)

(* ORDER BY ... LIMIT ... OFFSET answers with the page it asks for: the row  *)
(* at each place of the answer is one the order allows there, whether the    *)
(* sort works on projected rows or goes back to the base rows: Sort.open,    *)
(* Limit.open, _sort_key                                                     *)
PageInOrder ==
  \A q \in asked :
    (/\ leftover = {} /\ answer # Raise /\ q.orderBy # <<>> /\ ~Aggregated(q) /\ Kept(q)
     /\ IndexSound(q) /\ ~NullsMeet(q)) =>
      LET envs == Selected(q)
          n == IF q.limit = -1 THEN Len(envs) ELSE Max({0, Min({q.limit, Len(envs) - q.offset})})
          Place(e) == Cardinality({d \in DOMAIN envs : Precedes(q, envs[d], envs[e])})
          Beyond(e) == Cardinality({d \in DOMAIN envs : Precedes(q, envs[e], envs[d])})
      IN /\ Len(answer) = n
         /\ \A i \in DOMAIN answer : \E e \in DOMAIN envs :
              /\ answer[i] = Shown(q, envs[e])
              /\ Place(e) <= q.offset + i - 1
              /\ Beyond(e) <= Len(envs) - (q.offset + i)

\* an aggregate of the environments at the positions in es
Total(q, envs, es, a) ==
  LET v(e) == ValueOf(q.from, envs[e], ColumnRef("", a[2]))
      some == {e \in es : v(e) # NULL}
      sum == FoldSet(LAMBDA e, x : v(e) + x, 0, some)
  IN CASE a[2] = "*" -> Cardinality(es)
       [] a[1] = "COUNT" -> Cardinality(some)
       [] some = {} -> NULL
       [] a[1] = "SUM" -> sum
       [] a[1] = "AVG" -> <<sum, Cardinality(some)>>
       [] a[1] = "MIN" -> Min({v(e) : e \in some})
       [] a[1] = "MAX" -> Max({v(e) : e \in some})

(* An aggregate query answers with one row per group of the rows SQL         *)
(* selects, each with the totals of that group; rows with a NULL in the key  *)
(* belong to none, and no row at all still gives COUNT 0: Aggregate.open     *)
AggregatesExact ==
  \A q \in asked :
    (/\ leftover = {} /\ answer # Raise /\ Aggregated(q) /\ q.limit = -1
     /\ IndexSound(q) /\ ~NullsMeet(q)) =>
      LET envs == Selected(q)
          Key(e) == [i \in DOMAIN q.groupBy |-> ValueOf(q.from, envs[e], ColumnRef("", q.groupBy[i]))]
          keys == IF q.groupBy = <<>> THEN {<<>>}
                  ELSE {Key(e) : e \in {d \in DOMAIN envs : NULL \notin ToSet(Key(d))}}
          Of(k) == {e \in DOMAIN envs : Key(e) = k}
          Row(k) == k \o [i \in DOMAIN Aggregates(q) |-> Total(q, envs, Of(k), Aggregates(q)[i])]
      IN Len(answer) = Cardinality(keys) /\ ToSet(answer) = {Row(k) : k \in keys}

(* plan_select and Executor.execute: whatever the shape of the query, the    *)
(* answer is the one SQL gives, and no stale index entry adds to it          *)
AnswersAsSqlSays ==
  StaleEntriesHarmless /\ AnswersExactly /\ PageInOrder /\ AggregatesExact
=============================================================================
