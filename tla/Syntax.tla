------------------------------- MODULE Syntax -------------------------------
(***************************************************************************)
(* tinydb.sql.ast: the nodes of a statement.  A column reference without a *)
(* table, and a table without an alias, have "" there; an optional part is *)
(* a set of at most one expression, and a LIMIT left out is -1.            *)
(***************************************************************************)
EXTENDS Values

Literal(v) == [node |-> "Literal", value |-> v]
TypedLiteral(tag, v) == [node |-> "TypedLiteral", tag |-> tag, value |-> v]
ColumnRef(t, c) == [node |-> "ColumnRef", table |-> t, name |-> c]
BinaryOp(op, l, r) == [node |-> "BinaryOp", op |-> op, left |-> l, right |-> r]
UnaryOp(op, e) == [node |-> "UnaryOp", op |-> op, operand |-> e]
Star == [node |-> "Star"]
AggregateCall(f, c) == [node |-> "Aggregate", func |-> f, column |-> c]
NoNode == [node |-> "None"]

Table(t, a) == [node |-> "Table", name |-> t, alias |-> a]
\* on is NoNode with USING, using is <<>> with ON
Join(l, r, kind, on, using) ==
  [node |-> "Join", left |-> l, right |-> r, kind |-> kind, on |-> on, using |-> using]

OrderBy(c, desc) == [column |-> c, desc |-> desc]
SelectStmt(cols, from, where, groupBy, orderBy, limit, offset) ==
  [stmt |-> "Select", columns |-> cols, from |-> from, where |-> where,
   groupBy |-> groupBy, orderBy |-> orderBy, limit |-> limit, offset |-> offset]

\* columns is <<>> when the statement names none
InsertStmt(t, cols, rows) == [stmt |-> "Insert", table |-> t, columns |-> cols, values |-> rows]
Assignment(c, e) == [column |-> c, value |-> e]
UpdateStmt(t, set, where) == [stmt |-> "Update", table |-> t, set |-> set, where |-> where]
DeleteStmt(t, where) == [stmt |-> "Delete", table |-> t, where |-> where]

Column(c, tag, notNull, primary, unique) ==
  [name |-> c, tag |-> tag, notNull |-> notNull, primary |-> primary, unique |-> unique]
CreateTableStmt(t, cols) == [stmt |-> "CreateTable", name |-> t, columns |-> cols]
DropTableStmt(t, ifExists) == [stmt |-> "DropTable", name |-> t, ifExists |-> ifExists]
CreateIndexStmt(i, t, cols, unique) ==
  [stmt |-> "CreateIndex", name |-> i, table |-> t, columns |-> cols, unique |-> unique]
=============================================================================
