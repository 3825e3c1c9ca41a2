----------------------------- MODULE MCQueries -----------------------------
(* Three tables, two of them with a column name in common with the first,    *)
(* and queries of every shape the planner tells apart                        *)
EXTENDS Queries

CONSTANT Ranges   \* the comparisons of single-table WHERE clauses

MCColumns == [t |-> <<"id", "v">>, o |-> <<"id", "uid">>, c |-> <<"v", "uid">>]
MCTableRows == [t |-> {<<1, NULL>>, <<2, 1>>, <<3, 2>>, <<3, 1>>},
                o |-> {<<1, 2>>, <<2, 1>>, <<2, NULL>>},
                c |-> {<<1, 1>>, <<NULL, 2>>}]
MCMaxRows == [t |-> 3, o |-> 2, c |-> 1]
MCIndexSets == {{}, {<<"t", "v">>}, {<<"t", "v">>, <<"o", "uid">>, <<"c", "uid">>}}
MCLeftovers == {{}, {<<"t", "v", 2, 1>>}, {<<"t", "v", 1, 3>>}}

V(op, n) == BinaryOp(op, ColumnRef("", "v"), Literal(n))
Eql(a, b) == BinaryOp("=", a, b)
And(a, b) == BinaryOp("AND", a, b)

JoinOn(l, r, kind, on) == Join(l, r, kind, on, <<>>)
JoinUsing(l, r, kind, cols) == Join(l, r, kind, NoNode, cols)

Ask(cols, from) == SelectStmt(cols, from, {}, <<>>, <<>>, -1, 0)
Where(q, e) == [q EXCEPT !.where = {e}]
Grouped(q, g) == [q EXCEPT !.groupBy = g]
Ordered(q, o) == [q EXCEPT !.orderBy = o]
Paged(q, n, m) == [q EXCEPT !.limit = n, !.offset = m]

T == Table("t", "")
O == Table("o", "")
All == Ask(<<Star>>, T)

RangeQueries == {Where(All, e) : e \in Ranges}

Comparisons == {V(op, 1) : op \in {"=", "!=", ">", ">="}}
               \cup {BinaryOp("<", Literal(1), ColumnRef("", "v"))}
Pairs == {And(V(a, 1), V(b, 2)) : a \in {">", ">=", "="}, b \in {"<", "<=", "="}}
         \cup {And(V(b, 2), V(a, 1)) : a \in {">", ">="}, b \in {"<", "<=", ">", ">="}}
Others == {V("=", NULL), UnaryOp("NOT", V("<", 2)), UnaryOp("IS NULL", ColumnRef("", "v")),
           BinaryOp("OR", V("=", 2), Eql(ColumnRef("", "id"), Literal(1))),
           And(V("=", 1), Eql(ColumnRef("t", "id"), Literal(3))),
           Eql(BinaryOp("+", ColumnRef("", "v"), Literal(1)), ColumnRef("", "id"))}
MCRanges == Comparisons \cup Pairs \cup Others
UpperRanges == {V("<", 2), V("<=", 1)}

SortQueries ==
  {Ordered(All, <<OrderBy("v", d), OrderBy("id", ~d)>>) : d \in BOOLEAN}
  \cup {Ordered(Ask(<<ColumnRef("", "id")>>, T), <<OrderBy("v", d)>>) : d \in BOOLEAN}
  \cup {Paged(Ordered(All, <<OrderBy("v", TRUE)>>), 1, m) : m \in 0..2}
  \cup {Paged(Ordered(Where(All, V(">=", 1)), <<OrderBy("id", FALSE)>>), 2, 1)}

Calls == <<AggregateCall("COUNT", "*"), AggregateCall("COUNT", "v"), AggregateCall("SUM", "v"),
           AggregateCall("MIN", "v"), AggregateCall("MAX", "v"), AggregateCall("AVG", "v")>>
AggregateQueries ==
  {Ask(Calls, T), Where(Ask(Calls, T), V(">", 1)),
   Grouped(Ask(<<AggregateCall("COUNT", "*"), AggregateCall("SUM", "id")>>, T), <<"v">>),
   Ordered(Grouped(Ask(<<AggregateCall("COUNT", "*")>>, T), <<"v">>), <<OrderBy("v", TRUE)>>)}

RefusedQueries == {Ask(<<ColumnRef("", "uid")>>, T), Ask(<<Star>>, Table("none", "")),
                   Where(All, Eql(ColumnRef("", "uid"), Literal(1)))}

ToO == Eql(ColumnRef("t", "id"), ColumnRef("o", "uid"))
FromTO(kind) == JoinOn(T, O, kind, ToO)
JoinQueries ==
  {Ask(<<ColumnRef("t", "id"), ColumnRef("", "uid")>>, FromTO(k)) : k \in {"INNER", "LEFT"}}
  \cup {Where(Ask(<<ColumnRef("o", "id"), ColumnRef("", "v")>>, FromTO("LEFT")),
              BinaryOp(">", ColumnRef("o", "id"), Literal(1))),
        Ask(<<ColumnRef("", "id")>>, FromTO("INNER")),
        Ask(<<ColumnRef("", "v"), ColumnRef("", "uid")>>, JoinUsing(T, O, "INNER", <<"id">>)),
        Ask(<<ColumnRef("", "v")>>, JoinOn(T, O, "INNER", Eql(ColumnRef("o", "uid"), ColumnRef("t", "id")))),
        Ask(<<ColumnRef("a", "id"), ColumnRef("b", "v")>>,
            JoinOn(Table("t", "a"), Table("t", "b"), "LEFT", Eql(ColumnRef("a", "v"), ColumnRef("b", "id")))),
        Ask(<<ColumnRef("t", "v")>>, JoinOn(Table("t", "a"), O, "INNER", ToO)),
        Ordered(Ask(<<ColumnRef("t", "id"), ColumnRef("o", "uid")>>, FromTO("LEFT")), <<OrderBy("v", TRUE)>>),
        Grouped(Ask(<<ColumnRef("", "v"), AggregateCall("COUNT", "uid")>>, FromTO("LEFT")), <<"v">>)}

\* t JOIN o JOIN c: the last column of o, then of c, is shared with a table before
ThreeQueries ==
  {Ask(<<ColumnRef("t", "id"), ColumnRef("o", "uid"), ColumnRef("c", "v")>>,
       JoinOn(FromTO(k), Table("c", ""), "LEFT", Eql(ColumnRef("o", "uid"), ColumnRef("c", "uid")))) :
     k \in {"INNER", "LEFT"}}
  \cup {Where(Ask(<<ColumnRef("t", "v"), ColumnRef("c", "uid")>>,
                  JoinOn(JoinOn(T, Table("c", ""), "INNER", Eql(ColumnRef("t", "v"), ColumnRef("c", "v"))),
                       O, "LEFT", Eql(ColumnRef("c", "uid"), ColumnRef("o", "uid")))),
              UnaryOp("IS NOT NULL", ColumnRef("o", "uid")))}

MCAsks == RangeQueries \cup SortQueries \cup AggregateQueries \cup RefusedQueries
          \cup JoinQueries \cup ThreeQueries
=============================================================================
