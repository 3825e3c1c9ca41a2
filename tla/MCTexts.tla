------------------------------ MODULE MCTexts -------------------------------
(* Statements to read: every expression of two operators, and statements of  *)
(* every kind.  Texts to bind: all of up to six characters with a            *)
(* placeholder, of up to four with two, and some longer ones.                *)
EXTENDS Sentences, Binding

CONSTANTS text, iso

MCReadable == [w \in {"DATE", "TIME", "DATETIME", "DECIMAL", "BLOB", "JSON"} |-> {iso}]

Leaves == {ColumnRef("", "a"), Literal(1)}
Unary == {"NOT", "-", "IS NULL", "IS NOT NULL"}
Binary == {"OR", "AND", "=", "+", "-", "*"}
OneUp(E, F) == {UnaryOp(op, e) : op \in Unary, e \in E} \cup {BinaryOp(op, e, f) : op \in Binary, e \in E, f \in F}
Small == Leaves \cup OneUp(Leaves, Leaves)
Exprs == OneUp(Small, {ColumnRef("b", "a")}) \cup OneUp(Leaves, Small)

Pick(e) == SelectStmt(<<e>>, Table("t", ""), {}, <<>>, <<>>, -1, 0)

On == BinaryOp("=", ColumnRef("t", "a"), ColumnRef("u", "a"))
TwoTables(kind) == Join(Table("t", ""), Table("u", "x"), kind, On, <<>>)
RECURSIVE Chain(_)
Chain(n) == IF n = 0 THEN Table("t", "") ELSE Join(Chain(n - 1), Table("u", ""), "INNER", NoNode, <<"a">>)

Clauses ==
  {SelectStmt(cols, from, where, <<>>, order, n, 0) :
     cols \in {<<Star>>, <<ColumnRef("t", "a"), AggregateCall("COUNT", "*")>>},
     from \in {Table("t", ""), Table("t", "x"), TwoTables("LEFT")},
     where \in {{}, {BinaryOp("<", ColumnRef("x", "a"), Literal(1))}},
     order \in {<<>>, <<OrderBy("a", FALSE), OrderBy("b", TRUE)>>}, n \in {-1, 1}}
  \cup {SelectStmt(<<AggregateCall("SUM", "a")>>, TwoTables("INNER"), {}, <<"a", "b">>, <<>>, 1, 2),
        SelectStmt(<<Star>>, Chain(5), {}, <<>>, <<>>, -1, 0)}

Fields == {Literal(1), Literal(NULL), Literal(text), TypedLiteral("DATE", iso)}
Changes ==
  {InsertStmt("t", cols, rows) : cols \in {<<>>, <<"a", "b">>},
     rows \in {<<<<v, w>>>> : v \in Fields, w \in Fields} \cup {<<<<Literal(1)>>, <<Literal(NULL)>>>>}}
  \cup {UpdateStmt("t", <<Assignment("a", e), Assignment("b", Literal(NULL))>>, {On}) : e \in Small}
  \cup {DeleteStmt("t", w) : w \in {{}, {On}}}

Flags == BOOLEAN \X BOOLEAN \X BOOLEAN
Schemas ==
  {CreateTableStmt("t", <<Column("a", tag, f[1], f[2], f[3]), Column("b", "Text", FALSE, FALSE, TRUE)>>) :
     tag \in {"Int", "Datetime"}, f \in Flags}
  \cup {DropTableStmt("t", b) : b \in BOOLEAN}
  \cup {CreateIndexStmt("x", "t", <<"a">>, b) : b \in BOOLEAN}

MCWritten == {Pick(e) : e \in Exprs} \cup Clauses \cup Changes \cup Schemas
MCSlipTokens ==
  {Ident("t"), Ident("u"), <<"INT_LIT", 1>>, COMMA, DOT, LPAREN, RPAREN, SEMI, Op("*"), Op("="), Op("-")}
  \cup {Kw(w) : w \in {"FROM", "WHERE", "NOT", "AND", "DESC", "AS", "LEFT", "JOIN", "IS"}}
-----------------------------------------------------------------------------
ShortTexts == UNION {[1..n -> {"?", "'", " ", "a"}] : n \in 1..6}
LongTexts ==
  {<<"a", "=", "'", "'", "'", "?", "'", "'", "'", ",", "?">>, <<"'", "a", "'", "'", "?", "'", " ", "?">>,
   <<"a", "<", "=", "?", " ", "-", "-", "'", "\n", "?">>, <<"/", "*", "/", "*", "?", "*", "/", "?">>,
   <<"'", "-", "-", "'", "=", "?">>, <<"1", ".", "5", "-", "?">>, <<"'", "/", "*", "'", " ", "?", " ", "'", "*", "/", "'">>,
   <<"a", "!", "=", "(", "?", ",", "?", ")", ";">>, <<"a", "1", "e", " ", "1", "1", ".", " ", "?">>}
MCTemplates ==
  LongTexts \cup {t \in ShortTexts : Cardinality(Placeholders(t)) <= (IF Len(t) > 4 THEN 1 ELSE 2)}

MCBindable ==
  {None, <<"bool", TRUE>>, <<"bool", FALSE>>}
  \cup {<<"int", n>> : n \in {0, 3, -3, 9, 12, 15, 16, -16, -17}}
  \cup {<<"float", h>> : h \in {0, 3, -3, 6, 14, 24}}
  \cup {<<"str", s>> : s \in {<<>>, <<"'">>, <<"'", "'">>, <<"?">>, <<"a", "'", "?">>, <<"-", "-">>, <<"1">>}}
  \cup {<<"date", <<"1", "-", "1">>>>}
=============================================================================
