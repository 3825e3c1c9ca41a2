------------------------------- MODULE Parser -------------------------------
(***************************************************************************)
(* tinydb.sql.parser: the recursive descent from a token list to a         *)
(* statement.  A token is <<kind, value>>; a list ends with EOF.  A method *)
(* of _Parser is an operator of the list and the cursor that gives what it *)
(* returns and the cursor after it; cursor 0 is an exception, from which   *)
(* no method recovers: ParseError, except where another one is named.      *)
(***************************************************************************)
EXTENDS Syntax

CONSTANTS
  Texts,       \* string contents
  Readable     \* typed-literal keyword -> the contents its reader accepts

Kw(w) == <<"KEYWORD", w>>
Ident(x) == <<"IDENT", x>>
Op(o) == <<"OP", o>>
LPAREN == <<"LPAREN", "(">>
RPAREN == <<"RPAREN", ")">>
COMMA == <<"COMMA", ",">>
DOT == <<"DOT", ".">>
SEMI == <<"SEMI", ";">>
EOF == <<"EOF", "">>
LiteralKinds == {"INT_LIT", "STRING_LIT", "FLOAT_LIT", "BOOL_LIT", "NULL_LIT"}
-----------------------------------------------------------------------------
(* The cursor                                                                *)
Peek(s, i) == IF i = 0 THEN <<"", "">> ELSE s[i]
Returns(v, i) == [val |-> v, at |-> i]
ParseError == Returns(NULL, 0)

\* _expect_kind and _expect_keyword, for one token after another
RECURSIVE Expect(_, _, _)
Expect(s, i, toks) ==
  IF toks = <<>> \/ i = 0 THEN i
  ELSE IF Peek(s, i) = Head(toks) THEN Expect(s, i + 1, Tail(toks)) ELSE 0

\* _match_kind, _match_keyword and _match_op_in: past one of the tokens, if it is next
Match(s, i, toks) == IF Peek(s, i) \in toks THEN i + 1 ELSE i
Matches(s, i, tok) == Peek(s, i) = tok
MatchNull(s, i) == Match(s, i, {<<"NULL_LIT", NULL>>})
ExpectNull(s, i) == IF MatchNull(s, i) = i THEN 0 ELSE i + 1

ExpectKind(s, i, kinds) ==
  IF Peek(s, i)[1] \in kinds THEN Returns(s[i][2], i + 1) ELSE ParseError
ExpectIdent(s, i) == ExpectKind(s, i, {"IDENT"})

\* What a method makes of what another one, e, has returned
Closed(s, e) == Returns(e.val, Expect(s, e.at, <<RPAREN>>))
UnaryOf(op, e) == Returns(UnaryOp(op, e.val), e.at)
BinaryOf(op, left, e) == Returns(BinaryOp(op, left.val, e.val), e.at)
AppendTo(items, e) == Returns(Append(items, e.val), e.at)
-----------------------------------------------------------------------------
(* Expressions: one operator per level of the precedence ladder              *)
ComparisonOps == {Op(o) : o \in {"=", "!=", "<", "<=", ">", ">="}}
AdditiveOps == {Op("+"), Op("-")}
MultiplicativeOps == {Op("*"), Op("/")}

RECURSIVE ParseOr(_, _), ParseAnd(_, _), ParseNot(_, _), ParseAdditive(_, _),
          ParseMultiplicative(_, _), ParseUnary(_, _), LeftFold(_, _, _)

\* the while loop of a level: its operators, folded to the left
Operand(s, op, i) ==
  CASE op = Kw("OR") -> ParseAnd(s, i)
    [] op = Kw("AND") -> ParseNot(s, i)
    [] op \in AdditiveOps -> ParseMultiplicative(s, i)
    [] OTHER -> ParseUnary(s, i)
LeftFold(s, ops, left) ==
  IF Peek(s, left.at) \notin ops THEN left
  ELSE LeftFold(s, ops, BinaryOf(s[left.at][2], left, Operand(s, s[left.at], left.at + 1)))

ParseExpr(s, i) == ParseOr(s, i)
ParseOr(s, i) == LeftFold(s, {Kw("OR")}, ParseAnd(s, i))
ParseAnd(s, i) == LeftFold(s, {Kw("AND")}, ParseNot(s, i))
ParseAdditive(s, i) == LeftFold(s, AdditiveOps, ParseMultiplicative(s, i))
ParseMultiplicative(s, i) == LeftFold(s, MultiplicativeOps, ParseUnary(s, i))

Compared(s, left) ==
  LET next == Peek(s, left.at)
      not == Matches(s, left.at + 1, Kw("NOT"))
  IN CASE next = Kw("IS") ->
            Returns(UnaryOp(IF not THEN "IS NOT NULL" ELSE "IS NULL", left.val),
                    ExpectNull(s, left.at + (IF not THEN 2 ELSE 1)))
       [] next \in ComparisonOps -> BinaryOf(next[2], left, ParseAdditive(s, left.at + 1))
       [] OTHER -> left
ParseComparison(s, i) == Compared(s, ParseAdditive(s, i))

ParseNot_WholeExpr(s, i) ==
  IF Matches(s, i, Kw("NOT")) THEN UnaryOf("NOT", ParseExpr(s, i + 1)) ELSE ParseComparison(s, i)
ParseNot(s, i) ==
  IF Matches(s, i, Kw("NOT")) THEN UnaryOf("NOT", ParseNot(s, i + 1)) ELSE ParseComparison(s, i)

\* Contents that the keyword's reader refuses: ParseError, but for a DECIMAL
\* decimal.InvalidOperation, which is no ValueError and is not caught
Unreadable(tag) == [ParseError EXCEPT !.val = IF tag = "DECIMAL" THEN "InvalidOperation" ELSE @]
TypedLiteralOf(tag, e) ==
  CASE e.at = 0 -> ParseError
    [] e.val \in Readable[tag] -> Returns(TypedLiteral(tag, e.val), e.at)
    [] OTHER -> Unreadable(tag)
ParseTypedLiteral(s, i) == TypedLiteralOf(s[i][2], ExpectKind(s, i + 1, {"STRING_LIT"}))

\* _parse_primary and _parse_literal
ParsePrimary(s, i) ==
  LET next == Peek(s, i)
      column == ExpectIdent(s, i + 2)
  IN CASE next \in {Kw(w) : w \in DOMAIN Readable} -> ParseTypedLiteral(s, i)
       [] next[1] \in LiteralKinds -> Returns(Literal(next[2]), i + 1)
       [] next = LPAREN -> Closed(s, ParseExpr(s, i + 1))
       [] next[1] = "IDENT" /\ Matches(s, i + 1, DOT) ->
            Returns(ColumnRef(next[2], column.val), column.at)
       [] next[1] = "IDENT" -> Returns(ColumnRef("", next[2]), i + 1)
       [] OTHER -> ParseError

ParseUnary(s, i) ==
  IF Matches(s, i, Op("-")) THEN UnaryOf("-", ParseUnary(s, i + 1)) ELSE ParsePrimary(s, i)
-----------------------------------------------------------------------------
(* Items of lists and clauses                                                *)
Unqualified(s, e) == IF Matches(s, e.at, DOT) THEN ExpectIdent(s, e.at + 1) ELSE e
OrderByOf(s, e) ==
  Returns(OrderBy(e.val, Matches(s, e.at, Kw("DESC"))), Match(s, e.at, {Kw("DESC"), Kw("ASC")}))
ParseOrderByItem(s, i) == OrderByOf(s, Unqualified(s, ExpectIdent(s, i)))

\* any operator passes for the "=" of an assignment
AssignmentOf(name, e) == Returns(Assignment(name, e.val), e.at)
ParseAssignment(s, i) ==
  LET name == ExpectIdent(s, i)
  IN AssignmentOf(name.val, ParseExpr(s, ExpectKind(s, name.at, {"OP"}).at))

\* _parse_value: a parenthesised literal is one too
LiteralOnly(e) == IF e.at # 0 /\ e.val.node \in {"Literal", "TypedLiteral"} THEN e ELSE ParseError
ParseValue(s, i) == LiteralOnly(ParsePrimary(s, i))

AggregateFuncs == {"COUNT", "SUM", "AVG", "MIN", "MAX"}
ParseSelectItem(s, i) ==
  LET next == Peek(s, i)
      open == Expect(s, i + 1, <<LPAREN>>)
      arg == IF Matches(s, open, Op("*")) THEN Returns("*", open + 1) ELSE ExpectIdent(s, open)
  IN IF next \in {Kw(f) : f \in AggregateFuncs}
       THEN Returns(AggregateCall(next[2], arg.val), Expect(s, arg.at, <<RPAREN>>))
       ELSE ParseExpr(s, i)

TypeNames ==
  [INT |-> "Int", INTEGER |-> "Int", FLOAT |-> "Float", DOUBLE |-> "Float", REAL |-> "Float",
   TEXT |-> "Text", VARCHAR |-> "Text", BOOL |-> "Bool", BOOLEAN |-> "Bool", DATE |-> "Date",
   TIME |-> "Time", DATETIME |-> "Datetime", TIMESTAMP |-> "Datetime", DECIMAL |-> "Decimal",
   NUMERIC |-> "Decimal", BLOB |-> "Blob", BYTEA |-> "Blob", JSON |-> "Json"]

\* the rest of a size suffix: up to the parenthesis that closes it, or to the end
RECURSIVE SkipSize(_, _, _), ParseConstraints(_, _, _)
SkipSize(s, i, depth) ==
  IF depth = 0 \/ s[i] = EOF THEN i
  ELSE SkipSize(s, i + 1, depth + CASE s[i] = LPAREN -> 1 [] s[i] = RPAREN -> -1 [] OTHER -> 0)

ParseConstraints(s, i, col) ==
  CASE Matches(s, i, Kw("NOT")) ->
         ParseConstraints(s, ExpectNull(s, i + 1), [col EXCEPT !.notNull = TRUE])
    [] Matches(s, i, Kw("PRIMARY")) ->
         ParseConstraints(s, Expect(s, i + 1, <<Kw("KEY")>>), [col EXCEPT !.primary = TRUE])
    [] Matches(s, i, Kw("UNIQUE")) -> ParseConstraints(s, i + 1, [col EXCEPT !.unique = TRUE])
    [] OTHER -> Returns(col, i)

ParseColumnDef(s, i) ==
  LET name == ExpectIdent(s, i)
      type == Peek(s, name.at)
      known == type \in {Kw(w) : w \in DOMAIN TypeNames}
      sized == IF Matches(s, name.at + 1, LPAREN) THEN SkipSize(s, name.at + 2, 1) ELSE name.at + 1
  IN IF ~known THEN ParseError
     ELSE ParseConstraints(s, sized, Column(name.val, TypeNames[type[2]], FALSE, FALSE, FALSE))

-----------------------------------------------------------------------------
(* FROM                                                                      *)
JoinMaxDepth == 5

\* _parse_table_ref, _is_alias_position: an identifier is an alias when the
\* FROM clause could end after it
ParseTableRef(s, i) ==
  LET name == ExpectIdent(s, i)
      next == Match(s, name.at, {Kw("AS")})
      aliased == /\ Peek(s, next)[1] = "IDENT"
                 /\ s[next + 1] \in {Kw(w) : w \in {"AS", "ON", "USING", "WHERE", "GROUP", "ORDER", "LIMIT",
                      "LEFT", "INNER", "JOIN", "RIGHT", "FULL", "CROSS", "OUTER"}} \cup {SEMI, EOF}
  IN IF aliased THEN Returns(Table(name.val, s[next][2]), next + 1)
     ELSE Returns(Table(name.val, ""), next)

\* the condition as <<on, using>>
OnOf(e) == Returns(<<e.val, <<>>>>, e.at)
UsingOf(e) == Returns(<<NoNode, e.val>>, e.at)
JoinOf(left, right, type, cond) ==
  IF cond.at = 0 THEN ParseError
  ELSE Returns(Join(left, right, type, cond.val[1], cond.val[2]), cond.at)

\* LIMIT in _parse_select, and OFFSET only after it
ParseCount(s, i, word, without) ==
  IF Matches(s, i, Kw(word)) THEN ExpectKind(s, i + 1, {"INT_LIT"}) ELSE Returns(without, i)
LimitOf(s, limit) == LET offset == ParseCount(s, limit.at, "OFFSET", 0) IN Returns(<<limit.val, offset.val>>, offset.at)

WhereOf(e) == Returns({e.val}, e.at)
StarOf(s, i) == Returns(<<Star>>, i + 1)
-----------------------------------------------------------------------------
(* What can stand in a statement, by name; a list is an item and one more    *)
(* after every comma                                                         *)
RECURSIVE ParseItem(_, _, _), MoreItems(_, _, _), ParseJoins(_, _, _)
MoreItems(item, s, got) ==
  IF ~Matches(s, got.at, COMMA) THEN got
  ELSE MoreItems(item, s, AppendTo(got.val, ParseItem(item, s, got.at + 1)))
ParseList(item, s, i) == MoreItems(item, s, AppendTo(<<>>, ParseItem(item, s, i)))
ParseListIn(item, s, i) == Closed(s, ParseList(item, s, Expect(s, i, <<LPAREN>>)))

\* _parse_one_join; RIGHT, FULL and CROSS are refused: JOIN does not come next
ParseJoinTo(s, left, type, right) == JoinOf(left, right.val, type, ParseItem("condition", s, right.at))
ParseOneJoin(s, i, left) ==
  LET outer == Matches(s, i, Kw("LEFT"))
      modified == IF outer THEN Match(s, i + 1, {Kw("OUTER")}) ELSE Match(s, i, {Kw("INNER")})
  IN ParseJoinTo(s, left, IF outer THEN "LEFT" ELSE "INNER", ParseTableRef(s, Expect(s, modified, <<Kw("JOIN")>>)))
ParseJoins(s, left, depth) ==
  IF Peek(s, left.at) \notin {Kw(w) : w \in {"INNER", "JOIN", "LEFT", "CROSS"}} THEN left
  ELSE IF depth + 1 > JoinMaxDepth THEN ParseError
  ELSE ParseJoins(s, ParseOneJoin(s, left.at, left.val), depth + 1)

ParseItem(item, s, i) ==
  LET Starts(w) == Matches(s, i, Kw(w))
  IN CASE item = "identifier" -> ExpectIdent(s, i)
       [] item = "column" -> ParseColumnDef(s, i)
       [] item = "value" -> ParseValue(s, i)
       [] item = "row" -> ParseListIn("value", s, i)
       [] item = "rows" -> ParseList("row", s, i)
       [] item = "select item" -> ParseSelectItem(s, i)
       [] item = "order" -> ParseOrderByItem(s, i)
       [] item = "assignment" -> ParseAssignment(s, i)
       [] item = "assignments" -> ParseList("assignment", s, i)
       [] item = "condition" /\ Starts("ON") -> OnOf(ParseExpr(s, i + 1))
       [] item = "condition" /\ Starts("USING") -> UsingOf(ParseListIn("identifier", s, i + 1))
       [] item = "condition" -> ParseError
       [] item = "select list" -> IF Matches(s, i, Op("*")) THEN StarOf(s, i) ELSE ParseList("select item", s, i)
       [] item = "from" -> ParseJoins(s, ParseTableRef(s, i), 0)
       [] item = "where" /\ Starts("WHERE") -> WhereOf(ParseExpr(s, i + 1))
       [] item = "where" -> Returns({}, i)
       [] item = "group by" /\ Starts("GROUP") -> ParseList("identifier", s, Expect(s, i + 1, <<Kw("BY")>>))
       [] item = "order by" /\ Starts("ORDER") -> ParseList("order", s, Expect(s, i + 1, <<Kw("BY")>>))
       [] item \in {"group by", "order by"} -> Returns(<<>>, i)
       [] item = "limit" /\ Starts("LIMIT") -> LimitOf(s, ParseCount(s, i, "LIMIT", -1))
       [] item = "limit" -> Returns(<<-1, 0>>, i)
       [] item = "column list" -> IF Matches(s, i, LPAREN) THEN ParseListIn("identifier", s, i) ELSE Returns(<<>>, i)
       [] item = "column defs" -> ParseListIn("column", s, i)
       [] item = "index column" -> Closed(s, AppendTo(<<>>, ExpectIdent(s, Expect(s, i, <<LPAREN>>))))
-----------------------------------------------------------------------------
(* Statements: a sequence of clauses <<tokens before it, what it is>>        *)
RECURSIVE ParseAll(_, _, _)
ParseAll(s, clauses, got) ==
  IF clauses = <<>> THEN Returns(got.val, Match(s, got.at, {SEMI}))
  ELSE ParseAll(s, Tail(clauses), AppendTo(got.val, ParseItem(Head(clauses)[2], s, Expect(s, got.at, Head(clauses)[1]))))
ParseClauses(s, i, clauses) == ParseAll(s, clauses, Returns(<<>>, i))

SelectOf(r) == Returns(SelectStmt(r.val[1], r.val[2], r.val[3], r.val[4], r.val[5], r.val[6][1], r.val[6][2]), r.at)
ParseSelect(s, i) ==
  SelectOf(ParseClauses(s, i,
    <<<<<<Kw("SELECT")>>, "select list">>, <<<<Kw("FROM")>>, "from">>, <<<<>>, "where">>,
      <<<<>>, "group by">>, <<<<>>, "order by">>, <<<<>>, "limit">>>>))

InsertOf(r) == Returns(InsertStmt(r.val[1], r.val[2], r.val[3]), r.at)
ParseInsert(s, i) ==
  InsertOf(ParseClauses(s, i,
    <<<<<<Kw("INSERT"), Kw("INTO")>>, "identifier">>, <<<<>>, "column list">>, <<<<Kw("VALUES")>>, "rows">>>>))

UpdateOf(r) == Returns(UpdateStmt(r.val[1], r.val[2], r.val[3]), r.at)
ParseUpdate(s, i) ==
  UpdateOf(ParseClauses(s, i,
    <<<<<<Kw("UPDATE")>>, "identifier">>, <<<<Kw("SET")>>, "assignments">>, <<<<>>, "where">>>>))

DeleteOf(r) == Returns(DeleteStmt(r.val[1], r.val[2]), r.at)
ParseDelete(s, i) ==
  DeleteOf(ParseClauses(s, i, <<<<<<Kw("DELETE"), Kw("FROM")>>, "identifier">>, <<<<>>, "where">>>>))

CreateTableOf(r) == Returns(CreateTableStmt(r.val[1], r.val[2]), r.at)
ParseCreateTable(s, i) ==
  CreateTableOf(ParseClauses(s, i, <<<<<<Kw("CREATE"), Kw("TABLE")>>, "identifier">>, <<<<>>, "column defs">>>>))

CreateIndexOf(r, unique) == Returns(CreateIndexStmt(r.val[1], r.val[2], r.val[3], unique), r.at)
ParseCreateIndex(s, i) ==
  LET unique == Matches(s, i + 1, Kw("UNIQUE"))
      create == IF unique THEN <<Kw("CREATE"), Kw("UNIQUE"), Kw("INDEX")>> ELSE <<Kw("CREATE"), Kw("INDEX")>>
  IN CreateIndexOf(ParseClauses(s, i,
       <<<<create, "identifier">>, <<<<Kw("ON")>>, "identifier">>, <<<<>>, "index column">>>>), unique)

DropTableOf(r, ifExists) == Returns(DropTableStmt(r.val[1], ifExists), r.at)
ParseDropTable(s, i) ==
  LET start == Expect(s, i, <<Kw("DROP"), Kw("TABLE")>>)
      ifExists == Matches(s, start, Kw("IF"))
  IN DropTableOf(ParseClauses(s, start,
       <<<<IF ifExists THEN <<Kw("IF"), Kw("EXISTS")>> ELSE <<>>, "identifier">>>>), ifExists)

\* parse_ddl and parse_dml: the leading keyword chooses
ParseStatement(s) ==
  CASE s[1] = Kw("CREATE") /\ s[2] = Kw("TABLE") -> ParseCreateTable(s, 1)
    [] s[1] = Kw("CREATE") -> ParseCreateIndex(s, 1)
    [] s[1] = Kw("DROP") -> ParseDropTable(s, 1)
    [] s[1] = Kw("INSERT") -> ParseInsert(s, 1)
    [] s[1] = Kw("SELECT") -> ParseSelect(s, 1)
    [] s[1] = Kw("UPDATE") -> ParseUpdate(s, 1)
    [] s[1] = Kw("DELETE") -> ParseDelete(s, 1)
    [] OTHER -> ParseError

\* parse: tokens left over after the statement are an error
Whole(s, r) == IF r.at # 0 /\ r.at < Len(s) THEN ParseError ELSE r
Parse_Leftovers(s) == ParseStatement(s)
Parse(s) == Whole(s, ParseStatement(s))
=============================================================================
