----------------------------- MODULE Sentences -----------------------------
(***************************************************************************)
(* SQL as it is written, against tinydb.sql.parser as it reads it.  A      *)
(* statement is written down from its nodes by a table of precedences,     *)
(* with or without the words the grammar does not ask for; then a slip of  *)
(* the pen may change one token.                                           *)
(***************************************************************************)
EXTENDS Parser

CONSTANTS
  Written,      \* the statements written
  SlipTokens    \* what a token may be mistaken for

VARIABLES
  meant,      \* {the statement written}, or {}
  sentence,   \* its tokens
  slipped     \* whether a token was changed since

sentenceVars == <<meant, sentence, slipped>>

Opt(b, toks) == IF b THEN toks ELSE <<>>

RECURSIVE Commas(_)
Commas(parts) ==
  IF Len(parts) <= 1 THEN FlattenSeq(parts) ELSE Head(parts) \o <<COMMA>> \o Commas(Tail(parts))
-----------------------------------------------------------------------------
(* How expressions are written: the looser an operator binds, the smaller    *)
(* its precedence; an operand that binds looser than its place is bracketed  *)
Precedence(e) ==
  IF e.node = "BinaryOp"
    THEN CASE e.op = "OR" -> 1 [] e.op = "AND" -> 2 [] e.op \in {"+", "-"} -> 5
           [] e.op \in {"*", "/"} -> 6 [] OTHER -> 4
    ELSE IF e.node = "UnaryOp"
           THEN CASE e.op = "NOT" -> 3 [] e.op = "-" -> 7 [] OTHER -> 4
           ELSE 8

OpToken(op) == IF op \in {"OR", "AND", "NOT"} THEN Kw(op) ELSE Op(op)
LiteralToken(v) ==
  IF v = NULL THEN <<"NULL_LIT", NULL>> ELSE IF v \in Texts THEN <<"STRING_LIT", v>> ELSE <<"INT_LIT", v>>

RECURSIVE Spelled(_), InPlace(_, _)
InPlace(e, p) == IF Precedence(e) < p THEN <<LPAREN>> \o Spelled(e) \o <<RPAREN>> ELSE Spelled(e)

Spelled(e) ==
  LET p == Precedence(e)
  IN CASE e.node = "Literal" -> <<LiteralToken(e.value)>>
       [] e.node = "TypedLiteral" -> <<Kw(e.tag), <<"STRING_LIT", e.value>>>>
       [] e.node = "ColumnRef" -> Opt(e.table # "", <<Ident(e.table), DOT>>) \o <<Ident(e.name)>>
       [] e.node = "Star" -> <<Op("*")>>
       [] e.node = "Aggregate" ->
            <<Kw(e.func), LPAREN, IF e.column = "*" THEN Op("*") ELSE Ident(e.column), RPAREN>>
       [] e.node = "BinaryOp" ->
            InPlace(e.left, IF p = 4 THEN 5 ELSE p) \o <<OpToken(e.op)>> \o InPlace(e.right, p + 1)
       [] e.node = "UnaryOp" /\ p = 4 ->
            InPlace(e.operand, 5) \o <<Kw("IS")>> \o Opt(e.op = "IS NOT NULL", <<Kw("NOT")>>)
            \o <<LiteralToken(NULL)>>
       [] OTHER -> <<OpToken(e.op)>> \o InPlace(e.operand, p)
-----------------------------------------------------------------------------
(* How statements are written; full writes the optional words too            *)
Listed(cols) == Commas([i \in DOMAIN cols |-> <<Ident(cols[i])>>])
Bracketed(toks) == <<LPAREN>> \o toks \o <<RPAREN>>
WhereWritten(where) ==
  IF where = {} THEN <<>> ELSE <<Kw("WHERE")>> \o Spelled(CHOOSE e \in where : TRUE)

RECURSIVE FromWritten(_, _)
FromWritten(f, full) ==
  IF f.node = "Table"
    THEN <<Ident(f.name)>> \o Opt(full /\ f.alias # "", <<Kw("AS")>>) \o Opt(f.alias # "", <<Ident(f.alias)>>)
    ELSE FromWritten(f.left, full)
         \o (IF f.kind = "LEFT" THEN <<Kw("LEFT")>> \o Opt(full, <<Kw("OUTER")>>) ELSE Opt(full, <<Kw("INNER")>>))
         \o <<Kw("JOIN")>> \o FromWritten(f.right, full)
         \o (IF f.using = <<>> THEN <<Kw("ON")>> \o Spelled(f.on)
             ELSE <<Kw("USING")>> \o Bracketed(Listed(f.using)))

SelectWritten(q, full) ==
  LET orders == [i \in DOMAIN q.orderBy |-> <<Ident(q.orderBy[i].column)>>
                   \o (IF q.orderBy[i].desc THEN <<Kw("DESC")>> ELSE Opt(full, <<Kw("ASC")>>))]
  IN <<Kw("SELECT")>> \o Commas([i \in DOMAIN q.columns |-> Spelled(q.columns[i])])
     \o <<Kw("FROM")>> \o FromWritten(q.from, full) \o WhereWritten(q.where)
     \o Opt(q.groupBy # <<>>, <<Kw("GROUP"), Kw("BY")>> \o Listed(q.groupBy))
     \o Opt(q.orderBy # <<>>, <<Kw("ORDER"), Kw("BY")>> \o Commas(orders))
     \o Opt(q.limit # -1, <<Kw("LIMIT"), <<"INT_LIT", q.limit>>>>)
     \o Opt(q.limit # -1 /\ (full \/ q.offset # 0), <<Kw("OFFSET"), <<"INT_LIT", q.offset>>>>)

\* a type by one of its names; full writes a size after it
ColumnWritten(c, full) ==
  <<Ident(c.name), Kw(CHOOSE w \in DOMAIN TypeNames : TypeNames[w] = c.tag)>>
  \o Opt(full, <<LPAREN, <<"INT_LIT", 9>>, COMMA, <<"INT_LIT", 2>>, RPAREN>>)
  \o Opt(c.primary, <<Kw("PRIMARY"), Kw("KEY")>>) \o Opt(c.unique, <<Kw("UNIQUE")>>)
  \o Opt(c.notNull, <<Kw("NOT"), LiteralToken(NULL)>>)

InsertWritten(x) ==
  LET row(r) == Bracketed(Commas([i \in DOMAIN r |-> Spelled(r[i])]))
  IN <<Kw("INSERT"), Kw("INTO"), Ident(x.table)>> \o Opt(x.columns # <<>>, Bracketed(Listed(x.columns)))
     \o <<Kw("VALUES")>> \o Commas([i \in DOMAIN x.values |-> row(x.values[i])])
UpdateWritten(x) ==
  LET set(a) == <<Ident(a.column), Op("=")>> \o Spelled(a.value)
  IN <<Kw("UPDATE"), Ident(x.table), Kw("SET")>> \o Commas([i \in DOMAIN x.set |-> set(x.set[i])])
     \o WhereWritten(x.where)

Wording(x, full) ==
  CASE x.stmt = "Select" -> SelectWritten(x, full)
    [] x.stmt = "Insert" -> InsertWritten(x)
    [] x.stmt = "Update" -> UpdateWritten(x)
    [] x.stmt = "Delete" -> <<Kw("DELETE"), Kw("FROM"), Ident(x.table)>> \o WhereWritten(x.where)
    [] x.stmt = "CreateTable" ->
         <<Kw("CREATE"), Kw("TABLE"), Ident(x.name)>>
         \o Bracketed(Commas([i \in DOMAIN x.columns |-> ColumnWritten(x.columns[i], full)]))
    [] x.stmt = "DropTable" ->
         <<Kw("DROP"), Kw("TABLE")>> \o Opt(x.ifExists, <<Kw("IF"), Kw("EXISTS")>>) \o <<Ident(x.name)>>
    [] x.stmt = "CreateIndex" ->
         <<Kw("CREATE")>> \o Opt(x.unique, <<Kw("UNIQUE")>>)
         \o <<Kw("INDEX"), Ident(x.name), Kw("ON"), Ident(x.table)>> \o Bracketed(Listed(x.columns))

Sentence(x, full) == Wording(x, full) \o Opt(full, <<SEMI>>) \o <<EOF>>
-----------------------------------------------------------------------------
SentenceInit == meant = {} /\ sentence = <<EOF>> /\ slipped = FALSE

Say ==
  /\ meant = {}
  /\ \E x \in Written, full \in BOOLEAN : meant' = {x} /\ sentence' = Sentence(x, full)
  /\ UNCHANGED slipped

\* a token left out, written twice, or mistaken for another one
Slip ==
  /\ meant # {} /\ ~slipped
  /\ \A x \in meant : sentence = Sentence(x, FALSE)
  /\ \E i \in 1..(Len(sentence) - 1) :
       sentence' \in {RemoveAt(sentence, i), InsertAt(sentence, i, sentence[i])}
                      \cup {[sentence EXCEPT ![i] = t] : t \in SlipTokens \ {sentence[i]}}
  /\ slipped' = TRUE
  /\ UNCHANGED meant

SentenceNext == Say \/ Slip
-----------------------------------------------------------------------------
(* What is written is what is read: with brackets only where the precedence  *)
(* table asks for them, with or without the optional words, _Parser builds   *)
(* the very statement the sentence was written from.                         *)
ParsesWhatIsWritten ==
  \A x \in meant : ~slipped => Parse(sentence) = Returns(x, Len(sentence))

\* the words that carry no meaning of their own
Noise == {LPAREN, RPAREN, SEMI, Kw("AS"), Kw("INNER"), Kw("OUTER"), Kw("ASC")}
Content(s) == SelectSeq(s, LAMBDA t : t \notin Noise)

\* what parse lets pass: any operator for the = of an assignment, the same
\* constraint twice, and the table of an ORDER BY column
Lenient(s) ==
  \/ \E i \in 1..(Len(s) - 2) :
       /\ s[1] = Kw("UPDATE") /\ s[i] \in {Kw("SET"), COMMA}
       /\ s[i + 2][1] = "OP" /\ s[i + 2] # Op("=")
  \/ \E i \in 1..(Len(s) - 1) : s[i] = Kw("UNIQUE") /\ s[i + 1] = s[i]
  \/ \E i, j \in DOMAIN s : i < j /\ s[i] = Kw("ORDER") /\ s[j] = DOT

(* Nothing is silently passed over (the reason parse refuses trailing        *)
(* tokens): a sentence with a slip that is still accepted means what it now  *)
(* says, word for word: written down again it has the same words in the same *)
(* order.                                                                    *)
NothingSwallowed ==
  slipped /\ ~Lenient(sentence) =>
    \A r \in {Parse(sentence)} : r.at # 0 => Content(Sentence(r.val, FALSE)) = Content(sentence)
=============================================================================
