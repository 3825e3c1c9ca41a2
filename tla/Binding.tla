------------------------------ MODULE Binding ------------------------------
(***************************************************************************)
(* What becomes of a parameter: the client sends it in an EXEC frame, the  *)
(* server writes it into the SQL text (server.handler), tokenize and parse *)
(* read it again, coerce_value and the codec put it in a cell, and a row   *)
(* of a SELECT brings it back.                                             *)
(*                                                                         *)
(* A text is a sequence of characters; a keyword is one character of it,   *)
(* which is a word only where no letter or digit touches it.  A Python     *)
(* value is <<type, value>>; a float stands for its value in halves.       *)
(***************************************************************************)
EXTENDS Parser

CONSTANTS
  Templates,   \* SQL texts with placeholders
  Bindable,    \* values that clients bind
  IntBits,     \* the width of INT and of the wire's INT64
  Mantissa,    \* the bits of a float's mantissa
  ExpFrom      \* the float, in halves, from which str() writes an exponent

VARIABLES
  template,    \* the SQL text of the call
  column,      \* the type of the column it fills
  bound,       \* the values bound to it
  sql,         \* the text the server makes of them
  cell,        \* what is stored: <<tag, payload>>, Refused, or Nothing
  got          \* the value a SELECT brings back, or Nothing

bindVars == <<template, column, bound, sql, cell, got>>

None == <<"None", 0>>
Refused == <<"refused">>
Nothing == <<>>
Abs(n) == IF n < 0 THEN -n ELSE n
-----------------------------------------------------------------------------
(* Characters                                                                *)
Digits == <<"0", "1", "2", "3", "4", "5", "6", "7", "8", "9">>
IsDigit(c) == c \in ToSet(Digits)
Words == {"INSERT", "INTO", "VALUES", "TRUE", "FALSE", "NULL"}
IsAlpha(c) == c \in Words \cup {"a", "e", "t"}
Separators == {<<"(", LPAREN>>, <<")", RPAREN>>, <<",", COMMA>>, <<";", SEMI>>, <<".", DOT>>}

RECURSIVE IntText(_)
IntText(n) ==
  IF n < 0 THEN <<"-">> \o IntText(-n)
  ELSE (IF n < 10 THEN <<>> ELSE IntText(n \div 10)) \o <<Digits[(n % 10) + 1]>>

IntOf(text) == FoldLeft(LAMBDA n, c : 10 * n + (CHOOSE k \in 1..10 : Digits[k] = c) - 1, 0, text)

\* str() of a float
FloatText(h) ==
  IF Abs(h) >= ExpFrom
    THEN (IF h < 0 THEN <<"-">> ELSE <<>>) \o <<"1", "e", "+", "1", "6">>
    ELSE (IF h < 0 THEN <<"-">> ELSE <<>>) \o IntText(Abs(h) \div 2) \o <<".", IF h % 2 = 0 THEN "0" ELSE "5">>
-----------------------------------------------------------------------------
(* tokenize: the tokens from character i on, or <<Refused>> at their end for *)
(* a ParseError                                                              *)
CharAt(text, i) == IF i \in DOMAIN text THEN text[i] ELSE ""
EndOf(text, i, In(_)) == Min({j \in i..(Len(text) + 1) : j > Len(text) \/ ~In(text[j])})

\* past the end of a block comment that character i is in; 0 without one
RECURSIVE CommentEnd(_, _), StringEnd(_, _, _)
CommentEnd(text, i) ==
  CASE i > Len(text) -> 0
    [] text[i] = "*" /\ CharAt(text, i + 1) = "/" -> i + 2
    [] text[i] = "/" /\ CharAt(text, i + 1) = "*" -> CommentEnd(text, i + 2)
    [] OTHER -> CommentEnd(text, i + 1)

\* the content of a string literal that goes on at i
StringEnd(text, i, buf) ==
  CASE i > Len(text) -> ParseError
    [] text[i] = "'" /\ CharAt(text, i + 1) = "'" -> StringEnd(text, i + 2, Append(buf, "'"))
    [] text[i] = "'" -> Returns(buf, i + 1)
    [] OTHER -> StringEnd(text, i + 1, Append(buf, text[i]))

WordToken(word) ==
  CASE word = <<"NULL">> -> <<"NULL_LIT", NULL>>
    [] word = <<"TRUE">> -> <<"BOOL_LIT", <<"bool", TRUE>>>>
    [] word = <<"FALSE">> -> <<"BOOL_LIT", <<"bool", FALSE>>>>
    [] Len(word) = 1 /\ word[1] \in Words -> Kw(word[1])
    [] OTHER -> Ident(word)

\* a digit, digits, and at most one point among them: the token, and its end
NumberToken(text, i) ==
  LET point == EndOf(text, i, IsDigit)
      end == EndOf(text, point + 1, IsDigit)
      whole == IntOf(SubSeq(text, i, point - 1))
  IN IF CharAt(text, point) # "." THEN Returns(<<"INT_LIT", <<"int", whole>>>>, point)
     ELSE Returns(<<"FLOAT_LIT", <<"float", 2 * whole + (IF CharAt(text, point + 1) = "5" THEN 1 ELSE 0)>>>>, end)

\* the longest operator at i and its length, or 0
OperatorAt(text, i) ==
  LET wide == [c \in {">", "<", "!"} |-> CASE c = ">" -> ">=" [] c = "<" -> "<=" [] c = "!" -> "!="]
  IN CASE text[i] \in DOMAIN wide /\ CharAt(text, i + 1) = "=" -> <<wide[text[i]], 2>>
       [] text[i] \in {"+", "-", "*", "/", "<", ">", "="} -> <<text[i], 1>>
       [] OTHER -> <<"", 0>>

RECURSIVE Tokenize(_, _)
Tokenize(text, i) ==
  LET ch == CharAt(text, i)
      next == CharAt(text, i + 1)
      string == StringEnd(text, i + 1, <<>>)
      number == NumberToken(text, i)
      word == EndOf(text, i, LAMBDA c : IsAlpha(c) \/ IsDigit(c))
      op == OperatorAt(text, i)
  IN CASE i = 0 -> <<Refused>>
       [] i > Len(text) -> <<EOF>>
       [] ch \in {" ", "\n"} -> Tokenize(text, i + 1)
       [] ch = "-" /\ next = "-" -> Tokenize(text, EndOf(text, i, LAMBDA c : c # "\n"))
       [] ch = "/" /\ next = "*" -> Tokenize(text, CommentEnd(text, i + 2))
       [] ch = "'" -> IF string.at = 0 THEN <<Refused>>
                      ELSE <<<<"STRING_LIT", <<"str", string.val>>>>>> \o Tokenize(text, string.at)
       [] IsAlpha(ch) -> <<WordToken(SubSeq(text, i, word - 1))>> \o Tokenize(text, word)
       [] IsDigit(ch) -> <<number.val>> \o Tokenize(text, number.at)
       [] op[2] > 0 -> <<Op(op[1])>> \o Tokenize(text, i + op[2])
       [] ch \in {s[1] : s \in Separators} ->
            <<(CHOOSE s \in Separators : s[1] = ch)[2]>> \o Tokenize(text, i + 1)
       [] OTHER -> <<Refused>>

Lexed(text) == Tokenize(text, 1)
Lexes(toks) == Last(toks) # Refused
-----------------------------------------------------------------------------
(* server.handler                                                            *)
\* _format_value; a value that is neither number nor text is already text here
Doubled(text) == FlattenSeq([i \in DOMAIN text |-> IF text[i] = "'" THEN <<"'", "'">> ELSE <<text[i]>>])

FormatValue(v) ==
  CASE v = None -> <<"NULL">>
    [] v[1] = "bool" -> <<IF v[2] THEN "TRUE" ELSE "FALSE">>
    [] v[1] = "int" -> IntText(v[2])
    [] v[1] = "float" -> FloatText(v[2])
    [] OTHER -> <<"'">> \o Doubled(v[2]) \o <<"'">>

\* _substitute_params from character i on
RECURSIVE Substituted(_, _, _, _)
Substituted_QuoteFlips(text, i, inString, params) ==
  IF i > Len(text) THEN <<>>
  ELSE IF text[i] = "?" /\ ~inString /\ params # <<>>
    THEN FormatValue(Head(params)) \o Substituted(text, i + 1, FALSE, Tail(params))
  ELSE <<text[i]>> \o Substituted(text, i + 1, inString \/ text[i] = "'", params)
Substituted(text, i, inString, params) ==
  LET quote == CharAt(text, i) = "'"
  IN CASE i > Len(text) -> <<>>
       [] inString /\ quote /\ CharAt(text, i + 1) = "'" ->
            <<"'", "'">> \o Substituted(text, i + 2, TRUE, params)
       [] quote -> <<"'">> \o Substituted(text, i + 1, ~inString, params)
       [] text[i] = "?" /\ ~inString /\ params # <<>> ->
            FormatValue(Head(params)) \o Substituted(text, i + 1, FALSE, Tail(params))
       [] OTHER -> <<text[i]>> \o Substituted(text, i + 1, inString, params)
-----------------------------------------------------------------------------
(* The wire: what EXEC and RESULT_ROW frames carry, <<type, payload>>        *)
InIntRange(n) == n \in (-(2^(IntBits - 1)))..(2^(IntBits - 1) - 1)
Signed(n) == IF n >= 2^(IntBits - 1) THEN n - 2^IntBits ELSE n

\* _to_param and Exec.to_frame; ResultRow.to_frame sends the same for a value
ToFrame(v) ==
  CASE v = None -> <<"NULL">>
    [] v[1] = "bool" -> <<"BOOL", IF v[2] THEN 1 ELSE 0>>
    [] v[1] = "int" -> IF InIntRange(v[2]) THEN <<"INT64", v[2] % 2^IntBits>> ELSE Refused
    [] v[1] = "float" -> <<"FLOAT64", v[2]>>
    [] OTHER -> <<"STRING", v[2]>>

\* Exec.from_frame and _to_param_list; ResultRow.from_frame
FromFrame(p) ==
  CASE p[1] = "NULL" -> None
    [] p[1] = "BOOL" -> <<"bool", p[2] # 0>>
    [] p[1] = "INT64" -> <<"int", Signed(p[2])>>
    [] p[1] = "FLOAT64" -> <<"float", p[2]>>
    [] p[1] = "STRING" -> <<"str", p[2]>>
-----------------------------------------------------------------------------
(* coerce_value and the codec                                                *)
\* float(): to the nearest number with a mantissa of that many bits, ties to even
Rounded(h) ==
  LET k == Min({j \in 0..IntBits + 1 : Abs(h) < 2^(Mantissa + j)})
      q == Abs(h) \div 2^k
      r == 2 * (Abs(h) % 2^k)
      up == r > 2^k \/ (r = 2^k /\ q % 2 = 1)
  IN (IF h < 0 THEN -1 ELSE 1) * (q + (IF up THEN 1 ELSE 0)) * 2^k

CoerceValue_Truncates(v, tag) ==
  CASE tag = "Int" /\ v[1] = "int" -> v
    [] tag = "Int" /\ v[1] = "float" -> <<"int", v[2] \div 2>>
    [] tag = "Float" /\ v[1] = "int" -> <<"float", Rounded(2 * v[2])>>
    [] tag = "Float" /\ v[1] = "float" -> v
    [] tag = "Text" /\ v[1] = "str" -> v
    [] tag = "Bool" /\ v[1] = "bool" -> v
    [] tag = "Decimal" /\ v[1] = "int" -> <<"Decimal", IntText(v[2])>>
    [] tag = "Json" -> v
    [] OTHER -> Refused
CoerceValue(v, tag) ==
  CASE tag = "Int" /\ v[1] = "int" -> v
    [] tag = "Int" /\ v[1] = "float" -> IF v[2] % 2 = 0 THEN <<"int", v[2] \div 2>> ELSE Refused
    [] tag = "Float" /\ v[1] = "int" -> <<"float", Rounded(2 * v[2])>>
    [] tag = "Float" /\ v[1] = "float" -> v
    [] tag = "Text" /\ v[1] = "str" -> v
    [] tag = "Bool" /\ v[1] = "bool" -> v
    [] tag = "Decimal" /\ v[1] = "int" -> <<"Decimal", IntText(v[2])>>
    [] tag = "Json" -> v
    [] OTHER -> Refused

\* value_size and encode_value: a cell is <<tag, payload>>
EncodeValue(v, tag) ==
  CASE tag = "Int" -> IF InIntRange(v[2]) THEN <<tag, v[2] % 2^IntBits>> ELSE Refused
    [] tag = "Bool" -> <<tag, IF v[2] THEN 1 ELSE 0>>
    [] tag = "Json" -> <<tag, v>>   \* json.dumps
    [] OTHER -> <<tag, v[2]>>

DecodeValue(c) ==
  CASE c[1] = "Null" -> None
    [] c[1] = "Int" -> <<"int", Signed(c[2])>>
    [] c[1] = "Float" -> <<"float", c[2]>>
    [] c[1] = "Bool" -> <<"bool", c[2] # 0>>
    [] c[1] = "Text" -> <<"str", c[2]>>
    [] c[1] = "Decimal" -> <<"Decimal", c[2]>>
    [] c[1] = "Json" -> c[2]

\* encode_row_coerced, for one value
EncodeCoerced(v, tag) ==
  LET fit == CoerceValue(v, tag)
  IN IF v = None THEN <<"Null">> ELSE IF fit = Refused THEN Refused ELSE EncodeValue(fit, tag)
-----------------------------------------------------------------------------
InsertOne == <<"INSERT", " ", "INTO", " ", "t", " ", "VALUES", " ", "(", "?", ")">>
Tags == {"Int", "Float", "Text", "Bool", "Decimal", "Json", "Date"}

\* The placeholders: the question marks that tokenize reads as no part of a
\* string or of a comment
CommaCount(text) ==
  LET toks == Lexed([i \in DOMAIN text |-> IF text[i] = "?" THEN "," ELSE text[i]])
  IN IF Lexes(toks) THEN Len(SelectSeq(toks, LAMBDA t : t = COMMA)) ELSE 0
Placeholders(text) ==
  {i \in DOMAIN text : /\ text[i] = "?"
                        /\ CommaCount(SubSeq(text, 1, i)) > CommaCount(SubSeq(text, 1, i - 1))}

BindInit ==
  /\ \/ template \in Templates /\ column = "Int"
     \/ template = InsertOne /\ column \in Tags
  /\ bound = <<>> /\ sql = Nothing /\ cell = Nothing /\ got = Nothing

\* Client.execute sends EXEC, dispatch_exec substitutes.
SendExec ==
  /\ sql = Nothing
  /\ \E params \in [1..Cardinality(Placeholders(template)) -> Bindable] :
       LET frame == [i \in DOMAIN params |-> ToFrame(params[i])]
           read == [i \in DOMAIN params |-> FromFrame(frame[i])]
       IN /\ bound' = params
          /\ sql' = IF Refused \in Range(frame) THEN Refused ELSE Substituted(template, 1, FALSE, read)
  /\ UNCHANGED <<template, column, cell, got>>

\* Database.execute of an INSERT of one value
CellOf(toks, read) ==
  LET value == read.val.values[1][1].value
  IN IF ~Lexes(toks) \/ read.at = 0 THEN Refused
     ELSE EncodeCoerced(IF value = NULL THEN None ELSE value, column)
RunInsert ==
  /\ template = InsertOne /\ sql \notin {Nothing, Refused} /\ cell = Nothing
  /\ cell' = CellOf(Lexed(sql), Parse(Lexed(sql)))
  /\ UNCHANGED <<template, column, bound, sql, got>>

\* A SELECT of the column: decode_value, ResultRow there and back
RunSelect ==
  /\ cell \notin {Nothing, Refused} /\ got = Nothing
  /\ got' = FromFrame(ToFrame(DecodeValue(cell)))
  /\ UNCHANGED <<template, column, bound, sql, cell>>

BindNext == SendExec \/ RunInsert \/ RunSelect
-----------------------------------------------------------------------------
\* Placeholders stand between separators, away from operators, and no comment opens
Tidy(text) ==
  LET plain == [i \in DOMAIN text |-> IF text[i] = "?" THEN "," ELSE text[i]]
  IN /\ \A i \in Placeholders(text) : {CharAt(text, i - 1), CharAt(text, i + 1)} \subseteq {"", " ", "(", ")", ",", "="}
     /\ ~\E i \in DOMAIN text : /\ Lexes(Lexed(SubSeq(plain, 1, i - 1)))
                               /\ <<text[i], CharAt(text, i + 1)>> \in {<<"-", "-">>, <<"/", "*">>}

\* SQL has no exponents
Writable(v) == v[1] = "float" => Abs(v[2]) < ExpFrom

\* the tokens of a value written as a literal
LiteralTokens(v) ==
  LET number(kind) == (IF v[2] < 0 THEN <<Op("-")>> ELSE <<>>) \o <<<<kind, <<v[1], Abs(v[2])>>>>>>
  IN CASE v = None -> <<<<"NULL_LIT", NULL>>>>
       [] v[1] = "bool" -> <<<<"BOOL_LIT", v>>>>
       [] v[1] = "int" -> number("INT_LIT")
       [] v[1] = "float" -> number("FLOAT_LIT")
       [] OTHER -> <<<<"STRING_LIT", <<"str", v[2]>>>>>>

\* the tokens of a text, with the literals of the values in its placeholders
RECURSIVE TokensWith(_, _)
TokensWith(text, values) ==
  IF values = <<>> THEN Lexed(text)
  ELSE LET i == Min(Placeholders(text))
       IN Front(Lexed(SubSeq(text, 1, i - 1))) \o LiteralTokens(Head(values))
          \o TokensWith(SubSeq(text, i + 1, Len(text)), Tail(values))

(* _substitute_params and _format_value: each value arrives in its           *)
(* placeholder as one literal, whatever quotes and question marks it and the *)
(* strings of the SQL text hold: tokenize finds the tokens of the text with  *)
(* the values' literals in place of the placeholders.                        *)
ParamsAreLiterals ==
  sql \notin {Nothing, Refused} /\ Tidy(template) /\ (\A i \in DOMAIN bound : Writable(bound[i])) =>
    Lexed(sql) = TokensWith(template, bound)

SameNumber(v, w) ==
  LET halves(x) == IF x[1] = "int" THEN 2 * x[2] ELSE x[2]
  IN {v[1], w[1]} \subseteq {"int", "float"} /\ halves(v) = halves(w)

\* integers that no float is equal to
Inexact(v) == v[1] = "int" /\ Rounded(2 * v[2]) # 2 * v[2]
OwnType(v) == CASE v[1] = "int" -> "Int" [] v[1] = "float" -> "Float" [] v[1] = "bool" -> "Bool"
                [] v[1] = "str" -> "Text" [] OTHER -> ""

(* REQ-TYP-6, "anything that could silently change the user's value is       *)
(* rejected up front": a value bound by a client and stored comes back equal *)
(* to it, unless it is an integer that FLOAT has to round, or the column is  *)
(* DECIMAL, which comes back as text.  And a value of the column's own type  *)
(* is stored, as long as it has no sign and SQL can write it.                *)
ComesBackEqual ==
  \A i \in DOMAIN bound :
    LET v == bound[i] IN
    /\ got # Nothing /\ v[1] \in {"None", "bool", "int", "float", "str"} /\ column # "Decimal"
         /\ ~(column = "Float" /\ Inexact(v)) =>
         got = v \/ SameNumber(got, v)
    /\ cell = Refused /\ Writable(v) /\ (v[1] \in {"int", "float"} => v[2] >= 0) => column # OwnType(v)
=============================================================================
