---------------------------- MODULE Expressions ----------------------------
(***************************************************************************)
(* tinydb.executor.eval_expr and index_plan: the value of an expression on *)
(* a row, and the index bounds a WHERE clause gives.  The value of a       *)
(* comparison is 0 or 1 (a Python bool is an int); "/" is left out.  A     *)
(* row's layout (name_to_idx) maps <<table, name>> to a position, with     *)
(* "" for the table of a bare name.                                        *)
(***************************************************************************)
EXTENDS Syntax

CONSTANT Raise   \* what is returned where the code raises

Truthy(v) == v \notin {NULL, 0}
Bool(b) == IF b THEN 1 ELSE 0

\* _eq: two NULLs are equal
Eq(a, b) == a = b

Holds(op, a, b) ==
  CASE op = "<" -> a < b [] op = "<=" -> a <= b
    [] op = ">" -> a > b [] op = ">=" -> a >= b

Computed(op, a, b) ==
  CASE op = "+" -> a + b [] op = "-" -> a - b [] op = "*" -> a * b

\* ColumnRef of eval_expr: the qualified name first, then the bare one
Resolve(e, n2i) ==
  IF <<e.table, e.name>> \in DOMAIN n2i THEN <<e.table, e.name>> ELSE <<"", e.name>>

RECURSIVE EvalExpr(_, _, _)

Applied(op, l, r) ==
  CASE Raise \in {l, r} -> Raise
    [] op = "=" -> Bool(Eq(l, r))
    [] op = "!=" -> Bool(~Eq(l, r))
    [] NULL \in {l, r} -> NULL
    [] op \in {"<", "<=", ">", ">="} -> Bool(Holds(op, l, r))
    [] OTHER -> Computed(op, l, r)

\* _eval_binary: AND and OR stop at the left side when it decides
EvalBinary(e, row, n2i) ==
  LET l == EvalExpr(e.left, row, n2i)
      decides == \/ l = Raise
                 \/ e.op = "AND" /\ ~Truthy(l)
                 \/ e.op = "OR" /\ Truthy(l)
  IN IF e.op \in {"AND", "OR"}
       THEN IF decides THEN l ELSE EvalExpr(e.right, row, n2i)
       ELSE Applied(e.op, l, EvalExpr(e.right, row, n2i))

\* _eval_unary
EvalUnary(e, row, n2i) ==
  LET v == EvalExpr(e.operand, row, n2i)
  IN CASE v = Raise -> Raise
       [] e.op = "IS NULL" -> Bool(v = NULL)
       [] e.op = "IS NOT NULL" -> Bool(v # NULL)
       [] e.op = "NOT" -> Bool(~Truthy(v))

EvalExpr(e, row, n2i) ==
  CASE e.node = "Literal" -> e.value
    [] e.node = "ColumnRef" -> LET key == Resolve(e, n2i)
                               IN IF key \in DOMAIN n2i THEN row[n2i[key]] ELSE Raise
    [] e.node = "BinaryOp" -> EvalBinary(e, row, n2i)
    [] e.node = "UnaryOp" -> EvalUnary(e, row, n2i)
    [] OTHER -> Raise
-----------------------------------------------------------------------------
(* index_plan: a set with the one bound a WHERE clause gives, or {}          *)
LowerOps == {">", ">="}
UpperOps == {"<", "<="}
NoOp == ""

IndexablePredicate(c, op, v, hiOp, hi) ==
  [column |-> c, op |-> op, value |-> v, hiOp |-> hiOp, hiValue |-> hi]

\* _single_bound and _split_col_lit, which forgets the side the literal is on
SingleBound(e, known) ==
  IF e.node # "BinaryOp" THEN {}
  ELSE IF e.op \notin LowerOps \cup UpperOps \cup {"="} THEN {}
  ELSE LET IsColumn(x) == x.node = "ColumnRef" /\ x.name \in known
           sides == IF IsColumn(e.left) /\ e.right.node = "Literal" THEN <<e.left, e.right>>
                    ELSE IF e.left.node = "Literal" /\ e.right.node = "ColumnRef"
                              /\ e.right.name \in known THEN <<e.right, e.left>>
                    ELSE <<>>
       IN {IndexablePredicate(sides[1].name, e.op, sides[2].value, NoOp, NULL) :
             i \in {j \in {1} : sides # <<>> /\ sides[2].value # NULL}}

\* _merge_lower, _merge_upper, _tighter_lower, _tighter_upper: the tighter of
\* two bounds on the same side, the strict one of two equal values
TighterLower(a, b) ==
  IF a.value # b.value THEN IF a.value > b.value THEN a ELSE b
  ELSE IF a.op = ">" THEN a ELSE b
TighterUpper(a, b) ==
  IF a.value # b.value THEN IF a.value < b.value THEN a ELSE b
  ELSE IF a.op = "<" THEN a ELSE b

MergeSameColumn(a, b) ==
  CASE a.op \in UpperOps /\ b.op \in LowerOps ->
         IndexablePredicate(b.column, b.op, b.value, a.op, a.value)
    [] a.op \in LowerOps /\ b.op \in LowerOps -> TighterLower(a, b)
    [] a.op \in UpperOps /\ b.op \in UpperOps -> TighterUpper(a, b)
    [] OTHER -> IndexablePredicate(a.column, a.op, a.value, b.op, b.value)

RECURSIVE ExtractIndexable(_, _)
ExtractIndexable(e, known) ==
  IF e.node = "BinaryOp" /\ e.op = "AND"
    THEN {MergeSameColumn(p[1], p[2]) :
            p \in {pq \in ExtractIndexable(e.left, known) \X ExtractIndexable(e.right, known) :
                     pq[1].column = pq[2].column}}
    ELSE SingleBound(e, known)
=============================================================================
