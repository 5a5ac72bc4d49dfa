----------------------------- MODULE Expressions -----------------------------
(***************************************************************************)
(* Predicates and values of a row, pkg/plan/plan.go evaluateExpression and *)
(* evaluateExpressionValue, with the scalar functions of                   *)
(* builtin_conditional.go.  An expression is a record whose k names its    *)
(* type in pkg/parser/ast.go:                                              *)
(*                                                                         *)
(*   cmp    ComparisonExpr  col, op, value, right (column), expr           *)
(*   logic  LogicalExpr     op, left, right                                *)
(*   null   NullTestExpr    col, isNull                                    *)
(*   in     InExpr          col, not, values, query                        *)
(*   exists ExistsExpr      not, query                                     *)
(*   bin    BinaryExpr      op, left, right                                *)
(*   col    ColumnRef       name                                           *)
(*   lit    LiteralExpr     value                                          *)
(*   call   FuncCallExpr    fn, args                                       *)
(*   case   CaseExpr        branches, else                                 *)
(*                                                                         *)
(* An argument of a call is kept as the parser reads it, a col, a lit, a   *)
(* call or a bin; the code keeps its text.  LIKE is left out.              *)
(***************************************************************************)
EXTENDS Rows

NoCol == Col("")

Compare(col, op, value) ==
    [k |-> "cmp", col |-> col, op |-> op, value |-> value, right |-> NoCol, expr |-> Nil]
CompareColumns(col, op, right) == [Compare(col, op, NoText) EXCEPT !.right = right]
CompareValue(expr, op, value) ==
    [Compare(Col("expression"), op, value) EXCEPT !.expr = expr]
AndOr(op, left, right) == [k |-> "logic", op |-> op, left |-> left, right |-> right]
IsNullTest(col, isNull) == [k |-> "null", col |-> col, isNull |-> isNull]
InValues(col, not, values) ==
    [k |-> "in", col |-> col, not |-> not, values |-> values, query |-> Nil]
InQuery(col, not, query) ==
    [k |-> "in", col |-> col, not |-> not, values |-> << >>, query |-> query]
Exists(not, query) == [k |-> "exists", not |-> not, query |-> query]
Bin(op, left, right) == [k |-> "bin", op |-> op, left |-> left, right |-> right]
ColRef(name) == [k |-> "col", name |-> name]
Lit(value) == [k |-> "lit", value |-> value]
FuncCall(fn, args) == [k |-> "call", fn |-> fn, args |-> args]
Case(branches, else) == [k |-> "case", branches |-> branches, else |-> else]

---------------------------------------------------------------------------
(* Scalar functions.                                                       *)

ScalarFunctions == {"IF", "COALESCE", "NVL", "NULLIF", "CAST", "CONCAT", "UPPER"}

True(text) == text \in {"true", "TRUE", "1"}

fnCast(args) ==
    LET type == ToUpper(args[2])
        val == args[1]
    IN  CASE type \in {"INT", "INTEGER", "BIGINT", "FLOAT", "DOUBLE"} ->
                IF IsNumber(val) THEN ToString(Number(val)) ELSE "0"
          [] type = "BOOLEAN" -> IF True(val) \/ val = "t" THEN "true" ELSE "false"
          [] OTHER -> val

fnIf(args) ==
    IF True(args[1]) \/ (IsNumber(args[1]) /\ Number(args[1]) # 0)
    THEN args[2] ELSE args[3]

fnCoalesce(args) ==
    LET set == {i \in DOMAIN args : args[i] # NoText}
    IN  IF set = {} THEN NoText ELSE args[CHOOSE i \in set : \A j \in set : i <= j]

fnNvl(args) == IF args[1] # NoText THEN args[1] ELSE args[2]

fnNullif(args) == IF args[1] = args[2] THEN NoText ELSE args[1]

ScalarFn(fn, args) ==
    CASE fn = "IF" -> IF Len(args) < 3 THEN NoText ELSE fnIf(args)
      [] fn = "COALESCE" -> fnCoalesce(args)
      [] fn = "NVL" -> IF Len(args) < 2 THEN NoText ELSE fnNvl(args)
      [] fn = "NULLIF" -> IF Len(args) < 2 THEN NoText ELSE fnNullif(args)
      [] fn = "CAST" -> IF Len(args) < 2 THEN args[1] ELSE fnCast(args)
      [] fn = "CONCAT" -> FoldLeft(LAMBDA text, a : text \o a, NoText, args)
      [] fn = "UPPER" -> ToUpper(args[1])

---------------------------------------------------------------------------
(* Arguments of a call.                                                    *)

RECURSIVE Inner(_), Spell(_), resolveFuncArg(_, _)

\* The text of an expression, arithmetic without its outer parentheses.
Inner(arg) == Spell(arg.left) \o " " \o arg.op \o " " \o Spell(arg.right)

\* The text of an argument.
Spell(arg) ==
    CASE arg.k = "lit" -> arg.value
      [] arg.k = "col" -> IF Qualifier(arg.name) = "" THEN NameOf(arg.name)
                          ELSE Qualifier(arg.name) \o "." \o NameOf(arg.name)
      [] arg.k = "bin" -> "(" \o Inner(arg) \o ")"
      [] arg.k = "call" ->
            LET texts == [i \in DOMAIN arg.args |->
                             (IF i = 1 THEN "" ELSE ",") \o Spell(arg.args[i])]
            IN  arg.fn \o "(" \o FoldLeft(LAMBDA t, a : t \o a, "", texts) \o ")"
      [] OTHER -> ""

\* The column key an argument's text would be.
ArgKey(arg) ==
    IF arg.k = "col" THEN arg.name
    ELSE IF arg.k = "call" /\ Len(arg.args) = 1 /\ arg.args[1].k = "col"
    THEN Call(arg.fn, arg.args[1].name)
    ELSE Col(Spell(arg))

evalArithmetic(op, left, right, text) ==
    IF IsNumber(left) /\ IsNumber(right) THEN Arithmetic(op, left, right) ELSE text

\* The key of the row, the bare key, a nested call, arithmetic, else the text:
\* the argument of CONCAT(a || b) is its own text.
resolveFuncArg(row, arg) ==
    LET key == ArgKey(arg)
        plain == IF arg.k = "col" THEN Col(NameOf(arg.name)) ELSE key
    IN  IF key \in DOMAIN row THEN row[key]
        ELSE IF plain \in DOMAIN row THEN row[plain]
        ELSE IF arg.k = "call" /\ arg.fn \in ScalarFunctions
        THEN ScalarFn(arg.fn, [i \in DOMAIN arg.args |-> resolveFuncArg(row, arg.args[i])])
        ELSE IF arg.k = "bin" /\ arg.op # "||"
        THEN evalArithmetic(arg.op, resolveFuncArg(row, arg.left),
                            resolveFuncArg(row, arg.right), Inner(arg))
        ELSE Spell(arg)

---------------------------------------------------------------------------
(* Expressions.                                                            *)

RECURSIVE evaluateExpression(_, _), evaluateExpressionValue(_, _)

Truth(b) == IF b THEN "true" ELSE "false"

Compared(op, left, right) ==
    CASE op = "=" -> left = right
      [] op = "!=" -> left # right
      [] op \in {"<", ">", "<=", ">="} -> compareValues(left, right, op)
      [] OTHER -> FALSE

\* What a comparison compares.  One whose three sides are all absent compares
\* the value with itself: what EXISTS becomes.
LeftSide(row, e) ==
    IF e.expr # Nil THEN evaluateExpressionValue(row, e.expr)
    ELSE IF e.col = NoCol THEN e.value
    ELSE projectRowValue(row, e.col)

RightSide(row, e) == IF e.right # NoCol THEN projectRowValue(row, e.right) ELSE e.value

evaluateExpression(row, e) ==
    CASE e.k = "cmp" -> Compared(e.op, LeftSide(row, e), RightSide(row, e))
      [] e.k = "call" -> True(evaluateExpressionValue(row, e))
      [] e.k = "logic" ->
            LET left == evaluateExpression(row, e.left)
                right == evaluateExpression(row, e.right)
            IN  CASE e.op = "AND" -> left /\ right
                  [] e.op = "OR" -> left \/ right
                  [] OTHER -> FALSE
      [] e.k = "null" -> e.isNull <=> (projectRowValue(row, e.col) = NoText)
      [] e.k = "in" -> (projectRowValue(row, e.col) \in ToSet(e.values)) # e.not
      [] e.k = "bin" -> e.op # "||" /\ evaluateExpressionValue(row, e) \notin {NoText, "0"}
      [] OTHER -> FALSE

Operated(op, left, right) == IF op = "||" THEN left \o right ELSE Arithmetic(op, left, right)

\* The branches whose conditions hold.
FirstBranch(row, e, holding) ==
    IF holding # {}
    THEN evaluateExpressionValue(
            row, e.branches[CHOOSE i \in holding : \A j \in holding : i <= j].result)
    ELSE IF e.else # Nil THEN evaluateExpressionValue(row, e.else)
    ELSE NoText

evaluateExpressionValue(row, e) ==
    CASE e.k = "col" -> projectRowValue(row, e.name)
      [] e.k = "lit" -> e.value
      [] e.k = "cmp" ->
            IF e.expr # Nil THEN evaluateExpressionValue(row, e.expr)
            ELSE IF e.right # NoCol THEN projectRowValue(row, e.right)
            ELSE IF e.col = NoCol THEN e.value
            ELSE projectRowValue(row, e.col)
      [] e.k \in {"null", "logic"} -> Truth(evaluateExpression(row, e))
      [] e.k = "call" ->
            IF e.fn \in ScalarFunctions
            THEN ScalarFn(e.fn, [i \in DOMAIN e.args |-> resolveFuncArg(row, e.args[i])])
            ELSE NoText
      [] e.k = "case" ->
            FirstBranch(row, e, {i \in DOMAIN e.branches : evaluateExpression(row, e.branches[i].cond)})
      [] e.k = "bin" ->
            Operated(e.op, evaluateExpressionValue(row, e.left), evaluateExpressionValue(row, e.right))
      [] OTHER -> NoText
===============================================================================
