-------------------------------- MODULE Parser --------------------------------
(***************************************************************************)
(* The recursive descent of pkg/parser/parser.go, from the tokens of a     *)
(* SELECT to the query that Engine runs.                                   *)
(*                                                                         *)
(* A token is [t, v]: its type, and the text of an identifier, a number or *)
(* a string.  A parser takes the tokens from the current one on and        *)
(* returns [err, val, rest].  LIKE, deeper names than table.column and a   *)
(* sign before a number that is no argument are left out.                  *)
(***************************************************************************)
EXTENDS Windows

Token(t) == [t |-> t, v |-> ""]
Ident(text) == [t |-> "ident", v |-> text]

Cur(s) == IF s = << >> THEN Token("EOF") ELSE s[1]
Peek(s) == IF Len(s) < 2 THEN Token("EOF") ELSE s[2]
nextToken(s) == IF s = << >> THEN s ELSE Tail(s)

CurIs(s, t) == Cur(s).t = t
PeekIs(s, t) == Peek(s).t = t
SkipIf(s, t) == IF CurIs(s, t) THEN nextToken(s) ELSE s
AtValue(s) == Cur(s).t \in {"number", "string"}

Parsed(val, rest) == [err |-> "", val |-> val, rest |-> rest]
Unexpected(s) == [err |-> "unexpected token", val |-> Nil, rest |-> s]

\* Go on with what has been parsed, unless that failed.
Then(parsed, Go(_, _)) == IF parsed.err # "" THEN parsed ELSE Go(parsed.val, parsed.rest)

Expect(s, t) == IF CurIs(s, t) THEN Parsed(Cur(s).v, nextToken(s)) ELSE Unexpected(s)

\* expectPeek, and the token after it.
ExpectPeek(s, t) == IF PeekIs(s, t) THEN Parsed(Peek(s).v, SubSeq(s, 3, Len(s))) ELSE Unexpected(s)

---------------------------------------------------------------------------
(* Names and lists.                                                        *)

parseDottedIdentifier(s) ==
    IF ~CurIs(s, "ident") THEN Unexpected(s)
    ELSE IF ~PeekIs(s, ".") THEN Parsed(Col(Cur(s).v), nextToken(s))
    ELSE Then(Expect(SubSeq(s, 3, Len(s)), "ident"), LAMBDA name, r : Parsed(Qual(Cur(s).v, name), r))

RECURSIVE parseDottedList(_), parseOrderByList(_), ValueList(_), NameList(_)

parseDottedList(s) ==
    Then(parseDottedIdentifier(s),
         LAMBDA col, r : IF ~CurIs(r, ",") THEN Parsed(<<col>>, r)
                         ELSE Then(parseDottedList(nextToken(r)),
                                   LAMBDA cols, r2 : Parsed(<<col>> \o cols, r2)))

Direction(s) == IF Cur(s).v \in {"ASC", "DESC"} THEN nextToken(s) ELSE s

parseOrderByList(s) ==
    Then(parseDottedIdentifier(s),
         LAMBDA col, r :
            LET order == <<[col |-> col, desc |-> Cur(r).v = "DESC"]>>
            IN  IF ~CurIs(Direction(r), ",") THEN Parsed(order, Direction(r))
                ELSE Then(parseOrderByList(nextToken(Direction(r))),
                          LAMBDA orders, r2 : Parsed(order \o orders, r2)))

ValueList(s) ==
    IF ~AtValue(s) THEN Unexpected(s)
    ELSE IF ~PeekIs(s, ",") THEN Parsed(<<Cur(s).v>>, nextToken(s))
    ELSE Then(ValueList(SubSeq(s, 3, Len(s))), LAMBDA vals, r : Parsed(<<Cur(s).v>> \o vals, r))

NameList(s) ==
    Then(Expect(s, "ident"),
         LAMBDA name, r : IF ~CurIs(r, ",") THEN Parsed(<<Col(name)>>, r)
                          ELSE Then(NameList(nextToken(r)),
                                    LAMBDA names, r2 : Parsed(<<Col(name)>> \o names, r2)))

\* An alias may follow, with or without AS.
Alias(s) ==
    LET r == SkipIf(s, "AS")
    IN  IF CurIs(r, "ident") THEN Parsed(Cur(r).v, nextToken(r)) ELSE Parsed("", r)

---------------------------------------------------------------------------
(* Expressions.                                                            *)

\* A query, an expression, a CASE, arithmetic or the arguments of a call, which
\* stand within one another, by the parser of its kind.
RECURSIVE Part(_, _)

\* exprToString, as a column key.
exprToString(e) == IF e.k \in {"col", "lit", "bin", "call"} THEN ArgKey(e) ELSE NoCol

isComparisonOperator(s) == Cur(s).t \in {"=", "!=", "<", ">", "<=", ">="}
isArithmeticOp(token) == token.t \in {"+", "-", "*", "/", "||"}

precLowest == 0
\* Mutant: all operators bind alike.
NoPrecedence(t) == IF t \in {"+", "-", "||", "*", "/"} THEN 1 ELSE precLowest

arithmeticPrecedence(t) == CASE t \in {"+", "-", "||"} -> 1
                             [] t \in {"*", "/"} -> 2
                             [] OTHER -> precLowest

parseArithmeticPrimary(s) ==
    CASE AtValue(s) -> Parsed(Lit(Cur(s).v), nextToken(s))
      [] CurIs(s, "CASE") -> Part("case", s)
      [] CurIs(s, "ident") ->
            Then(parseDottedIdentifier(s), LAMBDA col, r : Parsed(ColRef(col), r))
      [] CurIs(s, "(") ->
            Then(Part("arithmetic", nextToken(s)),
                 LAMBDA e, r : Then(Expect(r, ")"), LAMBDA v, r2 : Parsed(e, r2)))
      [] OTHER -> Unexpected(s)

RECURSIVE parseArithmeticBinary(_, _, _), TighterOperand(_, _, _)

parseArithmeticExpr(left, s) == parseArithmeticBinary(left, precLowest, s)

parseArithmeticBinary(left, minPrec, s) ==
    LET prec == arithmeticPrecedence(Cur(s).t)
        Operand(p, r) == TighterOperand(p, prec, r)
    IN  IF ~isArithmeticOp(Cur(s)) \/ prec < minPrec THEN Parsed(left, s)
        ELSE Then(Then(parseArithmeticPrimary(nextToken(s)), Operand),
                  LAMBDA right, r : parseArithmeticBinary(Bin(Cur(s).t, left, right), minPrec, r))

\* The right operand takes the operators that bind tighter.
TighterOperand(right, prec, s) ==
    IF ~isArithmeticOp(Cur(s)) \/ arithmeticPrecedence(Cur(s).t) <= prec THEN Parsed(right, s)
    ELSE Then(parseArithmeticBinary(right, arithmeticPrecedence(Cur(s).t), s),
              LAMBDA e, r : TighterOperand(e, prec, r))

\* An operand of its own, and what follows it.
ArithmeticFrom(s) == Then(parseArithmeticPrimary(s), LAMBDA left, r : parseArithmeticExpr(left, r))

isKeyword(t) == t \notin {"EOF", "ident", "string", "number", "*", ",", "(", ")", "=", "!=", "<", ">",
                          "<=", ">=", ";", "||"}

FuncArg(s) ==
    CASE CurIs(s, "ident") /\ PeekIs(s, "(") ->
            Then(Part("arguments", SubSeq(s, 3, Len(s))),
                 LAMBDA args, r : Then(Expect(r, ")"), LAMBDA v, r2 : Parsed(FuncCall(ToUpper(Cur(s).v), args), r2)))
      [] CurIs(s, "ident") /\ ~PeekIs(s, "(") ->
            Then(parseDottedIdentifier(s), LAMBDA col, r : parseArithmeticExpr(ColRef(col), r))
      [] AtValue(s) -> Parsed(Lit(Cur(s).v), nextToken(s))
      [] CurIs(s, "-") /\ PeekIs(s, "number") -> Parsed(Lit("-" \o Peek(s).v), SubSeq(s, 3, Len(s)))
      [] isKeyword(Cur(s).t) /\ ~(CurIs(s, "-") /\ PeekIs(s, "number")) ->
            Parsed(Lit(Cur(s).t), nextToken(s))
      [] OTHER -> Unexpected(s)

RECURSIVE FuncArgList(_)

\* Arguments need no comma between them: EXTRACT(YEAR FROM date).
FuncArgList(s) ==
    Then(FuncArg(s),
         LAMBDA arg, r : IF CurIs(r, ")") THEN Parsed(<<arg>>, r)
                         ELSE Then(FuncArgList(SkipIf(r, ",")),
                                   LAMBDA args, r2 : Parsed(<<arg>> \o args, r2)))

parseFuncArgs(s) ==
    IF CurIs(s, "*") THEN Parsed(<<ColRef(Star)>>, nextToken(s))
    ELSE IF CurIs(s, ")") THEN Parsed(<< >>, s)
    ELSE FuncArgList(s)

parseCastExpr(s) ==
    LET Operand(r) == IF AtValue(r) THEN Parsed(Lit(Cur(r).v), nextToken(r))
                      ELSE Then(parseDottedIdentifier(r), LAMBDA col, r2 : Parsed(ColRef(col), r2))
        Type(arg, r) == Then(Expect(r, "ident"),
                             LAMBDA type, r2 : Parsed(FuncCall("CAST", <<arg, Lit(ToUpper(type))>>), r2))
        Typed(arg, r) == Then(Expect(r, "AS"), LAMBDA v, r2 : Type(arg, r2))
    IN  Then(Then(Then(Expect(nextToken(s), "("), LAMBDA v, r : Operand(r)), Typed),
             LAMBDA e, r : Then(Expect(r, ")"), LAMBDA v, r2 : Parsed(e, r2)))

\* IN, after the keyword.
parseInExpr(col, not, s) ==
    LET Query(r) == Then(Part("query", r), LAMBDA q, r2 : Parsed(InQuery(col, not, q), r2))
        List(r) == Then(ValueList(r), LAMBDA vals, r2 : Parsed(InValues(col, not, vals), r2))
        Content(v, r) == IF CurIs(r, "SELECT") THEN Query(r) ELSE List(r)
    IN  Then(Then(Expect(s, "("), Content),
             LAMBDA e, r : Then(Expect(r, ")"), LAMBDA v, r2 : Parsed(e, r2)))

\* IS, after the keyword.
NullTest(col, s) ==
    Then(Expect(SkipIf(s, "NOT"), "NULL"), LAMBDA v, r : Parsed(IsNullTest(col, ~CurIs(s, "NOT")), r))

Comparison(col, e, s) ==
    LET right == nextToken(s)
        left == [Compare(col, Cur(s).t, NoText) EXCEPT !.expr = e]
    IN  CASE ~isComparisonOperator(s) -> Unexpected(s)
          [] isComparisonOperator(s) /\ CurIs(right, "ident") ->
                Then(parseDottedIdentifier(right), LAMBDA c, r : Parsed([left EXCEPT !.right = c], r))
          [] isComparisonOperator(s) /\ AtValue(right) ->
                Parsed([left EXCEPT !.value = Cur(right).v], nextToken(right))
          [] OTHER -> Unexpected(right)

\* What may follow a column, an arithmetic expression or a call, which the
\* tests for NULL and IN keep the text of only.
AfterOperand(col, e, s) ==
    CASE CurIs(s, "IS") -> NullTest(col, nextToken(s))
      [] CurIs(s, "NOT") /\ PeekIs(s, "IN") -> parseInExpr(col, TRUE, SubSeq(s, 3, Len(s)))
      [] CurIs(s, "IN") -> parseInExpr(col, FALSE, nextToken(s))
      [] OTHER -> Comparison(col, e, s)

\* A call is a condition of its own, or an operand.
parsePostFuncCall(call, s) ==
    IF isComparisonOperator(s) \/ CurIs(s, "IS") \/ CurIs(s, "IN") \/ (CurIs(s, "NOT") /\ PeekIs(s, "IN"))
    THEN AfterOperand(exprToString(call), call, s)
    ELSE Parsed(call, s)

ExistsQuery(not, s) ==
    Then(Then(Expect(s, "("), LAMBDA v, r : Part("query", r)),
         LAMBDA q, r : Then(Expect(r, ")"), LAMBDA v, r2 : Parsed(Exists(not, q), r2)))

parseComparison(s) ==
    LET Arithmetical(e, r) == AfterOperand(exprToString(e), IF e.k = "col" THEN Nil ELSE e, r)
        Call_(args, r) == Then(Expect(r, ")"), LAMBDA v, r2 : parsePostFuncCall(FuncCall(ToUpper(Cur(s).v), args), r2))
    IN  CASE CurIs(s, "(") ->
                Then(Part("expression", nextToken(s)),
                     LAMBDA e, r : Then(Expect(r, ")"), LAMBDA v, r2 : Parsed(e, r2)))
          [] CurIs(s, "ident") /\ PeekIs(s, "(") -> Then(Part("arguments", SubSeq(s, 3, Len(s))), Call_)
          [] CurIs(s, "NOT") /\ PeekIs(s, "EXISTS") -> ExistsQuery(TRUE, SubSeq(s, 3, Len(s)))
          [] CurIs(s, "EXISTS") -> ExistsQuery(FALSE, nextToken(s))
          [] CurIs(s, "CAST") -> Then(parseCastExpr(s), parsePostFuncCall)
          [] OTHER -> Then(Then(parseDottedIdentifier(s),
                                LAMBDA col, r : parseArithmeticExpr(ColRef(col), r)), Arithmetical)

RECURSIVE Logical(_, _)

\* AND and OR bind alike, to the left.
Logical(left, s) ==
    IF Cur(s).t \notin {"AND", "OR"} THEN Parsed(left, s)
    ELSE Then(parseComparison(nextToken(s)), LAMBDA right, r : Logical(AndOr(Cur(s).t, left, right), r))

parseExpression(s) == Then(parseComparison(s), Logical)

RECURSIVE CaseBranches(_)

CaseBranch(s) ==
    LET Result(cond, r) == Then(Part("arithmetic", r), LAMBDA e, r2 : Parsed([cond |-> cond, result |-> e], r2))
    IN  Then(Part("expression", s), LAMBDA cond, r : Then(Expect(r, "THEN"), LAMBDA v, r2 : Result(cond, r2)))

CaseBranches(s) ==
    IF ~CurIs(s, "WHEN") THEN Parsed(<< >>, s)
    ELSE Then(CaseBranch(nextToken(s)),
              LAMBDA b, r : Then(CaseBranches(r), LAMBDA bs, r2 : Parsed(<<b>> \o bs, r2)))

parseCaseExpr(s) ==
    LET Else(branches, r) ==
            IF ~CurIs(r, "ELSE") THEN Parsed(Case(branches, Nil), r)
            ELSE Then(Part("arithmetic", nextToken(r)), LAMBDA e, r2 : Parsed(Case(branches, e), r2))
    IN  Then(Then(CaseBranches(nextToken(s)), Else),
             LAMBDA e, r : Then(Expect(r, "END"), LAMBDA v, r2 : Parsed(e, r2)))

---------------------------------------------------------------------------
(* Windows.                                                                *)

NoWindow == [fn |-> "", args |-> << >>, partitionBy |-> << >>, orderBy |-> << >>, frame |-> Nil,
             key |-> NoCol, ref |-> ""]

parseWindowFrameBound(s) ==
    LET side == Peek(s).t
        bounded == side \in {"PRECEDING", "FOLLOWING"}
        rest == SubSeq(s, 3, Len(s))
    IN  CASE CurIs(s, "UNBOUNDED") /\ bounded -> Parsed(Bound("UNBOUNDED " \o side, 0), rest)
          [] CurIs(s, "CURRENT") /\ ToUpper(Peek(s).v) = "ROW" -> Parsed(Bound("CURRENT ROW", 0), rest)
          [] CurIs(s, "number") /\ bounded -> Parsed(Bound(side, Number(Cur(s).v)), rest)
          [] OTHER -> Unexpected(IF Cur(s).t \in {"UNBOUNDED", "CURRENT", "number"} THEN nextToken(s) ELSE s)

parseWindowFrame(type, s) ==
    LET End(start, r) ==
            Then(Then(Expect(r, "AND"), LAMBDA v, r2 : parseWindowFrameBound(r2)),
                 LAMBDA end, r2 : Parsed(Frame(type, start, end), r2))
        ToCurrent(start, r) == Parsed(Frame(type, start, Bound("CURRENT ROW", 0)), r)
    IN  IF CurIs(s, "BETWEEN") THEN Then(parseWindowFrameBound(nextToken(s)), End)
        ELSE Then(parseWindowFrameBound(s), ToCurrent)

\* An error in the frame is not looked at: the window has none.
WindowFrame(w, s) ==
    LET frame == parseWindowFrame(Cur(s).t, nextToken(s))
    IN  IF Cur(s).t \in {"ROWS", "RANGE"} THEN Parsed([w EXCEPT !.frame = frame.val], frame.rest)
        ELSE Parsed(w, s)

WindowOrder(w, s) ==
    IF ~CurIs(s, "ORDER") THEN Parsed(w, s)
    ELSE Then(Then(ExpectPeek(s, "BY"), LAMBDA v, r : parseOrderByList(r)),
              LAMBDA orders, r : Parsed([w EXCEPT !.orderBy = orders], r))

WindowPartition(w, s) ==
    IF ~CurIs(s, "PARTITION") THEN Parsed(w, s)
    ELSE Then(Then(ExpectPeek(s, "BY"), LAMBDA v, r : parseDottedList(r)),
              LAMBDA cols, r : Parsed([w EXCEPT !.partitionBy = cols], r))

parseWindowFeatures(w, s) == Then(Then(WindowPartition(w, s), WindowOrder), WindowFrame)

\* What stands between the parentheses of a window: a name it extends, features.
WindowContent(w, s) ==
    LET named == IF CurIs(s, "ident") THEN [w EXCEPT !.ref = Cur(s).v] ELSE w
    IN  Then(parseWindowFeatures(named, SkipIf(s, "ident")),
             LAMBDA spec, r : Then(Expect(r, ")"), LAMBDA v, r2 : Parsed(spec, r2)))

parseWindowSpec(w, s) ==
    IF CurIs(s, "ident") THEN Parsed([w EXCEPT !.ref = Cur(s).v], nextToken(s))
    ELSE Then(Expect(s, "("), LAMBDA v, r : WindowContent(w, r))

\* Mutant: what a window says itself does not go before the name it extends.
BaseOnly(w, base) ==
    [w EXCEPT !.partitionBy = base.partitionBy, !.orderBy = base.orderBy, !.frame = base.frame]

\* A window with what it takes from the one it extends.
Extending(w, base) ==
    [w EXCEPT !.partitionBy = IF @ = << >> THEN base.partitionBy ELSE @,
              !.orderBy = IF @ = << >> THEN base.orderBy ELSE @,
              !.frame = IF @ = Nil THEN base.frame ELSE @]

\* The WINDOW clause, from the definitions before it: names to windows.
RECURSIVE NamedWindows(_, _)
NamedWindows(defs, s) ==
    LET name == ToLower(Cur(s).v)
        Resolve(w) == IF w.ref = "" THEN w ELSE [Extending(w, defs[ToLower(w.ref)]) EXCEPT !.ref = ""]
        Define(w, r) ==
            IF w.ref # "" /\ ToLower(w.ref) \notin DOMAIN defs THEN Unexpected(r)
            ELSE IF ~CurIs(r, ",") THEN Parsed((name :> Resolve(w)) @@ defs, r)
            ELSE NamedWindows((name :> Resolve(w)) @@ defs, nextToken(r))
    IN  IF ~CurIs(s, "ident") \/ name \in DOMAIN defs THEN Unexpected(s)
        ELSE Then(Then(Then(ExpectPeek(s, "AS"), LAMBDA v, r : Expect(r, "(")),
                       LAMBDA v, r : WindowContent(NoWindow, r)), Define)

---------------------------------------------------------------------------
(* The items of SELECT, added to a query.  After an item the current token *)
(* is its last one or the comma after it; parseSelectQuery then skips one. *)

EmptyQuery ==
    [k |-> "query", ctes |-> << >>, columns |-> << >>, exprs |-> << >>, distinct |-> FALSE,
     table |-> "", alias |-> "", sub |-> Nil, fromAlias |-> "", values |-> << >>,
     valuesCols |-> << >>, joins |-> << >>, where |-> Nil, groupBy |-> << >>, having |-> Nil,
     orderBy |-> << >>, limit |-> -1, aggs |-> << >>, windows |-> << >>, aliases |-> << >>,
     union |-> Nil, unionAll |-> FALSE, views |-> << >>]

NoAgg == [fn |-> "", col |-> NoCol, args |-> << >>, distinct |-> FALSE]

WithItem(q, key, e) == [q EXCEPT !.columns = Append(@, key), !.exprs = Append(@, e)]

\* CASE, CAST and literals leave an empty aggregate and an empty window.
WithValue(q, key, e) ==
    [WithItem(q, key, e) EXCEPT !.aggs = Append(@, NoAgg), !.windows = Append(@, NoWindow)]

WithAlias(q, alias, key) ==
    [q EXCEPT !.aliases = Append(SelectSeq(@, LAMBDA a : a.alias # Col(alias)),
                                 [alias |-> Col(alias), orig |-> key])]

\* [AS] alias, or AS alias, from the current token on; AS alias after it.
AliasHere(q, key, s) ==
    LET r == SkipIf(s, "AS")
    IN  Parsed(IF CurIs(r, "ident") THEN WithAlias(q, Cur(r).v, key) ELSE q, r)
AliasAfterAs(q, key, s) == IF CurIs(s, "AS") THEN AliasHere(q, key, s) ELSE Parsed(q, s)
AliasNext(q, key, s) ==
    LET r == nextToken(s)
    IN  IF ~PeekIs(s, "AS") THEN Parsed(q, s)
        ELSE IF PeekIs(r, "ident") THEN Parsed(WithAlias(q, Peek(r).v, key), nextToken(r))
        ELSE Parsed(q, r)

CaseItem(q, s) ==
    LET key == Col("CASE_" \o ToString(Len(q.columns)))
    IN  Then(Part("case", s), LAMBDA e, r : AliasHere(WithValue(q, key, e), key, r))

CastItem(q, s) ==
    Then(parseCastExpr(s), LAMBDA e, r : AliasHere(WithValue(q, exprToString(e), e), exprToString(e), r))

\* The key of arithmetic after a literal is another one than its alias names.
LiteralItem(q, s) ==
    LET key == Col("LITERAL_" \o ToString(Len(q.columns)))
        r == IF PeekIs(s, "AS") THEN SubSeq(s, 3, Len(s)) ELSE s
        item == WithValue(q, key, Lit(Cur(s).v))
        named == IF PeekIs(s, "AS") /\ CurIs(r, "ident") THEN WithAlias(item, Cur(r).v, key) ELSE item
        Replace(e) == [named EXCEPT !.columns[Len(named.columns)] = exprToString(e),
                                    !.exprs[Len(named.exprs)] = e]
    IN  IF ~isArithmeticOp(Peek(r)) THEN Parsed(named, r)
        ELSE Then(parseArithmeticExpr(Lit(Cur(r).v), nextToken(r)),
                  LAMBDA e, r2 : Parsed(Replace(e), nextToken(r2)))

\* "RANK()#2" is kept as the key of a function RANK#2.
uniqueWindowKey(columns, base) ==
    LET Candidate(n) == IF n = 1 THEN base ELSE [base EXCEPT ![1] = @ \o "#" \o ToString(n)]
        free == {n \in 1 .. Len(columns) + 1 : Candidate(n) \notin ToSet(columns)}
    IN  Candidate(CHOOSE n \in free : \A m \in free : n <= m)

WindowItem(q, fn, args, key, s) ==
    LET unique == uniqueWindowKey(q.columns, key)
        Add(w) == [WithItem(q, unique, Nil) EXCEPT !.windows = Append(@, [w EXCEPT !.key = unique])]
    IN  Then(parseWindowSpec([NoWindow EXCEPT !.fn = fn, !.args = args], s),
             LAMBDA w, r : AliasAfterAs(Add(w), unique, r))

\* The text of the first argument is part of the key.
FirstArg(args) ==
    IF args = << >> THEN NoCol ELSE IF args[1].k = "col" THEN args[1].name ELSE Col(Spell(args[1]))

FunctionItem(q, s) ==
    LET fn == ToUpper(Cur(s).v)
        from == SubSeq(s, 3, Len(s))
        distinct == CurIs(from, "DISTINCT")
        Key(args) == IF distinct THEN DistinctCall(fn, FirstArg(args)) ELSE Call(fn, FirstArg(args))
        Agg(args) == [fn |-> fn, col |-> FirstArg(args), args |-> args, distinct |-> distinct]
        Add(args, r) ==
            CASE ~CurIs(r, ")") -> Unexpected(r)
              [] CurIs(r, ")") /\ PeekIs(r, "OVER") ->
                    WindowItem(q, fn, args, Key(args), SubSeq(r, 3, Len(r)))
              [] OTHER -> AliasNext([WithItem(q, Key(args), Nil) EXCEPT !.aggs = Append(@, Agg(args))],
                                    Key(args), r)
    IN  Then(Part("arguments", SkipIf(from, "DISTINCT")), Add)

\* The current token is left on the last one of the name.
ColumnName(s) ==
    IF ~PeekIs(s, ".") THEN Parsed(Col(Cur(s).v), s)
    ELSE LET r == SubSeq(s, 3, Len(s))
         IN  IF CurIs(r, "ident") THEN Parsed(Qual(Cur(s).v, Cur(r).v), r) ELSE Unexpected(r)

ColumnItem(q, s) ==
    LET Computed(e, r) == AliasAfterAs(WithItem(q, Col(Inner(e)), e), Col(Inner(e)), r)
        Add(col, r) == IF isArithmeticOp(Peek(r))
                       THEN Then(parseArithmeticExpr(ColRef(col), nextToken(r)), Computed)
                       ELSE AliasNext(WithItem(q, col, Nil), col, r)
    IN  Then(ColumnName(s), Add)

SelectItem(q, s) ==
    CASE CurIs(s, "CASE") -> CaseItem(q, s)
      [] CurIs(s, "CAST") -> CastItem(q, s)
      [] AtValue(s) -> LiteralItem(q, s)
      [] CurIs(s, "ident") /\ PeekIs(s, "(") -> FunctionItem(q, s)
      [] CurIs(s, "ident") /\ ~PeekIs(s, "(") -> ColumnItem(q, s)
      [] OTHER -> Unexpected(s)

RECURSIVE SelectItemList(_, _)
SelectItemList(q, s) ==
    LET More(item, r) ==
            CASE CurIs(r, ",") -> SelectItemList(item, nextToken(r))
              [] ~CurIs(r, ",") /\ PeekIs(r, ",") -> SelectItemList(item, SubSeq(r, 3, Len(r)))
              [] OTHER -> Parsed(item, r)
    IN  Then(SelectItem(q, s), More)

parseSelectItems(q, s) ==
    IF CurIs(s, "*") THEN Parsed([q EXCEPT !.columns = <<Star>>], s) ELSE SelectItemList(q, s)

---------------------------------------------------------------------------
(* The clauses of a query, each added to it if it is there.                *)

RECURSIVE CTEList(_, _), ValueRows(_), Joins(_, _), LateralViewList(_, _)

CTEList(q, s) ==
    LET Add(sub, r) ==
            LET more == [q EXCEPT !.ctes = Append(@, [name |-> Cur(s).v, query |-> sub])]
            IN  CASE ~CurIs(r, ")") -> Unexpected(r)
                  [] CurIs(r, ")") /\ PeekIs(r, ",") -> CTEList(more, SubSeq(r, 3, Len(r)))
                  [] OTHER -> Parsed(more, nextToken(r))
    IN  IF ~CurIs(s, "ident") THEN Unexpected(s)
        ELSE Then(Then(Then(ExpectPeek(s, "AS"), LAMBDA v, r : Expect(r, "(")),
                       LAMBDA v, r : Part("query", r)), Add)

parseCTEList(q, s) == IF CurIs(s, "WITH") THEN CTEList(q, nextToken(s)) ELSE Parsed(q, s)

\* The items, and the token they leave.
SelectClause(q, s) ==
    LET Items(v, r) == parseSelectItems([q EXCEPT !.distinct = CurIs(r, "DISTINCT")], SkipIf(r, "DISTINCT"))
    IN  Then(Then(Expect(s, "SELECT"), Items), LAMBDA p, r : Parsed(p, nextToken(r)))

ValueRows(s) ==
    Then(Then(Then(Expect(s, "("), LAMBDA v, r : ValueList(r)),
              LAMBDA vals, r : Then(Expect(r, ")"), LAMBDA v, r2 : Parsed(vals, r2))),
         LAMBDA vals, r : IF ~CurIs(r, ",") THEN Parsed(<<vals>>, r)
                          ELSE Then(ValueRows(nextToken(r)),
                                    LAMBDA rows, r2 : Parsed(<<vals>> \o rows, r2)))

\* (VALUES ...) [AS] alias [(columns)]
FromValuesClause(q, s) ==
    LET Named(p, r) ==
            IF ~CurIs(r, "(") THEN Parsed(p, r)
            ELSE Then(NameList(nextToken(r)),
                      LAMBDA names, r2 : Then(Expect(r2, ")"),
                          LAMBDA v, r3 : Parsed([p EXCEPT !.valuesCols = names], r3)))
        Rows_(vals, r) ==
            Then(Then(Expect(r, ")"), LAMBDA v, r2 : Expect(SkipIf(r2, "AS"), "ident")),
                 LAMBDA alias, r2 : Named([q EXCEPT !.values = vals, !.fromAlias = alias, !.alias = alias], r2))
    IN  Then(ValueRows(s), Rows_)

\* (SELECT ...) [AS] alias
FromSubquery(q, s) ==
    LET Named(sub, r) ==
            Then(Then(Expect(r, ")"), LAMBDA v, r2 : Expect(SkipIf(r2, "AS"), "ident")),
                 LAMBDA alias, r2 : Parsed([q EXCEPT !.sub = sub, !.fromAlias = alias, !.alias = alias], r2))
    IN  Then(Part("query", s), Named)

\* The name of a table may stand behind one other token.
FromTable(q, s) ==
    LET Named(table, r) ==
            Then(Alias(r), LAMBDA alias, r2 : Parsed([q EXCEPT !.table = table, !.alias = alias], r2))
    IN  Then(IF CurIs(s, "ident") THEN Expect(s, "ident") ELSE ExpectPeek(s, "ident"), Named)

FromClause(q, s) ==
    LET r == nextToken(s)
    IN  CASE ~CurIs(s, "FROM") -> Parsed(q, s)
          [] CurIs(s, "FROM") /\ ~CurIs(r, "(") -> FromTable(q, r)
          [] CurIs(s, "FROM") /\ CurIs(r, "(") /\ PeekIs(r, "VALUES") ->
                FromValuesClause(q, SubSeq(r, 3, Len(r)))
          [] OTHER -> FromSubquery(q, nextToken(r))

\* The type of a join, and what has to be JOIN.
JoinType(s) ==
    LET r == nextToken(s)
    IN  CASE CurIs(s, "JOIN") -> Parsed("INNER", s)
          [] CurIs(s, "LEFT") /\ CurIs(r, "SEMI") -> Parsed("SEMI", nextToken(r))
          [] Cur(s).t \in {"CROSS", "SEMI"} -> Parsed(Cur(s).t, r)
          [] OTHER -> Parsed(Cur(s).t, SkipIf(r, "OUTER"))

JoinOn(join, s) ==
    LET Left(col, r) ==
            Then(Then(Expect(r, "="), LAMBDA v, r2 : parseDottedIdentifier(r2)),
                 LAMBDA right, r2 : Parsed([join EXCEPT !.leftCol = col, !.rightCol = right], r2))
    IN  IF join.type = "CROSS" THEN Parsed(join, s)
        ELSE Then(Then(Expect(s, "ON"), LAMBDA v, r : parseDottedIdentifier(r)), Left)

Joins(q, s) ==
    LET Of(type, table, alias) ==
            [type |-> type, table |-> table, alias |-> alias, leftCol |-> NoCol, rightCol |-> NoCol]
        Table_(type, table, r) == Then(Alias(r), LAMBDA alias, r2 : JoinOn(Of(type, table, alias), r2))
        One(type, r) ==
            Then(Then(Expect(r, "JOIN"), LAMBDA v, r2 : Expect(r2, "ident")),
                 LAMBDA table, r2 : Table_(type, table, r2))
    IN  IF Cur(s).t \notin {"LEFT", "RIGHT", "FULL", "SEMI", "JOIN", "CROSS"} THEN Parsed(q, s)
        ELSE Then(Then(JoinType(s), One), LAMBDA join, r : Joins([q EXCEPT !.joins = Append(@, join)], r))

LateralViewList(q, s) ==
    LET from == nextToken(nextToken(s))
        outer == CurIs(from, "OUTER")
        fn == SkipIf(from, "OUTER")
        View(args, names) == [outer |-> outer, fn |-> Cur(fn).v, args |-> args, names |-> names]
        \* After the arguments: the name of the view, and those of its columns.
        Names(args, r) ==
            Then(Then(Expect(r, "ident"), LAMBDA v, r2 : NameList(SkipIf(r2, "AS"))),
                 LAMBDA names, r2 : LateralViewList([q EXCEPT !.views = Append(@, View(args, names))], r2))
        Arguments == Then(Part("arguments", SubSeq(fn, 3, Len(fn))),
                          LAMBDA args, r : Then(Expect(r, ")"), LAMBDA v, r2 : Names(args, r2)))
    IN  IF ~CurIs(s, "LATERAL") THEN Parsed(q, s)
        ELSE IF ~PeekIs(s, "VIEW") \/ Cur(fn).v \notin {"EXPLODE", "POSEXPLODE"} \/ ~PeekIs(fn, "(")
        THEN Unexpected(s) ELSE Arguments

WhereClause(q, s) ==
    IF ~CurIs(s, "WHERE") THEN Parsed(q, s)
    ELSE Then(Part("expression", nextToken(s)), LAMBDA e, r : Parsed([q EXCEPT !.where = e], r))

GroupClause(q, s) ==
    IF ~CurIs(s, "GROUP") THEN Parsed(q, s)
    ELSE Then(Then(ExpectPeek(s, "BY"), LAMBDA v, r : parseDottedList(r)),
              LAMBDA cols, r : Parsed([q EXCEPT !.groupBy = cols], r))

HavingClause(q, s) ==
    IF ~CurIs(s, "HAVING") THEN Parsed(q, s)
    ELSE Then(Part("expression", nextToken(s)), LAMBDA e, r : Parsed([q EXCEPT !.having = e], r))

\* The WINDOW clause, and the names of windows resolved by it.
WindowClause(q, s) ==
    LET Resolve(defs, r) ==
            IF \E w \in ToSet(q.windows) : w.ref # "" /\ ToLower(w.ref) \notin DOMAIN defs
            THEN Unexpected(r)
            ELSE Parsed([q EXCEPT !.windows =
                            MapRows(LAMBDA w : IF w.ref = "" THEN w ELSE Extending(w, defs[ToLower(w.ref)]), @)],
                        r)
    IN  Then(IF CurIs(s, "WINDOW") THEN NamedWindows(<< >>, nextToken(s)) ELSE Parsed(<< >>, s), Resolve)

OrderClause(q, s) ==
    IF ~CurIs(s, "ORDER") THEN Parsed(q, s)
    ELSE Then(Then(ExpectPeek(s, "BY"), LAMBDA v, r : parseOrderByList(r)),
              LAMBDA orders, r : Parsed([q EXCEPT !.orderBy = orders], r))

LimitClause(q, s) ==
    IF ~CurIs(s, "LIMIT") THEN Parsed(q, s)
    ELSE Then(Expect(nextToken(s), "number"), LAMBDA n, r : Parsed([q EXCEPT !.limit = Number(n)], r))

UnionClause(q, s) ==
    LET all == PeekIs(s, "ident") /\ Peek(s).v = "ALL"
    IN  IF ~CurIs(s, "UNION") THEN Parsed(q, s)
        ELSE Then(Part("query", IF all THEN SubSeq(s, 3, Len(s)) ELSE nextToken(s)),
                  LAMBDA u, r : Parsed([q EXCEPT !.union = u, !.unionAll = all], r))

QueryEnd(q, s) == IF Cur(s).t \in {";", "EOF", ")"} THEN Parsed(q, s) ELSE Unexpected(s)

\* The clauses, in the only order they may come in.
ParseSource(s) ==
    Then(Then(Then(Then(parseCTEList(EmptyQuery, s), SelectClause), FromClause), Joins), LateralViewList)

ParseGrouping(parsed) == Then(Then(Then(Then(parsed, WhereClause), GroupClause), HavingClause), WindowClause)

ParseEnd(parsed) == Then(Then(Then(Then(parsed, OrderClause), LimitClause), UnionClause), QueryEnd)

parseSelectQuery(s) == ParseEnd(ParseGrouping(ParseSource(s)))

Part(kind, s) ==
    CASE kind = "query" -> parseSelectQuery(s)
      [] kind = "expression" -> parseExpression(s)
      [] kind = "case" -> parseCaseExpr(s)
      [] kind = "arithmetic" -> ArithmeticFrom(s)
      [] kind = "arguments" -> parseFuncArgs(s)

\* parseStatement of a SELECT or an EXPLAIN, and Parse, which takes no
\* statement of a text if it cannot take them all: [err, val].
Parse(text) ==
    Then(Part("query", text),
         LAMBDA q, r : IF Cur(r).t \in {";", "EOF"} THEN Parsed(q, r) ELSE Unexpected(r))
===============================================================================
