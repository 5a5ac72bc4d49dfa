---------------------------------- MODULE Text ----------------------------------
(***************************************************************************)
(* How a client writes a query: the tokens of its text.  Arithmetic has    *)
(* the parentheses SQL needs and no more; AND and OR in one condition have *)
(* them always, because the parser gives neither the precedence.           *)
(***************************************************************************)
EXTENDS Parser

Words(ts) == [i \in DOMAIN ts |-> Token(ts[i])]
Number_(text) == [t |-> IF IsNumber(text) THEN "number" ELSE "string", v |-> text]

InParens(text) == Words(<<"(">>) \o text \o Words(<<")">>)
Optional(present, text) == IF present THEN text ELSE << >>

Commas(texts) ==
    FlattenSeq([i \in DOMAIN texts |-> IF i = 1 THEN texts[i] ELSE Words(<<",">>) \o texts[i]])

NameText(col) ==
    IF col = Star THEN Words(<<"*">>)
    ELSE IF Qualifier(col) = "" THEN <<Ident(NameOf(col))>>
    ELSE <<Ident(Qualifier(col)), Token("."), Ident(NameOf(col))>>

NameTexts(cols) == Commas(MapRows(NameText, cols))

OrderText(order) == NameText(order.col) \o Optional(order.desc, <<Ident("DESC")>>)

OrderTexts(orders) == Commas(MapRows(OrderText, orders))

---------------------------------------------------------------------------
RECURSIVE ValueText(_), ConditionText(_), QueryText(_, _)

Tightness(op) == IF op \in {"*", "/"} THEN 2 ELSE 1

CallText(fn, distinct, args) ==
    <<Ident(fn)>> \o InParens(Optional(distinct, Words(<<"DISTINCT">>)) \o Commas(MapRows(ValueText, args)))

ValueText(e) ==
    LET Side(side, tight) == IF side.k = "bin" /\ Tightness(side.op) < tight
                             THEN InParens(ValueText(side)) ELSE ValueText(side)
        Branch(b) == Words(<<"WHEN">>) \o ConditionText(b.cond) \o Words(<<"THEN">>) \o ValueText(b.result)
    IN  CASE e.k = "col" -> NameText(e.name)
          [] e.k = "lit" -> <<Number_(e.value)>>
          [] e.k = "bin" -> Side(e.left, Tightness(e.op)) \o Words(<<e.op>>)
                            \o Side(e.right, Tightness(e.op) + 1)
          [] e.k = "call" /\ e.fn = "CAST" ->
                Words(<<"CAST", "(">>) \o ValueText(e.args[1]) \o <<Token("AS"), Ident(e.args[2].value), Token(")")>>
          [] e.k = "call" /\ e.fn # "CAST" -> CallText(e.fn, FALSE, e.args)
          [] e.k = "case" ->
                Words(<<"CASE">>) \o FlattenSeq(MapRows(Branch, e.branches))
                \o Optional(e.else # Nil, Words(<<"ELSE">>) \o ValueText(e.else)) \o Words(<<"END">>)
          [] OTHER -> << >>

\* A condition on an aggregate has the call for a column.
ConditionText(e) ==
    LET Left == IF e.expr # Nil THEN ValueText(e.expr)
                ELSE IF IsCall(e.col) THEN CallText(e.col[1], FALSE, <<ColRef(Qual(e.col[2], e.col[3]))>>)
                ELSE NameText(e.col)
        Right == IF e.right # NoCol THEN NameText(e.right) ELSE <<Number_(e.value)>>
        Side(side, parens) == IF parens THEN InParens(ConditionText(side)) ELSE ConditionText(side)
        Not == Optional(e.not, Words(<<"NOT">>))
        List == IF e.query = Nil THEN Commas(MapRows(LAMBDA v : <<Number_(v)>>, e.values))
                ELSE QueryText(e.query, FALSE)
    IN  CASE e.k = "cmp" -> Left \o Words(<<e.op>>) \o Right
          [] e.k = "logic" ->
                Side(e.left, e.left.k = "logic" /\ e.left.op # e.op) \o Words(<<e.op>>)
                \o Side(e.right, e.right.k = "logic")
          [] e.k = "null" -> NameText(e.col) \o Words(IF e.isNull THEN <<"IS", "NULL">> ELSE <<"IS", "NOT", "NULL">>)
          [] e.k = "in" -> NameText(e.col) \o Not \o Words(<<"IN">>) \o InParens(List)
          [] e.k = "exists" -> Not \o Words(<<"EXISTS">>) \o InParens(QueryText(e.query, FALSE))
          [] e.k = "call" -> ValueText(e)

---------------------------------------------------------------------------
(* Windows, written out, or as what they add to a named one.               *)

BoundText(bound) ==
    CASE bound.bound = "CURRENT ROW" -> <<Token("CURRENT"), Ident("ROW")>>
      [] bound.bound \in {"PRECEDING", "FOLLOWING"} -> <<Number_(ToString(bound.n)), Token(bound.bound)>>
      [] bound.bound = "UNBOUNDED PRECEDING" -> Words(<<"UNBOUNDED", "PRECEDING">>)
      [] bound.bound = "UNBOUNDED FOLLOWING" -> Words(<<"UNBOUNDED", "FOLLOWING">>)

FrameText(frame) ==
    Optional(frame # Nil, Words(<<frame.type, "BETWEEN">>) \o BoundText(frame.start)
                          \o Words(<<"AND">>) \o BoundText(frame.end))

PartitionText(cols) == Optional(cols # << >>, Words(<<"PARTITION", "BY">>) \o NameTexts(cols))
WindowOrderText(orders) == Optional(orders # << >>, Words(<<"ORDER", "BY">>) \o OrderTexts(orders))

\* base: the window the name "v" stands for, or Nil.
WindowText(w, base) ==
    LET Spec == IF base = Nil
                THEN InParens(PartitionText(w.partitionBy) \o WindowOrderText(w.orderBy) \o FrameText(w.frame))
                ELSE IF w.orderBy = base.orderBy /\ w.frame = base.frame THEN <<Ident("v")>>
                ELSE InParens(<<Ident("v")>> \o WindowOrderText(w.orderBy) \o FrameText(w.frame))
    IN  CallText(w.fn, FALSE, w.args) \o Words(<<"OVER">>) \o Spec

\* w has the partition of the base, and v extends w.
WindowClauseText(base) ==
    <<Token("WINDOW"), Ident("w"), Token("AS")>> \o InParens(PartitionText(base.partitionBy))
    \o <<Token(","), Ident("v"), Token("AS")>>
    \o InParens(<<Ident("w")>> \o WindowOrderText(base.orderBy) \o FrameText(base.frame))

---------------------------------------------------------------------------
KeyOf(agg) == IF agg.distinct THEN DistinctCall(agg.fn, agg.col) ELSE Call(agg.fn, agg.col)

ItemText(q, i, base) ==
    LET col == q.columns[i]
        window == {k \in DOMAIN q.windows : q.windows[k].key = col}
        agg == {k \in DOMAIN q.aggs : KeyOf(q.aggs[k]) = col}
        alias == {k \in DOMAIN q.aliases : q.aliases[k].orig = col}
        Of(a) == CallText(a.fn, a.distinct, a.args)
        Item == IF window # {} THEN WindowText(q.windows[CHOOSE k \in window : TRUE], base)
                ELSE IF i \in DOMAIN q.exprs /\ q.exprs[i] # Nil THEN ValueText(q.exprs[i])
                ELSE IF agg # {} THEN Of(q.aggs[CHOOSE k \in agg : TRUE])
                ELSE NameText(col)
    IN  Item \o Optional(alias # {},
                         <<Token("AS"), Ident(NameOf(q.aliases[CHOOSE k \in alias : TRUE].alias))>>)

JoinText(join) ==
    LET Type == CASE join.type = "INNER" -> <<"JOIN">>
                  [] join.type = "SEMI" -> <<"LEFT", "SEMI", "JOIN">>
                  [] join.type = "FULL" -> <<"FULL", "OUTER", "JOIN">>
                  [] OTHER -> <<join.type, "JOIN">>
    IN  Words(Type) \o <<Ident(join.table)>> \o Optional(join.alias # "", <<Ident(join.alias)>>)
        \o Optional(join.type # "CROSS",
                    Words(<<"ON">>) \o NameText(join.leftCol) \o Words(<<"=">>) \o NameText(join.rightCol))

ViewText(view) ==
    Words(<<"LATERAL", "VIEW">>) \o Optional(view.outer, Words(<<"OUTER">>))
    \o CallText(view.fn, FALSE, view.args) \o <<Ident("t"), Token("AS")>> \o NameTexts(view.names)

FromText(q) ==
    LET Rows_ == Commas(MapRows(LAMBDA vals : InParens(Commas(MapRows(LAMBDA v : <<Number_(v)>>, vals))), q.values))
    IN  CASE q.sub # Nil -> InParens(QueryText(q.sub, FALSE)) \o <<Ident(q.fromAlias)>>
          [] q.values # << >> -> InParens(Words(<<"VALUES">>) \o Rows_) \o <<Ident(q.fromAlias)>>
                                 \o InParens(NameTexts(q.valuesCols))
          [] OTHER -> <<Ident(q.table)>> \o Optional(q.alias # "", <<Ident(q.alias)>>)

QueryText(q, named) ==
    LET Cte(cte) == <<Ident(cte.name), Token("AS")>> \o InParens(QueryText(cte.query, FALSE))
        base == IF named THEN q.windows[1] ELSE Nil
    IN  Optional(q.ctes # << >>, Words(<<"WITH">>) \o Commas(MapRows(Cte, q.ctes)))
        \o Words(<<"SELECT">>) \o Optional(q.distinct, Words(<<"DISTINCT">>))
        \o Commas([i \in DOMAIN q.columns |-> ItemText(q, i, base)])
        \o Words(<<"FROM">>) \o FromText(q)
        \o FlattenSeq(MapRows(JoinText, q.joins)) \o FlattenSeq(MapRows(ViewText, q.views))
        \o Optional(q.where # Nil, Words(<<"WHERE">>) \o ConditionText(q.where))
        \o Optional(q.groupBy # << >>, Words(<<"GROUP", "BY">>) \o NameTexts(q.groupBy))
        \o Optional(q.having # Nil, Words(<<"HAVING">>) \o ConditionText(q.having))
        \o Optional(named, WindowClauseText(base))
        \o Optional(q.orderBy # << >>, Words(<<"ORDER", "BY">>) \o OrderTexts(q.orderBy))
        \o Optional(q.limit >= 0, Words(<<"LIMIT">>) \o <<Number_(ToString(q.limit))>>)
        \o Optional(q.union # Nil, Words(<<"UNION">>) \o Optional(q.unionAll, <<Ident("ALL")>>)
                                   \o QueryText(q.union, FALSE))

\* A statement: what it says, and what it means.
Said(q) == [text |-> QueryText(q, FALSE), meant |-> q]
SaidWithNames(q) == [text |-> QueryText(q, TRUE), meant |-> q]
=================================================================================
