-------------------------------- MODULE Engine --------------------------------
(***************************************************************************)
(* What the statements of a session compute, pkg/engine/engine.go and      *)
(* gsql.go.  A SELECT becomes a logical plan, which Optimizer rewrites and *)
(* Plans executes.                                                         *)
(*                                                                         *)
(* A query is parser.SelectQuery: ctes [name, query], columns (keys),      *)
(* exprs (parallel, or shorter), distinct, table, alias, sub (a query or   *)
(* Nil) with fromAlias, values with valuesCols, joins [table, alias,       *)
(* leftCol, rightCol, type], where, groupBy, having, orderBy, limit (-1 is *)
(* none), aggs, windows, aliases [alias, orig], union, unionAll, views     *)
(* [outer, fn, args, names].  The aggs hold every call of the SELECT list, *)
(* scalar ones included; arguments are expressions, and the col of a call  *)
(* spells the first one.                                                   *)
(*                                                                         *)
(* A statement's query is [text, meant]: the tokens the client sends, and, *)
(* for Meaning only, the query it has in mind.                             *)
(*                                                                         *)
(* The code ranges over maps where this module takes a sequence in order:  *)
(* column aliases (which matters only when an alias is the name of another *)
(* item) and the columns of an IN subquery's row (when it has several).    *)
(***************************************************************************)
EXTENDS Optimizer, Parser, Session

---------------------------------------------------------------------------
(* Catalog.                                                                *)

getColumnType(cat, name, col) ==
    LET columns == GetTable(cat, name).columns
        at == {i \in DOMAIN columns : columns[i].name = col}
    IN  IF ~HasTable(cat, name) \/ at = {} THEN ""
        ELSE columns[CHOOSE i \in at : \A j \in at : i <= j].type

columnExists(cat, ctes, col, name) ==
    \/ ToLower(name) \in DOMAIN ctes
    \/ HasTable(cat, name) /\ col \in ToSet(ColumnNames(GetTable(cat, name)))

---------------------------------------------------------------------------
(* Column keys.                                                            *)

\* "SUM(o.amount)" -> "SUM(amount)", DISTINCT kept.
normalizeFuncColumnKey(col) == IF IsCall(col) THEN <<col[1], "", NameOf(col)>> ELSE col

\* The right side of a join keeps its qualifier, everything else is bare.
projectColumnKey(col, q) ==
    IF IsCall(col) THEN normalizeFuncColumnKey(col)
    ELSE IF \E i \in DOMAIN q.joins : Qualifier(col) # "" /\ Qualifier(col) \in {q.joins[i].alias, q.joins[i].table}
    THEN col
    ELSE Col(NameOf(col))

windowKeySet(q) == {q.windows[i].key : i \in {j \in DOMAIN q.windows : q.windows[j].fn # ""}}

ProjectedKey(col, q) == IF col \in windowKeySet(q) THEN col ELSE projectColumnKey(col, q)

RECURSIVE stripExprAliasesWithMap(_, _)
stripExprAliasesWithMap(e, aliases) ==
    LET Resolve(col) ==
            LET c == stripTableAlias(col)
                at == {i \in DOMAIN aliases : aliases[i].alias = c}
            IN  IF at = {} THEN c ELSE aliases[CHOOSE i \in at : TRUE].orig
    IN  CASE e.k = "cmp" -> [e EXCEPT !.col = Resolve(@), !.right = Resolve(@)]
          [] e.k = "logic" -> [e EXCEPT !.left = stripExprAliasesWithMap(@, aliases),
                                        !.right = stripExprAliasesWithMap(@, aliases)]
          [] OTHER -> e

stripExprAliases(e) == stripExprAliasesWithMap(e, << >>)

---------------------------------------------------------------------------
(* The logical plan of a query whose subqueries are resolved.              *)

buildBaseRelation(q, ctes) ==
    LET name == IF (q.sub # Nil \/ q.values # << >>) /\ q.fromAlias # ""
                THEN q.fromAlias ELSE q.table
    IN  IF ToLower(name) \in DOMAIN ctes THEN LogicalCTEScan(name) ELSE LogicalScan(name)

\* Mutant: the columns of a reversed ON stay reversed.
JoinAsWritten(root, join, q, cat, ctes) ==
    [LogicalJoin(root,
                 IF ToLower(join.table) \in DOMAIN ctes THEN LogicalCTEScan(join.table)
                 ELSE LogicalScan(join.table),
                 stripTableAlias(join.leftCol), stripTableAlias(join.rightCol), join.type)
        EXCEPT !.leftPrefix = IF q.alias = "" THEN q.table ELSE q.alias,
               !.rightPrefix = IF join.alias = "" THEN join.table ELSE join.alias,
               !.norm = getColumnType(cat, q.table, stripTableAlias(join.leftCol))]

addJoin(root, join, q, cat, ctes) ==
    LET left == stripTableAlias(join.leftCol)
        right == stripTableAlias(join.rightCol)
        InRight(col) == columnExists(cat, ctes, col, join.table)
        InLeft(col) == columnExists(cat, ctes, col, q.table)
        reversed == InRight(left) /\ ~InLeft(left) /\ InLeft(right) /\ ~InRight(right)
        leftCol == IF reversed THEN right ELSE left
        rightCol == IF reversed THEN left ELSE right
        rightRoot == IF ToLower(join.table) \in DOMAIN ctes THEN LogicalCTEScan(join.table)
                     ELSE LogicalScan(join.table)
    IN  [LogicalJoin(root, rightRoot, leftCol, rightCol, join.type)
            EXCEPT !.leftPrefix = IF q.alias = "" THEN q.table ELSE q.alias,
                   !.rightPrefix = IF join.alias = "" THEN join.table ELSE join.alias,
                   !.norm = getColumnType(cat, q.table, leftCol)]

\* A function no builtin is named after counts as an aggregate.
IsAggregate(agg) == agg.fn # "" /\ agg.fn \notin ScalarFunctions
hasRealAggregates(aggs) == \E i \in DOMAIN aggs : IsAggregate(aggs[i])

StripAll(cols) == [i \in DOMAIN cols |-> stripTableAlias(cols[i])]
StripArgs(args) == StripAll(MapRows(ArgKey, args))

addFiltersAndGrouping(root, q) ==
    LET filtered == IF q.where = Nil THEN root
                    ELSE LogicalFilter(root, stripExprAliases(q.where))
        aggs == MapRows(LAMBDA a : [a EXCEPT !.col = stripTableAlias(@), !.args = StripArgs(@)],
                        SelectSeq(q.aggs, IsAggregate))
        grouped == IF q.groupBy # << >> \/ aggs # << >>
                   THEN LogicalAggregate(filtered, StripAll(q.groupBy), aggs) ELSE filtered
    IN  IF q.having = Nil THEN grouped
        ELSE LogicalFilter(grouped, stripExprAliasesWithMap(q.having, q.aliases))

\* Every selected column is grouped, an aggregate or a window.
validateGroupByColumns(q) ==
    LET valid == ToSet(StripAll(q.groupBy))
                 \cup {Call(q.aggs[i].fn, stripTableAlias(q.aggs[i].col)) : i \in DOMAIN q.aggs}
                 \cup windowKeySet(q) \cup {stripTableAlias(k) : k \in windowKeySet(q)}
    IN  \/ q.groupBy = << >>
        \/ q.columns = <<Star>>
        \/ \A i \in DOMAIN q.columns : stripTableAlias(q.columns[i]) \in valid

addWindowFunctions(root, q) ==
    LET Stripped(w) == [w EXCEPT !.args = StripArgs(@), !.partitionBy = StripAll(@),
                                 !.orderBy = MapRows(LAMBDA o : [o EXCEPT !.col = stripTableAlias(@)], @)]
        windows == SelectSeq(q.windows, LAMBDA w : w.fn # "")
    IN  IF windows = << >> THEN root ELSE LogicalWindow(root, MapRows(Stripped, windows))

\* The declared columns of the tables; partition columns are none of them.
expandStarColumns(q, cat) ==
    LET Of(name, prefix) ==
            IF ~HasTable(cat, name) THEN << >>
            ELSE MapRows(LAMBDA c : Qual(prefix, NameOf(c)), ColumnNames(GetTable(cat, name)))
        joined == FlattenSeq([i \in DOMAIN q.joins |->
                        Of(q.joins[i].table,
                           IF q.joins[i].alias = "" THEN q.joins[i].table ELSE q.joins[i].alias)])
        all == Of(q.table, q.alias) \o q.valuesCols \o joined
    IN  IF all = << >> THEN <<Star>> ELSE all

\* A scalar call, with all its arguments: the key keeps the first one only.
makeFuncCallExpr(col, q) ==
    LET inner == Qual(Qualifier(col), NameOf(col))
        of == {i \in DOMAIN q.aggs : q.aggs[i].fn = col[1] /\ q.aggs[i].col = inner}
    IN  IF col[1] \notin ScalarFunctions THEN Nil
        ELSE IF of # {} THEN FuncCall(col[1], q.aggs[CHOOSE i \in of : \A j \in of : i <= j].args)
        ELSE FuncCall(col[1], <<ColRef(inner)>>)

\* The items of SELECT, "*" expanded: [key, expr].
Items(q, cat) ==
    LET Item(i) ==
            LET col == q.columns[i]
            IN  IF stripTableAlias(col) = Star
                THEN MapRows(LAMBDA c : [key |-> projectColumnKey(c, q), expr |-> Nil],
                             expandStarColumns(q, cat))
                ELSE <<[key |-> ProjectedKey(col, q),
                        expr |-> IF i \in DOMAIN q.exprs /\ q.exprs[i] # Nil THEN q.exprs[i]
                                 ELSE makeFuncCallExpr(col, q)]>>
    IN  FlattenSeq([i \in DOMAIN q.columns |-> Item(i)])

\* DISTINCT groups by the output columns, below the projection.
addProjection(root, q, cat) ==
    LET Of(keys, exprs) ==
            LogicalProject(IF q.distinct THEN LogicalAggregate(root, keys, << >>) ELSE root, keys, exprs)
        Split(items) == Of(MapRows(LAMBDA it : it.key, items), MapRows(LAMBDA it : it.expr, items))
    IN  Split(Items(q, cat))

\* ORDER BY names an output column, an alias or an item.
SortKey(col, q) ==
    LET stripped == stripTableAlias(col)
        isOrig == {i \in DOMAIN q.aliases : q.aliases[i].alias = stripped}
        ref == IF isOrig = {} THEN stripped
               ELSE q.aliases[CHOOSE i \in isOrig : TRUE].orig
        items == {q.columns[i] : i \in DOMAIN q.columns} \ {c \in ToSet(q.columns) : stripTableAlias(c) = Star}
        AliasOf(c) == \E i \in DOMAIN q.aliases : q.aliases[i].alias = c /\ q.aliases[i].orig \in items
        OrigOf(c) == q.aliases[CHOOSE i \in DOMAIN q.aliases : q.aliases[i].alias = c].orig
        Key(c) == IF AliasOf(c) THEN ProjectedKey(OrigOf(c), q) ELSE ProjectedKey(c, q)
    IN  IF ref \in items \/ AliasOf(ref) THEN Key(ref)
        ELSE IF stripTableAlias(ref) \in items \/ AliasOf(stripTableAlias(ref))
        THEN Key(stripTableAlias(ref)) ELSE ref

addSortAndLimit(root, q) ==
    LET sorted == IF q.orderBy = << >> THEN root
                  ELSE LogicalSort(root, MapRows(LAMBDA o : [o EXCEPT !.col = SortKey(@, q)], q.orderBy))
    IN  IF q.limit >= 0 THEN LogicalLimit(sorted, q.limit) ELSE sorted

\* [err, node]
PlanOf(q, cat, ctes) ==
    LET joined == FoldLeft(LAMBDA root, j : addJoin(root, j, q, cat, ctes),
                           buildBaseRelation(q, ctes), q.joins)
        grouped == addFiltersAndGrouping(joined, q)
    IN  IF ~validateGroupByColumns(q) THEN [err |-> "column must appear in GROUP BY", node |-> Nil]
        ELSE [err |-> "",
              node |-> addSortAndLimit(addProjection(addWindowFunctions(grouped, q), q, cat), q)]

---------------------------------------------------------------------------
(* What happens to the rows of the plan.                                   *)

\* Every row gets the aliases of its columns, after the union.
RenameKey(row, from, to) ==
    IF from \notin DOMAIN row THEN row
    ELSE (to :> row[from]) @@ [k \in DOMAIN row \ {from} |-> row[k]]

ApplyAliases(row, aliases) ==
    FoldLeft(LAMBDA r, a : RenameKey(RenameKey(r, a.orig, a.alias),
                                     normalizeFuncColumnKey(a.orig), a.alias),
             row, aliases)

\* "o.amount" -> "amount" where no other column is named "amount".
Dequalified(row) ==
    LET free == {k \in DOMAIN row : /\ ~IsCall(k) /\ Qualifier(k) # "" /\ NameOf(k) # ""
                                    /\ Col(NameOf(k)) \notin DOMAIN row}
        NewKey(k) == IF k \in free THEN Col(NameOf(k)) ELSE k
    IN  [key \in {NewKey(k) : k \in DOMAIN row} |->
            row[CHOOSE k \in DOMAIN row : NewKey(k) = key]]

ValuesRows(q) ==
    LET Name(i) == IF i \in DOMAIN q.valuesCols /\ q.valuesCols[i] # NoCol THEN q.valuesCols[i]
                   ELSE Col("COL_" \o ToString(i - 1))
        RowOf(vals) == [c \in {Name(i) : i \in DOMAIN vals} |->
                            vals[CHOOSE i \in DOMAIN vals : Name(i) = c]]
    IN  MapRows(RowOf, q.values)

---------------------------------------------------------------------------
(* Queries.  A query runs with the CTE results of the queries around it in *)
(* one map, and leaves its own there: [err, rows, ctes].  Each step is an  *)
(* operator of what the step before it returned.                           *)

Answer(err, rows, ctes) == [err |-> err, rows |-> rows, ctes |-> ctes]

\* One name is the value; with two, the first is the position or the map key.
ViewOf(v) ==
    LET n == IF v.fn = "POSEXPLODE" /\ Len(v.names) >= 2 THEN "posexplode"
             ELSE IF v.fn = "EXPLODE" /\ Len(v.names) >= 2 THEN "map" ELSE "explode"
    IN  [col |-> stripTableAlias(ArgKey(v.args[1])), outer |-> v.outer, kind |-> n,
         alias |-> v.names[IF n = "explode" THEN 1 ELSE 2], pos |-> v.names[1]]

LateralViews(node, views) ==
    FoldLeft(LAMBDA n, v : [k |-> "explode", child |-> n, view |-> ViewOf(v)],
             node, SelectSeq(views, LAMBDA v : v.args # << >>))

RECURSIVE executeSelectWithCTEs(_, _, _, _), resolveExprSubqueries(_, _, _, _)

\* IN becomes a list of values; EXISTS a comparison of "1" or "0" with itself.
Substituted(e, answer) ==
    LET FirstOf(row) == row[CHOOSE k \in DOMAIN row : TRUE]
        notEmpty == (answer.rows # << >>) # e.not
    IN  [err |-> answer.err, ctes |-> answer.ctes,
         expr |-> IF e.k = "in" THEN InValues(e.col, e.not, MapRows(FirstOf, answer.rows))
                  ELSE Compare(NoCol, "=", IF notEmpty THEN "1" ELSE "0")]

\* [err, expr, ctes]
resolveExprSubqueries(e, cat, files, ctes) ==
    LET Both(l, r) ==
            IF l.err # "" THEN l
            ELSE [r EXCEPT !.expr = [e EXCEPT !.left = l.expr, !.right = r.expr]]
        Right(l) == Both(l, resolveExprSubqueries(e.right, cat, files, l.ctes))
    IN  CASE e.k \in {"in", "exists"} /\ e.query # Nil ->
                Substituted(e, executeSelectWithCTEs(e.query, cat, files, ctes))
          [] e.k \in {"logic", "bin"} -> Right(resolveExprSubqueries(e.left, cat, files, ctes))
          [] OTHER -> [err |-> "", expr |-> e, ctes |-> ctes]

\* WHERE and HAVING with the answers of their subqueries in place of them:
\* [err, query, ctes].
WithResolved(q, where, having) ==
    [err |-> IF where.err # "" THEN where.err ELSE having.err,
     query |-> [q EXCEPT !.where = where.expr, !.having = having.expr],
     ctes |-> having.ctes]

ResolveHaving(q, cat, files, where) ==
    WithResolved(q, where, resolveExprSubqueries(q.having, cat, files, where.ctes))

ResolveQuery(q, cat, files, ctes) ==
    ResolveHaving(q, cat, files, resolveExprSubqueries(q.where, cat, files, ctes))

\* The logical plan of a resolved query, and what the optimizer makes of it:
\* [err, logical, optimized, ctx].
NoPlan(err) == [err |-> err, logical |-> Nil, optimized |-> Nil, ctx |-> Nil]

OptimizePlan(plan, cat, ctes) ==
    IF plan.err # "" THEN NoPlan(plan.err)
    ELSE [err |-> "", logical |-> plan.node, optimized |-> OptimizeWithPruning(plan.node, cat),
          ctx |-> [catalog |-> cat, ctes |-> ctes]]

PlanResolved(resolved, cat) ==
    IF resolved.err # "" THEN NoPlan(resolved.err)
    ELSE OptimizePlan(PlanOf(resolved.query, cat, resolved.ctes), cat, resolved.ctes)

\* Run a physical plan, below the exploding of the lateral views.
RunPhysical(physical, q, files, ctes) ==
    LET Result(result) == Answer(result.err, result.rows, ctes)
    IN  IF physical.k = "error" THEN Answer(physical.err, << >>, ctes)
        ELSE Result(Execute(LateralViews(physical, q.views), files))

RunPlans(plans, q, files) ==
    IF plans.err # "" THEN Answer(plans.err, << >>, << >>)
    ELSE RunPhysical(LogicalToPhysical(plans.optimized, plans.ctx), q, files, plans.ctx.ctes)

\* The query itself, without the union: [err, rows, ctes].
RunQuery(q, cat, files, ctes) ==
    RunPlans(PlanResolved(ResolveQuery(q, cat, files, ctes), cat), q, files)

\* Rows without a name are dropped.
WithCTE(ctes, name, rows) == IF name = "" THEN ctes ELSE (ToLower(name) :> rows) @@ ctes

\* The CTEs, the FROM subquery and the FROM values, into the map.
AddPart(name, answer) ==
    IF answer.err # "" THEN answer ELSE Answer("", << >>, WithCTE(answer.ctes, name, answer.rows))

AddValues(q, named) ==
    IF named.err # "" \/ q.values = << >> THEN named
    ELSE Answer("", << >>, WithCTE(named.ctes, q.fromAlias, ValuesRows(q)))

FromParts(q, cat, files, ctes) ==
    LET parts == q.ctes \o (IF q.sub = Nil THEN << >> ELSE <<[name |-> q.fromAlias, query |-> q.sub]>>)
        One(acc, part) ==
            IF acc.err # "" THEN acc
            ELSE AddPart(part.name, executeSelectWithCTEs(part.query, cat, files, acc.ctes))
    IN  AddValues(q, FoldLeft(One, Answer("", << >>, ctes), parts))

\* The names of the answer: aliases, and bare names after a join.
Renamed(q, rows) ==
    LET Name(row) == IF q.joins = << >> THEN row ELSE Dequalified(row)
    IN  MapRows(LAMBDA r : Name(ApplyAliases(r, q.aliases)), rows)

\* What the union adds to the rows of the query itself.
Combined(q, own, right) ==
    IF right.err # "" THEN right
    ELSE Answer("", IF q.unionAll THEN own.rows \o right.rows ELSE dedupRows(own.rows \o right.rows),
                right.ctes)

AddUnion(q, cat, files, own) ==
    IF own.err # "" \/ q.union = Nil THEN own
    ELSE Combined(q, own, executeSelectWithCTEs(q.union, cat, files, own.ctes))

RunBody(q, cat, files, from) ==
    IF from.err # "" THEN from ELSE AddUnion(q, cat, files, RunQuery(q, cat, files, from.ctes))

NameAnswer(q, answer) ==
    IF answer.err # "" THEN answer ELSE Answer("", Renamed(q, answer.rows), answer.ctes)

executeSelectWithCTEs(q, cat, files, ctes) ==
    NameAnswer(q, RunBody(q, cat, files, FromParts(q, cat, files, ctes)))

executeSelect(q, cat, files) == executeSelectWithCTEs(q, cat, files, << >>)

\* What a text is parsed as, and the answer to it.
QueryTexts == {stmt.text : stmt \in Selects}
              \cup {ins.query.text : ins \in {ins \in Inserts : ins.query # Nil}}
QueryOf == [text \in QueryTexts |-> Parse(text)]

AnswerTo(parsed, cat, files) ==
    IF parsed.err # "" THEN Answer(parsed.err, << >>, << >>) ELSE executeSelect(parsed.val, cat, files)

---------------------------------------------------------------------------
(* INSERT.                                                                 *)

TargetCols(table) == ColumnNames(table) \o table.partitionBy

\* The DEFAULT of a target column, if it declares one.
ColumnDefault(table, col) ==
    LET at == {i \in DOMAIN table.columns : table.columns[i].name = col /\ table.columns[i].hasDefault}
    IN  IF at = {} THEN << >> ELSE <<table.columns[CHOOSE i \in at : TRUE].default>>

\* The key that holds the value of a SELECT item: its alias, its name, or the
\* bare name.
SourceKey(row, col, aliases) ==
    LET named == {i \in DOMAIN aliases : /\ col \in {aliases[i].orig, normalizeFuncColumnKey(aliases[i].orig)}
                                         /\ aliases[i].alias \in DOMAIN row}
    IN  IF named # {} THEN aliases[CHOOSE i \in named : TRUE].alias
        ELSE IF col \in DOMAIN row THEN col
        ELSE stripTableAlias(col)

\* By position: item i is the value of target column i.
Remapped(row, table, q) ==
    LET cols == TargetCols(table)
        Key(i) == SourceKey(row, q.columns[i], q.aliases)
        ValueOf(i) ==
            IF i <= Len(q.columns) /\ Key(i) \in DOMAIN row THEN <<row[Key(i)]>>
            ELSE IF ColumnDefault(table, cols[i]) # << >> THEN ColumnDefault(table, cols[i])
            ELSE IF i <= Len(q.columns) THEN <<NoText>>
            ELSE << >>
        written == {i \in DOMAIN cols : ValueOf(i) # << >>}
        LastOf(c) == CHOOSE i \in written : cols[i] = c /\ \A j \in written : cols[j] = c => j <= i
    IN  [c \in {cols[i] : i \in written} |-> ValueOf(LastOf(c))[1]]

\* SELECT *: by name.
WithDefaults(row, table) ==
    row @@ [c \in {c \in ToSet(ColumnNames(table)) : ColumnDefault(table, c) # << >>} |->
               ColumnDefault(table, c)[1]]

\* Each row of VALUES: no longer than the table, and what it lacks has a DEFAULT.
ValidValues(values, table) ==
    /\ values # << >>
    /\ \A i \in DOMAIN values :
          /\ Len(values[i]) <= Len(table.columns)
          /\ \A j \in Len(values[i]) + 1 .. Len(table.columns) : table.columns[j].hasDefault

ValuesRow(vals, table) ==
    [c \in ToSet(ColumnNames(table)) |->
        LET i == CHOOSE i \in DOMAIN table.columns :
                    /\ table.columns[i].name = c
                    /\ \A j \in i + 1 .. Len(table.columns) : table.columns[j].name # c
        IN  IF i <= Len(vals) THEN vals[i] ELSE table.columns[i].default]

\* An INSERT is [table, values, query, append]; query is Nil for VALUES.
InsertRows(ins, cat, files) ==
    LET table == GetTable(cat, ins.table)
        Selected(q, answer) ==
            IF answer.err # "" THEN Failed(answer.err)
            ELSE Rows(MapRows(LAMBDA r : IF q.columns = <<Star>> THEN WithDefaults(r, table)
                                         ELSE Remapped(r, table, q),
                              answer.rows))
        AnswerOf(parsed) == Selected(parsed.val, AnswerTo(parsed, cat, files))
    IN  IF ins.query = Nil
        THEN IF ValidValues(ins.values, table)
             THEN Rows(MapRows(LAMBDA v : ValuesRow(v, table), ins.values))
             ELSE Failed("column count mismatch")
        ELSE AnswerOf(QueryOf[ins.query.text])

---------------------------------------------------------------------------
(* EXPLAIN.                                                                *)

\* executeExplain runs the CTEs and the FROM subquery, but leaves VALUES out,
\* and plans the rest, without running it.
CheckPhysical(plans) ==
    LET Checked(physical) == IF physical.k = "error" THEN NoPlan(physical.err) ELSE plans
    IN  IF plans.err # "" THEN plans ELSE Checked(LogicalToPhysical(plans.optimized, plans.ctx))

ExplainFrom(q, cat, files, from) ==
    IF from.err # "" THEN NoPlan(from.err)
    ELSE CheckPhysical(PlanResolved(ResolveQuery(q, cat, files, from.ctes), cat))

Explained(q, cat, files) ==
    ExplainFrom(q, cat, files, FromParts([q EXCEPT !.values = << >>], cat, files, << >>))

ExplainText(parsed, cat, files) ==
    IF parsed.err # "" THEN NoPlan(parsed.err) ELSE Explained(parsed.val, cat, files)

---------------------------------------------------------------------------
(* The results of Session's statements.                                    *)

SelectRows(stmt, cat, files) == AnswerTo(QueryOf[stmt.text], cat, files)

ExplainPlans(stmt, cat, files) == ExplainText(QueryOf[stmt.text], cat, files)
===============================================================================
