-------------------------------- MODULE Meaning --------------------------------
(***************************************************************************)
(* What a statement means, said without plans or column keys, and the      *)
(* properties that compare the answers of Engine with it.                  *)
(*                                                                         *)
(* A scope is what a column name can refer to: a sequence of <<alias,      *)
(* row>>, one for each table of FROM, a row mapping names to values.  The  *)
(* meaning of a query is a sequence of tuples, one value for each item of  *)
(* SELECT; the rows of a table are in the order they are stored in.        *)
(***************************************************************************)
EXTENDS Engine

SelectKeys(q) == IF q.columns = <<Star>> /\ q.joins = << >> /\ ToLower(q.table) \in DOMAIN catalog
                 THEN ColumnNames(GetTable(catalog, q.table)) ELSE q.columns

First(set) == CHOOSE i \in set : \A j \in set : i <= j

\* The value of a column: of the table it names, or of the first that has it.
ValueIn(scope, col) ==
    LET at == {i \in DOMAIN scope : /\ NameOf(col) \in DOMAIN scope[i][2]
                                    /\ Qualifier(col) \in {"", scope[i][1]}}
    IN  IF at = {} THEN NoText ELSE scope[First(at)][2][NameOf(col)]

---------------------------------------------------------------------------
(* FROM.                                                                   *)

Named(row) == [name \in {NameOf(c) : c \in DOMAIN row} |-> row[Col(name)]]

TableRows(table) ==
    LET files == store[ToLower(table.name)]
        paths == SortSeq(SetToSeq(DOMAIN files), PathBefore)
        FromPath(path) == [name \in {NameOf(c) : c \in ToSet(table.partitionBy)} |->
                              path[First({i \in DOMAIN path : table.partitionBy[i] = Col(name)})][2]]
        RowsAt(path) == MapRows(LAMBDA r : FromPath(path) @@ Named(r), files[path])
    IN  FlattenSeq([i \in DOMAIN paths |-> RowsAt(paths[i])])

\* What stands for a row of a table in an outer join.
DefaultRow(table) ==
    [name \in {NameOf(c) : c \in ToSet(ColumnNames(table))} |->
        LET def == table.columns[First({i \in DOMAIN table.columns : table.columns[i].name = Col(name)})]
        IN  IF def.hasDefault THEN def.default ELSE DefaultValueForType(def.type)]

SourceRows(name, ctes) ==
    IF ToLower(name) \in DOMAIN ctes THEN ctes[ToLower(name)]
    ELSE TableRows(GetTable(catalog, name))

SourceDefaults(name, ctes) ==
    IF ToLower(name) \in DOMAIN ctes THEN << >> ELSE DefaultRow(GetTable(catalog, name))

QualifierOf(alias, name) == IF alias = "" THEN name ELSE alias

\* Numbers join by value.
SameKey(a, b) == IF IsNumber(a) /\ IsNumber(b) THEN Number(a) = Number(b) ELSE a = b

OnHolds(join, scope) ==
    join.type = "CROSS" \/ SameKey(ValueIn(scope, join.leftCol), ValueIn(scope, join.rightCol))

\* right: the scope's new source; none: what stands for a row of each.
JoinedScopes(left, right, join, none) ==
    LET Pairs(l) == SelectSeq(MapRows(LAMBDA r : Append(l, r), right), LAMBDA s : OnHolds(join, s))
        Or(l, pairs) ==
            CASE pairs # << >> -> IF join.type = "SEMI" THEN <<l>> ELSE pairs
              [] pairs = << >> /\ join.type \in {"LEFT", "FULL"} -> <<Append(l, none[Len(none)])>>
              [] OTHER -> << >>
        Alone(r) == \A i \in DOMAIN left : ~OnHolds(join, Append(left[i], r))
        Rest == IF join.type \in {"RIGHT", "FULL"} THEN SelectSeq(right, Alone) ELSE << >>
    IN  FlattenSeq(MapRows(LAMBDA l : Or(l, Pairs(l)), left))
        \o MapRows(LAMBDA r : Append(Front(none), r), Rest)

\* A source as scopes of one row, and what stands for a row of it.
Source(alias, name, ctes) ==
    [rows |-> MapRows(LAMBDA r : <<QualifierOf(alias, name), r>>, SourceRows(name, ctes)),
     none |-> <<QualifierOf(alias, name), SourceDefaults(name, ctes)>>]

JoinSource(acc, join, source) ==
    [scopes |-> JoinedScopes(acc.scopes, source.rows, join, Append(acc.none, source.none)),
     none |-> Append(acc.none, source.none)]

\* The parts of a list; a text that is none is its only part.
PartsOf(text, outer) ==
    CASE text = NoText -> IF outer THEN <<NoText>> ELSE << >>
      [] text \in DOMAIN Elements -> Elements[text]
      [] OTHER -> <<text>>

FirstSource(source) == [scopes |-> MapRows(LAMBDA r : <<r>>, source.rows), none |-> <<source.none>>]

FromScopes(q, ctes) ==
    LET base == IF q.fromAlias = "" THEN q.table ELSE q.fromAlias
        Join(acc, join) == JoinSource(acc, join, Source(join.alias, join.table, ctes))
        Expand(scopes, view) ==
            FlattenSeq(MapRows(LAMBDA s : MapRows(LAMBDA p : Append(s, <<"view", NameOf(view.names[1]) :> p>>),
                                                  PartsOf(ValueIn(s, view.args[1].name), view.outer)),
                               scopes))
    IN  IF base = "" THEN << << >> >>
        ELSE FoldLeft(Expand,
                      FoldLeft(Join, FirstSource(Source(q.alias, base, ctes)), q.joins).scopes,
                      q.views)

---------------------------------------------------------------------------
(* Values, predicates, groups and windows.                                 *)

RECURSIVE Meaning(_, _), Holds(_, _, _), ValueOf(_, _, _)

\* The value of an expression.
ValueOf(scope, e, ctes) ==
    LET Branch(holding) == IF holding = {} THEN ValueOf(scope, e.else, ctes)
                           ELSE ValueOf(scope, e.branches[First(holding)].result, ctes)
    IN  CASE e.k = "col" -> ValueIn(scope, e.name)
          [] e.k = "lit" -> e.value
          [] e.k = "bin" -> Operated(e.op, ValueOf(scope, e.left, ctes), ValueOf(scope, e.right, ctes))
          [] e.k = "call" -> ScalarFn(e.fn, [i \in DOMAIN e.args |-> ValueOf(scope, e.args[i], ctes)])
          [] e.k = "case" -> Branch({i \in DOMAIN e.branches : Holds(scope, e.branches[i].cond, ctes)})
          [] OTHER -> NoText

Holds(scope, e, ctes) ==
    LET Between(a, b) == CASE e.op = "=" -> a = b
                           [] e.op = "!=" -> a # b
                           [] OTHER -> compareValues(a, b, e.op)
        Firsts(tuples) == {t[1] : t \in ToSet(tuples)}
    IN  CASE e.k = "cmp" ->
                Between(IF e.expr # Nil THEN ValueOf(scope, e.expr, ctes) ELSE ValueIn(scope, e.col),
                        IF e.right # NoCol THEN ValueIn(scope, e.right) ELSE e.value)
          [] e.k = "logic" ->
                IF e.op = "AND" THEN Holds(scope, e.left, ctes) /\ Holds(scope, e.right, ctes)
                ELSE Holds(scope, e.left, ctes) \/ Holds(scope, e.right, ctes)
          [] e.k = "null" -> e.isNull = (ValueIn(scope, e.col) = NoText)
          [] e.k = "in" ->
                (ValueIn(scope, e.col) \in (IF e.query = Nil THEN ToSet(e.values)
                                            ELSE Firsts(Meaning(e.query, ctes)))) # e.not
          [] e.k = "exists" -> Meaning(e.query, ctes) # << >>

\* An aggregate over the values of a column; NULL is no value.
Aggregated(scopes, fn, col, distinct) ==
    LET texts == [i \in DOMAIN scopes |-> ValueIn(scopes[i], col)]
        set == ToSet(texts) \ {NoText}
        numeric == {i \in DOMAIN texts : IsNumber(texts[i])}
        sum == FoldLeft(LAMBDA n, i : n + Number(texts[i]), 0, SetToSeq(numeric))
        Beaten(a, b) == IF fn = "MIN" THEN Less(b, a) ELSE Less(a, b)
    IN  CASE fn = "COUNT" -> ToString(IF distinct THEN Cardinality(set) ELSE Len(scopes))
          [] fn = "SUM" -> ToString(sum)
          [] fn = "AVG" -> IF numeric = {} THEN "0" ELSE Quotient(sum, Cardinality(numeric))
          [] fn \in {"MIN", "MAX"} ->
                IF set = {} THEN NoText ELSE CHOOSE a \in set : \A b \in set : ~Beaten(a, b)

KeysPrecede(a, b, orderBy) ==
    \E k \in DOMAIN orderBy :
        /\ \A n \in 1 .. k - 1 : a[n] = b[n]
        /\ IF orderBy[k].desc THEN Less(b[k], a[k]) ELSE Less(a[k], b[k])

\* The places of a partition's scopes in the order of their keys.
PlacesIn(part, keys, orderBy) ==
    LET Precedes(n, j) == KeysPrecede(keys[n], keys[j], orderBy)
    IN  [j \in part |-> Cardinality({n \in part : Precedes(n, j) \/ (~Precedes(j, n) /\ n <= j)})]

\* The places from which the value of place n of count is computed: those no
\* further before n and no further behind it than a frame of ROWS says.
FramePlaces(frame, count, n) ==
    LET Within(p, bound, sign) ==
            \/ bound.bound \in {"UNBOUNDED PRECEDING", "UNBOUNDED FOLLOWING"}
            \/ sign * (p - n) <= (CASE bound.bound = "CURRENT ROW" -> 0
                                    [] bound.bound = "PRECEDING" -> -sign * bound.n
                                    [] bound.bound = "FOLLOWING" -> sign * bound.n)
    IN  {p \in 1 .. count : frame # Nil => Within(p, frame.start, -1) /\ Within(p, frame.end, 1)}

PlacedValue(scopes, i, w, keys, place) ==
    LET part == DOMAIN place
        before == {j \in part : KeysPrecede(keys[j], keys[i], w.orderBy)}
        At(places) == {j \in part : place[j] \in places}
        Sum(members) == Aggregated(MapRows(LAMBDA j : scopes[j], SetToSeq(members)), "SUM", w.args[1].name, FALSE)
    IN  CASE w.fn = "ROW_NUMBER" -> ToString(place[i])
          [] w.fn = "RANK" -> ToString(1 + Cardinality(before))
          [] w.fn = "DENSE_RANK" -> ToString(1 + Cardinality({keys[j] : j \in before}))
          [] w.fn = "LAG" -> IF place[i] = 1 THEN NoText
                             ELSE ValueIn(scopes[CHOOSE j \in At({place[i] - 1}) : TRUE], w.args[1].name)
          [] w.fn = "SUM" -> Sum(At(FramePlaces(w.frame, Cardinality(part), place[i])))

\* The value of scope i of a window: over the scopes that share its PARTITION BY.
Windowed(scopes, i, w) ==
    LET KeyOf(j) == [k \in DOMAIN w.orderBy |-> ValueIn(scopes[j], w.orderBy[k].col)]
        PartOf(j) == [k \in DOMAIN w.partitionBy |-> ValueIn(scopes[j], w.partitionBy[k])]
        Value(keys, part) == PlacedValue(scopes, i, w, keys, PlacesIn(part, keys, w.orderBy))
    IN  Value([j \in DOMAIN scopes |-> KeyOf(j)], {j \in DOMAIN scopes : PartOf(j) = PartOf(i)})

\* The item of SELECT as an aggregate, if it is one.
AggOf(q, key) == {i \in DOMAIN q.aggs : IsAggregate(q.aggs[i]) /\ AggregateKey(q.aggs[i]) = key}
IsGrouped(q) == q.groupBy # << >> \/ hasRealAggregates(q.aggs)

ItemOf(q, key, scopes) ==
    LET agg == q.aggs[First(AggOf(q, key))]
    IN  IF AggOf(q, key) # {} THEN Aggregated(scopes, agg.fn, agg.col, agg.distinct)
        ELSE ValueIn(scopes[1], key)

\* HAVING of a group; it may name an item by its alias.
HavingHolds(q, g) ==
    LET Orig(col) == LET at == {i \in DOMAIN q.aliases : q.aliases[i].alias = col}
                     IN  IF at = {} THEN col ELSE q.aliases[First(at)].orig
    IN  q.having = Nil
        \/ Holds(<< <<"", NameOf(q.having.col) :> ItemOf(q, Orig(q.having.col), g)>> >>,
                 [q.having EXCEPT !.col = Col(NameOf(@))], << >>)

\* The groups that HAVING keeps.
Groups(q, scopes) ==
    LET Key(s) == [k \in DOMAIN q.groupBy |-> ValueIn(s, q.groupBy[k])]
        keys == SetToSeq({Key(s) : s \in ToSet(scopes)})
        GroupOf(key) == SelectSeq(scopes, LAMBDA s : Key(s) = key)
    IN  SelectSeq(MapRows(GroupOf, keys), LAMBDA g : HavingHolds(q, g))

\* The rows of a named query, by the names of its items.
NamedRows(q, tuples) ==
    LET Name(i) == LET at == {k \in DOMAIN q.aliases : q.aliases[k].orig = SelectKeys(q)[i]}
                   IN  IF at = {} THEN NameOf(SelectKeys(q)[i]) ELSE NameOf(q.aliases[First(at)].alias)
        names == {Name(i) : i \in DOMAIN SelectKeys(q)}
    IN  MapRows(LAMBDA t : [n \in names |-> t[First({i \in DOMAIN t : Name(i) = n})]], tuples)

ValuesNamed(q) ==
    MapRows(LAMBDA vals : [n \in {NameOf(q.valuesCols[i]) : i \in DOMAIN vals} |->
                              vals[First({i \in DOMAIN vals : NameOf(q.valuesCols[i]) = n})]],
            q.values)

\* The items of SELECT for every scope, or for every group of them.
Selected(q, scopes, ctes) ==
    LET keys == SelectKeys(q)
        ExprOf(i) == IF i \in DOMAIN q.exprs /\ q.exprs[i] # Nil THEN q.exprs[i]
                     ELSE makeFuncCallExpr(keys[i], q)
        WindowOf(key) == {k \in DOMAIN q.windows : q.windows[k].key = key}
        Plain(scope, key, e) == IF e # Nil THEN ValueOf(scope, e, ctes) ELSE ValueIn(scope, key)
        Cell(n, i) == IF WindowOf(keys[i]) # {}
                      THEN Windowed(scopes, n, q.windows[First(WindowOf(keys[i]))])
                      ELSE Plain(scopes[n], keys[i], ExprOf(i))
    IN  IF IsGrouped(q)
        THEN MapRows(LAMBDA g : [i \in DOMAIN keys |-> ItemOf(q, keys[i], g)], Groups(q, scopes))
        ELSE [n \in DOMAIN scopes |-> [i \in DOMAIN keys |-> Cell(n, i)]]

\* The named queries a query may use.
NamedQueries(q, outer) ==
    LET parts == q.ctes \o (IF q.sub = Nil THEN << >> ELSE <<[name |-> q.fromAlias, query |-> q.sub]>>)
        all == FoldLeft(LAMBDA c, p : (ToLower(p.name) :> NamedRows(p.query, Meaning(p.query, c))) @@ c,
                        outer, parts)
    IN  IF q.values = << >> THEN all ELSE (ToLower(q.fromAlias) :> ValuesNamed(q)) @@ all

Kept(q, scopes, ctes) == SelectSeq(scopes, LAMBDA s : q.where = Nil \/ Holds(s, q.where, ctes))

Body(q, ctes) == Selected(q, Kept(q, FromScopes(q, ctes), ctes), ctes)

AndUnion(q, own, ctes) ==
    LET Both(others) == IF q.unionAll THEN own \o others ELSE dedupRows(own \o others)
    IN  IF q.union = Nil THEN own ELSE Both(Meaning(q.union, ctes))

DistinctOf(q, own) == IF q.distinct THEN dedupRows(own) ELSE own

MeaningIn(q, ctes) == AndUnion(q, DistinctOf(q, Body(q, ctes)), ctes)

\* Without ORDER BY and LIMIT.
Meaning(q, outer) == MeaningIn(q, NamedQueries(q, outer))

---------------------------------------------------------------------------
(* An answer has the items of SELECT, in any order of its keys.            *)

\* The key of an item: its alias, or its name as written, or the bare name.
AnswerKey(row, q, i) ==
    LET key == SelectKeys(q)[i]
        named == {k \in DOMAIN q.aliases : q.aliases[k].orig = key /\ q.aliases[k].alias \in DOMAIN row}
    IN  IF named # {} THEN q.aliases[First(named)].alias
        ELSE IF key \in DOMAIN row THEN key
        ELSE stripTableAlias(key)

Tuples(rows, q) ==
    MapRows(LAMBDA r : [i \in DOMAIN SelectKeys(q) |-> Get(r, AnswerKey(r, q, i))], rows)

\* The items ORDER BY names, and their order.
ItemOrder(q) ==
    LET At(col) == First({i \in DOMAIN q.columns :
                            \/ q.columns[i] = col
                            \/ \E k \in DOMAIN q.aliases : /\ q.aliases[k].orig = q.columns[i]
                                                           /\ q.aliases[k].alias = col})
    IN  MapRows(LAMBDA o : [at |-> At(o.col), desc |-> o.desc], q.orderBy)

TupleBefore(a, b, order) ==
    \E k \in DOMAIN order :
        LET Cmp(n) == compareNumeric(a[order[n].at], b[order[n].at])
        IN  /\ \A n \in 1 .. k - 1 : Cmp(n) = 0
            /\ Cmp(k) = IF order[k].desc THEN 1 ELSE -1

\* The first count of the wanted rows, as often as they occur, in their order.
RightRows(got, want, order, count) ==
    LET Keys(tuples) == MapRows(LAMBDA t : [k \in DOMAIN order |-> t[order[k].at]], tuples)
        Sorted(tuples) == SortSeq(tuples, LAMBDA a, b : TupleBefore(a, b, order))
        Times(tuples, t) == Cardinality({i \in DOMAIN tuples : tuples[i] = t})
    IN  /\ Len(got) = count
        /\ order # << >> => Keys(got) = Keys(SubSeq(Sorted(want), 1, count))
        /\ \A t \in ToSet(got) : Times(got, t) <= Times(want, t)

AnswersWith(rows, q, want) ==
    RightRows(Tuples(rows, q), want, ItemOrder(q),
              IF q.limit >= 0 /\ q.limit < Len(want) THEN q.limit ELSE Len(want))

Answers(rows, q) == AnswersWith(rows, q, Meaning(q, << >>))

---------------------------------------------------------------------------
(* Queries that have an answer: every table they name has files, every      *)
(* item of a grouped one is grouped or an aggregate, and a query in FROM    *)
(* or WITH has a row: of one without any the engine knows no columns.       *)

RECURSIVE HasAnswer(_, _), QueriesIn(_)

QueriesIn(e) ==
    CASE e.k = "logic" -> QueriesIn(e.left) \o QueriesIn(e.right)
      [] e.k \in {"in", "exists"} /\ e.query # Nil -> <<e.query>>
      [] OTHER -> << >>

ItemsAreGrouped(q) ==
    \A i \in DOMAIN q.columns :
        q.groupBy # << >> => q.columns[i] \in ToSet(q.groupBy) \/ AggOf(q, q.columns[i]) # {}

HasAnswer(q, outer) ==
    LET ctes == NamedQueries(q, outer)
        tables == (IF q.fromAlias = "" THEN {q.table} ELSE {}) \cup {q.joins[i].table : i \in DOMAIN q.joins}
        parts == MapRows(LAMBDA c : c.query, q.ctes) \o (IF q.sub = Nil THEN << >> ELSE <<q.sub>>)
        others == parts \o QueriesIn(q.where) \o (IF q.union = Nil THEN << >> ELSE <<q.union>>)
        names == {ToLower(q.ctes[i].name) : i \in DOMAIN q.ctes}
        stored == {name \in DOMAIN store : store[name] # << >>}
    IN  /\ \A i \in DOMAIN others : HasAnswer(others[i], outer)
        /\ \A table \in tables : ToLower(table) \in names \cup stored
        /\ \A i \in DOMAIN parts : Meaning(parts[i], outer) # << >>
        /\ ItemsAreGrouped(q)

\* The last query has its answer, or an error if it cannot have one.
IsAnswered == IF last.err = "" THEN Answers(last.rows, last.stmt.meant)
              ELSE ~HasAnswer(last.stmt.meant, << >>)

\* A SELECT over tables, joins, subqueries and CTEs, filtered, ordered and
\* limited, returns the rows SQL gives: an outer join completes a row with the
\* defaults of the other table, a column means the one of the table it names,
\* and what the optimizer prunes, pushes into the scan or swaps changes none of
\* it (engine.go executeSelectWithCTEs, plan.go, optimizer.go).
JoinAnswers ==
    last.kind = "select" /\ ~IsGrouped(last.stmt.meant) /\ last.stmt.meant.windows = << >>
    => IsAnswered

\* A grouped SELECT returns one row for each group HAVING keeps, and its
\* aggregates are over exactly the rows of that group (plan.go AggregateNode).
GroupAnswers ==
    last.kind = "select" /\ IsGrouped(last.stmt.meant) => IsAnswered

\* Every row has the window values of its own partition and its own place in
\* it, whatever order other windows of the query need (plan.go
\* computeWindowFunctions, builtin_window.go).
WindowAnswers ==
    last.kind = "select" /\ last.stmt.meant.windows # << >> => IsAnswered

SameAnswer(a, b) == a.err = b.err /\ Bag(a.rows) = Bag(b.rows)

RunAs(plan, ctx) == Execute(LogicalToPhysical(plan, ctx), store)

RunAlike(plans) ==
    SameAnswer(RunAs(plans.optimized, plans.ctx), RunAs(plans.logical, plans.ctx))

\* The plan EXPLAIN prints as optimized returns what the logical plan it prints
\* first would (optimizer.go OptimizeWithPruning).
OptimizedIsEquivalent ==
    last.kind = "explain" /\ last.err = "" => RunAlike(last.rows)

\* The rows an INSERT means: what VALUES or the items of SELECT hold, by
\* position, and the defaults of the columns they do not reach.
RowsMeant(tuples, table) ==
    LET cols == TargetCols(table)
        DefaultOf(i) == IF i \in DOMAIN table.columns /\ table.columns[i].hasDefault
                        THEN table.columns[i].default ELSE NoText
        Cell(t, c) == LET at == {i \in DOMAIN t : cols[i] = c}
                      IN  IF at # {} THEN t[CHOOSE i \in at : \A j \in at : j <= i]
                          ELSE DefaultOf(First({i \in DOMAIN cols : cols[i] = c}))
    IN  MapRows(LAMBDA t : [c \in ToSet(cols) |-> Cell(t, c)], tuples)

Inserted(ins, table) ==
    RowsMeant(IF ins.query = Nil THEN ins.values ELSE Meaning(ins.query.meant, << >>), table)

\* What the files of a table hold after an INSERT of rows.
StoresRows(rows, table, before, after, append) ==
    LET To(path) == SelectSeq(rows, LAMBDA r : \A i \in DOMAIN path :
                                          path[i][2] = Get(r, table.partitionBy[i]))
        Data(path) == MapRows(LAMBDA r : [c \in ToSet(ColumnNames(table)) |-> r[c]], To(path))
        Old(path) == IF append /\ path \in DOMAIN before THEN before[path] ELSE << >>
        touched == {path \in DOMAIN after : path = << >> \/ To(path) # << >>}
    IN  /\ DOMAIN after = DOMAIN before \cup touched
        /\ \A path \in DOMAIN after \ touched : after[path] = before[path]
        /\ \A path \in touched : Bag(after[path]) = Bag(Old(path) \o Data(path))
        /\ \A i \in DOMAIN rows : \E path \in touched : rows[i] \in ToSet(To(path))

StoresWhatItMeans(ins, table, before, after) ==
    StoresRows(Inserted(ins, table), table, before, after, ins.append)

\* An INSERT puts every row it means in the partition of that row, after what
\* INSERT INTO finds there and instead of what INSERT OVERWRITE finds there,
\* and the other partitions keep theirs (engine.go executeInsertOverwrite,
\* executeInsertValues, table.go writeTable).
InsertIsReadBack ==
    [][ last'.kind = "insert" /\ last'.err = "" =>
        LET key == ToLower(last'.stmt.table)
        IN  StoresWhatItMeans(last'.stmt, catalog[key], store[key], store'[key])
      ]_vars

\* HAVING may call an aggregate where it has no alias for one: it keeps the
\* groups for which the condition holds (tests/basic/test_group_by.sql,
\* engine_test.go TestEngineSelectHaving).
HavingKeepsGroups ==
    last.kind = "select" /\ last.stmt.meant.having # Nil => IsAnswered
===============================================================================
