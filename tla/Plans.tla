-------------------------------- MODULE Plans --------------------------------
(***************************************************************************)
(* Query plans, pkg/plan: the logical nodes (logical.go), their            *)
(* translation to physical nodes and what those return when they are       *)
(* drained (plan.go, iter.go, join.go, join_defaults.go).  A node is a     *)
(* record whose k names its type:                                          *)
(*                                                                         *)
(*   scan     table                     filter   child, pred               *)
(*   ctescan  name                      project  child, columns, exprs     *)
(*   agg      child, groupBy, aggs      window   child, windows            *)
(*   sort     child, orderBy            limit    child, n                  *)
(*   join     left, right, leftCol, rightCol, type, leftPrefix,            *)
(*            rightPrefix, norm (the type whose texts are normalised)      *)
(*                                                                         *)
(* and, physical only: tablescan (table, filters), rows (rows), join with  *)
(* leftDefaults and rightDefaults, explode (child, view).  The rows of a   *)
(* join are those of one worker; JoinPipeline shows that more workers      *)
(* return the same rows in the same order.                                 *)
(***************************************************************************)
EXTENDS Windows, Partitions

LogicalScan(table) == [k |-> "scan", table |-> table]
LogicalCTEScan(name) == [k |-> "ctescan", name |-> name]
LogicalFilter(child, pred) == [k |-> "filter", child |-> child, pred |-> pred]
LogicalProject(child, columns, exprs) ==
    [k |-> "project", child |-> child, columns |-> columns, exprs |-> exprs]
LogicalAggregate(child, groupBy, aggs) ==
    [k |-> "agg", child |-> child, groupBy |-> groupBy, aggs |-> aggs]
LogicalWindow(child, windows) == [k |-> "window", child |-> child, windows |-> windows]
LogicalSort(child, orderBy) == [k |-> "sort", child |-> child, orderBy |-> orderBy]
LogicalLimit(child, n) == [k |-> "limit", child |-> child, n |-> n]
LogicalJoin(left, right, leftCol, rightCol, type) ==
    [k |-> "join", left |-> left, right |-> right, leftCol |-> leftCol,
     rightCol |-> rightCol, type |-> type, leftPrefix |-> "", rightPrefix |-> "",
     norm |-> ""]

\* plan.LogicalNode.Children and rebuildNode
Children(node) ==
    CASE node.k \in {"scan", "ctescan"} -> << >>
      [] node.k = "join" -> <<node.left, node.right>>
      [] OTHER -> <<node.child>>

rebuildNode(node, children) ==
    CASE node.k \in {"scan", "ctescan"} -> node
      [] node.k = "join" -> [node EXCEPT !.left = children[1], !.right = children[2]]
      [] OTHER -> [node EXCEPT !.child = children[1]]

---------------------------------------------------------------------------
(* Defaults of a join side that has no row.                                *)

DefaultValueForType(type) ==
    CASE type \in {"INT", "INTEGER", "BIGINT", "SMALLINT", "TINYINT", "LONG",
                   "DECIMAL", "NUMERIC", "FLOAT", "DOUBLE", "REAL"} -> "0"
      [] type \in {"BOOLEAN", "BOOL"} -> "false"
      [] OTHER -> NoText

\* A right column whose key the left row has.
Prefixed(prefix, key) == <<key[1], prefix, NameOf(key)>>

\* The keys of joinBatch's merge: the right row's, qualified where they collide.
MergeKeys(left, right, prefix) ==
    LET Key(k) == IF k \in DOMAIN left /\ prefix # "" THEN Prefixed(prefix, k) ELSE k
    IN  [key \in {Key(k) : k \in DOMAIN right} |->
            right[CHOOSE k \in DOMAIN right : Key(k) = key]]

\* The first value of a column that is not NULL says whether it is numeric.
cteDefaults(rows) ==
    LET FirstSet(key) ==
            LET texts == SelectSeq(Texts(rows, key), IsSet)
            IN  IF texts = << >> THEN NoText ELSE texts[1]
    IN  IF rows = << >> THEN EmptyRow
        ELSE [key \in DOMAIN rows[1] |-> IF IsNumber(FirstSet(key)) THEN "0" ELSE NoText]

RECURSIVE sideDefaults(_, _)
sideDefaults(node, ctx) ==
    CASE node.k = "scan" ->
            LET name == ToLower(node.table)
                columns == ctx.catalog[name].columns
                Def(key) == columns[CHOOSE i \in DOMAIN columns : columns[i].name = key]
            IN  IF name \notin DOMAIN ctx.catalog THEN EmptyRow
                ELSE [key \in ToSet(ColumnNames(ctx.catalog[name])) |->
                        IF Def(key).hasDefault THEN Def(key).default
                        ELSE DefaultValueForType(Def(key).type)]
      [] node.k = "ctescan" -> cteDefaults(ctx.ctes[ToLower(node.name)])
      [] node.k = "join" ->
            LET left == sideDefaults(node.left, ctx)
                right == sideDefaults(node.right, ctx)
            IN  MergeKeys(left, right, node.rightPrefix) @@ left
      [] OTHER -> sideDefaults(node.child, ctx)

\* Defaults never replace a value the row has.
fillDefaults(row, defaults, prefix) ==
    LET fill == MergeKeys(row, defaults, prefix)
    IN  row @@ [key \in {k \in DOMAIN fill : prefix # "" \/ k \notin DOMAIN row} |-> fill[key]]

---------------------------------------------------------------------------
(* Joins.                                                                  *)

normalizeIntKey(text) ==
    IF IsNumber(text) /\ text \notin DecimalForm THEN ToString(Number(text)) ELSE text
normalizeDecimalKey(text) ==
    IF text \in DecimalForm THEN ToString(Number(text)) ELSE text

NormalizeKeyForType(type, text) ==
    CASE type \in {"INT", "INTEGER", "BIGINT", "SMALLINT", "TINYINT"} -> normalizeIntKey(text)
      [] type \in {"DECIMAL", "NUMERIC", "FLOAT", "DOUBLE", "REAL"} -> normalizeDecimalKey(text)
      [] OTHER -> text

LeftKey(node, row) == NormalizeKeyForType(node.norm, Get(row, node.leftCol))
RightKey(node, row) == NormalizeKeyForType(node.norm, Get(row, node.rightCol))

MergeRows(node, left, right) ==
    IF node.type = "CROSS" THEN right @@ left
    ELSE MergeKeys(left, right, node.rightPrefix) @@ left

\* The rows of one left row, in the order of the right input.
joinBatch(node, left, rightRows) ==
    LET matched == SelectSeq(rightRows,
                             LAMBDA r : node.type = "CROSS" \/ RightKey(node, r) = LeftKey(node, left))
        filled == fillDefaults(left, node.rightDefaults, node.rightPrefix)
    IN  IF node.type = "SEMI" /\ matched # << >> THEN <<filled>>
        ELSE IF matched = << >> /\ node.type \in {"LEFT", "FULL"} THEN <<filled>>
        ELSE IF node.type = "SEMI" THEN << >>
        ELSE MapRows(LAMBDA r : MergeRows(node, left, r), matched)

\* The right rows no left row matched, after everything else.
materializeTail(node, leftRows, rightRows) ==
    LET Matched(r) == \E i \in DOMAIN leftRows : LeftKey(node, leftRows[i]) = RightKey(node, r)
        Tail1(r) == MergeKeys(node.leftDefaults, r, node.rightPrefix) @@ node.leftDefaults
    IN  IF node.type \notin {"RIGHT", "FULL"} THEN << >>
        ELSE MapRows(Tail1, SelectSeq(rightRows, LAMBDA r : ~Matched(r)))

JoinedRows(node, leftRows, rightRows) ==
    FlattenSeq([i \in DOMAIN leftRows |-> joinBatch(node, leftRows[i], rightRows)])
    \o materializeTail(node, leftRows, rightRows)

---------------------------------------------------------------------------
(* LATERAL VIEW: [col, alias, pos, outer, kind], kind "explode",           *)
(* "posexplode" or "map".  A list is the instance's text for its elements. *)

CONSTANT Elements   \* "a,b" :> <<"a", "b">>

expand(row, view) ==
    LET val == Get(row, view.col)
        elements == CASE val = NoText -> << >>
                      [] val \in DOMAIN Elements -> Elements[val]
                      [] OTHER -> <<val>>
        With(value, pos) == IF view.kind = "explode" THEN (view.alias :> value) @@ row
                            ELSE (view.pos :> pos) @@ (view.alias :> value) @@ row
    IN  CASE elements = << >> -> IF view.outer THEN <<With(NoText, NoText)>> ELSE << >>
          [] elements # << >> /\ view.kind = "map" ->
                [i \in 1 .. Len(elements) \div 2 |-> With(elements[2 * i], elements[2 * i - 1])]
          [] OTHER -> [i \in DOMAIN elements |-> With(elements[i], ToString(i - 1))]

---------------------------------------------------------------------------
(* Partition pruning: the comparisons with partition columns that AND      *)
(* joins become filters of the scan, and leave the predicate.              *)

isPartitionOp(op) == op \in {"=", ">", "<", ">=", "<="}

RECURSIVE extractPartitionFilters(_, _)
extractPartitionFilters(e, cols) ==
    IF e.k = "cmp" /\ e.right = NoCol /\ isPartitionOp(e.op) /\ e.col \in ToSet(cols)
    THEN [rest |-> Nil, filters |-> <<[col |-> e.col, op |-> e.op, value |-> e.value]>>]
    ELSE IF e.k = "logic" /\ e.op = "AND"
    THEN LET l == extractPartitionFilters(e.left, cols)
             r == extractPartitionFilters(e.right, cols)
         IN  [rest |-> IF l.rest = Nil THEN r.rest ELSE IF r.rest = Nil THEN l.rest
                       ELSE AndOr("AND", l.rest, r.rest),
              filters |-> l.filters \o r.filters]
    ELSE [rest |-> e, filters |-> << >>]

---------------------------------------------------------------------------
(* Physical plans.                                                         *)

CannotPlan(err) == [k |-> "error", err |-> err]

RECURSIVE LogicalToPhysical(_, _)
LogicalToPhysical(node, ctx) ==
    CASE node.k = "scan" ->
            IF node.table = "" THEN [k |-> "rows", rows |-> <<EmptyRow>>]
            ELSE IF ToLower(node.table) \notin DOMAIN ctx.catalog
            THEN CannotPlan("table not found")
            ELSE [k |-> "tablescan", table |-> ctx.catalog[ToLower(node.table)],
                  filters |-> << >>]
      [] node.k = "ctescan" -> [k |-> "rows", rows |-> ctx.ctes[ToLower(node.name)]]
      [] node.k = "join" ->
            LET left == LogicalToPhysical(node.left, ctx)
                right == LogicalToPhysical(node.right, ctx)
            IN  CASE left.k = "error" -> left
                  [] left.k # "error" /\ right.k = "error" -> right
                  [] OTHER -> [leftDefaults |-> sideDefaults(node.left, ctx),
                               rightDefaults |-> sideDefaults(node.right, ctx)]
                              @@ rebuildNode(node, <<left, right>>)
      [] OTHER ->
            LET child == LogicalToPhysical(node.child, ctx)
                partitioned == child.k = "tablescan" /\ child.table.partitionBy # << >>
                split == extractPartitionFilters(node.pred, child.table.partitionBy)
                pruned == [child EXCEPT !.filters = @ \o split.filters]
            IN  IF child.k = "error" THEN child
                ELSE IF node.k = "filter" /\ partitioned
                THEN IF split.rest = Nil THEN pruned ELSE LogicalFilter(pruned, split.rest)
                ELSE rebuildNode(node, <<child>>)

ProjectRow(row, columns, exprs) ==
    [col \in ToSet(columns) |->
        LET i == CHOOSE i \in DOMAIN columns : /\ columns[i] = col
                                               /\ \A j \in i + 1 .. Len(columns) : columns[j] # col
        IN  IF i \in DOMAIN exprs /\ exprs[i] # Nil
            THEN evaluateExpressionValue(row, exprs[i])
            ELSE projectRowValue(row, col)]

Limited(rows, n) == IF n < 0 THEN rows ELSE SubSeq(rows, 1, IF n < Len(rows) THEN n ELSE Len(rows))

\* The rows a unary node makes of its child's.
Apply(node, rows) ==
    CASE node.k = "filter" -> SelectSeq(rows, LAMBDA r : evaluateExpression(r, node.pred))
      [] node.k = "project" ->
            IF node.columns = <<Star>> THEN rows
            ELSE MapRows(LAMBDA r : ProjectRow(r, node.columns, node.exprs), rows)
      [] node.k = "agg" -> GroupRows(rows, node.groupBy, node.aggs)
      [] node.k = "window" -> computeWindowFunctions(rows, node.windows)
      [] node.k = "sort" -> sortRows(rows, node.orderBy)
      [] node.k = "limit" -> Limited(rows, node.n)
      [] node.k = "explode" ->
            FlattenSeq([i \in DOMAIN rows |-> expand(rows[i], node.view)])

\* PlanNode.Execute: an error, or the rows.  store[table] are a table's files.
RECURSIVE Execute(_, _)
Execute(node, store) ==
    CASE node.k = "rows" -> IF node.rows = << >> THEN Failed("table scan node has no table")
                            ELSE Rows(node.rows)
      [] node.k = "tablescan" ->
            OpenTableIter(store[ToLower(node.table.name)], node.table, node.filters)
      [] node.k = "join" ->
            LET right == Execute(node.right, store)
                left == Execute(node.left, store)
            IN  CASE right.err # "" -> right
                  [] right.err = "" /\ left.err # "" -> left
                  [] OTHER -> Rows(JoinedRows(node, left.rows, right.rows))
      [] OTHER ->
            LET child == Execute(node.child, store)
            IN  IF child.err # "" THEN child ELSE Rows(Apply(node, child.rows))
===============================================================================
