------------------------------ MODULE Optimizer ------------------------------
(***************************************************************************)
(* The rewriting of a logical plan before it runs, pkg/plan/optimizer.go:  *)
(* adjacent filters become one, the smaller input of a join becomes its    *)
(* build side, and a Project over each scan drops the columns the plan     *)
(* does not name.  Row estimates are whole numbers; a table's estimate is  *)
(* set through the catalog, and 0 is unknown.                              *)
(***************************************************************************)
EXTENDS Plans

---------------------------------------------------------------------------
(* MergeFilters.                                                           *)

MergeFilters(node) ==
    IF node.k = "filter" /\ node.child.k = "filter"
    THEN LogicalFilter(node.child.child, AndOr("AND", node.child.pred, node.pred))
    ELSE node

---------------------------------------------------------------------------
(* CostBasedJoinReorder.                                                   *)

Unknown == 1000000   \* math.Inf(1)
AtLeastOne(n) == IF n < 1 THEN 1 ELSE n

\* A filter keeps a fifth, as a float; here the fraction is dropped, so that two
\* estimates less than one row apart may compare differently.
RECURSIVE EstimateRows(_, _)
EstimateRows(node, catalog) ==
    CASE node.k = "scan" ->
            \* by the name as written, and TableNames are lower-case
            IF node.table \in DOMAIN catalog /\ catalog[node.table].estimated > 0
            THEN catalog[node.table].estimated ELSE Unknown
      [] node.k = "ctescan" -> 100
      [] node.k = "filter" ->
            LET rows == EstimateRows(node.child, catalog)
            IN  IF rows = Unknown THEN Unknown ELSE AtLeastOne(rows \div 5)
      [] node.k = "join" ->
            LET left == EstimateRows(node.left, catalog)
                right == EstimateRows(node.right, catalog)
            IN  IF left >= right THEN left ELSE right
      [] node.k = "agg" ->
            IF EstimateRows(node.child, catalog) = Unknown THEN Unknown
            ELSE IF node.groupBy = << >> THEN 1
            ELSE 10 * Len(node.groupBy)
      [] node.k = "limit" -> node.n
      [] OTHER -> EstimateRows(node.child, catalog)

\* Mutant: the swapped join keeps the columns where they were.
SwapInputs(join) ==
    [join EXCEPT !.left = join.right, !.right = join.left,
                 !.leftPrefix = join.rightPrefix, !.rightPrefix = join.leftPrefix]

\* The inputs with their columns and prefixes; the type stays what it was.
Swapped(join) ==
    [join EXCEPT !.left = join.right, !.right = join.left,
                 !.leftCol = join.rightCol, !.rightCol = join.leftCol,
                 !.leftPrefix = join.rightPrefix, !.rightPrefix = join.leftPrefix]

RECURSIVE reorderJoins(_, _)
reorderJoins(node, catalog) ==
    LET children == Children(node)
        rebuilt == rebuildNode(node, [i \in DOMAIN children |->
                                         reorderJoins(children[i], catalog)])
        left == EstimateRows(rebuilt.left, catalog)
        right == EstimateRows(rebuilt.right, catalog)
    IN  IF node.k # "join" THEN rebuilt
        ELSE IF left # Unknown /\ right # Unknown /\ right > left
        THEN Swapped(rebuilt) ELSE rebuilt

\* Optimizer.Optimize with the rules of CatalogOptimizer, then the children.
RECURSIVE Optimize(_, _)
Optimize(node, catalog) ==
    LET root == reorderJoins(MergeFilters(node), catalog)
        children == Children(root)
    IN  rebuildNode(root, [i \in DOMAIN children |-> Optimize(children[i], catalog)])

---------------------------------------------------------------------------
(* ColumnPruning.                                                          *)

RECURSIVE collectExprCols(_)
collectExprCols(e) ==
    CASE e.k = "cmp" -> {e.col, e.right} \cup collectExprCols(e.expr)
      [] e.k \in {"logic", "bin"} -> collectExprCols(e.left) \cup collectExprCols(e.right)
      [] e.k \in {"null", "in"} -> {e.col}
      [] e.k = "col" -> {e.name}
      [] e.k = "call" -> {ArgKey(e.args[i]) : i \in DOMAIN e.args}   \* the texts
      [] e.k = "case" ->
            UNION {collectExprCols(e.branches[i].cond) \cup collectExprCols(e.branches[i].result)
                      : i \in DOMAIN e.branches}
            \cup collectExprCols(e.else)
      [] OTHER -> {}

OrderCols(orderBy) == {orderBy[i].col : i \in DOMAIN orderBy}

\* The columns one node names.
NodeCols(node) ==
    CASE node.k = "filter" -> collectExprCols(node.pred)
      [] node.k = "project" ->
            ToSet(node.columns)
            \cup UNION {collectExprCols(node.exprs[i]) : i \in DOMAIN node.exprs}
      [] node.k = "sort" -> OrderCols(node.orderBy)
      [] node.k = "window" ->
            UNION {ToSet(node.windows[i].args) \cup ToSet(node.windows[i].partitionBy)
                   \cup OrderCols(node.windows[i].orderBy) : i \in DOMAIN node.windows}
      [] node.k = "agg" ->
            ToSet(node.groupBy)
            \cup UNION {{node.aggs[i].col} \cup ToSet(node.aggs[i].args) : i \in DOMAIN node.aggs}
      [] node.k = "join" -> {node.leftCol, node.rightCol}
      [] OTHER -> {}

RECURSIVE collectColumnRefs(_)
collectColumnRefs(node) ==
    LET children == Children(node)
    IN  NodeCols(node) \cup UNION {collectColumnRefs(children[i]) : i \in DOMAIN children}

\* The table's declared columns only: a partition column is none of them.
\* Nothing is pruned below a join.
RECURSIVE injectPruneProjects(_, _, _)
injectPruneProjects(node, needed, catalog) ==
    CASE node.k = "scan" ->
            LET table == ToLower(node.table)
                kept == SelectSeq(ColumnNames(catalog[table]), LAMBDA c : c \in needed)
            IN  IF table \notin DOMAIN catalog THEN node
                ELSE IF kept = << >> THEN node
                ELSE LogicalProject(node, kept, << >>)
      [] node.k = "join" -> node
      [] OTHER ->
            LET children == Children(node)
            IN  rebuildNode(node, [i \in DOMAIN children |->
                                      injectPruneProjects(children[i], needed, catalog)])

ColumnPruning(node, catalog) ==
    injectPruneProjects(node, collectColumnRefs(node), catalog)

OptimizeWithPruning(node, catalog) == ColumnPruning(Optimize(node, catalog), catalog)
===============================================================================
