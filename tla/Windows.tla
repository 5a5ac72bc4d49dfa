------------------------------- MODULE Windows -------------------------------
(***************************************************************************)
(* Window functions, pkg/plan/plan.go computeWindowFunctions and           *)
(* builtin_window.go.                                                      *)
(*                                                                         *)
(* A window is [fn, args, partitionBy, orderBy, frame, key]; args are      *)
(* column keys, a literal being the bare key of its text.  A frame is      *)
(* [type, start, end] with bounds [bound, n], or Nil.  The shares of       *)
(* CUME_DIST and PERCENT_RANK are kept as fractions.                       *)
(***************************************************************************)
EXTENDS Aggregates

Bound(bound, n) == [bound |-> bound, n |-> n]
Frame(type, start, end) == [k |-> "frame", type |-> type, start |-> start, end |-> end]

WindowFunctions ==
    {"ROW_NUMBER", "RANK", "DENSE_RANK", "LEAD", "LAG", "NTILE", "FIRST_VALUE",
     "LAST_VALUE", "CUME_DIST", "PERCENT_RANK", "NTH_VALUE"}

Bounded(lo, n, hi) == IF n < lo THEN lo ELSE IF n > hi THEN hi ELSE n

---------------------------------------------------------------------------
(* Frames: the first and the last row of the frame of row i, from 1.       *)

resolveFrameBoundRow(n, i, bound) ==
    CASE bound.bound = "UNBOUNDED PRECEDING" -> 1
      [] bound.bound = "PRECEDING" -> i - bound.n
      [] bound.bound = "CURRENT ROW" -> i
      [] bound.bound = "FOLLOWING" -> i + bound.n
      [] bound.bound = "UNBOUNDED FOLLOWING" -> n

\* The number a RANGE bound stands for.
Threshold(current, bound) ==
    CASE bound.bound = "PRECEDING" -> current - bound.n
      [] bound.bound = "FOLLOWING" -> current + bound.n
      [] OTHER -> current

\* The first row if no value reaches the threshold.
findRangeStart(rows, col, threshold) ==
    LET reach == {i \in DOMAIN rows : /\ IsNumber(Get(rows[i], col))
                                      /\ Number(Get(rows[i], col)) >= threshold}
    IN  IF reach = {} THEN 1 ELSE CHOOSE i \in reach : \A j \in reach : i <= j

\* The last row if every value is beyond the threshold.
findRangeEnd(rows, col, threshold) ==
    LET reach == {i \in DOMAIN rows : /\ IsNumber(Get(rows[i], col))
                                      /\ Number(Get(rows[i], col)) <= threshold}
    IN  IF reach = {} THEN Len(rows) ELSE CHOOSE i \in reach : \A j \in reach : j <= i

resolveFrameRange(rows, i, frame, col) ==
    LET current == Number(Get(rows[i], col))
        start == IF frame.start.bound \in {"UNBOUNDED PRECEDING", "UNBOUNDED FOLLOWING"}
                 THEN 1 ELSE findRangeStart(rows, col, Threshold(current, frame.start))
        end == IF frame.end.bound = "UNBOUNDED FOLLOWING"
               THEN Len(rows) ELSE findRangeEnd(rows, col, Threshold(current, frame.end))
    IN  IF ~IsNumber(Get(rows[i], col)) THEN <<1, Len(rows)>>
        ELSE <<IF start > end THEN end ELSE start, end>>

\* Mutant: a ROWS frame is one row longer.
FrameTooLong(rows, i, frame, orderBy) ==
    IF frame = Nil THEN <<1, Len(rows)>>
    ELSE <<Bounded(1, resolveFrameBoundRow(Len(rows), i, frame.start), Len(rows)),
           Bounded(1, 1 + resolveFrameBoundRow(Len(rows), i, frame.end), Len(rows))>>

\* No frame is the whole partition; RANGE needs an ORDER BY.
getFrameRange(rows, i, frame, orderBy) ==
    LET n == Len(rows)
        start == resolveFrameBoundRow(n, i, frame.start)
        end == resolveFrameBoundRow(n, i, frame.end)
    IN  IF frame = Nil THEN <<1, n>>
        ELSE IF frame.type = "ROWS" \/ orderBy = << >>
        THEN <<IF start < 1 THEN 1 ELSE start, IF end > n THEN n ELSE end>>
        ELSE resolveFrameRange(rows, i, frame, orderBy[1].col)

---------------------------------------------------------------------------
(* Functions: the value of every row of an ordered partition.              *)

\* Only values that are numbers count.
FrameAggregate(fn, rows, col) ==
    LET numeric == SelectSeq(rows, LAMBDA r : IsNumber(Get(r, col)))
    IN  CASE fn = "COUNT" -> ToString(Len(numeric))
          [] fn = "SUM" -> aggSum(numeric, col)
          [] fn = "AVG" -> aggAvg(numeric, col)
          [] fn = "MIN" -> Extreme(numeric, col, "<")
          [] fn = "MAX" -> Extreme(numeric, col, ">")

computeWindowAggFrame(rows, w) ==
    LET Over(frame) == FrameAggregate(w.fn, SubSeq(rows, frame[1], frame[2]), w.args[1])
    IN  [i \in DOMAIN rows |-> Over(getFrameRange(rows, i, w.frame, w.orderBy))]

\* Ties are rows with the same texts in every ORDER BY column; without ORDER
\* BY there are none.
rowsEqualByOrder(a, b, orderBy) ==
    /\ orderBy # << >>
    /\ \A i \in DOMAIN orderBy : Get(a, orderBy[i].col) = Get(b, orderBy[i].col)

computeRank(rows, orderBy, dense) ==
    LET starts == {j \in DOMAIN rows :
                      j = 1 \/ ~rowsEqualByOrder(rows[j], rows[j - 1], orderBy)}
        StartsTo(i) == {j \in starts : j <= i}
    IN  [i \in DOMAIN rows |->
            IF dense THEN Cardinality(StartsTo(i))
            ELSE CHOOSE j \in StartsTo(i) : \A k \in StartsTo(i) : k <= j]

Offset(args) == IF Len(args) >= 2 /\ IsNumber(NameOf(args[2])) THEN Number(NameOf(args[2])) ELSE 1
ElseValue(args) == IF Len(args) >= 3 THEN NameOf(args[3]) ELSE NoText

\* LEAD by the offset, LAG by its negation.  A negative offset indexes out of
\* the partition: LEAD(col, -1) panics at the first row, and is left out.
Shifted(rows, args, by) ==
    [i \in DOMAIN rows |->
        IF i + by \in DOMAIN rows THEN Get(rows[i + by], args[1]) ELSE ElseValue(args)]

windowNtile(rows, args) ==
    LET valid == IsNumber(NameOf(args[1])) /\ Number(NameOf(args[1])) > 0
        n == Bounded(1, Number(NameOf(args[1])), Len(rows))
        size == Len(rows) \div n
        larger == Len(rows) % n
        End(bucket) == bucket * size + Bounded(0, bucket, larger)
    IN  [i \in DOMAIN rows |->
            IF ~valid THEN "1"
            ELSE ToString(CHOOSE b \in 1 .. n : End(b - 1) < i /\ i <= End(b))]

\* The values of a window, or << >> where the code writes none.
WindowValues(rows, w) ==
    LET n == Len(rows)
        Whole(text) == [i \in DOMAIN rows |-> text]
        Nth == Bounded(1, Number(NameOf(w.args[2])), n)
    IN  CASE w.fn \in {"COUNT", "SUM", "AVG", "MIN", "MAX"} ->
                IF w.args = << >> THEN << >> ELSE computeWindowAggFrame(rows, w)
          [] w.fn = "ROW_NUMBER" -> [i \in DOMAIN rows |-> ToString(i)]
          [] w.fn \in {"RANK", "DENSE_RANK"} ->
                LET ranks == computeRank(rows, w.orderBy, w.fn = "DENSE_RANK")
                IN  [i \in DOMAIN rows |-> ToString(ranks[i])]
          [] w.fn = "CUME_DIST" -> [i \in DOMAIN rows |-> Quotient(i, n)]
          [] w.fn = "PERCENT_RANK" ->
                [i \in DOMAIN rows |-> IF n = 1 THEN "0" ELSE Quotient(i - 1, n - 1)]
          [] w.args = << >> -> << >>
          [] w.fn = "LEAD" -> Shifted(rows, w.args, Offset(w.args))
          [] w.fn = "LAG" -> Shifted(rows, w.args, -Offset(w.args))
          [] w.fn = "NTILE" -> windowNtile(rows, w.args)
          [] w.fn = "FIRST_VALUE" -> Whole(Get(rows[1], w.args[1]))
          [] w.fn = "LAST_VALUE" -> Whole(Get(rows[n], w.args[1]))
          [] w.fn = "NTH_VALUE" ->
                IF Len(w.args) >= 2 /\ IsNumber(NameOf(w.args[2]))
                   /\ Number(NameOf(w.args[2])) >= 1
                THEN Whole(Get(rows[Nth], w.args[1])) ELSE << >>
          [] OTHER -> << >>

---------------------------------------------------------------------------
(* Partitions.                                                             *)

\* Groups of row numbers, in the order their first rows appear.
partitionRows(rows, partBy) ==
    LET Key(i) == makeGroupKey(rows[i], partBy)
        firsts == {i \in DOMAIN rows : \A j \in 1 .. i - 1 : Key(j) # Key(i)}
        Group(first) == SelectSeq([i \in DOMAIN rows |-> i],
                                  LAMBDA i : Key(i) = Key(first))
    IN  MapRows(Group, SortSeq(SetToSeq(firsts), <))

WithValues(rows, key, values) ==
    [i \in DOMAIN rows |-> IF values = << >> THEN rows[i] ELSE (key :> values[i]) @@ rows[i]]

\* The rows of a partition in its order, each with its value.
ComputePartition(rows, w, order) ==
    LET Members(members) == WithValues(members, w.key, WindowValues(members, w))
    IN  Members([n \in DOMAIN order |-> rows[order[n]]])

\* With PARTITION BY the rows stay where they are; the only partition without
\* one is the slice of the rows itself, which ORDER BY sorts.
PlaceRows(rows, w, orders, results) ==
    LET PartOf(i) == CHOOSE p \in DOMAIN orders : i \in ToSet(orders[p])
        Place(p, i) == CHOOSE n \in DOMAIN orders[p] : orders[p][n] = i
    IN  IF w.partitionBy = << >> THEN results[1]
        ELSE [i \in DOMAIN rows |-> results[PartOf(i)][Place(PartOf(i), i)]]

ComputeOrders(rows, w, orders) ==
    PlaceRows(rows, w, orders, MapRows(LAMBDA order : ComputePartition(rows, w, order), orders))

ComputeWindow(rows, w) ==
    LET Ordered(part) == StableSort(part, LAMBDA i, j : RowBefore(rows[i], rows[j], w.orderBy))
    IN  ComputeOrders(rows, w, MapRows(Ordered, partitionRows(rows, w.partitionBy)))

\* Every window in turn.
computeWindowFunctions(rows, windows) ==
    IF rows = << >> THEN rows ELSE FoldLeft(ComputeWindow, rows, windows)
===============================================================================
