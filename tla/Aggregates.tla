------------------------------ MODULE Aggregates ------------------------------
(***************************************************************************)
(* GROUP BY, pkg/plan/plan.go AggregateNode, and the aggregate functions   *)
(* of builtin_agg.go.  Fractions are exact (Rows!Quotient).  Square roots, *)
(* percentiles and histograms are left out.                                *)
(*                                                                         *)
(* An aggregate is [fn, col, args, distinct], plan.AggregateDef.           *)
(***************************************************************************)
EXTENDS Expressions

AggregateFunctions ==
    {"COUNT", "SUM", "AVG", "MIN", "MAX", "VARIANCE", "VAR_POP", "VAR_SAMP",
     "COLLECT_LIST", "COLLECT_SET", "COVAR_POP", "COVAR_SAMP"}

Texts(rows, col) == [i \in DOMAIN rows |-> Get(rows[i], col)]
IsSet(text) == text # NoText

\* The values of a column that are numbers, as numbers.
Numbers(rows, col) ==
    LET texts == SelectSeq(Texts(rows, col), IsNumber)
    IN  [i \in DOMAIN texts |-> Number(texts[i])]

Total(numbers) == FoldLeft(LAMBDA sum, n : sum + n, 0, numbers)

---------------------------------------------------------------------------
(* Aggregate functions.                                                    *)

\* COUNT(col) counts the rows, NULLs included; COUNT(DISTINCT col) does not.
aggCount(rows, col, distinct) ==
    IF ~distinct THEN ToString(Len(rows))
    ELSE IF col = Star THEN ToString(IF rows = << >> THEN 0 ELSE 1)
    ELSE ToString(Cardinality(ToSet(Texts(rows, col)) \ {NoText}))

aggSum(rows, col) == ToString(Total(Numbers(rows, col)))

aggAvg(rows, col) ==
    LET numbers == Numbers(rows, col)
    IN  IF numbers = << >> THEN "0" ELSE Quotient(Total(numbers), Len(numbers))

\* aggMin and aggMax: the first value no later one beats.
Extreme(rows, col, op) ==
    LET texts == SelectSeq(Texts(rows, col), IsSet)
    IN  IF texts = << >> THEN NoText
        ELSE FoldLeft(LAMBDA best, t : IF compareValues(t, best, op) THEN t ELSE best,
                      texts[1], texts)

VarianceOf(numbers, sample) ==
    LET n == Len(numbers)
        sum == Total(numbers)
        squares == Total([i \in DOMAIN numbers |-> numbers[i] * numbers[i]])
    IN  IF n = 0 THEN "0"
        ELSE Quotient(n * squares - sum * sum,
                      n * (IF sample /\ n > 1 THEN n - 1 ELSE n))

computeVariance(rows, col, sample) == VarianceOf(Numbers(rows, col), sample)

JoinTexts(texts) ==
    "[" \o FoldLeft(LAMBDA t, i : t \o (IF i = 1 THEN "" ELSE ",") \o texts[i],
                    "", [i \in DOMAIN texts |-> i]) \o "]"

aggCollectList(rows, col) == JoinTexts(SortSeq(SelectSeq(Texts(rows, col), IsSet), Before))

aggCollectSet(rows, col) ==
    JoinTexts(SortSeq(SetToSeq(ToSet(Texts(rows, col)) \ {NoText}), Before))

CovarianceOf(x, y, sample) ==
    LET n == Len(x)
        xy == [i \in DOMAIN x |-> x[i] * y[i]]
    IN  IF n <= 1 THEN "0"
        ELSE Quotient(n * Total(xy) - Total(x) * Total(y),
                      n * (IF sample THEN n - 1 ELSE n))

computeCovariance(rows, col, args, sample) ==
    LET Numeric(r) == IsNumber(Get(r, col)) /\ IsNumber(Get(r, args[2]))
        Of(both) == CovarianceOf(Numbers(both, col), Numbers(both, args[2]), sample)
    IN  IF Len(args) < 2 THEN "0" ELSE Of(SelectSeq(rows, Numeric))

computeAggregate(rows, agg) ==
    LET fn == agg.fn
        args == IF agg.args = << >> THEN <<agg.col>> ELSE agg.args
    IN  CASE fn = "COUNT" -> aggCount(rows, agg.col, agg.distinct)
          [] fn = "SUM" -> aggSum(rows, agg.col)
          [] fn = "AVG" -> aggAvg(rows, agg.col)
          [] fn = "MIN" -> Extreme(rows, agg.col, "<")
          [] fn = "MAX" -> Extreme(rows, agg.col, ">")
          [] fn \in {"VARIANCE", "VAR_POP"} -> computeVariance(rows, agg.col, FALSE)
          [] fn = "VAR_SAMP" -> computeVariance(rows, agg.col, TRUE)
          [] fn = "COLLECT_LIST" -> aggCollectList(rows, agg.col)
          [] fn = "COLLECT_SET" -> aggCollectSet(rows, agg.col)
          [] fn = "COVAR_POP" -> computeCovariance(rows, agg.col, args, FALSE)
          [] fn = "COVAR_SAMP" -> computeCovariance(rows, agg.col, args, TRUE)
          [] OTHER -> NoText

---------------------------------------------------------------------------
(* Grouping.                                                               *)

\* Mutant: the key of a group is its first column.
FirstOfKey(row, cols) ==
    [i \in DOMAIN cols |-> IF i = 1 THEN Get(row, cols[i]) ELSE NoText]

makeGroupKey(row, cols) == [i \in DOMAIN cols |-> Get(row, cols[i])]

KeyBefore(a, b) ==
    \E i \in DOMAIN a : /\ \A j \in 1 .. i - 1 : a[j] = b[j]
                        /\ Before(a[i], b[i])

AggregateKey(agg) ==
    IF agg.distinct THEN DistinctCall(agg.fn, agg.col) ELSE Call(agg.fn, agg.col)

AggregateRow(group, groupBy, aggs) ==
    LET keys == {AggregateKey(aggs[i]) : i \in DOMAIN aggs}
        AggOf(key) == aggs[CHOOSE i \in DOMAIN aggs : AggregateKey(aggs[i]) = key]
    IN  [key \in keys |-> computeAggregate(group, AggOf(key))]
        @@ [col \in ToSet(groupBy) |-> Get(group[1], col)]

\* One row for each group, in the order of their keys; none without rows.
GroupRows(rows, groupBy, aggs) ==
    LET keys == {makeGroupKey(rows[i], groupBy) : i \in DOMAIN rows}
        Group(key) == SelectSeq(rows, LAMBDA r : makeGroupKey(r, groupBy) = key)
    IN  MapRows(LAMBDA key : AggregateRow(Group(key), groupBy, aggs),
                SortSeq(SetToSeq(keys), KeyBefore))
===============================================================================
