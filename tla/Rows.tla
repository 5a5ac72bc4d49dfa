--------------------------------- MODULE Rows ---------------------------------
(***************************************************************************)
(* The data of a query, pkg/storage.Row: a row maps column keys to values, *)
(* and every value is a string.  The empty string is NULL.                 *)
(*                                                                         *)
(* A column key is <<fn, qualifier, name>>: "id" is <<"", "", "id">>,      *)
(* "u.id" is <<"", "u", "id">>, and "SUM(o.amount)", the key of a call, is *)
(* <<"SUM", "o", "amount">>.                                               *)
(***************************************************************************)
EXTENDS Integers, Sequences, FiniteSets, TLC, SequencesExt

CONSTANTS
    TextOrder,   \* the texts of the instance that are compared, in byte order
    Spelling,    \* its numerals in another form: "01" :> 1 @@ "1.0" :> 1
    DecimalForm, \* those of them with a fraction: {"1.0"}
    LowerCase    \* its texts with capital letters: "Users" :> "users"

NoText == ""
Nil == [k |-> "nil"]   \* no expression, no query

Col(name) == <<"", "", name>>
Qual(table, name) == <<"", table, name>>
Call(fn, col) == <<fn, col[2], col[3]>>
Star == Col("*")

IsCall(col) == col[1] # ""
Qualifier(col) == col[2]
NameOf(col) == col[3]

\* The key of a distinct call, "COUNT(DISTINCT id)".
DistinctCall(fn, col) == Call(fn \o "(DISTINCT ", col)
WithoutDistinct(fn) == IF fn = "COUNT(DISTINCT " THEN "COUNT" ELSE fn

\* engine.stripTableAlias: "u.name" -> "name", "SUM(o.amount)" -> "SUM(amount)".
\* All up to the dot goes: "COUNT(DISTINCT u.id)" -> "COUNT(id)".
stripTableAlias(col) ==
    IF Qualifier(col) = "" THEN col
    ELSE <<WithoutDistinct(col[1]), "", NameOf(col)>>

ToLower(text) == IF text \in DOMAIN LowerCase THEN LowerCase[text] ELSE text
ToUpper(text) == IF \E t \in DOMAIN LowerCase : LowerCase[t] = text
                 THEN CHOOSE t \in DOMAIN LowerCase : LowerCase[t] = text
                 ELSE text

---------------------------------------------------------------------------
(* Numbers: strconv.ParseFloat and formatFloat.                            *)

Numerals == LET Small == -60 .. 200
            IN  [s \in {ToString(n) : n \in Small} |->
                    CHOOSE n \in Small : ToString(n) = s] @@ Spelling

IsNumber(v) == v \in DOMAIN Numerals
Number(v) == Numerals[v]

Abs(n) == IF n < 0 THEN -n ELSE n

\* A quotient that is no integer is kept as the reduced fraction it stands for;
\* nothing computes with it further.
Quotient(a, b) ==
    LET n == IF b < 0 THEN -a ELSE a
        d == Abs(b)
        g == CHOOSE x \in 1 .. d :
                /\ d % x = 0 /\ Abs(n) % x = 0
                /\ \A y \in x + 1 .. d : ~(d % y = 0 /\ Abs(n) % y = 0)
    IN  IF d = g THEN ToString(n \div d)
        ELSE ToString((IF n < 0 THEN -(Abs(n) \div g) ELSE n \div g))
             \o "/" \o ToString(d \div g)

\* plan.arithmetic on two values: NULL unless both are numbers.
Arithmetic(op, a, b) ==
    IF ~(IsNumber(a) /\ IsNumber(b)) THEN NoText
    ELSE LET x == Number(a)
             y == Number(b)
         IN  CASE op = "+" -> ToString(x + y)
               [] op = "-" -> ToString(x - y)
               [] op = "*" -> ToString(x * y)
               [] op = "/" /\ y = 0 -> NoText
               [] op = "/" /\ y # 0 -> Quotient(x, y)
               [] OTHER -> NoText

---------------------------------------------------------------------------
(* Comparisons.                                                            *)

Rank == [v \in ToSet(TextOrder) |-> CHOOSE i \in DOMAIN TextOrder : TextOrder[i] = v]
Before(a, b) == a # b /\ Rank[a] < Rank[b]

\* By value if both are numbers, by bytes otherwise.
Less(a, b) == IF IsNumber(a) /\ IsNumber(b) THEN Number(a) < Number(b)
              ELSE Before(a, b)

\* plan.compareValues
compareValues(a, b, op) ==
    CASE op = "<" -> Less(a, b)
      [] op = ">" -> Less(b, a)
      [] op = "<=" -> ~Less(b, a)
      [] op = ">=" -> ~Less(a, b)

\* plan.compareNumeric
compareNumeric(a, b) == IF Less(a, b) THEN -1 ELSE IF Less(b, a) THEN 1 ELSE 0

---------------------------------------------------------------------------
(* Rows.                                                                   *)

EmptyRow == << >>
Get(row, col) == IF col \in DOMAIN row THEN row[col] ELSE NoText   \* row[col]

\* The exact key, then the bare name.  For a bare reference the last lookup
\* takes a key that the reference qualifies ("u" finds "u.id").
projectRowValue(row, col) ==
    LET bare == Col(NameOf(col))
        under == {k \in DOMAIN row : ~IsCall(k) /\ Qualifier(k) = NameOf(col)}
    IN  IF col \in DOMAIN row THEN row[col]
        ELSE IF IsCall(col) THEN NoText
        ELSE IF bare \in DOMAIN row THEN row[bare]
        ELSE IF bare = col /\ NameOf(col) # "" /\ under # {} THEN row[CHOOSE k \in under : TRUE]
        ELSE NoText

\* An ORDER BY item is [col |-> key, desc |-> BOOLEAN].
RowBefore(a, b, orderBy) ==
    \E k \in DOMAIN orderBy :
        LET Cmp(i) == compareNumeric(projectRowValue(a, orderBy[i].col),
                                     projectRowValue(b, orderBy[i].col))
        IN  /\ \A i \in 1 .. k - 1 : Cmp(i) = 0
            /\ Cmp(k) = IF orderBy[k].desc THEN 1 ELSE -1

\* sort.SliceStable.
StableSort(seq, Lt(_, _)) ==
    LET Insert(sorted, x) ==
            LET notAfter == {i \in DOMAIN sorted : ~Lt(x, sorted[i])}
                at == IF notAfter = {} THEN 1
                      ELSE 1 + CHOOSE i \in notAfter : \A j \in notAfter : j <= i
            IN  InsertAt(sorted, at, x)
    IN  FoldLeft(Insert, << >>, seq)

sortRows(rows, orderBy) ==
    StableSort(rows, LAMBDA a, b : RowBefore(a, b, orderBy))

\* Keeps the first of equal rows (engine.dedupRows).
dedupRows(rows) ==
    FoldLeft(LAMBDA kept, r : IF \E i \in DOMAIN kept : kept[i] = r THEN kept
                              ELSE Append(kept, r),
             << >>, rows)

MapRows(Op(_), rows) == [i \in DOMAIN rows |-> Op(rows[i])]

\* These three stand for @@, :> and SelectSeq where the proofs look inside.
Overlay(f, g) ==
    [x \in DOMAIN f \cup DOMAIN g |-> IF x \in DOMAIN f THEN f[x] ELSE g[x]]

Put(f, key, value) == [x \in DOMAIN f \cup {key} |-> IF x = key THEN value ELSE f[x]]

\* The elements of a sequence at some places, in their order.
ElementsAt(seq, places) ==
    [n \in 1 .. Cardinality(places) |->
        seq[CHOOSE p \in places : Cardinality({q \in places : q <= p}) = n]]

\* Rows as a bag: how often each one occurs.
Bag(rows) == [r \in ToSet(rows) |-> Cardinality({i \in DOMAIN rows : rows[i] = r})]
===============================================================================
