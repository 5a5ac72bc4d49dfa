------------------------------- MODULE MCEngine -------------------------------
(***************************************************************************)
(* The instances of Engine: the tables and the statements, each with its   *)
(* SQL.                                                                    *)
(***************************************************************************)
EXTENDS Meaning, Text

TextOrderVal ==
    <<"", "-1", "0", "01", "1", "10", "15", "2", "20", "25", "3", "30", "35", "4", "45", "5", "7",
      "ann", "bj", "bob", "cid", "e", "gz", "n", "n,e", "n,w", "sh", "w">>
SpellingVal == "01" :> 1
DecimalFormVal == {}
LowerCaseVal == "Users" :> "users" @@ "ANN" :> "ann" @@ "BOB" :> "bob" @@ "CID" :> "cid"
ElementsVal == "n,e" :> <<"n", "e">> @@ "n,w" :> <<"n", "w">>

Table(name, columns, partitionBy, estimated) ==
    [name |-> name, columns |-> columns, partitionBy |-> partitionBy, bare |-> FALSE,
     estimated |-> estimated]
Column(name, type) == [name |-> Col(name), type |-> type, default |-> NoText, hasDefault |-> FALSE]
WithDefault(column, value) == [column EXCEPT !.default = value, !.hasDefault = TRUE]

\* zones is the larger of two tables whose size is known: it is swapped.
Users == Table("Users", <<Column("id", "INT"), Column("name", "STRING"),
                          WithDefault(Column("city", "STRING"), "sh")>>, << >>, 3)
Orders == Table("orders", <<Column("id", "INT"), Column("user_id", "INT"),
                            Column("amount", "INT")>>, << >>, 0)
Zones == Table("zones", <<Column("zone", "STRING"), Column("area", "STRING")>>, << >>, 10)
Logs == Table("logs", <<Column("who", "STRING"), Column("dt", "STRING")>>, <<Col("dt")>>, 0)
Sales == Table("sales", <<Column("amount", "INT")>>, <<Col("year")>>, 0)

SqlTables == {Users, Orders, Zones, Logs, Sales}

---------------------------------------------------------------------------
SelectFrom(columns, table) == [EmptyQuery EXCEPT !.columns = columns, !.table = table]
SelectFromAs(columns, table, alias) == [SelectFrom(columns, table) EXCEPT !.alias = alias]
Join(type, table, alias, left, right) ==
    [type |-> type, table |-> table, alias |-> alias, leftCol |-> left, rightCol |-> right]
As(alias, orig) == [alias |-> Col(alias), orig |-> orig]
Asc(col) == [col |-> col, desc |-> FALSE]
Desc(col) == [col |-> col, desc |-> TRUE]
Agg(fn, col) == [fn |-> fn, col |-> col, args |-> <<ColRef(col)>>, distinct |-> FALSE]
Scalar(fn, col, args) == [fn |-> fn, col |-> col, args |-> args, distinct |-> FALSE]
Over(fn, args, partitionBy, orderBy, frame, key) ==
    [fn |-> fn, args |-> MapRows(ColRef, args), partitionBy |-> partitionBy, orderBy |-> orderBy,
     frame |-> frame, key |-> key, ref |-> ""]

Id == Col("id")
Name == Col("name")
City == Col("city")
Amount == Col("amount")
UName == Qual("u", "name")
OAmount == Qual("o", "amount")
UsersOrders(type) == Join(type, "orders", "o", Qual("u", "id"), Qual("o", "user_id"))

\* SELECT name, id FROM users WHERE city = 'bj' ORDER BY id DESC LIMIT 1
Sorted == [SelectFrom(<<Name, Id>>, "users")
             EXCEPT !.where = Compare(City, "=", "bj"), !.orderBy = <<Desc(Id)>>, !.limit = 1]
\* SELECT u.id, u.name, o.id, o.amount FROM users u JOIN orders o ON u.id = o.user_id
\*   WHERE o.amount > 10 OR u.city != 'bj'
Joined == [SelectFromAs(<<Qual("u", "id"), UName, Qual("o", "id"), OAmount>>, "users", "u")
             EXCEPT !.joins = <<UsersOrders("INNER")>>,
                    !.where = AndOr("OR", Compare(OAmount, ">", "10"), Compare(Qual("u", "city"), "!=", "bj"))]
\* SELECT z.area, u.name, u.id FROM zones z <type> JOIN users u ON u.city = z.zone
\*   ORDER BY z.area DESC
Outer(type) == [SelectFromAs(<<Qual("z", "area"), UName, Qual("u", "id")>>, "zones", "z")
                  EXCEPT !.joins = <<Join(type, "users", "u", Qual("u", "city"), Qual("z", "zone"))>>,
                         !.orderBy = <<Desc(Qual("z", "area"))>>]
\* SELECT u.name FROM users u LEFT SEMI JOIN orders o ON u.id = o.user_id
Semi == [SelectFromAs(<<UName>>, "users", "u") EXCEPT !.joins = <<UsersOrders("SEMI")>>]
\* SELECT u.name, z.area AS region FROM users u JOIN zones z ON u.city = z.zone
SwappedJoin == [SelectFromAs(<<UName, Qual("z", "area")>>, "users", "u")
                  EXCEPT !.joins = <<Join("INNER", "zones", "z", Qual("u", "city"), Qual("z", "zone"))>>,
                         !.aliases = <<As("region", Qual("z", "area"))>>]
\* SELECT o.id, u.name, z.area FROM orders o JOIN users u ON o.user_id = u.id
\*   JOIN zones z ON u.city = z.zone
Chained == [SelectFromAs(<<Qual("o", "id"), UName, Qual("z", "area")>>, "orders", "o")
              EXCEPT !.joins = <<Join("INNER", "users", "u", Qual("o", "user_id"), Qual("u", "id")),
                                 Join("INNER", "zones", "z", Qual("u", "city"), Qual("z", "zone"))>>]
\* SELECT u.name, z.zone FROM users u CROSS JOIN zones z WHERE city != zone
Crossed == [SelectFromAs(<<UName, Qual("z", "zone")>>, "users", "u")
              EXCEPT !.joins = <<Join("CROSS", "zones", "z", NoCol, NoCol)>>,
                     !.where = CompareColumns(City, "!=", Col("zone"))]
\* SELECT name FROM users WHERE id IN (SELECT user_id FROM orders WHERE amount > 5)
InSelect(not) == [SelectFrom(<<Name>>, "users")
                    EXCEPT !.where = InQuery(Id, not, [SelectFrom(<<Col("user_id")>>, "orders")
                                        EXCEPT !.where = Compare(Amount, ">", "15")])]
\* SELECT name FROM users WHERE city = 'bj' AND EXISTS (SELECT id FROM orders WHERE amount > 20)
WhereExists == [SelectFrom(<<Name>>, "users")
                  EXCEPT !.where = AndOr("AND", Compare(City, "=", "bj"),
                        Exists(FALSE, [SelectFrom(<<Id>>, "orders")
                                        EXCEPT !.where = Compare(Amount, ">", "20")]))]
\* WITH big AS (SELECT user_id, amount AS paid FROM orders WHERE amount > 10)
\*   SELECT u.name, b.paid FROM users u JOIN big b ON u.id = b.user_id
WithBig == [SelectFromAs(<<UName, Qual("b", "paid")>>, "users", "u")
              EXCEPT !.ctes = <<[name |-> "big",
                                 query |-> [SelectFrom(<<Col("user_id"), Amount>>, "orders")
                                              EXCEPT !.where = Compare(Amount, ">", "10"),
                                                     !.aliases = <<As("paid", Amount)>>]]>>,
                     !.joins = <<Join("INNER", "big", "b", Qual("u", "id"), Qual("b", "user_id"))>>]
\* SELECT s.name FROM (SELECT name, city FROM users) s WHERE city = 'bj'
FromSelect == [SelectFromAs(<<Qual("s", "name")>>, "", "s")
                 EXCEPT !.sub = SelectFrom(<<Name, City>>, "users"), !.fromAlias = "s",
                        !.where = Compare(City, "=", "bj")]
\* SELECT t.b FROM (VALUES ('1', 'ann'), ('2', 'bob')) t(a, b) WHERE a > 1
FromValues == [SelectFromAs(<<Qual("t", "b")>>, "", "t")
                 EXCEPT !.values = << <<"1", "ann">>, <<"2", "bob">> >>, !.fromAlias = "t",
                        !.valuesCols = <<Col("a"), Col("b")>>, !.where = Compare(Col("a"), ">", "1")]
\* SELECT city FROM users UNION [ALL] SELECT zone AS city FROM zones
Unioned(all) == [SelectFrom(<<City>>, "users")
                   EXCEPT !.unionAll = all,
                          !.union = [SelectFrom(<<Col("zone")>>, "zones")
                                       EXCEPT !.aliases = <<As("city", Col("zone"))>>]]
\* SELECT name, CASE WHEN city = 'bj' THEN 'n' ELSE name END AS side, UPPER(name),
\*   COALESCE(city, 'w') FROM users WHERE name IS NOT NULL
Scalars == [SelectFrom(<<Name, Col("CASE_1"), Call("UPPER", Name), Call("COALESCE", City)>>, "users")
              EXCEPT !.exprs = <<Nil, Case(<<[cond |-> Compare(City, "=", "bj"), result |-> Lit("n")]>>,
                                           ColRef(Name)), Nil, Nil>>,
                     !.aggs = <<Scalar("UPPER", Name, <<ColRef(Name)>>),
                                Scalar("COALESCE", City, <<ColRef(City), Lit("w")>>)>>,
                     !.aliases = <<As("side", Col("CASE_1"))>>,
                     !.where = IsNullTest(Name, FALSE)]
\* SELECT id, amount * 2 AS twice FROM orders WHERE amount + 5 > 15
Computed == LET twice == Col("amount * 2")
            IN  [SelectFrom(<<Id, twice>>, "orders")
                   EXCEPT !.exprs = <<Nil, Bin("*", ColRef(Amount), Lit("2"))>>,
                          !.aliases = <<As("twice", twice)>>,
                          !.where = [CompareValue(Bin("+", ColRef(Amount), Lit("5")), ">", "15")
                                       EXCEPT !.col = Col("(amount + 5)")]]
\* SELECT DISTINCT city FROM users ORDER BY city
Distinct == [SelectFrom(<<City>>, "users") EXCEPT !.distinct = TRUE, !.orderBy = <<Asc(City)>>]
\* SELECT zone, area, part FROM zones LATERAL VIEW [OUTER] EXPLODE(area) t AS part
Exploded(outer) == [SelectFrom(<<Col("zone"), Col("area"), Col("part")>>, "zones")
                      EXCEPT !.views = <<[outer |-> outer, fn |-> "EXPLODE",
                                          args |-> <<ColRef(Col("area"))>>, names |-> <<Col("part")>>]>>]
\* SELECT * FROM logs WHERE dt >= 'bj' AND dt < 'sh' AND who != 'bob'
Pruned == [SelectFrom(<<Star>>, "logs")
             EXCEPT !.where = AndOr("AND", AndOr("AND", Compare(Col("dt"), ">=", "bj"),
                                                 Compare(Col("dt"), "<", "sh")),
                                    Compare(Col("who"), "!=", "bob"))]

\* SELECT name FROM users WHERE city = 'bj' AND (id > 1 OR UPPER(name) = 'BOB')
Mixed == [SelectFrom(<<Name>>, "users")
            EXCEPT !.where = AndOr("AND", Compare(City, "=", "bj"),
                                   AndOr("OR", Compare(Id, ">", "1"),
                                         CompareValue(FuncCall("UPPER", <<ColRef(Name)>>), "=", "BOB")))]
\* SELECT id, user_id + amount * 2 AS score FROM orders WHERE amount - user_id - 3 > 4 ORDER BY id
Arithmetical ==
    LET score == Col("user_id + (amount * 2)")
        less == Bin("-", Bin("-", ColRef(Amount), ColRef(Col("user_id"))), Lit("3"))
    IN  [SelectFrom(<<Id, score>>, "orders")
           EXCEPT !.exprs = <<Nil, Bin("+", ColRef(Col("user_id")), Bin("*", ColRef(Amount), Lit("2")))>>,
                  !.aliases = <<As("score", score)>>, !.where = CompareValue(less, ">", "4"),
                  !.orderBy = <<Asc(Id)>>]

Plain == {Sorted, Mixed, Arithmetical, Joined, Semi, SwappedJoin, Chained, Crossed, InSelect(FALSE), InSelect(TRUE),
          WhereExists, WithBig, FromSelect, FromValues, Unioned(TRUE), Unioned(FALSE), Scalars,
          Computed, Distinct, Exploded(FALSE), Exploded(TRUE), Pruned}
         \cup {Outer(type) : type \in {"LEFT", "RIGHT", "FULL"}}

---------------------------------------------------------------------------
CountAll == Call("COUNT", Star)

\* SELECT city, COUNT(*) AS cnt, MIN(name) FROM users GROUP BY city HAVING cnt > 1
\*   ORDER BY cnt DESC
Counted == [SelectFrom(<<City, CountAll, Call("MIN", Name)>>, "users")
              EXCEPT !.aggs = <<Agg("COUNT", Star), Agg("MIN", Name)>>, !.groupBy = <<City>>,
                     !.aliases = <<As("cnt", CountAll)>>, !.having = Compare(Col("cnt"), ">", "1"),
                     !.orderBy = <<Desc(Col("cnt"))>>]
\* SELECT u.city, SUM(o.amount) AS total FROM users u JOIN orders o ON u.id = o.user_id
\*   GROUP BY u.city ORDER BY total DESC LIMIT 1
Totals == [SelectFromAs(<<Qual("u", "city"), Call("SUM", OAmount)>>, "users", "u")
             EXCEPT !.joins = <<UsersOrders("INNER")>>, !.aggs = <<Agg("SUM", OAmount)>>,
                    !.groupBy = <<Qual("u", "city")>>,
                    !.aliases = <<As("total", Call("SUM", OAmount))>>,
                    !.orderBy = <<Desc(Col("total"))>>, !.limit = 1]
\* SELECT user_id, amount, COUNT(*) FROM orders WHERE id != 2 GROUP BY amount, user_id
Pairs == [SelectFrom(<<Col("user_id"), Amount, CountAll>>, "orders")
            EXCEPT !.aggs = <<Agg("COUNT", Star)>>, !.groupBy = <<Amount, Col("user_id")>>,
                   !.where = Compare(Id, "!=", "2")]
\* SELECT COUNT(*), SUM(amount), AVG(amount), MIN(amount), MAX(amount) FROM orders
Overall == LET fns == <<"SUM", "AVG", "MIN", "MAX">>
           IN  [SelectFrom(<<CountAll>> \o [i \in 1 .. 4 |-> Call(fns[i], Amount)], "orders")
                  EXCEPT !.aggs = <<Agg("COUNT", Star)>> \o [i \in 1 .. 4 |-> Agg(fns[i], Amount)]]
\* SELECT COUNT(DISTINCT city) AS n FROM users
CountDistinct == [SelectFrom(<<DistinctCall("COUNT", City)>>, "users")
                    EXCEPT !.aggs = <<[Agg("COUNT", City) EXCEPT !.distinct = TRUE]>>,
                           !.aliases = <<As("n", DistinctCall("COUNT", City))>>]
\* SELECT id FROM orders GROUP BY amount
Ungrouped == [SelectFrom(<<Id>>, "orders") EXCEPT !.groupBy = <<Amount>>]

Grouped == {Counted, Totals, Pairs, Overall, CountDistinct, Ungrouped}

\* SELECT o.id, RANK() OVER (PARTITION BY u.city ORDER BY o.amount DESC) AS rk,
\*   DENSE_RANK() OVER (PARTITION BY u.city ORDER BY o.amount DESC) AS dr,
\*   SUM(o.amount) OVER (PARTITION BY u.city ORDER BY o.amount
\*                       ROWS BETWEEN 1 PRECEDING AND CURRENT ROW) AS run,
\*   LAG(o.amount) OVER (PARTITION BY u.city ORDER BY o.amount) AS prev
\*   FROM users u JOIN orders o ON u.id = o.user_id
Ranked ==
    LET byCity == <<Qual("u", "city")>>
        frame == Frame("ROWS", Bound("PRECEDING", 1), Bound("CURRENT ROW", 0))
        rank == Call("RANK", NoCol)
        dense == Call("DENSE_RANK", NoCol)
        sum == Call("SUM", OAmount)
        lag == Call("LAG", OAmount)
    IN  [SelectFromAs(<<OAmount, rank, dense, sum, lag>>, "users", "u")
           EXCEPT !.joins = <<UsersOrders("INNER")>>,
                  !.windows = <<Over("RANK", << >>, byCity, <<Desc(OAmount)>>, Nil, rank),
                                Over("DENSE_RANK", << >>, byCity, <<Desc(OAmount)>>, Nil, dense),
                                Over("SUM", <<OAmount>>, byCity, <<Asc(OAmount)>>, frame, sum),
                                Over("LAG", <<OAmount>>, byCity, <<Asc(OAmount)>>, Nil, lag)>>,
                  !.aliases = <<As("rk", rank), As("dr", dense), As("run", sum), As("prev", lag)>>]
\* SELECT id, ROW_NUMBER() OVER (ORDER BY amount DESC, id) AS rn, SUM(amount) OVER () AS total
\*   FROM orders ORDER BY rn
Numbered ==
    LET rn == Call("ROW_NUMBER", NoCol)
        sum == Call("SUM", Amount)
    IN  [SelectFrom(<<Id, rn, sum>>, "orders")
           EXCEPT !.windows = <<Over("ROW_NUMBER", << >>, << >>, <<Desc(Amount), Asc(Id)>>, Nil, rn),
                                Over("SUM", <<Amount>>, << >>, << >>, Nil, sum)>>,
                  !.aliases = <<As("rn", rn), As("total", sum)>>, !.orderBy = <<Asc(Col("rn"))>>]

\* SELECT id, SUM(amount) OVER (PARTITION BY user_id) AS own, SUM(amount) OVER () AS total
\*   FROM orders
Sums ==
    LET own == Call("SUM", Amount)
        total == Call("SUM#2", Amount)
    IN  [SelectFrom(<<Id, own, total>>, "orders")
           EXCEPT !.windows = <<Over("SUM", <<Amount>>, <<Col("user_id")>>, << >>, Nil, own),
                                Over("SUM", <<Amount>>, << >>, << >>, Nil, total)>>,
                  !.aliases = <<As("own", own), As("total", total)>>]

SqlSelects == {Said(q) : q \in Plain \cup Grouped \cup {Ranked, Numbered, Sums}} \cup {SaidWithNames(Ranked)}

---------------------------------------------------------------------------
InsertValues(table, values, append) ==
    [table |-> table, values |-> values, query |-> Nil, append |-> append]
InsertQuery(table, query, append) ==
    [table |-> table, values |-> << >>, query |-> Said(query), append |-> append]

\* INSERT INTO users VALUES (1, 'ann', 'bj'), (2, 'bob'), (3, 'cid', 'bj')
SomeUsers == InsertValues("users", << <<"1", "ann", "bj">>, <<"2", "bob">>, <<"3", "cid", "bj">> >>, TRUE)
\* INSERT OVERWRITE TABLE orders VALUES (1, '01', 10), (2, 1, 25), (3, 3, 10), (4, 7, 20)
SomeOrders == InsertValues("orders", << <<"1", "01", "10">>, <<"2", "1", "25">>, <<"3", "3", "10">>,
                                        <<"4", "7", "20">> >>, FALSE)
\* INSERT OVERWRITE TABLE zones VALUES ('bj', 'n,e'), ('gz', '')
SomeZones == InsertValues("zones", << <<"bj", "n,e">>, <<"gz", "">> >>, FALSE)
\* INSERT INTO orders VALUES (5, 2): too few, amount has no DEFAULT
TooFew == InsertValues("orders", << <<"5", "2">> >>, TRUE)
\* INSERT INTO logs SELECT u.name, u.city FROM users u
LogUsers == InsertQuery("logs", SelectFromAs(<<UName, Qual("u", "city")>>, "users", "u"), TRUE)
\* INSERT OVERWRITE TABLE logs SELECT name, city FROM users WHERE city = 'bj' AND name != 'ann'
LogAgain == InsertQuery("logs", [SelectFrom(<<Name, City>>, "users")
                                   EXCEPT !.where = AndOr("AND", Compare(City, "=", "bj"),
                                                          Compare(Name, "!=", "ann"))], FALSE)
\* INSERT INTO sales SELECT SUM(amount) AS s, user_id FROM orders GROUP BY user_id
SumSales == InsertQuery("sales", [SelectFrom(<<Call("SUM", Amount), Col("user_id")>>, "orders")
                                    EXCEPT !.aggs = <<Agg("SUM", Amount)>>, !.groupBy = <<Col("user_id")>>,
                                           !.aliases = <<As("s", Call("SUM", Amount))>>], TRUE)
\* INSERT OVERWRITE TABLE sales SELECT amount, user_id FROM orders WHERE amount > 15
BigSales == InsertQuery("sales", [SelectFrom(<<Amount, Col("user_id")>>, "orders")
                                    EXCEPT !.where = Compare(Amount, ">", "15")], FALSE)

SqlInserts == {SomeUsers, SomeOrders, SomeZones, TooFew, LogUsers, LogAgain, SumSales, BigSales}

---------------------------------------------------------------------------
\* tests/basic/test_group_by.sql:1
HavingTables == {Users, Orders, Zones}
HavingInserts == {SomeUsers, SomeOrders, SomeZones}
\* SELECT city, COUNT(*) AS cnt FROM users GROUP BY city HAVING COUNT(*) > 1
HavingSelects == {Said([SelectFrom(<<City, CountAll>>, "users")
                          EXCEPT !.aggs = <<Agg("COUNT", Star)>>, !.groupBy = <<City>>,
                                 !.aliases = <<As("cnt", CountAll)>>,
                                 !.having = Compare(CountAll, ">", "1")])}
===============================================================================
