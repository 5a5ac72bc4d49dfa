-------------------------------- MODULE Session --------------------------------
(***************************************************************************)
(* A session: statements run one after another against a catalog and the   *)
(* tables' files, pkg/engine/engine.go Engine.Execute with                 *)
(* pkg/catalog/catalog.go and gsql.go.  What a statement computes from     *)
(* them is a parameter: Engine defines it.                                 *)
(***************************************************************************)
EXTENDS Partitions

CONSTANTS
    CreateTables,           \* the tables CREATE TABLE may name
    Inserts,                \* the INSERT statements
    Selects,                \* the queries of SELECT and EXPLAIN
    MaxRows,                \* bound: the rows a table holds
    InsertResult(_, _, _),  \* what a statement computes from the catalog and
    SelectResult(_, _, _),  \* the files: [err, rows]
    ExplainResult(_, _, _)  \* and EXPLAIN: [err, ...], the plans

ASSUME SessionAssumption ==
    \A table \in CreateTables :
        /\ table.columns \in Seq(ToSet(table.columns))
        /\ table.partitionBy \in Seq(ToSet(table.partitionBy))

VARIABLES
    catalog,       \* catalog.tables: lower-case names to tables
    store,         \* the files of each table
    last           \* the last statement: its kind, itself, its error, and its
                   \* rows (of EXPLAIN the plans)

vars == <<catalog, store, last>>

HasTable(cat, name) == ToLower(name) \in DOMAIN cat
GetTable(cat, name) == cat[ToLower(name)]

---------------------------------------------------------------------------
(* Statements.  A query leaves the tables as they are, so a statement      *)
(* after it would find what it finds in its place: a session may end with  *)
(* a query, and none goes on after one.                                    *)

Running == last.kind \notin {"select", "explain"}

RowCount(files) == FoldLeft(LAMBDA n, path : n + Len(files[path]), 0, SetToSeq(DOMAIN files))

Init ==
    /\ catalog = << >>
    /\ store = << >>
    /\ last = [kind |-> "none", stmt |-> Nil, err |-> NoError, rows |-> << >>]

Outcome(kind, stmt, err, rows) ==
    last' = [kind |-> kind, stmt |-> stmt, err |-> err, rows |-> rows]

\* catalog.CreateTable
CreateTable(table) ==
    LET key == ToLower(table.name)
    IN  /\ Running
        /\ IF key \in DOMAIN catalog
           THEN /\ Outcome("create", table, "table already exists", << >>)
                /\ UNCHANGED <<catalog, store>>
           ELSE /\ catalog' = Put(catalog, key, table)
                /\ store' = Put(store, key, << >>)
                /\ Outcome("create", table, NoError, << >>)

InsertedRows(ins) ==
    IF HasTable(catalog, ins.table) THEN InsertResult(ins, catalog, store)
    ELSE Failed("target table does not exist")

\* executeInsertValues and executeInsertOverwrite
Stores(ins, result) ==
    LET key == ToLower(ins.table)
    IN  /\ Outcome("insert", ins, result.err, result.rows)
        /\ IF result.err # NoError THEN UNCHANGED store
           ELSE \E written \in {writeTable(store[key], catalog[key], result.rows, ins.append)} :
                   /\ RowCount(written) <= MaxRows
                   /\ store' = [store EXCEPT ![key] = written]

Insert(ins) ==
    /\ Running
    /\ UNCHANGED catalog
    /\ Stores(ins, InsertedRows(ins))

\* gsql.DB.Exec of a SELECT
Select(stmt) ==
    /\ Running
    /\ \E answer \in {SelectResult(stmt, catalog, store)} :
          Outcome("select", stmt, answer.err, answer.rows)
    /\ UNCHANGED <<catalog, store>>

\* executeExplain
Explain(stmt) ==
    /\ Running
    /\ \E plans \in {ExplainResult(stmt, catalog, store)} :
          Outcome("explain", stmt, plans.err, plans)
    /\ UNCHANGED <<catalog, store>>

Next ==
    \/ \E table \in CreateTables : CreateTable(table)
    \/ \E ins \in Inserts : Insert(ins)
    \/ \E stmt \in Selects : Select(stmt)
    \/ \E stmt \in Selects : Explain(stmt)

Spec == Init /\ [][Next]_vars
---------------------------------------------------------------------------
(* Properties.                                                             *)

\* A file of the table: rows of exactly its columns, at a path of one directory
\* for each partition column, named as the table names them.
IsFileOf(table, path, rows) ==
    /\ path \in Seq(ToSet(path)) /\ Len(path) = Len(table.partitionBy)
    /\ \A i \in DOMAIN path : path[i][1] = DirName(table, table.partitionBy[i])
    /\ rows \in Seq(ToSet(rows))
    /\ \A row \in ToSet(rows) : DOMAIN row = ToSet(ColumnNames(table))

\* A catalog, and files for each of its tables.
AreTables(cat, files) ==
    /\ DOMAIN cat = DOMAIN files
    /\ \A name \in DOMAIN cat :
          /\ name = ToLower(cat[name].name)
          /\ \A path \in DOMAIN files[name] : IsFileOf(cat[name], path, files[name][path])

\* Every table has files, each with rows of exactly the declared columns at a
\* path of one directory for each partition column (engine.go, table.go).
TypeOK ==
    /\ AreTables(catalog, store)
    /\ last.kind \in {"none", "create", "insert", "select", "explain"}
    /\ last.kind = "insert" /\ last.err = NoError => last.rows \in Seq(ToSet(last.rows))

\* What the proofs assume of InsertResult: without an error, a sequence of rows.
ResultsAreRows ==
    \A ins \in Inserts : \A cat, files :
        LET result == InsertResult(ins, cat, files)
        IN  AreTables(cat, files) /\ HasTable(cat, ins.table) /\ result.err = NoError
            => result.rows \in Seq(ToSet(result.rows))

\* The places of the rows in files, and how often a scan of all reads a row.
Places(files) == UNION {{path} \X DOMAIN files[path] : path \in DOMAIN files}
RowAt(files, table, at) == ReadRow(files, table, at[1], files[at[1]][at[2]])
Occurrences(files, table, row) == Cardinality({at \in Places(files) : RowAt(files, table, at) = row})

\* The row a given one is read as: its table's columns, partition values first.
AsRead(table, row) ==
    Overlay([c \in ToSet(table.partitionBy) |-> Get(row, c)], Encoded(table, row))

\* The files INSERT INTO, or INSERT OVERWRITE, of some rows keeps.
Written(table, rows) ==
    IF table.partitionBy = << >> THEN {<< >>} ELSE {PathOf(table, rows[i]) : i \in DOMAIN rows}
KeptFiles(files, table, rows, append) ==
    IF append THEN files
    ELSE [path \in DOMAIN files \ Written(table, rows) |-> files[path]]

\* Read again, a table has what the files it keeps had, and every row an INSERT
\* gives as often as it gives it, with the values of its partition columns and
\* of its columns.  A row that is a blank line is lost (table.go writeTable,
\* rowiter.go fileRowIter.Next).
ReadAgain(before, after, table, rows, append) ==
    \A row \in {RowAt(after, table, at) : at \in Places(after)}
               \cup {RowAt(before, table, at) : at \in Places(before)}
               \cup {AsRead(table, rows[i]) : i \in DOMAIN rows} :
        Occurrences(after, table, row) =
            Occurrences(KeptFiles(before, table, rows, append), table, row)
            + Cardinality({i \in DOMAIN rows : /\ ~IsBlank(table, rows[i])
                                              /\ AsRead(table, rows[i]) = row})

InsertIsRead ==
    [][ last'.kind = "insert" /\ last'.err = NoError =>
        LET key == ToLower(last'.stmt.table)
        IN  ReadAgain(store[key], store'[key], catalog[key], last'.rows, last'.stmt.append)
      ]_vars

\* A scan lists, in an order of its own, each file its filters keep, once.
Lists(paths, files) ==
    /\ paths \in Seq(files)
    /\ ToSet(paths) = files
    /\ \A i, j \in DOMAIN paths : paths[i] = paths[j] => i = j

FilesToRead(files, table, filters) ==
    IF table.partitionBy = << >> THEN DOMAIN files \cap {<< >>}
    ELSE MatchingPaths(files, table, filters)

\* The filters on partition columns hold for a row.
Passes(table, filters, row) ==
    \A i \in DOMAIN filters :
        filters[i].col \in ToSet(table.partitionBy) => MatchesOne(row[filters[i].col], filters[i])

\* Of the rows of a table a scan returns each that passes, as often as it is
\* there, and no other: choosing files by their directories loses no row and
\* keeps none that fails (table.go resolvePartitionPaths, rowiter.go).
ScanIsExact(files, table, filters, paths) ==
    LET scanned == ReadFiles(files, table, paths)
    IN  \A row : Cardinality({i \in DOMAIN scanned : scanned[i] = row}) =
                 IF Passes(table, filters, row) THEN Occurrences(files, table, row) ELSE 0

ScansAreExact ==
    \A name \in DOMAIN catalog : \A filters, paths :
        LET table == catalog[name]
        IN  Lists(paths, FilesToRead(store[name], table, filters))
            => ScanIsExact(store[name], table, filters, paths)
===============================================================================
