------------------------------ MODULE Partitions ------------------------------
(***************************************************************************)
(* The files of a table and how they are read and written, pkg/storage     *)
(* table.go and rowiter.go, at the grain of a statement: every call        *)
(* succeeds.  ScanIter and TableWrite model the calls and their failures.  *)
(*                                                                         *)
(* A file is at a path of directories; a directory is <<column, value>>    *)
(* for "year=2024" and <<"", value>> for "2024".  The files of a table are *)
(* a function from paths to rows, and the path of a table that is not      *)
(* partitioned is << >>.  A table is [name, columns, partitionBy, bare,    *)
(* estimated], a column [name, type, default, hasDefault].                 *)
(***************************************************************************)
EXTENDS Rows

ColumnNames(table) == [i \in DOMAIN table.columns |-> table.columns[i].name]

\* An error, or the rows.
NoError == ""
Rows(rows) == [err |-> NoError, rows |-> rows]
Failed(err) == [err |-> err, rows |-> << >>]

\* Encoding keeps the table's columns only.
Encoded(table, row) == [c \in ToSet(ColumnNames(table)) |-> Get(row, c)]

\* In CSV a row of one empty value is a blank line, which the reader skips.
IsBlank(table, row) == Len(table.columns) = 1 /\ Get(row, table.columns[1].name) = NoText

\* Mutant: a file gets every column of a row.
StoreEverything(table, rows, places) == ElementsAt(rows, places)

\* What a file holds of the rows at some places.
Stored(table, rows, places) ==
    MapRows(LAMBDA r : Encoded(table, r),
            ElementsAt(rows, {i \in places : ~IsBlank(table, rows[i])}))

---------------------------------------------------------------------------
(* Reading.                                                                *)

\* A partition filter is [col, op, value]; values compare as texts.
MatchesOne(val, cond) ==
    CASE cond.op \in {"=", ""} -> val = cond.value
      [] cond.op = "!=" -> val # cond.value
      [] cond.op = ">" -> Before(cond.value, val)
      [] cond.op = "<" -> Before(val, cond.value)
      [] cond.op = ">=" -> ~Before(val, cond.value)
      [] cond.op = "<=" -> ~Before(cond.value, val)

matchPartitionValue(val, conds) == \A cond \in conds : MatchesOne(val, cond)

\* Directories are bare by option, or when no directory names the column.
UsesBare(files, table) ==
    LET first == {path[1][1] : path \in {p \in DOMAIN files : p # << >>}}
    IN  table.bare \/ (first # {} /\ NameOf(table.partitionBy[1]) \notin first)

\* The value of a directory of a level, for the partition column of that level.
IsLevel(dir, col, bare) == bare \/ dir[1] = NameOf(col)
LeafValue(dir, bare) == IF bare /\ dir[1] # "" THEN dir[1] \o "=" \o dir[2] ELSE dir[2]

PathBefore(p, q) ==
    \E i \in DOMAIN p : /\ \A j \in 1 .. i - 1 : p[j] = q[j]
                        /\ Before(p[i][2], q[i][2])

\* The files whose directories match, level by level.
MatchingPaths(files, table, filters) ==
    LET bare == UsesBare(files, table)
        cols == table.partitionBy
        Conds(col) == {filters[i] : i \in {i \in DOMAIN filters : filters[i].col = col}}
    IN  {path \in DOMAIN files :
            /\ Len(path) = Len(cols)
            /\ \A i \in DOMAIN cols :
                  /\ IsLevel(path[i], cols[i], bare)
                  /\ matchPartitionValue(LeafValue(path[i], bare), Conds(cols[i]))}

\* In the order of the directory listings.
resolvePartitionPaths(files, table, filters) ==
    SortSeq(SetToSeq(MatchingPaths(files, table, filters)), PathBefore)

PartitionValues(table, path, bare) ==
    [c \in ToSet(table.partitionBy) |->
        LET i == CHOOSE i \in DOMAIN table.partitionBy : table.partitionBy[i] = c
        IN  LeafValue(path[i], bare)]

\* Mutant: the values of the path are not added.
ReadAsStored(files, table, path, row) == row

\* A row of a file, with the values of its path over its own.
ReadRow(files, table, path, row) ==
    IF table.partitionBy = << >> THEN row
    ELSE Overlay(PartitionValues(table, path, UsesBare(files, table)), row)

ReadFile(files, table, path) ==
    MapRows(LAMBDA row : ReadRow(files, table, path, row), files[path])

ReadFiles(files, table, paths) ==
    FlattenSeq([i \in DOMAIN paths |-> ReadFile(files, table, paths[i])])

\* storage.OpenTableIter, drained: the rows file by file.
OpenTableIter(files, table, filters) ==
    LET paths == IF table.partitionBy = << >> THEN SetToSeq(DOMAIN files \cap {<< >>})
                 ELSE resolvePartitionPaths(files, table, filters)
    IN  IF paths = << >> THEN Failed("no files found")
        ELSE Rows(ReadFiles(files, table, paths))

---------------------------------------------------------------------------
(* Writing.                                                                *)

\* A bare directory is the value itself, which is not empty here: the code
\* would leave that level out, and not find the row again.
DirName(table, col) == IF table.bare THEN "" ELSE NameOf(col)

PathOf(table, row) ==
    [i \in DOMAIN table.partitionBy |->
        <<DirName(table, table.partitionBy[i]), Get(row, table.partitionBy[i])>>]

\* One data file: appended to, or replaced.
FileWith(files, path, rows, appendMode) ==
    IF appendMode /\ path \in DOMAIN files THEN files[path] \o rows ELSE rows

\* Every partition that has a row is written, and no other.
writePartitionedTable(files, table, rows, appendMode) ==
    LET paths == {PathOf(table, rows[i]) : i \in DOMAIN rows}
        New(path) == Stored(table, rows, {i \in DOMAIN rows : PathOf(table, rows[i]) = path})
    IN  [path \in DOMAIN files \cup paths |->
            IF path \in paths THEN FileWith(files, path, New(path), appendMode) ELSE files[path]]

\* Mutant: an overwrite removes the table's other partitions.
WriteAll(files, table, rows, appendMode) ==
    IF table.partitionBy # << >>
    THEN writePartitionedTable(IF appendMode THEN files ELSE << >>, table, rows, appendMode)
    ELSE << >> :> FileWith(files, << >>, Stored(table, rows, DOMAIN rows), appendMode)

writeTable(files, table, rows, appendMode) ==
    IF table.partitionBy # << >>
    THEN writePartitionedTable(files, table, rows, appendMode)
    ELSE Put(files, << >>,
             FileWith(files, << >>, Stored(table, rows, DOMAIN rows), appendMode))
===============================================================================
