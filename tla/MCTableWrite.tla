----------------------------- MODULE MCTableWrite -----------------------------
(* Instances of TableWrite for TLC. *)
EXTENDS TableWrite, TLC

Table(backend, format, dirs, modes, n) ==
    [backend |-> backend, format |-> format, dirs |-> dirs, modes |-> modes,
     statements |-> n]

\* Which value is which does not matter.
ValueSymmetry == Permutations(Values)

\* Every backend, with and without PARTITIONED BY; the format matters to the local
\* one.  Three statements suffice for an INSERT to meet what a crash of the one
\* before made of a third one's rows.
AllTables ==
    {Table(b, "csv", {Root}, BOOLEAN, 3) : b \in Backends}
    \cup {Table("local", "json", {Root}, BOOLEAN, 3)}
    \cup {Table(b, "csv", {"k=1", "k=2"}, BOOLEAN, 2) : b \in Backends}

\* A local CSV file that gets INSERT OVERWRITE statements.
CSVTables == {Table("local", "csv", {Root}, {FALSE}, 2)}
===============================================================================
