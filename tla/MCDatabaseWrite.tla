--------------------------- MODULE MCDatabaseWrite ---------------------------
(* Instances of DatabaseWrite for TLC. *)
EXTENDS DatabaseWrite

CONSTANTS w1, w2

Table(server, storage, writers, n, failures) ==
    [server |-> server, storage |-> storage, modes |-> BOOLEAN, writers |-> writers,
     sizes |-> {0, 1, 3}, statements |-> n, faults |-> failures]

\* Every server, with and without the storage option, for one writer; and two
\* writers of one table.
AllTables ==
    {Table(s, opt, {w1}, 3, 2) : s \in Servers, opt \in {"", "named"}}

Named(t) == IF t.storage = "" THEN t ELSE [t EXCEPT !.storage = t.server]

MCTables ==
    {Named(t) : t \in AllTables}
    \cup {[Table("mysql", "mysql", {w1, w2}, 3, 1) EXCEPT !.sizes = {2}]}

UrlTables == {Table("sqlite", "", {w1}, 2, 0)}
===============================================================================
