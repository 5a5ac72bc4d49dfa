----------------------------- MODULE DatabaseWrite -----------------------------
(***************************************************************************)
(* Writing a table that lies in a database: WriteTable of                  *)
(* pkg/database/database.go.  Without a transaction, it creates the table  *)
(* if need be, clears it for an INSERT OVERWRITE and inserts row by row.   *)
(*                                                                         *)
(* A row is [by: the statement, n: its place in it].  The server is        *)
(* external: it carries out a command whole or not at all, and refuses     *)
(* what is not in its dialect.                                             *)
(***************************************************************************)
EXTENDS Integers, Sequences, FiniteSets, SequencesExt

CONSTANTS Tables,           \* the tables to write, see TableAssumption
          Writers           \* processes that run statements

Servers == {"sqlite", "mysql", "postgres"}

ASSUME TableAssumption ==
    \A t \in Tables : /\ t.server \in Servers
                      /\ t.storage \in {t.server, ""}
                      /\ t.modes \subseteq BOOLEAN
                      /\ t.writers \subseteq Writers /\ IsFiniteSet(t.writers)
                      /\ t.sizes \subseteq Nat
                      /\ t.statements \in Nat /\ t.faults \in Nat

VARIABLES
    table,      \* [server, storage: the option, "" when a url stands for it,
                \*  modes: TRUE for INSERT INTO, writers, sizes: how many rows,
                \*  statements and faults: how many at most]
    exists,     \* whether the server has the table
    rows,       \* its rows
    job,        \* what each writer is doing
    count,      \* statements begun
    faults,     \* commands that have failed or were not answered
    acked       \* rows of the statements that returned no error, less those that
                \* an INSERT OVERWRITE which has begun may clear

vars == <<table, exists, rows, job, count, faults, acked>>

Idle == [pc |-> "idle", stmt |-> 0, append |-> FALSE, size |-> 0, sent |-> 0,
         old |-> << >>, cleared |-> FALSE, clean |-> TRUE, result |-> "idle"]

RowsOf(stmt, size) == [i \in 1 .. size |-> [by |-> stmt, n |-> i]]

Init ==
    /\ table \in Tables
    /\ exists \in BOOLEAN
    /\ rows = << >>
    /\ job = [w \in Writers |-> Idle]
    /\ count = 0 /\ faults = 0 /\ acked = {}

-------------------------------------------------------------------------------
(***************************************************************************)
(* The SQL that the storage option selects, and the server's dialect.  A   *)
(* table that is given by its url alone leaves the option empty.           *)
(***************************************************************************)
\* Mutant: every server gets TRUNCATE TABLE.
Truncates == table.server # "sqlite"

\* clearTableSQL: DELETE FROM for sqlite, otherwise TRUNCATE, which it lacks.
CanClear == table.storage = "sqlite" \/ table.server # "sqlite"

\* placeholder: $1 for postgres, which knows no other, otherwise ?.
CanInsert == (table.storage = "postgres") = (table.server = "postgres")

-------------------------------------------------------------------------------
(***************************************************************************)
(* A statement.                                                            *)
(***************************************************************************)
Fault ==
    /\ faults < table.faults
    /\ faults' = faults + 1

Overwriting == \E w \in Writers : job[w].pc # "idle" /\ ~job[w].append

\* A statement without rows ends before it opens the database.
Begin(w) ==
    /\ job[w].pc = "idle" /\ count < table.statements
    /\ count' = count + 1
    /\ \E append \in table.modes, size \in table.sizes :
         LET new == [Idle EXCEPT !.stmt = count', !.append = append,
                                 !.size = size, !.old = rows]
         IN  IF size = 0
             THEN /\ job' = [job EXCEPT ![w] = [new EXCEPT !.result = "ok"]]
                  /\ UNCHANGED acked
             ELSE /\ job' = [v \in Writers |->
                       IF v = w THEN [new EXCEPT !.pc = "open", !.cleared = Overwriting]
                       ELSE [job[v] EXCEPT !.cleared = @ \/ ~append]]
                  /\ acked' = IF append THEN acked ELSE {}
    /\ UNCHANGED <<table, exists, rows, faults>>

End(w, result, clean) ==
    job' = [job EXCEPT ![w].pc = "idle", ![w].result = result, ![w].clean = clean]

\* Open connects and pings.
Open(w) ==
    /\ job[w].pc = "open"
    /\ job' = [job EXCEPT ![w].pc = "ensure"]
    /\ UNCHANGED <<table, exists, rows, count, faults, acked>>

\* Mutant: the table is cleared for every statement.
ClearAlways(w) == job' = [job EXCEPT ![w].pc = "clear"]

Ensured(w) == job' = [job EXCEPT ![w].pc = IF job[w].append THEN "insert" ELSE "clear"]

\* CREATE TABLE IF NOT EXISTS.
EnsureTable(w) ==
    /\ job[w].pc = "ensure"
    /\ exists' = TRUE
    /\ \/ Ensured(w) /\ UNCHANGED faults
       \/ End(w, "error", FALSE) /\ Fault
    /\ UNCHANGED <<table, rows, count, acked>>

\* The error of the clearing command is not looked at.
Clear(w) ==
    /\ job[w].pc = "clear"
    /\ rows' = IF CanClear THEN << >> ELSE rows
    /\ \/ job' = [job EXCEPT ![w].pc = "insert"] /\ UNCHANGED faults
       \/ job' = [job EXCEPT ![w].pc = "insert", ![w].clean = FALSE] /\ Fault
    /\ UNCHANGED <<table, exists, count, acked>>

ClearFails(w) ==
    /\ job[w].pc = "clear" /\ Fault
    /\ job' = [job EXCEPT ![w].pc = "insert", ![w].clean = FALSE]
    /\ UNCHANGED <<table, exists, rows, count, acked>>

\* Mutant: one row more than the statement has.
InsertTooMany(w) ==
    IF job[w].sent < job[w].size THEN job' = [job EXCEPT ![w].sent = @ + 1]
    ELSE job' = [job EXCEPT ![w].sent = @ + 1, ![w].pc = "idle", ![w].result = "ok"]

\* The loop over the rows.
Inserted(w) ==
    IF job[w].sent + 1 < job[w].size THEN job' = [job EXCEPT ![w].sent = @ + 1]
    ELSE job' = [job EXCEPT ![w].sent = @ + 1, ![w].pc = "idle", ![w].result = "ok"]

Acknowledged(w) ==
    acked' = IF job'[w].result = "ok" /\ ~job[w].cleared
             THEN acked \cup ToSet(RowsOf(job[w].stmt, job[w].size))
             ELSE acked

Insert(w) ==
    /\ job[w].pc = "insert" /\ CanInsert
    /\ rows' = Append(rows, [by |-> job[w].stmt, n |-> job[w].sent + 1])
    /\ Inserted(w)
    /\ Acknowledged(w)
    /\ UNCHANGED <<table, exists, count, faults>>

\* Mutant: an insert without an answer is sent again.
SentAgain(w) == UNCHANGED job

InsertStops(w) == End(w, "error", FALSE)

\* The row is stored and the answer is lost.
InsertUnanswered(w) ==
    /\ job[w].pc = "insert" /\ CanInsert /\ Fault
    /\ rows' = Append(rows, [by |-> job[w].stmt, n |-> job[w].sent + 1])
    /\ InsertStops(w)
    /\ UNCHANGED <<table, exists, count, acked>>

\* Mutant: the loop goes on with the next row.
SkipRow(w) ==
    /\ job[w].pc = "insert" /\ Fault
    /\ Inserted(w)
    /\ UNCHANGED <<table, exists, rows, count, acked>>

\* The connection breaks, or the server refuses the command.
InsertFails(w) ==
    /\ job[w].pc = "insert"
    /\ \/ Fault /\ End(w, "error", FALSE)
       \/ ~CanInsert /\ UNCHANGED faults /\ End(w, "error", job[w].clean)
    /\ UNCHANGED <<table, exists, rows, count, acked>>

\* Open or CREATE TABLE fails without effect, or the process dies.
Stops(w) ==
    /\ job[w].pc # "idle" /\ Fault
    /\ \/ job[w].pc \in {"open", "ensure"} /\ End(w, "error", FALSE)
       \/ End(w, "crash", FALSE)
    /\ UNCHANGED <<table, exists, rows, count, acked>>

Next == \E w \in table.writers :
            \/ Begin(w) \/ Open(w) \/ EnsureTable(w) \/ Clear(w) \/ ClearFails(w)
            \/ Insert(w) \/ InsertUnanswered(w) \/ InsertFails(w) \/ Stops(w)

Spec == Init /\ [][Next]_vars

-------------------------------------------------------------------------------
(***************************************************************************)
(* Properties.                                                             *)
(***************************************************************************)
TypeOK ==
    /\ table \in Tables
    /\ exists \in BOOLEAN
    /\ rows # << >> => exists
    /\ \A i \in DOMAIN rows : rows[i].by \in 1 .. count /\ rows[i].n \in Nat \ {0}
    /\ count \in 0 .. table.statements /\ faults \in 0 .. table.faults
    /\ \A row \in acked : row.by \in 1 .. count
    /\ \A w \in Writers :
         /\ job[w].pc \in {"idle", "open", "ensure", "clear", "insert"}
         /\ job[w].stmt \in 0 .. count
         /\ job[w].sent \in 0 .. job[w].size
         /\ job[w].result \in {"idle", "ok", "error", "crash"}

Alone == Cardinality(table.writers) = 1

(***************************************************************************)
(* However writers and failures mix, the rows of a statement lie in the    *)
(* table in its order and none of them twice.                              *)
(***************************************************************************)
RowsInOrder ==
    \A i, j \in DOMAIN rows :
        i < j /\ rows[i].by = rows[j].by => rows[i].n < rows[j].n

(***************************************************************************)
(* The rows of an INSERT that returned no error stay, all of them, until   *)
(* an INSERT OVERWRITE runs.                                               *)
(***************************************************************************)
AcknowledgedRowsStay == acked \subseteq ToSet(rows)

(***************************************************************************)
(* One writer that stops anywhere leaves the first of its rows, after the  *)
(* old rows or, for an INSERT OVERWRITE, also in their place; without an   *)
(* error it has inserted them all.                                         *)
(***************************************************************************)
StopsBetweenRows ==
    \A w \in table.writers :
        Alone /\ job[w].stmt # 0 =>
            \E kept \in IF job[w].append THEN {job[w].old} ELSE {job[w].old, << >>} :
               \E n \in IF job[w].result = "ok" THEN {job[w].size}
                        ELSE 0 .. job[w].size :
                  rows = kept \o RowsOf(job[w].stmt, n)

Replaced(w) ==
    job[w].result = "ok" /\ ~job[w].append => rows = RowsOf(job[w].stmt, job[w].size)

(***************************************************************************)
(* INSERT OVERWRITE has replaced the rows when it returns no error: if no  *)
(* command has failed, it has rows, and the storage option is given.       *)
(***************************************************************************)
OverwriteReplaces ==
    \A w \in table.writers :
        Alone /\ job[w].clean /\ job[w].size > 0 /\ table.storage # "" => Replaced(w)

(***************************************************************************)
(* The storage option "may be left out, it is inferred from the url":      *)
(* INSERT OVERWRITE replaces the rows of such a table too.                 *)
(***************************************************************************)
UrlSuffices ==
    \A w \in table.writers : Alone /\ job[w].clean /\ job[w].size > 0 => Replaced(w)
===============================================================================
