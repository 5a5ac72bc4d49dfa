------------------------------ MODULE SerialJoin ------------------------------
(***************************************************************************)
(* What a join iterator promises its caller (plan.RowIter, and the comment *)
(* on joinIter: "output order is identical to serial execution"): a        *)
(* nested-loop join that reads one probe row after the other.              *)
(*                                                                         *)
(* A query is a record: left and right are the join keys of the two        *)
(* inputs in input order (already normalized), joinType the join, failAt   *)
(* the number of the probe row whose read fails (0: none).                 *)
(* The joined rows of one probe row are one group: the set of the          *)
(* positions of their right rows, delivered in that order; position 0      *)
(* stands for a right side filled with defaults.                           *)
(***************************************************************************)
EXTENDS Integers, Sequences

CONSTANT Queries      \* the queries an iterator may be opened for

VARIABLES query,      \* the query
          status,     \* "new", "open" or "closed"
          emitted,    \* the groups of rows delivered so far
          outcome     \* "none", then "EOF" or "error" once Next has said so

vars == <<query, status, emitted, outcome>>

(***************************************************************************)
(* The reference result of a query, by comparing every pair of rows.       *)
(***************************************************************************)
Matches(q, i, j) == q.right[j] = q.left[i]

HasMatch(q, i) == \E j \in DOMAIN q.right : Matches(q, i, j)

\* SEMI keeps a matched probe row once; LEFT and FULL keep an unmatched one.
KeptAlone(q, i) == \/ q.joinType = "SEMI" /\ HasMatch(q, i)
                   \/ q.joinType \in {"LEFT", "FULL"} /\ ~HasMatch(q, i)

RowsFor(q, i) ==
    {j \in DOMAIN q.right :
        \/ q.joinType = "CROSS"
        \/ q.joinType # "SEMI" /\ Matches(q, i, j)}
    \cup (IF KeptAlone(q, i) THEN {0} ELSE {})

Unmatched(q) ==
    {j \in DOMAIN q.right : /\ q.joinType \in {"RIGHT", "FULL"}
                            /\ \A i \in DOMAIN q.left : ~Matches(q, i, j)}

\* The probe rows that can be read: those before the read that fails.
Readable(q) == IF q.failAt = 0 THEN Len(q.left) ELSE q.failAt - 1

Reference(q) ==
    [i \in 1 .. Readable(q) |-> RowsFor(q, i)]
    \o (IF q.failAt = 0 /\ Unmatched(q) # {} THEN <<Unmatched(q)>> ELSE << >>)

(***************************************************************************)
(* The iterator.                                                           *)
(***************************************************************************)
Init == /\ query \in Queries
        /\ status = "new"
        /\ emitted = << >>
        /\ outcome = "none"

Open == /\ status = "new" /\ outcome = "none"
        /\ status' = "open"
        /\ UNCHANGED <<query, emitted, outcome>>

\* A join that cannot be built never delivers a row.
OpenFails == /\ status = "new" /\ outcome = "none"
             /\ outcome' = "error"
             /\ UNCHANGED <<query, status, emitted>>

\* Deliver the next group of the reference result.
Deliver == /\ status # "new" /\ outcome = "none"
           /\ Len(emitted) < Len(Reference(query))
           /\ emitted' = Append(emitted, Reference(query)[Len(emitted) + 1])
           /\ UNCHANGED <<query, status, outcome>>

\* Say that the rows are over, or that the probe input failed, once every
\* group there is has been delivered.
Finish == /\ status # "new" /\ outcome = "none"
          /\ emitted = Reference(query)
          /\ outcome' = IF query.failAt = 0 THEN "EOF" ELSE "error"
          /\ UNCHANGED <<query, status, emitted>>

Close == /\ status = "open"
         /\ status' = "closed"
         /\ UNCHANGED <<query, emitted, outcome>>

\* Once closed, an iterator still in use promises nothing about what is left.
AfterClose == /\ status = "closed" /\ outcome = "none"
              /\ \/ /\ \E rows \in SUBSET (0 .. Len(query.right)) :
                         emitted' = Append(emitted, rows)
                    /\ UNCHANGED outcome
                 \/ outcome' \in {"EOF", "error"} /\ UNCHANGED emitted
              /\ UNCHANGED <<query, status>>

Next == Open \/ OpenFails \/ Deliver \/ Finish \/ Close \/ AfterClose

Spec == Init /\ [][Next]_vars
===============================================================================
