------------------------------- MODULE RowIter -------------------------------
(***************************************************************************)
(* What storage.RowIter promises to whoever pulls rows from it ("Next      *)
(* returns io.EOF when the input is exhausted"): the wanted rows one at a  *)
(* time in their order, up to a limit, then one end or one error.  A       *)
(* caller that closes the iterator while a Next is running may still get   *)
(* one row from that Next, the next one or one that was returned before;   *)
(* after it there is none.                                                 *)
(***************************************************************************)
EXTENDS Integers, Sequences

CONSTANT Before(_, _)   \* the order of the rows

VARIABLES
    source,     \* what is read, a parameter: the wanted rows, the limit (none
                \* when negative), whether all of it is sound, that is can be
                \* read, and whether Close runs in another goroutine than Next
    state,      \* "new", "open", "closing" (during a Next) or "closed"
    rows,       \* the rows returned
    outcome     \* "none", "EOF" or "error"

vars == <<source, state, rows, outcome>>

Delivered == {rows[p] : p \in DOMAIN rows}

AtLimit == source.limit >= 0 /\ Len(rows) >= source.limit

Init == state = "new" /\ rows = << >> /\ outcome = "none"

\* An iterator, or the error of opening it.
Create ==
    /\ state = "new" /\ state' = "open"
    /\ outcome' \in {"none", "error"}
    /\ UNCHANGED <<source, rows>>

\* Next, with a row: all the wanted rows before it have been returned.
Return(r) ==
    /\ outcome = "none" /\ ~AtLimit
    /\ \A k \in source.wanted : Before(k, r) => k \in Delivered
    /\ \/ state = "open" /\ state' = "open" /\ r \notin Delivered
       \/ state = "closing" /\ state' = "closed"
    /\ rows' = Append(rows, r)
    /\ UNCHANGED <<source, outcome>>

\* The Next that Close overtook is over.
Overtaken == state' = IF state = "closing" THEN "closed" ELSE state

\* Next, with io.EOF: nothing is missing unless the iterator was closed.
End ==
    /\ outcome = "none" /\ state # "new"
    /\ \/ AtLimit
       \/ Delivered = source.wanted /\ source.sound
       \/ state \in {"closing", "closed"}
    /\ outcome' = "EOF" /\ Overtaken
    /\ UNCHANGED <<source, rows>>

\* Next, with an error: there is something that cannot be read.
Fail ==
    /\ outcome = "none" /\ state # "new"
    /\ ~source.sound \/ state \in {"closing", "closed"}
    /\ outcome' = "error" /\ Overtaken
    /\ UNCHANGED <<source, rows>>

\* Next, without a row: it asks again, or it panics.
Idle == state = "closing" /\ Overtaken /\ UNCHANGED <<source, rows, outcome>>

Close ==
    /\ state = "open" /\ (source.shared \/ outcome # "none")
    /\ \/ state' = "closed"
       \/ state' = "closing" /\ outcome = "none"
    /\ UNCHANGED <<source, rows, outcome>>

Next == \/ Create \/ End \/ Fail \/ Idle \/ Close
        \/ \E r \in source.wanted : Return(r)

Spec == Init /\ [][Next]_vars
===============================================================================
