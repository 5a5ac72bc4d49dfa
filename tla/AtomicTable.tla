----------------------------- MODULE AtomicTable -----------------------------
(***************************************************************************)
(* What storage.WriteRows promises about the stored rows of a table when   *)
(* statements run one at a time: each INSERT OVERWRITE replaces the data   *)
(* file of a partition in one step, and each INSERT INTO adds its rows to  *)
(* those that are there.  A statement may stop at any moment, for an error *)
(* or a crash; the partitions it has not stored are then as they were.     *)
(* There are four exceptions.  INSERT INTO on a backend that writes a file *)
(* in place: until it has stored a partition, that file may be cut short.  *)
(* INSERT OVERWRITE of a local CSV file: the error of its last write is    *)
(* lost, and what has been written so far is stored.  Either statement on  *)
(* Git LFS: files with the same rows share one object, which is written in *)
(* place, so until a partition is stored the files that have its rows, or  *)
(* the first of them, may be cut short.  INSERT INTO on Git LFS where the  *)
(* pointer has been cut, or its object has not been fetched: the rows it   *)
(* stands for are replaced without being read.                             *)
(***************************************************************************)
EXTENDS Integers, Sequences

CONSTANTS Writers, Values

VARIABLES
    table,      \* its backend, its partitions, how many statements it gets
    content,    \* partition -> the rows of its data file, or Missing; on Git
                \*  LFS the rows its pointer names, or Torn
    object,     \* on Git LFS, named rows -> the rows stored under this name
    count,      \* statements begun
    gives,      \* writer -> what its statement gives each of its partitions
    todo,       \* writer -> partitions its statement has not stored yet
    append,     \* writer -> whether its statement is an INSERT INTO
    plan,       \* writer -> what it is about to store: [dir, rows], or NoPlan
    result      \* writer -> "idle", "busy", "ok", "error" or "crash"

Missing == << -1 >>

\* A Git LFS pointer without its object, and one cut in the middle.
Unfetched == << -2 >>
Torn == << -3 >>

\* A row cut in the middle, or never written.
Damaged == 0

\* Two rows for every partition a statement writes.
NewRows(v) == <<v, v>>

NoPlan == [dir |-> "", rows |-> << >>]

Whole(rows) == \A i \in DOMAIN rows : rows[i] # Damaged

Prefixes(rows) == {SubSeq(rows, 1, n) : n \in 0 .. Len(rows)}

\* What a write of rows can leave behind when it stops half-way.
CutShort(rows) ==
    Prefixes(rows) \cup {Append(p, Damaged) : p \in Prefixes(rows) \ {rows}}

SharesObjects == table.backend = "gitlfs"

\* What a reader gets of a data file.
Read(c) ==
    IF ~SharesObjects \/ c \in {Missing, Torn, << >>} THEN c
    ELSE IF c \in DOMAIN object THEN object[c] ELSE Unfetched

\* INSERT INTO reads a file; one that does not decode counts as empty.
Decoded(rows) == IF Whole(rows) THEN {rows} ELSE {rows, << >>}

Existing(rows) ==
    IF rows \in {Missing, Unfetched} THEN {<< >>}
    ELSE IF rows = Torn THEN {<< >>, <<Damaged>>} ELSE Decoded(rows)

\* The object of these rows is written, whatever was stored under its name.
WithObject(p, rows) ==
    [q \in DOMAIN object \cup {p} |-> IF q = p THEN rows ELSE object[q]]

ObjectIsStored(p) ==
    SharesObjects => p \in DOMAIN object /\ object[p] = p

PutIsAtomic == table.backend = "s3"

LastErrorIsLost == table.backend = "local" /\ table.format = "csv"

InPlace(w) == append[w] /\ ~PutIsAtomic

Init ==
    /\ content \in [table.dirs -> {Missing} \cup {NewRows(v) : v \in Values}]
    /\ ~SharesObjects => \A d \in table.dirs : content[d] = Missing
    /\ object = << >>
    /\ count = 0
    /\ gives = [w \in Writers |-> << >>]
    /\ todo = [w \in Writers |-> {}]
    /\ append = [w \in Writers |-> FALSE]
    /\ plan = [w \in Writers |-> NoPlan]
    /\ result = [w \in Writers |-> "idle"]

Begin(w) ==
    /\ \A v \in Writers : result[v] # "busy"
    /\ count < table.statements
    /\ count' = count + 1
    /\ \E dirs \in SUBSET table.dirs \ {{}} :
          /\ todo' = [todo EXCEPT ![w] = dirs]
          /\ \E rows \in [dirs -> Values] : gives' = [gives EXCEPT ![w] = rows]
    /\ append' \in {[append EXCEPT ![w] = a] : a \in BOOLEAN}
    /\ result' = [result EXCEPT ![w] = "busy"]
    /\ UNCHANGED <<table, content, object, plan>>

\* The rows to store are settled.
Plan(w) ==
    /\ plan[w] = NoPlan
    /\ \E d \in todo[w] :
         \E old \in IF append[w] THEN Existing(Read(content[d])) ELSE {<< >>} :
            plan' = [plan EXCEPT ![w] = [dir |-> d,
                                         rows |-> old \o NewRows(gives[w][d])]]
    /\ UNCHANGED <<table, content, object, count, gives, todo, append, result>>

\* The data file, half-way through an INSERT INTO that writes it in place; a
\* Git LFS pointer is written where its object is stored.
WriteContent(w) ==
    /\ InPlace(w)
    /\ \E c \in IF SharesObjects THEN {<< >>, Torn, plan[w].rows}
                ELSE CutShort(plan[w].rows) :
          /\ c = plan[w].rows => ObjectIsStored(c)
          /\ content' = [content EXCEPT ![plan[w].dir] = c]
    /\ UNCHANGED object

\* The object of the rows, or of the first of them where not all are encoded.
WriteObject(w) ==
    /\ SharesObjects
    /\ \E p \in Prefixes(plan[w].rows) :
          \E rows \in CutShort(p) : object' = WithObject(p, rows)
    /\ UNCHANGED content

Overwrite(w) ==
    /\ plan[w] # NoPlan
    /\ WriteContent(w) \/ WriteObject(w)
    /\ UNCHANGED <<table, count, gives, todo, append, plan, result>>

Store(w) ==
    /\ plan[w] # NoPlan
    /\ ObjectIsStored(plan[w].rows)
    /\ \E rows \in IF LastErrorIsLost /\ ~append[w]
                   THEN CutShort(plan[w].rows) ELSE {plan[w].rows} :
          content' = [content EXCEPT ![plan[w].dir] = rows]
    /\ todo' = [todo EXCEPT ![w] = @ \ {plan[w].dir}]
    /\ plan' = [plan EXCEPT ![w] = NoPlan]
    /\ UNCHANGED <<table, object, count, gives, append, result>>

Succeed(w) ==
    /\ result[w] = "busy" /\ todo[w] = {}
    /\ result' = [result EXCEPT ![w] = "ok"]
    /\ append' = [append EXCEPT ![w] = FALSE]
    /\ gives' = [gives EXCEPT ![w] = << >>]
    /\ UNCHANGED <<table, content, object, count, todo, plan>>

\* An error or a crash.  The last request may have been carried out although
\* nobody heard of it, and what is written in place may be cut short.
Stop(w) ==
    /\ result[w] = "busy"
    /\ result' \in {[result EXCEPT ![w] = r] : r \in {"error", "crash"}}
    /\ todo' = [todo EXCEPT ![w] = {}]
    /\ append' = [append EXCEPT ![w] = FALSE]
    /\ gives' = [gives EXCEPT ![w] = << >>]
    /\ plan' = [plan EXCEPT ![w] = NoPlan]
    /\ \/ UNCHANGED <<content, object>>
       \/ plan[w] # NoPlan /\ (WriteContent(w) \/ WriteObject(w))
       \/ /\ plan[w] # NoPlan /\ ~InPlace(w) /\ ObjectIsStored(plan[w].rows)
          /\ content' = [content EXCEPT ![plan[w].dir] = plan[w].rows]
          /\ UNCHANGED object
    /\ UNCHANGED <<table, count>>

Next == \E w \in Writers : \/ Begin(w) \/ Plan(w) \/ Overwrite(w) \/ Store(w)
                           \/ Succeed(w) \/ Stop(w)

vars == <<table, content, object, count, gives, todo, append, plan, result>>

Spec == Init /\ [][Next]_vars
===============================================================================
