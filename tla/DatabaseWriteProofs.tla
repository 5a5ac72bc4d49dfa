-------------------------- MODULE DatabaseWriteProofs --------------------------
(***************************************************************************)
(* For any tables, writers, sizes of statements and numbers of failures:   *)
(* the rows of WriteTable keep their order, acknowledged rows stay, and a  *)
(* writer that is alone stops between rows and replaces what it overwrites.*)
(***************************************************************************)
EXTENDS DatabaseWrite, FiniteSetTheorems, SequenceTheorems, TLAPS

Row == [by : Nat, n : Nat \ {0}]

Job == [pc : {"idle", "open", "ensure", "clear", "insert"}, stmt : Nat, append : BOOLEAN,
        size : Nat, sent : Nat, old : Seq(Row), cleared : BOOLEAN, clean : BOOLEAN,
        result : {"idle", "ok", "error", "crash"}]

Typed == /\ table \in Tables /\ exists \in BOOLEAN
         /\ rows \in Seq(Row) /\ acked \subseteq Row
         /\ job \in [Writers -> Job]
         /\ count \in 0 .. table.statements /\ faults \in 0 .. table.faults

\* A job that runs has rows to send, and has sent none before its loop.
JobInv(j) ==
    /\ j.sent <= j.size
    /\ j.pc # "idle" => j.stmt # 0 /\ j.result = "idle" /\ j.sent < j.size
    /\ j.pc \in {"open", "ensure", "clear"} => j.sent = 0
    /\ j.pc = "clear" => ~j.append

\* Statements are numbered as they begin; the rows of one that runs are those
\* it has sent.
NumberInv ==
    /\ \A w \in Writers : JobInv(job[w]) /\ job[w].stmt <= count
    /\ \A v, w \in Writers : v # w /\ job[v].pc # "idle" => job[v].stmt # job[w].stmt
    /\ \A i \in DOMAIN rows : rows[i].by \in 1 .. count
    /\ \A w \in Writers : \A i \in DOMAIN rows :
          job[w].pc # "idle" /\ rows[i].by = job[w].stmt => rows[i].n <= job[w].sent

ExistsInv ==
    /\ rows # << >> => exists
    /\ \A w \in Writers : job[w].pc \in {"clear", "insert"} => exists

BeforeClear(j) == j.pc \in {"open", "ensure", "clear"} /\ ~j.append

\* What may still be cleared is not in acked, and will not be.
AckInv ==
    /\ AcknowledgedRowsStay
    /\ \A row \in acked : row.by \in 1 .. count
    /\ \A w \in Writers : BeforeClear(job[w]) =>
          acked = {} /\ \A v \in Writers : v # w /\ job[v].pc # "idle" => job[v].cleared
    /\ \A w \in Writers : job[w].pc = "insert" /\ ~job[w].cleared =>
          ToSet(RowsOf(job[w].stmt, job[w].sent)) \subseteq ToSet(rows)

\* The rows q of a table with one writer, whose job is j.
Bases(j) == IF j.append THEN {j.old} ELSE {j.old, << >>}

AloneInv(storage, q, j) ==
    /\ j.pc \in {"open", "ensure", "clear"} => q = j.old
    /\ j.pc = "insert" => \E kept \in Bases(j) : q = kept \o RowsOf(j.stmt, j.sent)
    /\ j.pc = "insert" /\ ~j.append /\ j.clean /\ storage # "" => q = RowsOf(j.stmt, j.sent)
    /\ j.pc = "idle" /\ j.stmt # 0 =>
          \E kept \in Bases(j) :
             \E n \in IF j.result = "ok" THEN {j.size} ELSE 0 .. j.size :
                q = kept \o RowsOf(j.stmt, n)
    /\ j.pc = "idle" /\ j.clean /\ j.size > 0 /\ storage # "" /\ j.result = "ok" /\ ~j.append =>
          q = RowsOf(j.stmt, j.size)

IInv == /\ Typed
        /\ NumberInv
        /\ ExistsInv
        /\ RowsInOrder
        /\ AckInv
        /\ Alone => \A w \in table.writers : AloneInv(table.storage, rows, job[w])

---------------------------------------------------------------------------
(* Rows, tables and writers.                                               *)

LEMMA RowsOfTyped ==
  ASSUME NEW s \in Nat, NEW n \in Nat
  PROVE  /\ RowsOf(s, n) \in Seq(Row) /\ RowsOf(s, 0) = << >>
         /\ \A q \in Seq(Row) : q \o RowsOf(s, 0) = q
         /\ << >> \o RowsOf(s, n) = RowsOf(s, n)
BY DEF RowsOf, Row

LEMMA OneMore ==
  ASSUME NEW s \in Nat, NEW n \in Nat, NEW q \in Seq(Row)
  PROVE  /\ Append(q \o RowsOf(s, n), [by |-> s, n |-> n + 1]) = q \o RowsOf(s, n + 1)
         /\ Append(RowsOf(s, n), [by |-> s, n |-> n + 1]) = RowsOf(s, n + 1)
<1> DEFINE row == [by |-> s, n |-> n + 1]
           a == RowsOf(s, n)
           b == RowsOf(s, n + 1)
<1>1. a \in Seq(Row) /\ Len(a) = n /\ \A i \in 1 .. n : a[i] = [by |-> s, n |-> i]
  BY DEF RowsOf, Row
<1>2. b \in Seq(Row) /\ Len(b) = n + 1 /\ \A i \in 1 .. n + 1 : b[i] = [by |-> s, n |-> i]
  BY DEF RowsOf, Row
<1>3. row \in Row
  BY DEF Row
<1> HIDE DEF row, a, b, Row
<1>4. Append(a, row) = b
  <2>1. Append(a, row) \in Seq(Row) /\ Len(Append(a, row)) = n + 1
    BY <1>1, <1>3
  <2>2. \A i \in 1 .. n + 1 : Append(a, row)[i] = b[i]
    BY <1>1, <1>2, <1>3 DEF row
  <2> QED BY <2>1, <2>2, <1>2, SeqEqual
<1>5. Append(q \o a, row) = q \o Append(a, row)
  <2>1. <<row>> \in Seq(Row) /\ q \o a \in Seq(Row) /\ a \in Seq(Row)
    BY <1>1, <1>3
  <2>2. Append(q \o a, row) = (q \o a) \o <<row>> /\ Append(a, row) = a \o <<row>>
    BY <1>3, <2>1, AppendIsConcat, Zenon
  <2>3. (q \o a) \o <<row>> = q \o (a \o <<row>>)
    BY <2>1, ConcatAssociative
  <2> QED BY <2>2, <2>3, Zenon
<1> QED BY <1>4, <1>5 DEF row, a, b

LEMMA TableTyped ==
  ASSUME Typed
  PROVE  /\ table.writers \subseteq Writers /\ IsFiniteSet(table.writers)
         /\ table.modes \subseteq BOOLEAN /\ table.sizes \subseteq Nat
         /\ table.statements \in Nat /\ table.faults \in Nat
         /\ table.server \in Servers /\ table.storage \in {table.server, ""}
BY TableAssumption DEF Typed

\* Alone, there is one writer.
LEMMA OneWriter ==
  ASSUME Typed, Alone, NEW v \in table.writers, NEW w \in table.writers
  PROVE  v = w
<1>1. IsFiniteSet(table.writers) /\ Cardinality(table.writers) = 1
  BY TableTyped DEF Alone
<1>2. PICK x : table.writers = {x}
  BY <1>1, FS_Singleton
<1> QED BY <1>2

---------------------------------------------------------------------------
(* Steps.                                                                  *)

\* A step that leaves the rows alone: one towards the loop, or a stop.
Advances(j, new) ==
    \/ new.pc = "idle" /\ new.result \in {"error", "crash"}
    \/ j.pc = "open" /\ new.pc = "ensure" /\ new.result = "idle"
    \/ /\ j.pc = "ensure" /\ new.pc = IF j.append THEN "insert" ELSE "clear"
       /\ new.result = "idle"
    \/ j.pc = "clear" /\ new.pc = "insert" /\ new.result = "idle" /\ ~new.clean

LEMMA QuietStep ==
  ASSUME IInv, NEW w \in table.writers, NEW new \in Job,
         job[w].pc # "idle", Advances(job[w], new),
         new.stmt = job[w].stmt, new.append = job[w].append, new.size = job[w].size,
         new.sent = job[w].sent, new.old = job[w].old, new.cleared = job[w].cleared,
         job' = [job EXCEPT ![w] = new], UNCHANGED <<table, rows, count, acked>>,
         exists' \in BOOLEAN, exists => exists', new.pc \in {"clear", "insert"} => exists',
         faults' \in 0 .. table.faults
  PROVE  IInv'
<1>0. w \in Writers
  BY TableTyped DEF IInv
<1>1. Typed'
  BY <1>0 DEF IInv, Typed
<1>2. NumberInv'
  BY <1>0 DEF IInv, Typed, NumberInv, JobInv, Advances, Job
<1>3. ExistsInv'
  BY <1>0 DEF IInv, Typed, ExistsInv
<1>4. RowsInOrder'
  BY DEF IInv, RowsInOrder
<1>5. AckInv'
  <2>1. ASSUME NEW v \in Writers, BeforeClear(job'[v])
        PROVE  BeforeClear(job[v])
    BY <1>0, <2>1 DEF IInv, Typed, NumberInv, JobInv, Advances, BeforeClear, Job
  <2>2. ASSUME NEW v \in Writers, job'[v].pc # "idle"
        PROVE  job[v].pc # "idle" /\ job'[v].cleared = job[v].cleared
    BY <1>0, <2>2 DEF IInv, Typed
  <2>3. ASSUME NEW v \in Writers, job'[v].pc = "insert", ~job'[v].cleared
        PROVE  ToSet(RowsOf(job'[v].stmt, job'[v].sent)) \subseteq ToSet(rows)
    <3>1. CASE v = w /\ job[w].pc # "insert"
      <4>1. job[w].sent = 0
        BY <1>0, <2>3, <3>1 DEF IInv, Typed, NumberInv, JobInv, Advances
      <4>2. RowsOf(job'[v].stmt, 0) = << >>
        BY DEF RowsOf
      <4> QED BY <1>0, <3>1, <4>1, <4>2 DEF IInv, Typed, ToSet
    <3>2. CASE ~(v = w /\ job[w].pc # "insert")
      BY <1>0, <2>3, <3>2 DEF IInv, Typed, AckInv
    <3> QED BY <3>1, <3>2
  <2> QED BY <2>1, <2>2, <2>3 DEF IInv, AckInv, AcknowledgedRowsStay
<1>6. ASSUME Alone', NEW v \in table.writers'
      PROVE  AloneInv(table.storage, rows, job[v])'
  <2>1. Alone /\ v = w
    BY <1>6, OneWriter DEF Alone, IInv
  <2>2. AloneInv(table.storage, rows, job[w]) /\ JobInv(job[w]) /\ job[w] \in Job /\ job'[w] = new /\ rows \in Seq(Row)
    BY <1>0, <2>1 DEF IInv, Typed, NumberInv
  <2>3. RowsOf(new.stmt, 0) = << >> /\ rows \o RowsOf(new.stmt, 0) = rows
    BY <2>2, RowsOfTyped DEF Job
  <2>4. new.pc = "insert" => job[w].pc # "insert"
    BY <2>2 DEF Advances
  <2>5. \E kept \in Bases(new) : rows = kept \o RowsOf(new.stmt, new.sent)
    <3>1. CASE job[w].pc = "insert"
      BY <2>2, <3>1 DEF AloneInv, Bases
    <3>2. CASE job[w].pc # "insert"
      <4>1. job[w].sent = 0 /\ rows = job[w].old
        BY <2>2, <3>2 DEF AloneInv, JobInv, Job
      <4> QED BY <2>3, <4>1 DEF Bases
    <3> QED BY <3>1, <3>2
  <2>6. new.sent \in 0 .. new.size
    BY <2>2 DEF JobInv, Job
  <2>7. new.pc \in {"open", "ensure", "clear"} => rows = new.old
    BY <2>2 DEF AloneInv, Advances
  <2>8. new.pc = "insert" /\ ~new.append => ~new.clean
    BY <2>2 DEF JobInv, Advances
  <2>9. new.pc = "idle" => new.result # "ok"
    BY <2>2 DEF Advances
  <2>10. AloneInv(table.storage, rows, new)
    BY <2>5, <2>6, <2>7, <2>8, <2>9 DEF AloneInv
  <2>11. job'[v] = new /\ rows' = rows /\ table' = table
    BY <2>1, <2>2
  <2> QED BY <2>10, <2>11
<1> QED BY <1>1, <1>2, <1>3, <1>4, <1>5, <1>6 DEF IInv

\* What a job is after its insert.
Sends(j, new) ==
    \/ /\ new.pc = "insert" /\ new.sent = j.sent + 1 /\ new.sent < j.size
       /\ new.result = "idle" /\ new.clean = j.clean
    \/ /\ new.pc = "idle" /\ new.sent = j.sent + 1 /\ new.sent = j.size
       /\ new.result = "ok" /\ new.clean = j.clean
    \/ new.pc = "idle" /\ new.sent = j.sent /\ new.result = "error"

LEMMA SendStep ==
  ASSUME IInv, NEW w \in table.writers, NEW new \in Job,
         job[w].pc = "insert", Sends(job[w], new),
         new.stmt = job[w].stmt, new.append = job[w].append, new.size = job[w].size,
         new.old = job[w].old, new.cleared = job[w].cleared,
         job' = [job EXCEPT ![w] = new],
         rows' = Append(rows, [by |-> job[w].stmt, n |-> job[w].sent + 1]),
         acked' = IF new.result = "ok" /\ ~job[w].cleared
                  THEN acked \cup ToSet(RowsOf(job[w].stmt, job[w].size)) ELSE acked,
         UNCHANGED <<table, exists, count>>, faults' \in 0 .. table.faults
  PROVE  IInv'
<1> DEFINE row == [by |-> job[w].stmt, n |-> job[w].sent + 1]
<1>0. w \in Writers /\ job[w] \in Job /\ JobInv(job[w]) /\ rows \in Seq(Row) /\ row \in Row
  <2>1. w \in Writers
    BY TableTyped DEF IInv
  <2>2. job[w] \in Job /\ JobInv(job[w]) /\ rows \in Seq(Row)
    BY <2>1 DEF IInv, Typed, NumberInv
  <2> QED BY <2>1, <2>2 DEF Job, Row
<1>a. /\ Len(rows') = Len(rows) + 1 /\ rows' \in Seq(Row)
      /\ \A i \in DOMAIN rows : rows'[i] = rows[i]
      /\ rows'[Len(rows) + 1] = row
      /\ DOMAIN rows' = DOMAIN rows \cup {Len(rows) + 1}
  BY <1>0
<1>b. ToSet(rows') = ToSet(rows) \cup {row}
  BY <1>a, <1>0 DEF ToSet
<1>c. \A n \in Nat : ToSet(RowsOf(job[w].stmt, n)) = {[by |-> job[w].stmt, n |-> i] : i \in 1 .. n}
  BY DEF ToSet, RowsOf
<1>d. job[w].size \in Nat /\ job[w].sent \in Nat /\ job[w].stmt \in Nat /\ job[w].stmt \in 1 .. count
  BY <1>0 DEF IInv, Typed, NumberInv, JobInv, Job
<1>e. \A i \in DOMAIN rows : rows[i].n \in Nat
  <2>1. \A i \in DOMAIN rows : rows[i] \in Row
    BY <1>0
  <2> QED BY <2>1 DEF Row
<1>1. Typed'
  <2>1. ToSet(RowsOf(job[w].stmt, job[w].size)) \subseteq Row
    BY <1>c, <1>d DEF Row
  <2> QED BY <1>0, <1>a, <2>1 DEF IInv, Typed
<1>2. NumberInv'
  <2>1. \A v \in Writers : JobInv(job'[v]) /\ job'[v].stmt <= count
    BY <1>0 DEF IInv, Typed, NumberInv, JobInv, Sends, Job
  <2>2. \A u, v \in Writers : u # v /\ job'[u].pc # "idle" => job'[u].stmt # job'[v].stmt
    BY <1>0 DEF IInv, Typed, NumberInv
  <2>3. \A i \in DOMAIN rows' : rows'[i].by \in 1 .. count
    BY <1>a, <1>d DEF IInv, NumberInv
  <2>4. ASSUME NEW v \in Writers, NEW i \in DOMAIN rows',
               job'[v].pc # "idle", rows'[i].by = job'[v].stmt
        PROVE  rows'[i].n <= job'[v].sent
    <3>1. CASE v = w /\ i \in DOMAIN rows
      <4>1. rows[i].n <= job[w].sent
        BY <1>0, <1>a, <2>4, <3>1 DEF IInv, Typed, NumberInv
      <4>2. job'[v] = new /\ new.sent = job[w].sent + 1 /\ rows'[i] = rows[i]
        BY <1>0, <1>a, <2>4, <3>1 DEF IInv, Typed, Sends
      <4> QED BY <1>d, <1>e, <3>1, <4>1, <4>2
    <3>2. CASE v = w /\ i = Len(rows) + 1
      BY <1>0, <1>a, <1>d, <2>4, <3>2 DEF IInv, Typed, Sends
    <3>3. CASE v # w
      BY <1>0, <1>a, <2>4, <3>3 DEF IInv, Typed, NumberInv
    <3> QED BY <1>a, <3>1, <3>2, <3>3
  <2> QED BY <2>1, <2>2, <2>3, <2>4 DEF NumberInv
<1>3. ExistsInv'
  BY <1>0 DEF IInv, Typed, ExistsInv
<1>4. RowsInOrder'
  <2>1. ASSUME NEW i \in DOMAIN rows, rows[i].by = job[w].stmt
        PROVE  rows[i].n < row.n
    BY <1>0, <1>d, <1>e, <2>1 DEF IInv, NumberInv
  <2> QED BY <1>0, <1>a, <2>1 DEF IInv, RowsInOrder
<1>5. AckInv'
  <2>1. new.result = "ok" /\ ~job[w].cleared =>
            ToSet(RowsOf(job[w].stmt, job[w].size)) \subseteq ToSet(rows')
    BY <1>0, <1>b, <1>c, <1>d DEF IInv, AckInv, Sends, JobInv
  <2>2. AcknowledgedRowsStay'
    BY <1>b, <2>1 DEF IInv, AckInv, AcknowledgedRowsStay
  <2>3. \A r \in acked' : r.by \in 1 .. count
    BY <1>c, <1>d DEF IInv, AckInv
  <2>4. ASSUME NEW v \in Writers, BeforeClear(job'[v])
        PROVE  acked' = {} /\ \A u \in Writers : u # v /\ job'[u].pc # "idle" => job'[u].cleared
    <3>1. v # w /\ BeforeClear(job[v])
      BY <1>0, <2>4 DEF IInv, Typed, BeforeClear, Sends
    <3> QED BY <1>0, <3>1 DEF IInv, Typed, AckInv
  <2>5. ASSUME NEW v \in Writers, job'[v].pc = "insert", ~job'[v].cleared
        PROVE  ToSet(RowsOf(job'[v].stmt, job'[v].sent)) \subseteq ToSet(rows')
    <3>1. CASE v = w
      BY <1>0, <1>b, <1>c, <1>d, <2>5, <3>1 DEF IInv, Typed, AckInv, Sends
    <3>2. CASE v # w
      BY <1>0, <1>b, <2>5, <3>2 DEF IInv, Typed, AckInv
    <3> QED BY <3>1, <3>2
  <2> QED BY <2>2, <2>3, <2>4, <2>5 DEF AckInv
<1>6. ASSUME Alone', NEW v \in table.writers'
      PROVE  AloneInv(table.storage, rows, job[v])'
  <2>1. Alone /\ v = w
    BY <1>6, OneWriter DEF Alone, IInv
  <2>2. AloneInv(table.storage, rows, job[w])
    BY <2>1 DEF IInv
  <2>3. PICK kept \in Bases(job[w]) : rows = kept \o RowsOf(job[w].stmt, job[w].sent)
    BY <2>2 DEF AloneInv
  <2>4. kept \in Seq(Row)
    <3>1. job[w].old \in Seq(Row) /\ << >> \in Seq(Row)
      BY <1>0 DEF Job
    <3> QED BY <3>1 DEF Bases
  <2>5. rows' = kept \o RowsOf(new.stmt, job[w].sent + 1)
    BY <1>d, <2>3, <2>4, OneMore
  <2>6. ~new.append /\ job[w].clean /\ table.storage # "" =>
            rows' = RowsOf(new.stmt, job[w].sent + 1)
    <3>1. ~job[w].append /\ job[w].clean /\ table.storage # "" => rows = RowsOf(job[w].stmt, job[w].sent)
      BY <2>2 DEF AloneInv
    <3> QED BY <1>d, <2>4, <3>1, OneMore
  <2>7. Bases(new) = Bases(job[w]) /\ job[w].sent + 1 \in 0 .. new.size
    BY <1>0, <1>d DEF Bases, JobInv
  <2>8. AloneInv(table.storage, rows', new)
    <3>1. CASE new.pc = "insert"
      BY <2>5, <2>6, <2>7, <3>1 DEF AloneInv, Sends
    <3>2. CASE new.pc = "idle"
      BY <2>5, <2>6, <2>7, <3>2 DEF AloneInv, Sends
    <3> QED BY <3>1, <3>2 DEF Sends
  <2>9. job'[v] = new /\ table' = table
    BY <1>0, <2>1 DEF IInv, Typed
  <2> QED BY <2>8, <2>9
<1> QED BY <1>1, <1>2, <1>3, <1>4, <1>5, <1>6 DEF IInv

\* The clearing command, carried out or not, takes the job to its loop.
LEMMA ClearStep ==
  ASSUME IInv, NEW w \in table.writers, NEW clean \in BOOLEAN,
         job[w].pc = "clear", clean => job[w].clean,
         job' = [job EXCEPT ![w] = [job[w] EXCEPT !.pc = "insert", !.clean = clean]],
         rows' = IF CanClear THEN << >> ELSE rows,
         UNCHANGED <<table, exists, count, acked>>, faults' \in 0 .. table.faults
  PROVE  IInv'
<1> DEFINE new == [job[w] EXCEPT !.pc = "insert", !.clean = clean]
<1>0. w \in Writers /\ job[w] \in Job /\ JobInv(job[w]) /\ rows \in Seq(Row)
  <2>1. w \in Writers
    BY TableTyped DEF IInv
  <2> QED BY <2>1 DEF IInv, Typed, NumberInv
<1>a. /\ new \in Job /\ new.pc = "insert" /\ new.clean = clean /\ new.result = "idle"
      /\ new.stmt = job[w].stmt /\ new.append = job[w].append /\ new.size = job[w].size
      /\ new.sent = 0 /\ new.old = job[w].old /\ new.cleared = job[w].cleared
      /\ job[w].sent = 0 /\ ~job[w].append
  BY <1>0 DEF Job, IInv, NumberInv, JobInv
<1>b. job' = [job EXCEPT ![w] = new] /\ job'[w] = new /\ \A v \in Writers : v # w => job'[v] = job[v]
  BY <1>0 DEF IInv, Typed
<1> HIDE DEF new
<1>c. DOMAIN rows' \subseteq DOMAIN rows /\ \A i \in DOMAIN rows' : rows'[i] = rows[i]
  BY <1>0
<1>d. job[w].stmt \in Nat
  BY <1>0 DEF Job
<1>1. Typed'
  BY <1>0, <1>a, <1>b DEF IInv, Typed
<1>2. NumberInv'
  BY <1>0, <1>a, <1>b, <1>c DEF IInv, Typed, NumberInv, JobInv, Job
<1>3. ExistsInv'
  BY <1>0, <1>a, <1>b DEF IInv, Typed, ExistsInv
<1>4. RowsInOrder'
  BY <1>0, <1>c DEF IInv, RowsInOrder
<1>5. AckInv'
  <2>1. acked = {} /\ \A v \in Writers : v # w /\ job[v].pc # "idle" => job[v].cleared
    BY <1>0, <1>a DEF IInv, AckInv, BeforeClear
  <2>2. \A v \in Writers : BeforeClear(job'[v]) => v # w /\ BeforeClear(job[v])
    BY <1>a, <1>b DEF BeforeClear
  <2>3. \A v \in Writers : job'[v].pc # "idle" => job[v].pc # "idle" /\ job'[v].cleared = job[v].cleared
    BY <1>a, <1>b
  <2>4. ToSet(RowsOf(new.stmt, 0)) = {}
    BY DEF ToSet, RowsOf
  <2>5. \A v \in Writers : job'[v].pc = "insert" /\ ~job'[v].cleared =>
            ToSet(RowsOf(job'[v].stmt, job'[v].sent)) \subseteq ToSet(rows')
    BY <1>a, <1>b, <2>1, <2>3, <2>4
  <2> QED BY <2>1, <2>2, <2>3, <2>5 DEF IInv, AckInv, AcknowledgedRowsStay
<1>6. ASSUME Alone', NEW v \in table.writers'
      PROVE  AloneInv(table.storage, rows, job[v])'
  <2>1. Alone /\ v = w
    BY <1>6, OneWriter DEF Alone, IInv
  <2>2. rows = job[w].old
    BY <1>0, <1>a, <2>1 DEF IInv, AloneInv
  <2>3. rows' \in Bases(new) /\ rows' = rows' \o RowsOf(new.stmt, 0)
    BY <1>0, <1>a, <1>d, <2>2, RowsOfTyped DEF Bases
  <2>4. table.storage # "" => rows' = RowsOf(new.stmt, 0)
    BY <1>a, <1>d, TableTyped, RowsOfTyped DEF CanClear, IInv, Servers
  <2>5. AloneInv(table.storage, rows', new)
    BY <1>a, <2>3, <2>4 DEF AloneInv
  <2> QED BY <1>b, <2>1, <2>5
<1> QED BY <1>1, <1>2, <1>3, <1>4, <1>5, <1>6 DEF IInv

---------------------------------------------------------------------------
(* A statement begins.                                                     *)

LEMMA BeginStep ==
  ASSUME IInv, NEW w \in table.writers, Begin(w)
  PROVE  IInv'
<1>1. PICK append \in table.modes, size \in table.sizes :
        LET new == [Idle EXCEPT !.stmt = count', !.append = append, !.size = size, !.old = rows]
        IN  IF size = 0
            THEN /\ job' = [job EXCEPT ![w] = [new EXCEPT !.result = "ok"]]
                 /\ UNCHANGED acked
            ELSE /\ job' = [v \in Writers |->
                       IF v = w THEN [new EXCEPT !.pc = "open", !.cleared = Overwriting]
                       ELSE [job[v] EXCEPT !.cleared = @ \/ ~append]]
                 /\ acked' = IF append THEN acked ELSE {}
  BY DEF Begin
<1>2. /\ w \in Writers /\ append \in BOOLEAN /\ size \in Nat /\ rows \in Seq(Row)
      /\ count \in Nat /\ count' = count + 1 /\ count' \in 0 .. table.statements
      /\ job[w].pc = "idle" /\ job \in [Writers -> Job] /\ job[w] \in Job /\ JobInv(job[w])
      /\ UNCHANGED <<table, exists, rows, faults>>
  <2>1. /\ table.writers \subseteq Writers /\ table.modes \subseteq BOOLEAN
        /\ table.sizes \subseteq Nat /\ table.statements \in Nat
    BY TableTyped DEF IInv
  <2>2. rows \in Seq(Row) /\ job \in [Writers -> Job] /\ count \in 0 .. table.statements
    BY DEF IInv, Typed
  <2>3. /\ job[w].pc = "idle" /\ count < table.statements /\ count' = count + 1
        /\ UNCHANGED <<table, exists, rows, faults>>
    BY DEF Begin
  <2> QED BY <2>1, <2>2, <2>3 DEF IInv, NumberInv
<1> DEFINE new == [Idle EXCEPT !.stmt = count', !.append = append, !.size = size, !.old = rows]
           done == [new EXCEPT !.result = "ok"]
           begun == [new EXCEPT !.pc = "open", !.cleared = Overwriting]
<1>a. new \in Job /\ new.pc = "idle" /\ new.result = "idle" /\ new.sent = 0 /\ new.stmt = count'
      /\ new.append = append /\ new.size = size /\ new.old = rows
  <2>1. Idle \in Job
    BY DEF Idle, Job
  <2>2. Idle.pc = "idle" /\ Idle.result = "idle" /\ Idle.sent = 0
    BY DEF Idle
  <2>3. count' \in Nat
    BY <1>2
  <2> QED BY <1>2, <2>1, <2>2, <2>3 DEF Job
<1>b. Overwriting \in BOOLEAN
  BY DEF Overwriting
<1> HIDE DEF new
<1>3. /\ job'[w] \in Job
      /\ job'[w].stmt = count + 1 /\ job'[w].append = append /\ job'[w].size = size
      /\ job'[w].sent = 0 /\ job'[w].old = rows
      /\ size = 0 => job'[w].pc = "idle" /\ job'[w].result = "ok"
      /\ size # 0 => job'[w].pc = "open" /\ job'[w].result = "idle" /\ job'[w].cleared = Overwriting
  <2>1. CASE size = 0
    <3>1. job'[w] = done
      BY <1>1, <1>2, <2>1 DEF new
    <3>2. /\ done \in Job /\ done.stmt = count + 1 /\ done.append = append /\ done.size = size
          /\ done.sent = 0 /\ done.old = rows /\ done.pc = "idle" /\ done.result = "ok"
      BY <1>2, <1>a DEF Job
    <3> QED BY <2>1, <3>1, <3>2
  <2>2. CASE size # 0
    <3>1. job'[w] = begun
      BY <1>1, <1>2, <2>2 DEF new
    <3>2. /\ begun \in Job /\ begun.stmt = count + 1 /\ begun.append = append /\ begun.size = size
          /\ begun.sent = 0 /\ begun.old = rows /\ begun.pc = "open" /\ begun.result = "idle"
          /\ begun.cleared = Overwriting
      BY <1>2, <1>a, <1>b DEF Job
    <3> QED BY <2>2, <3>1, <3>2
  <2> QED BY <2>1, <2>2
<1>4. \A v \in Writers : v # w =>
        /\ job'[v].pc = job[v].pc /\ job'[v].stmt = job[v].stmt /\ job'[v].append = job[v].append
        /\ job'[v].size = job[v].size /\ job'[v].sent = job[v].sent /\ job'[v].result = job[v].result
        /\ job'[v].cleared = (job[v].cleared \/ (size # 0 /\ ~append)) /\ job'[v] \in Job
  <2>1. SUFFICES ASSUME NEW v \in Writers, v # w
                 PROVE  /\ job'[v].pc = job[v].pc /\ job'[v].stmt = job[v].stmt
                        /\ job'[v].append = job[v].append /\ job'[v].size = job[v].size
                        /\ job'[v].sent = job[v].sent /\ job'[v].result = job[v].result
                        /\ job'[v].cleared = (job[v].cleared \/ (size # 0 /\ ~append))
                        /\ job'[v] \in Job
    OBVIOUS
  <2>2. job[v] \in Job /\ job[v].cleared \in BOOLEAN
    BY <1>2 DEF Job
  <2>3. CASE size = 0
    BY <1>1, <1>2, <2>1, <2>2, <2>3
  <2>4. CASE size # 0 /\ append
    <3>1. job'[v] = job[v]
      <4>1. job'[v] = [job[v] EXCEPT !.cleared = job[v].cleared]
        BY <1>1, <1>2, <2>1, <2>2, <2>4
      <4> QED BY <2>2, <4>1 DEF Job
    <3> QED BY <2>2, <2>4, <3>1
  <2>5. CASE size # 0 /\ ~append
    <3>1. job'[v] = [job[v] EXCEPT !.cleared = TRUE]
      BY <1>1, <1>2, <2>1, <2>2, <2>5
    <3> QED BY <2>2, <2>5, <3>1 DEF Job
  <2> QED BY <1>2, <2>3, <2>4, <2>5
<1>5. acked' = IF append \/ size = 0 THEN acked ELSE {}
  BY <1>1
<1>6. Typed'
  <2>1. job' \in [Writers -> Job]
    <3>1. DOMAIN job' = Writers /\ job' = [v \in Writers |-> job'[v]]
      BY <1>1, <1>2
    <3> QED BY <1>3, <1>4, <3>1
  <2> QED BY <1>2, <1>5, <2>1 DEF IInv, Typed
<1>7. NumberInv'
  <2>1. \A v \in Writers : JobInv(job'[v]) /\ job'[v].stmt <= count'
    BY <1>2, <1>3, <1>4 DEF IInv, NumberInv, JobInv, Job
  <2>2. \A u, v \in Writers : u # v /\ job'[u].pc # "idle" => job'[u].stmt # job'[v].stmt
    <3>1. \A v \in Writers : job[v].stmt \in Nat /\ job[v].stmt <= count
      BY <1>2 DEF IInv, NumberInv, Job
    <3> QED BY <1>2, <1>3, <1>4, <3>1 DEF IInv, NumberInv
  <2>3. \A i \in DOMAIN rows' : rows'[i].by \in 1 .. count'
    BY <1>2 DEF IInv, NumberInv
  <2>4. \A v \in Writers : \A i \in DOMAIN rows' :
            job'[v].pc # "idle" /\ rows'[i].by = job'[v].stmt => rows'[i].n <= job'[v].sent
    BY <1>2, <1>3, <1>4 DEF IInv, NumberInv
  <2> QED BY <2>1, <2>2, <2>3, <2>4 DEF NumberInv
<1>8. ExistsInv'
  BY <1>2, <1>3, <1>4 DEF IInv, ExistsInv
<1>9. RowsInOrder'
  BY <1>2 DEF IInv, RowsInOrder
<1>10. AckInv'
  <2>1. AcknowledgedRowsStay' /\ \A r \in acked' : r.by \in 1 .. count'
    BY <1>2, <1>5 DEF IInv, AckInv, AcknowledgedRowsStay
  <2>2. ASSUME NEW v \in Writers, BeforeClear(job'[v])
        PROVE  acked' = {} /\ \A u \in Writers : u # v /\ job'[u].pc # "idle" => job'[u].cleared
    <3>1. CASE v = w
      BY <1>3, <1>4, <1>5, <2>2, <3>1 DEF BeforeClear
    <3>2. CASE v # w
      <4>1. BeforeClear(job[v]) /\ Overwriting
        BY <1>4, <2>2, <3>2 DEF BeforeClear, Overwriting
      <4>2. acked = {} /\ \A u \in Writers : u # v /\ job[u].pc # "idle" => job[u].cleared
        BY <4>1 DEF IInv, AckInv
      <4>3. job'[w].pc # "idle" => job'[w].cleared
        BY <1>2, <1>3, <4>1
      <4> QED BY <1>4, <1>5, <4>2, <4>3
    <3> QED BY <3>1, <3>2
  <2>3. \A v \in Writers : job'[v].pc = "insert" /\ ~job'[v].cleared =>
            ToSet(RowsOf(job'[v].stmt, job'[v].sent)) \subseteq ToSet(rows')
    BY <1>2, <1>3, <1>4 DEF IInv, AckInv
  <2> QED BY <2>1, <2>2, <2>3 DEF AckInv
<1>11. ASSUME Alone', NEW v \in table.writers'
      PROVE  AloneInv(table.storage, rows, job[v])'
  <2>1. v = w
    BY <1>2, <1>11, OneWriter DEF Alone, IInv
  <2>2. rows \in Bases(job'[w]) /\ rows = rows \o RowsOf(job'[w].stmt, 0)
    <3>1. job'[w].stmt \in Nat
      BY <1>2, <1>3
    <3>2. rows = rows \o RowsOf(job'[w].stmt, 0)
      BY <1>2, <3>1, RowsOfTyped
    <3> QED BY <1>3, <3>2 DEF Bases
  <2>3. AloneInv(table.storage, rows, job'[w])
    <3>1. CASE size = 0
      <4> DEFINE j == job'[w]
      <4>1. j.pc = "idle" /\ j.result = "ok" /\ j.size = 0 /\ rows \in Bases(j) /\ rows = rows \o RowsOf(j.stmt, 0)
        BY <1>3, <2>2, <3>1
      <4> HIDE DEF j
      <4>2. AloneInv(table.storage, rows, j)
        BY <4>1 DEF AloneInv
      <4> QED BY <4>2 DEF j
    <3>2. CASE size # 0
      BY <1>3, <2>2, <3>2 DEF AloneInv
    <3> QED BY <3>1, <3>2
  <2> QED BY <1>2, <2>1, <2>3
<1> QED BY <1>6, <1>7, <1>8, <1>9, <1>10, <1>11 DEF IInv

---------------------------------------------------------------------------
(* The invariant.                                                          *)

LEMMA InitInv == Init => IInv
<1> SUFFICES ASSUME Init PROVE IInv
  OBVIOUS
<1>1. Idle \in Job /\ JobInv(Idle) /\ Idle.pc = "idle" /\ Idle.stmt = 0 /\ Idle.size = 0
  BY DEF Idle, Job, JobInv
<1>2. rows = << >> /\ rows \in Seq(Row) /\ DOMAIN rows = {} /\ acked = {} /\ count = 0 /\ faults = 0
  BY DEF Init
<1>3. job \in [Writers -> Job] /\ \A w \in Writers : job[w] = Idle
  BY <1>1 DEF Init
<1>4. table \in Tables /\ table.statements \in Nat /\ table.faults \in Nat /\ table.writers \subseteq Writers
  BY TableAssumption DEF Init
<1>5. Typed
  BY <1>2, <1>3, <1>4 DEF Typed, Init
<1>6. NumberInv
  BY <1>1, <1>2, <1>3 DEF NumberInv
<1>7. ExistsInv /\ RowsInOrder
  BY <1>1, <1>2, <1>3 DEF ExistsInv, RowsInOrder
<1>8. AckInv
  BY <1>1, <1>2, <1>3 DEF AckInv, AcknowledgedRowsStay, BeforeClear
<1>9. \A w \in table.writers : AloneInv(table.storage, rows, job[w])
  <2>1. AloneInv(table.storage, rows, Idle)
    BY <1>1 DEF AloneInv
  <2> QED BY <1>3, <1>4, <2>1
<1> QED BY <1>5, <1>6, <1>7, <1>8, <1>9 DEF IInv

\* Each action is one of the steps above.
LEMMA StepInv ==
  ASSUME IInv, NEW w \in table.writers,
         \/ Begin(w) \/ Open(w) \/ EnsureTable(w) \/ Clear(w) \/ ClearFails(w)
         \/ Insert(w) \/ InsertUnanswered(w) \/ InsertFails(w) \/ Stops(w)
  PROVE  IInv'
<1>1. /\ w \in Writers /\ job \in [Writers -> Job] /\ job[w] \in Job /\ JobInv(job[w])
      /\ faults \in 0 .. table.faults /\ table.faults \in Nat /\ exists \in BOOLEAN
      /\ job[w].pc \in {"clear", "insert"} => exists
  <2>1. w \in Writers /\ table.faults \in Nat
    BY TableTyped DEF IInv
  <2> QED BY <2>1 DEF IInv, Typed, NumberInv, ExistsInv
<1>2. Fault => faults' \in 0 .. table.faults
  BY <1>1 DEF Fault
<1>3. ASSUME NEW result \in {"error", "crash"}, NEW clean \in BOOLEAN, End(w, result, clean),
             job[w].pc # "idle", UNCHANGED <<table, rows, count, acked>>,
             exists' \in {exists, TRUE}, faults' \in 0 .. table.faults
      PROVE  IInv'
  <2> DEFINE new == [job[w] EXCEPT !.pc = "idle", !.result = result, !.clean = clean]
  <2>1. new \in Job /\ job' = [job EXCEPT ![w] = new]
    BY <1>1, <1>3 DEF End, Job
  <2>2. /\ new.pc = "idle" /\ new.result = result /\ new.stmt = job[w].stmt /\ new.append = job[w].append
        /\ new.size = job[w].size /\ new.sent = job[w].sent /\ new.old = job[w].old
        /\ new.cleared = job[w].cleared
    BY <1>1 DEF Job
  <2> HIDE DEF new
  <2>3. exists' \in BOOLEAN /\ (exists => exists')
    <3>1. CASE exists' = exists
      BY <1>1, <3>1, Zenon
    <3>2. CASE exists' = TRUE
      BY <3>2
    <3> QED BY <1>3, <3>1, <3>2
  <2>4. Advances(job[w], new) /\ (new.pc \in {"clear", "insert"} => exists')
    BY <2>2 DEF Advances
  <2> QED BY <1>3, <2>1, <2>2, <2>3, <2>4, QuietStep
<1>4. CASE Begin(w)
  BY <1>4, BeginStep
<1>5. CASE Open(w)
  <2> DEFINE new == [job[w] EXCEPT !.pc = "ensure"]
  <2>1. new \in Job /\ job' = [job EXCEPT ![w] = new]
    BY <1>1, <1>5 DEF Open, Job
  <2>2. /\ new.pc = "ensure" /\ new.result = "idle" /\ new.stmt = job[w].stmt /\ new.append = job[w].append
        /\ new.size = job[w].size /\ new.sent = job[w].sent /\ new.old = job[w].old
        /\ new.cleared = job[w].cleared
    BY <1>1, <1>5 DEF Job, JobInv, Open
  <2> HIDE DEF new
  <2> QED BY <1>1, <1>5, <2>1, <2>2, QuietStep DEF Advances, Open
<1>6. CASE EnsureTable(w)
  <2>1. CASE Ensured(w) /\ UNCHANGED faults
    <3> DEFINE new == [job[w] EXCEPT !.pc = IF job[w].append THEN "insert" ELSE "clear"]
    <3>1. new \in Job /\ job' = [job EXCEPT ![w] = new]
      BY <1>1, <2>1 DEF Ensured, Job
    <3>2. /\ new.pc = (IF job[w].append THEN "insert" ELSE "clear") /\ new.result = "idle"
          /\ new.stmt = job[w].stmt /\ new.append = job[w].append
          /\ new.size = job[w].size /\ new.sent = job[w].sent /\ new.old = job[w].old
          /\ new.cleared = job[w].cleared
      BY <1>1, <1>6 DEF Job, JobInv, EnsureTable
    <3> HIDE DEF new
    <3> QED BY <1>1, <1>6, <2>1, <3>1, <3>2, QuietStep DEF Advances, EnsureTable
  <2>2. CASE End(w, "error", FALSE) /\ Fault
    BY <1>2, <1>3, <1>6, <2>2 DEF EnsureTable
  <2> QED BY <1>6, <2>1, <2>2 DEF EnsureTable
<1>7. CASE Clear(w)
  <2>1. PICK clean \in BOOLEAN :
            /\ job' = [job EXCEPT ![w] = [job[w] EXCEPT !.pc = "insert", !.clean = clean]]
            /\ clean => job[w].clean
            /\ faults' \in 0 .. table.faults
    <3>1. CASE job' = [job EXCEPT ![w].pc = "insert"] /\ UNCHANGED faults
      <4>1. [job[w] EXCEPT !.pc = "insert"] = [job[w] EXCEPT !.pc = "insert", !.clean = job[w].clean]
        BY <1>1 DEF Job
      <4>2. job' = [job EXCEPT ![w] = [job[w] EXCEPT !.pc = "insert"]] /\ job[w].clean \in BOOLEAN
        BY <1>1, <3>1 DEF Job
      <4> QED BY <1>1, <3>1, <4>1, <4>2
    <3>2. CASE job' = [job EXCEPT ![w].pc = "insert", ![w].clean = FALSE] /\ Fault
      BY <1>1, <1>2, <3>2
    <3> QED BY <1>7, <3>1, <3>2 DEF Clear
  <2> QED BY <1>7, <2>1, ClearStep DEF Clear
<1>8. CASE ClearFails(w)
  <2> DEFINE new == [job[w] EXCEPT !.pc = "insert", !.clean = FALSE]
  <2>1. new \in Job /\ job' = [job EXCEPT ![w] = new]
    BY <1>1, <1>8 DEF ClearFails, Job
  <2>2. /\ new.pc = "insert" /\ new.result = "idle" /\ ~new.clean /\ new.stmt = job[w].stmt
        /\ new.append = job[w].append /\ new.size = job[w].size /\ new.sent = job[w].sent
        /\ new.old = job[w].old /\ new.cleared = job[w].cleared
    BY <1>1, <1>8 DEF Job, JobInv, ClearFails
  <2> HIDE DEF new
  <2> QED BY <1>1, <1>2, <1>8, <2>1, <2>2, QuietStep DEF Advances, ClearFails
<1>9. CASE Insert(w)
  <2> DEFINE on == [job[w] EXCEPT !.sent = @ + 1]
             last == [job[w] EXCEPT !.sent = @ + 1, !.pc = "idle", !.result = "ok"]
             new == IF job[w].sent + 1 < job[w].size THEN on ELSE last
  <2>1. new \in Job /\ job' = [job EXCEPT ![w] = new]
    <3>1. on \in Job /\ last \in Job
      <4>1. job[w].sent + 1 \in Nat
        BY <1>1 DEF Job
      <4>2. on \in Job
        BY <1>1, <4>1 DEF Job
      <4>3. last \in Job
        BY <1>1, <4>1 DEF Job
      <4> QED BY <4>2, <4>3
    <3>2. CASE job[w].sent + 1 < job[w].size
      <4>1. job' = [job EXCEPT ![w] = on]
        BY <1>1, <1>9, <3>2 DEF Insert, Inserted
      <4> QED BY <3>1, <3>2, <4>1
    <3>3. CASE ~(job[w].sent + 1 < job[w].size)
      <4>1. job' = [job EXCEPT ![w] = last]
        BY <1>1, <1>9, <3>3 DEF Insert, Inserted
      <4> QED BY <3>1, <3>3, <4>1
    <3> QED BY <3>2, <3>3
  <2>2. /\ new.stmt = job[w].stmt /\ new.append = job[w].append /\ new.size = job[w].size
        /\ new.old = job[w].old /\ new.cleared = job[w].cleared /\ job'[w] = new
    BY <1>1, <2>1 DEF Job
  <2>3. Sends(job[w], new)
    BY <1>1, <1>9 DEF Job, JobInv, Insert, Sends
  <2> HIDE DEF new
  <2> QED BY <1>1, <1>9, <2>1, <2>2, <2>3, SendStep DEF Insert, Acknowledged
<1>10. CASE InsertUnanswered(w)
  <2> DEFINE new == [job[w] EXCEPT !.pc = "idle", !.result = "error", !.clean = FALSE]
  <2>1. new \in Job /\ job' = [job EXCEPT ![w] = new]
    BY <1>1, <1>10 DEF InsertUnanswered, InsertStops, End, Job
  <2>2. /\ new.pc = "idle" /\ new.result = "error" /\ new.sent = job[w].sent
        /\ new.stmt = job[w].stmt /\ new.append = job[w].append /\ new.size = job[w].size
        /\ new.old = job[w].old /\ new.cleared = job[w].cleared
    BY <1>1 DEF Job
  <2> HIDE DEF new
  <2> QED BY <1>1, <1>2, <1>10, <2>1, <2>2, SendStep DEF InsertUnanswered, Sends
<1>11. CASE InsertFails(w)
  <2>1. job[w].clean \in BOOLEAN
    BY <1>1 DEF Job
  <2> QED BY <1>1, <1>2, <1>3, <1>11, <2>1 DEF InsertFails
<1>12. CASE Stops(w)
  BY <1>1, <1>2, <1>3, <1>12 DEF Stops
<1> QED BY <1>4, <1>5, <1>6, <1>7, <1>8, <1>9, <1>10, <1>11, <1>12

LEMMA NextInv == IInv /\ [Next]_vars => IInv'
<1> SUFFICES ASSUME IInv, [Next]_vars PROVE IInv'
  OBVIOUS
<1>1. CASE Next
  BY <1>1, StepInv DEF Next
<1>2. CASE UNCHANGED vars
  BY <1>2 DEF vars, IInv, Typed, NumberInv, ExistsInv, RowsInOrder, AckInv, AcknowledgedRowsStay, Alone
<1> QED BY <1>1, <1>2

\* The inductive invariant: what every writer has done so far, and what of it
\* may still be cleared.
THEOREM InvCorrect == Spec => []IInv
BY InitInv, NextInv, PTL DEF Spec

\* The table and the jobs of its writers keep their types.
THEOREM TypeCorrect == Spec => []TypeOK
<1>1. IInv => TypeOK
  <2> SUFFICES ASSUME IInv PROVE TypeOK
    OBVIOUS
  <2>1. \A i \in DOMAIN rows : rows[i] \in Row
    BY DEF IInv, Typed
  <2>2. \A i \in DOMAIN rows : rows[i].by \in 1 .. count /\ rows[i].n \in Nat \ {0}
    BY <2>1 DEF IInv, NumberInv, Row
  <2>3. \A w \in Writers : job[w] \in Job /\ JobInv(job[w]) /\ job[w].stmt <= count
    BY DEF IInv, Typed, NumberInv
  <2>4. \A w \in Writers :
          /\ job[w].pc \in {"idle", "open", "ensure", "clear", "insert"}
          /\ job[w].stmt \in 0 .. count
          /\ job[w].sent \in 0 .. job[w].size
          /\ job[w].result \in {"idle", "ok", "error", "crash"}
    BY <2>3 DEF JobInv, Job, IInv, Typed
  <2> QED BY <2>2, <2>4 DEF TypeOK, IInv, Typed, ExistsInv, AckInv
<1> QED BY <1>1, InvCorrect, PTL

\* However writers and failures mix, the rows of a statement are in the table
\* in its order, and none twice (database.go WriteTable).
THEOREM OrderCorrect == Spec => []RowsInOrder
<1>1. IInv => RowsInOrder
  BY DEF IInv
<1> QED BY <1>1, InvCorrect, PTL

\* Rows of an INSERT that returned no error stay until an INSERT OVERWRITE
\* runs (database.go WriteTable).
THEOREM AcknowledgedCorrect == Spec => []AcknowledgedRowsStay
<1>1. IInv => AcknowledgedRowsStay
  BY DEF IInv, AckInv
<1> QED BY <1>1, InvCorrect, PTL

\* One writer that stops anywhere leaves the first of its rows behind the old
\* ones, or in their place; without an error, all of them.
THEOREM StopsCorrect == Spec => []StopsBetweenRows
<1>1. IInv => StopsBetweenRows
  <2> SUFFICES ASSUME IInv, NEW w \in table.writers, Alone, job[w].stmt # 0
               PROVE  \E kept \in Bases(job[w]) :
                        \E n \in IF job[w].result = "ok" THEN {job[w].size} ELSE 0 .. job[w].size :
                          rows = kept \o RowsOf(job[w].stmt, n)
    BY DEF StopsBetweenRows, Bases
  <2>1. job[w] \in Job /\ JobInv(job[w]) /\ AloneInv(table.storage, rows, job[w]) /\ rows \in Seq(Row)
    BY TableTyped DEF IInv, Typed, NumberInv
  <2>2. CASE job[w].pc = "idle"
    BY <2>1, <2>2 DEF AloneInv
  <2>3. CASE job[w].pc # "idle"
    <3>1. PICK kept \in Bases(job[w]) : rows = kept \o RowsOf(job[w].stmt, job[w].sent)
      <4>1. CASE job[w].pc = "insert"
        BY <2>1, <4>1 DEF AloneInv
      <4>2. CASE job[w].pc # "insert"
        <5>1. job[w].sent = 0 /\ rows = job[w].old /\ job[w].stmt \in Nat
          BY <2>1, <2>3, <4>2 DEF AloneInv, JobInv, Job
        <5>2. rows = rows \o RowsOf(job[w].stmt, 0)
          BY <2>1, <5>1, RowsOfTyped
        <5> QED BY <5>1, <5>2 DEF Bases
      <4> QED BY <4>1, <4>2
    <3>2. job[w].result # "ok" /\ job[w].sent \in 0 .. job[w].size
      BY <2>1, <2>3 DEF JobInv, Job
    <3> QED BY <3>1, <3>2
  <2> QED BY <2>2, <2>3
<1> QED BY <1>1, InvCorrect, PTL

\* An INSERT OVERWRITE of one writer that returned no error has replaced the
\* rows, if no command failed and the storage option is given.
THEOREM OverwriteCorrect == Spec => []OverwriteReplaces
<1>1. IInv => OverwriteReplaces
  <2> SUFFICES ASSUME IInv, NEW w \in table.writers, Alone, job[w].clean, job[w].size > 0,
                      table.storage # "", job[w].result = "ok", ~job[w].append
               PROVE  rows = RowsOf(job[w].stmt, job[w].size)
    BY DEF OverwriteReplaces, Replaced
  <2>1. JobInv(job[w]) /\ AloneInv(table.storage, rows, job[w])
    BY TableTyped DEF IInv, NumberInv
  <2> QED BY <2>1 DEF JobInv, AloneInv
<1> QED BY <1>1, InvCorrect, PTL

===============================================================================
