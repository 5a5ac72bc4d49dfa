---------------------------- MODULE TableWriteProofs ----------------------------
(***************************************************************************)
(* For any table of files and any number of statements that one process    *)
(* runs: WriteRows implements AtomicTable, and an error has a cause.       *)
(***************************************************************************)
EXTENDS TableWrite, SequenceTheorems, TLAPS

OneWriter == \A v, w \in Writers : v = w

Row == Values \cup {Damaged}

\* What a statement gives to some of the partitions.
Gifts == UNION {[dirs -> Values] : dirs \in SUBSET table.dirs}

Job == [pc : {"idle", "pick", "open", "encode", "create", "object", "fill", "rename", "remove"},
        gives : Gifts, append : BOOLEAN, todo : SUBSET table.dirs,
        dir : table.dirs \cup {Root}, data : Rows, upto : Nat, file : Nat, sent : Nat,
        result : {"idle", "ok", "error", "crash"}, faulted : BOOLEAN]

Typed == TypeOK /\ job \in [Writers -> Job]

\* What a statement has settled at each of its points.
JobInv(j) ==
    /\ j.pc # "idle" => j.result = "idle"
    /\ j.pc \in {"idle", "pick", "open", "encode"} => j.data = << >>
    /\ j.pc \in {"open", "encode", "create", "object", "fill", "rename"} => j.dir \in j.todo
    /\ j.pc \in {"create", "object", "fill", "rename"} => j.data # << >>
    /\ j.pc = "open" => j.append
    /\ j.pc \in {"encode", "rename", "remove"} => ~j.append
    /\ j.pc \in {"create", "object", "fill"} /\ j.append => j.upto = Len(j.data)
    /\ j.pc \in {"create", "object", "fill"} /\ j.upto < Len(j.data) => j.faulted
    /\ j.pc = "rename" => j.upto = Len(j.data)
    /\ j.pc = "create" => j.sent = 0
    /\ j.pc = "remove" /\ j.data # << >> => j.dir \in j.todo

\* FTP stores every partition's file under its base name.
Misplaced == table.backend = "ftp" /\ table.dirs # {Root}

\* No two names lead to one file.
NamesInv ==
    /\ \A p, q \in Paths : names[p] = names[q] /\ names[p] # 0 => p = q
    /\ Misplaced => \A p \in Paths : p # <<Root, "tmp">> => names[p] = 0

\* What has been stored of the rows that are being stored; on Git LFS the object
\* of these rows is there before a pointer to it is.
StoreInv(w) ==
    /\ Misplaced /\ job[w].append => job[w].pc \notin {"create", "fill"}
    /\ job[w].pc = "object" =>
          /\ table.backend = "gitlfs"
          /\ Payload(w) \in DOMAIN objects
          /\ objects[Payload(w)] = SubSeq(job[w].data, 1, job[w].sent)
    /\ job[w].pc = "fill" =>
          /\ ~PutIsAtomic
          /\ job[w].file = names[Target(w)] /\ job[w].file # 0
          /\ files[job[w].file] = SubSeq(job[w].data, 1, job[w].sent)
          /\ Abstract!ObjectIsStored(Payload(w))
    /\ job[w].pc = "rename" =>
          /\ names[Target(w)] # 0
          /\ \/ Content(Target(w)) = job[w].data
             \/ Abstract!LastErrorIsLost /\ Content(Target(w)) \in Abstract!CutShort(job[w].data)
          /\ Abstract!ObjectIsStored(job[w].data)

Cause ==
    \/ ~MissingIsNotExist /\ \E d \in table.dirs : names[<<d, "out">>] = 0
    \/ ~RenameReplaces /\ \E d \in table.dirs : names[<<d, "out">>] # 0
    \/ Misplaced
    \/ \E d \in table.dirs : Content(<<d, "out">>) = Torn

Blamed(j) == (j.pc = "remove" \/ j.result = "error") /\ ~j.faulted

IInv == /\ Typed /\ NamesInv
        /\ \A w \in Writers : JobInv(job[w]) /\ StoreInv(w) /\ (Blamed(job[w]) => Cause)

---------------------------------------------------------------------------
(* Sequences of rows.                                                      *)

\* A prefix grows by the next row.
LEMMA NextRow ==
  ASSUME NEW S, NEW s \in Seq(S), NEW i \in 1 .. Len(s), NEW k \in Nat, k = i - 1
  PROVE  SubSeq(s, 1, i) = Append(SubSeq(s, 1, k), s[i])
<1>1. /\ SubSeq(s, 1, i) \in Seq(S) /\ Len(SubSeq(s, 1, i)) = i
      /\ \A m \in 1 .. i : SubSeq(s, 1, i)[m] = s[m]
  OBVIOUS
<1>2. /\ SubSeq(s, 1, k) \in Seq(S) /\ Len(SubSeq(s, 1, k)) = k
      /\ \A m \in 1 .. k : SubSeq(s, 1, k)[m] = s[m]
  OBVIOUS
<1> DEFINE a == SubSeq(s, 1, i)
           b == SubSeq(s, 1, k)
<1> HIDE DEF a, b
<1>3. s[i] \in S
  OBVIOUS
<1>4. /\ Append(b, s[i]) \in Seq(S) /\ Len(Append(b, s[i])) = i
      /\ Append(b, s[i])[i] = s[i] /\ \A m \in 1 .. k : Append(b, s[i])[m] = s[m]
  BY <1>2, <1>3 DEF b
<1>5. \A m \in 1 .. i : a[m] = Append(b, s[i])[m]
  BY <1>1, <1>4 DEF a
<1> QED BY <1>1, <1>4, <1>5, SeqEqual DEF a, b

\* The prefixes of a sequence of rows are sequences of rows.
LEMMA PrefixTyped ==
  ASSUME NEW S, NEW s \in Seq(S), NEW i \in 0 .. Len(s)
  PROVE  SubSeq(s, 1, i) \in Seq(S) /\ Len(SubSeq(s, 1, i)) = i
OBVIOUS

\* A prefix of a prefix is one.
LEMMA PrefixOfPrefix ==
  ASSUME NEW S, NEW s \in Seq(S), NEW j \in 0 .. Len(s), NEW i \in 0 .. j
  PROVE  SubSeq(SubSeq(s, 1, j), 1, i) = SubSeq(s, 1, i)
<1> DEFINE p == SubSeq(s, 1, j)
<1>1. /\ p \in Seq(S) /\ Len(p) = j /\ i \in 0 .. Len(p) /\ i \in 0 .. Len(s)
      /\ \A m \in 1 .. j : p[m] = s[m]
  OBVIOUS
<1> HIDE DEF p
<1>2. /\ SubSeq(p, 1, i) \in Seq(S) /\ Len(SubSeq(p, 1, i)) = i
      /\ \A m \in 1 .. i : SubSeq(p, 1, i)[m] = p[m]
  BY <1>1
<1>3. /\ SubSeq(s, 1, i) \in Seq(S) /\ Len(SubSeq(s, 1, i)) = i
      /\ \A m \in 1 .. i : SubSeq(s, 1, i)[m] = s[m]
  BY <1>1
<1> DEFINE a == SubSeq(p, 1, i)
           b == SubSeq(s, 1, i)
<1> HIDE DEF a, b
<1>4. \A m \in 1 .. i : a[m] = b[m]
  BY <1>1, <1>2, <1>3 DEF a, b
<1>5. a = b
  BY <1>2, <1>3, <1>4, SeqEqual DEF a, b
<1> QED BY <1>5 DEF a, b, p

\* The writer's next row ends the file, or the object.
LEMMA PutNext ==
  ASSUME NEW S, Damaged \in S, NEW q \in Seq(S), NEW row \in S, NEW i \in Nat, i = Len(q) + 1
  PROVE  WithRow(q, i, row) = Append(q, row)
<1> DEFINE f == WithRow(q, i, row)
<1>1. Len(q) \in Nat /\ (IF i > Len(q) THEN i ELSE Len(q)) = i
  OBVIOUS
<1>2. f = [n \in 1 .. i |-> IF n = i THEN row ELSE IF n <= Len(q) THEN q[n] ELSE Damaged]
  BY <1>1 DEF WithRow
<1> HIDE DEF f
<1>3. \A n \in 1 .. i : f[n] = IF n = i THEN row ELSE q[n]
  BY <1>1, <1>2
<1>4. \A n \in 1 .. i : f[n] \in S
  BY <1>1, <1>3
<1>5. f \in Seq(S) /\ Len(f) = i
  BY <1>2, <1>4
<1>6. /\ Append(q, row) \in Seq(S) /\ Len(Append(q, row)) = i
      /\ \A n \in 1 .. i : Append(q, row)[n] = IF n = i THEN row ELSE q[n]
  BY <1>1
<1>7. f = Append(q, row)
  BY <1>3, <1>5, <1>6, SeqEqual
<1> QED BY <1>7 DEF f

\* What a write that stops can leave behind: a prefix, with or without a cut row.
LEMMA Cuts ==
  ASSUME NEW S, NEW s \in Seq(S), NEW i \in 0 .. Len(s)
  PROVE  /\ SubSeq(s, 1, i) \in Abstract!CutShort(s)
         /\ i < Len(s) => Append(SubSeq(s, 1, i), Damaged) \in Abstract!CutShort(s)
         /\ s \in Abstract!CutShort(s)
<1>1. SubSeq(s, 1, i) \in Abstract!Prefixes(s)
  BY DEF Abstract!Prefixes
<1>2. SubSeq(s, 1, Len(s)) = s /\ Len(s) \in 0 .. Len(s)
  OBVIOUS
<1>3. s \in Abstract!Prefixes(s)
  BY <1>2 DEF Abstract!Prefixes
<1>4. ASSUME i < Len(s)
      PROVE  SubSeq(s, 1, i) # s
  <2>1. Len(SubSeq(s, 1, i)) = i
    OBVIOUS
  <2> QED BY <1>4, <2>1
<1>5. ASSUME i < Len(s)
      PROVE  Append(SubSeq(s, 1, i), Damaged) \in Abstract!CutShort(s)
  BY <1>1, <1>4, <1>5, Zenon DEF Abstract!CutShort, Abstract!Damaged, Damaged
<1> QED BY <1>1, <1>3, <1>5 DEF Abstract!CutShort

---------------------------------------------------------------------------
(* Names and files.                                                        *)

Stored0 == Rows \cup {Torn}

ObjectsTyped ==
    DOMAIN objects \subseteq Rows /\ \A h \in DOMAIN objects : objects[h] \in Rows

\* Rows are none of the marks for a file that is not there or cannot be read.
LEMMA NoMarks ==
  /\ Missing \notin Rows /\ Unfetched \notin Rows /\ Torn \notin Rows
  /\ Missing # Unfetched /\ Missing # Torn /\ Unfetched # Torn
<1>1. /\ Missing[1] = -1 /\ Unfetched[1] = -2 /\ Torn[1] = -3
      /\ Len(Missing) = 1 /\ Len(Unfetched) = 1 /\ Len(Torn) = 1
  BY DEF Missing, Unfetched, Torn
<1>2. \A v \in Values : v \notin {-1, -2, -3}
  BY ValuesAssumption DEF Missing, Unfetched, Torn
<1>3. ASSUME NEW s \in Seq(Row), Len(s) = 1
      PROVE  s[1] \notin {-1, -2, -3}
  <2>1. 1 \in 1 .. Len(s)
    BY <1>3
  <2>2. s[1] \in Row
    BY <2>1, ElementOfSeq
  <2> QED BY <1>2, <2>2 DEF Row, Damaged
<1>4. Rows = Seq(Row)
  BY DEF Rows, Row
<1>5. /\ Missing \notin Seq(Row) /\ Unfetched \notin Seq(Row) /\ Torn \notin Seq(Row)
  BY <1>1, <1>3, Zenon
<1> QED BY <1>1, <1>4, <1>5

\* What TypeOK and TableAssumption say of the table, its names and its files.
LEMMA TableTyped ==
  ASSUME Typed
  PROVE  /\ table \in Tables /\ table.backend \in Backends
         /\ table.dirs # {} /\ (Root \in table.dirs => table.dirs = {Root})
         /\ table.modes \subseteq BOOLEAN /\ table.statements \in Nat /\ count \in Nat
         /\ names \in [Paths -> 0 .. Len(files)] /\ files \in Seq(Stored0) /\ Len(files) \in Nat
         /\ ObjectsTyped
BY TableAssumption DEF Typed, TypeOK, Stored0, ObjectsTyped

\* Every name that a statement uses is a path of the table.
LEMMA PathTyped ==
  ASSUME Typed, NEW w \in Writers
  PROVE  /\ job[w] \in Job /\ job[w].dir \in table.dirs \cup {Root}
         /\ Out(w) = <<job[w].dir, "out">> /\ Tmp(w) = <<job[w].dir, "tmp">>
         /\ Out(w) \in Paths /\ Tmp(w) \in Paths /\ <<Root, "tmp">> \in Paths
         /\ Target(w) \in Paths /\ At(Out(w)) \in Paths
         /\ \A d \in table.dirs : <<d, "out">> \in Paths
         /\ Target(w) = IF table.backend = "ftp"
                        THEN <<Root, IF job[w].append THEN "out" ELSE "tmp">>
                        ELSE IF job[w].append THEN Out(w) ELSE Tmp(w)
<1>1. job[w] \in Job /\ job[w].dir \in table.dirs \cup {Root}
  BY DEF Typed, TypeOK
<1>2. Out(w) \in Paths /\ Tmp(w) \in Paths /\ <<Root, "tmp">> \in Paths /\ <<Root, "out">> \in Paths
  BY <1>1 DEF Out, Tmp, Paths
<1>3. Out(w)[2] = "out" /\ Tmp(w)[2] = "tmp"
  BY DEF Out, Tmp
<1>4. Target(w) = IF table.backend = "ftp"
                  THEN <<Root, IF job[w].append THEN "out" ELSE "tmp">>
                  ELSE IF job[w].append THEN Out(w) ELSE Tmp(w)
  BY <1>3 DEF Target, At
<1>5. Target(w) \in Paths
  BY <1>2, <1>4, Zenon
<1>6. At(Out(w)) \in Paths
  BY <1>2, <1>3, Zenon DEF At
<1> QED BY <1>1, <1>2, <1>4, <1>5, <1>6 DEF Out, Tmp, Paths

\* Where FTP stores what belongs.
LEMMA PlacedRight ==
  ASSUME Typed, NEW w \in Writers, job[w].dir \in table.dirs, ~Misplaced
  PROVE  /\ At(Out(w)) = Out(w)
         /\ Target(w) = IF job[w].append THEN Out(w) ELSE Tmp(w)
<1>1. table.backend = "ftp" => job[w].dir = Root
  BY DEF Misplaced
<1>2. Out(w)[2] = "out" /\ Out(w) = <<job[w].dir, "out">> /\ Tmp(w) = <<job[w].dir, "tmp">>
  BY DEF Out, Tmp
<1> QED BY <1>1, <1>2, PathTyped DEF At

\* The step makes the file of p hold rows.
Puts(p, rows) == \A q \in Paths : Content(q)' = IF q = p THEN rows ELSE Content(q)

\* Creating or replacing a file changes what one path leads to.
LEMMA WriteSets ==
  ASSUME Typed, NamesInv, NEW p \in Paths, NEW rows \in Stored0, Write(p, rows),
         table' = table, Misplaced => p = <<Root, "tmp">>
  PROVE  /\ names' \in [Paths -> 0 .. Len(files')] /\ files' \in Seq(Stored0)
         /\ Len(files) <= Len(files') /\ names'[p] # 0 /\ files'[names'[p]] = rows
         /\ Puts(p, rows) /\ NamesInv'
<1>1. /\ names \in [Paths -> 0 .. Len(files)] /\ files \in Seq(Stored0) /\ Len(files) \in Nat
      /\ Paths' = Paths /\ Misplaced' = Misplaced
  BY TableTyped DEF Paths, Misplaced
<1> HIDE DEF Stored0
<1>2. CASE names[p] = 0
  <2>1. /\ names' = [names EXCEPT ![p] = Len(files) + 1]
        /\ files' = Append(files, rows)
    BY <1>2 DEF Write
  <2>2. /\ files' \in Seq(Stored0) /\ Len(files') = Len(files) + 1
        /\ files'[Len(files) + 1] = rows
        /\ \A f \in 1 .. Len(files) : files'[f] = files[f]
    BY <1>1, <2>1
  <2>3. \A q \in Paths : names'[q] = IF q = p THEN Len(files) + 1 ELSE names[q]
    BY <1>1, <2>1
  <2>4. names' \in [Paths -> 0 .. Len(files')]
    BY <1>1, <2>1, <2>2
  <2>5. Puts(p, rows)
    BY <1>1, <2>2, <2>3 DEF Puts, Content
  <2>6. NamesInv'
    BY <1>1, <2>3 DEF NamesInv
  <2> QED BY <1>1, <2>2, <2>3, <2>4, <2>5, <2>6
<1>3. CASE names[p] # 0
  <2>1. names' = names /\ files' = [files EXCEPT ![names[p]] = rows]
    BY <1>3 DEF Write
  <2>2. names[p] \in 1 .. Len(files)
    BY <1>1, <1>3
  <2>3. /\ files' \in Seq(Stored0) /\ Len(files') = Len(files) /\ files'[names[p]] = rows
        /\ \A f \in 1 .. Len(files) : f # names[p] => files'[f] = files[f]
    BY <1>1, <2>1, <2>2
  <2>4. Puts(p, rows)
    BY <1>1, <1>3, <2>1, <2>3 DEF Puts, Content, NamesInv
  <2>5. NamesInv'
    BY <1>1, <2>1 DEF NamesInv
  <2> QED BY <1>1, <1>3, <2>1, <2>3, <2>4, <2>5
<1> QED BY <1>2, <1>3

\* So does writing to the file of a path, since no other path leads to it.
LEMMA FillSets ==
  ASSUME Typed, NamesInv, NEW p \in Paths, NEW rows \in Stored0, names[p] # 0,
         UNCHANGED <<table, names>>, files' = [files EXCEPT ![names[p]] = rows]
  PROVE  /\ names' \in [Paths -> 0 .. Len(files')] /\ files' \in Seq(Stored0)
         /\ Len(files') = Len(files) /\ files'[names[p]] = rows
         /\ Puts(p, rows) /\ NamesInv'
<1>1. /\ names \in [Paths -> 0 .. Len(files)] /\ files \in Seq(Stored0) /\ Len(files) \in Nat
      /\ Paths' = Paths /\ Misplaced' = Misplaced
  BY TableTyped DEF Paths, Misplaced
<1> HIDE DEF Stored0
<1>2. names[p] \in 1 .. Len(files)
  BY <1>1
<1>3. /\ files' \in Seq(Stored0) /\ Len(files') = Len(files) /\ files'[names[p]] = rows
      /\ \A f \in 1 .. Len(files) : f # names[p] => files'[f] = files[f]
  BY <1>1, <1>2
<1>4. Puts(p, rows)
  BY <1>1, <1>3 DEF Puts, Content, NamesInv
<1>5. NamesInv'
  BY <1>1 DEF NamesInv
<1> QED BY <1>1, <1>3, <1>4, <1>5

\* A rename takes a file from one path to another.
LEMMA MoveSets ==
  ASSUME Typed, NamesInv, NEW p \in Paths, NEW q \in Paths, p # q, names[p] # 0,
         UNCHANGED <<table, files>>, names' = Move(p, q), ~Misplaced
  PROVE  /\ names' \in [Paths -> 0 .. Len(files')] /\ NamesInv'
         /\ \A r \in Paths : Content(r)' = IF r = q THEN Content(p)
                                           ELSE IF r = p THEN Missing ELSE Content(r)
         /\ \A r \in Paths : r # p /\ r # q => names'[r] = names[r]
<1>1. /\ names \in [Paths -> 0 .. Len(files)] /\ Paths' = Paths /\ Misplaced' = Misplaced
  BY TableTyped DEF Paths, Misplaced
<1>2. \A r \in Paths : names'[r] = IF r = q THEN names[p] ELSE IF r = p THEN 0 ELSE names[r]
  BY <1>1 DEF Move
<1>3. names' \in [Paths -> 0 .. Len(files')]
  BY <1>1 DEF Move
<1>4. NamesInv'
  BY <1>1, <1>2 DEF NamesInv
<1>5. \A r \in Paths : Content(r)' = IF r = q THEN Content(p)
                                     ELSE IF r = p THEN Missing ELSE Content(r)
  BY <1>2 DEF Content
<1> QED BY <1>2, <1>3, <1>4, <1>5

\* A removal leaves one path without a file.
LEMMA ClearSets ==
  ASSUME Typed, NamesInv, NEW p \in Paths,
         UNCHANGED <<table, files>>, names' = [names EXCEPT ![p] = 0]
  PROVE  /\ names' \in [Paths -> 0 .. Len(files')] /\ NamesInv'
         /\ Puts(p, Missing)
         /\ \A r \in Paths : r # p => names'[r] = names[r]
<1>1. /\ names \in [Paths -> 0 .. Len(files)] /\ Paths' = Paths /\ Misplaced' = Misplaced
      /\ Len(files) \in Nat
  BY TableTyped DEF Paths, Misplaced
<1>2. \A r \in Paths : names'[r] = IF r = p THEN 0 ELSE names[r]
  BY <1>1
<1>3. names' \in [Paths -> 0 .. Len(files')]
  BY <1>1
<1>4. NamesInv'
  BY <1>1, <1>2 DEF NamesInv
<1>5. Puts(p, Missing)
  BY <1>2 DEF Puts, Content
<1> QED BY <1>2, <1>3, <1>4, <1>5

\* What that is to a reader of the table.
LEMMA PutsStored ==
  ASSUME table' = table, NEW p \in Paths, NEW rows, Puts(p, rows)
  PROVE  /\ \A d \in table.dirs : p = <<d, "out">> => StoredRows' = [StoredRows EXCEPT ![d] = rows]
         /\ (\A d \in table.dirs : p # <<d, "out">>) => StoredRows' = StoredRows
<1>1. \A d \in table.dirs : <<d, "out">> \in Paths
  BY DEF Paths
<1>2. \A d \in table.dirs : Content(<<d, "out">>)' = IF <<d, "out">> = p THEN rows ELSE Content(<<d, "out">>)
  BY <1>1 DEF Puts
<1>3. StoredRows' = [d \in table.dirs |-> IF <<d, "out">> = p THEN rows ELSE Content(<<d, "out">>)]
  BY <1>2 DEF StoredRows
<1>4. ASSUME NEW d \in table.dirs, p = <<d, "out">>
      PROVE  StoredRows' = [StoredRows EXCEPT ![d] = rows]
  BY <1>3, <1>4 DEF StoredRows
<1>5. ASSUME \A d \in table.dirs : p # <<d, "out">>
      PROVE  StoredRows' = StoredRows
  BY <1>3, <1>5 DEF StoredRows
<1> QED BY <1>4, <1>5

---------------------------------------------------------------------------
(* The steps of AtomicTable, by what the writer's job becomes.             *)

Becomes(w, n) == n \in Job /\ job' = [job EXCEPT ![w] = n]

\* The mapped variables are those of the one job.
LEMMA JobBecomes ==
  ASSUME OneWriter, Typed, NEW w \in Writers, NEW n, Becomes(w, n)
  PROVE  /\ job'[w] = n /\ job[w] \in Job /\ \A v \in Writers : v = w
         /\ Gives[w] = job[w].gives /\ Gives' = [Gives EXCEPT ![w] = n.gives]
         /\ Todos[w] = job[w].todo /\ Todos' = [Todos EXCEPT ![w] = n.todo]
         /\ Plans[w] = PlanOf(job[w]) /\ Plans' = [Plans EXCEPT ![w] = PlanOf(n)]
         /\ Appends[w] = job[w].append /\ Appends' = [Appends EXCEPT ![w] = n.append]
         /\ Results[w] = ResultOf(job[w]) /\ Results' = [Results EXCEPT ![w] = ResultOf(n)]
<1>1. job \in [Writers -> Job] /\ job' = [job EXCEPT ![w] = n]
  BY DEF Typed, Becomes
<1>2. job'[w] = n /\ job[w] \in Job /\ \A v \in Writers : v = w
  BY <1>1 DEF OneWriter
<1>3. \A v \in Writers : job'[v] = n
  BY <1>2
<1>4. Todos[w] = job[w].todo /\ Todos' = [Todos EXCEPT ![w] = n.todo]
  BY <1>2, <1>3 DEF Todos
<1>g. Gives[w] = job[w].gives /\ Gives' = [Gives EXCEPT ![w] = n.gives]
  BY <1>2, <1>3 DEF Gives
<1>5. Plans[w] = PlanOf(job[w]) /\ Plans' = [Plans EXCEPT ![w] = PlanOf(n)]
  BY <1>2, <1>3 DEF Plans
<1>6. Appends[w] = job[w].append /\ Appends' = [Appends EXCEPT ![w] = n.append]
  BY <1>2, <1>3 DEF Appends
<1>7. Results[w] = ResultOf(job[w]) /\ Results' = [Results EXCEPT ![w] = ResultOf(n)]
  BY <1>2, <1>3 DEF Results
<1> QED BY <1>2, <1>4, <1>5, <1>6, <1>7, <1>g

\* The job goes on with the same statement, partitions and plan.
SamePlan(w, n) == /\ n.gives = job[w].gives /\ n.todo = job[w].todo /\ n.append = job[w].append
                  /\ PlanOf(n) = PlanOf(job[w]) /\ ResultOf(n) = ResultOf(job[w])

\* Then what AtomicTable knows of it stays the same.
LEMMA SameAbstract ==
  ASSUME OneWriter, Typed, NEW w \in Writers, NEW n, Becomes(w, n), SamePlan(w, n)
  PROVE  /\ Gives' = Gives /\ Todos' = Todos /\ Plans' = Plans
         /\ Appends' = Appends /\ Results' = Results
<1>1. (\A v \in Writers : v = w) /\ job'[w] = n
  BY JobBecomes
<1>2. Plans' = Plans /\ Results' = Results
  BY <1>1 DEF Plans, Results, SamePlan
<1>3. Gives' = Gives /\ Todos' = Todos /\ Appends' = Appends
  BY <1>1 DEF Gives, Todos, Appends, SamePlan
<1> QED BY <1>2, <1>3

\* A step that AtomicTable does not see.
LEMMA NoChange ==
  ASSUME OneWriter, Typed, NEW w \in Writers, NEW n, Becomes(w, n),
         UNCHANGED <<table, objects, count>>, StoredRows' = StoredRows, SamePlan(w, n)
  PROVE  UNCHANGED Abstract!vars
BY SameAbstract DEF Abstract!vars

\* A statement begins.
LEMMA BeginStep ==
  ASSUME OneWriter, Typed, NEW w \in Writers, NEW n, Becomes(w, n),
         job[w].pc = "idle", job[w].result # "busy", job[w].data = << >>,
         count < table.statements, count' = count + 1,
         UNCHANGED <<table, objects>>, StoredRows' = StoredRows,
         n.todo \in SUBSET table.dirs \ {{}}, n.gives \in [n.todo -> Values],
         n.append \in BOOLEAN, n.pc = "pick", n.data = << >>
  PROVE  Abstract!Begin(w)
<1>1. \A v \in Writers : Results[v] # "busy"
  BY JobBecomes DEF ResultOf
<1>2. Results' = [Results EXCEPT ![w] = "busy"]
  BY JobBecomes DEF ResultOf
<1>3. Plans' = Plans
  <2>1. \A v \in Writers : v = w
    BY JobBecomes
  <2>2. PlanOf(job'[w]) = PlanOf(job[w])
    BY JobBecomes DEF PlanOf
  <2> QED BY <2>1, <2>2 DEF Plans
<1>4. \E dirs \in SUBSET table.dirs \ {{}} :
         /\ Todos' = [Todos EXCEPT ![w] = dirs]
         /\ \E rows \in [dirs -> Values] : Gives' = [Gives EXCEPT ![w] = rows]
  <2>1. Todos' = [Todos EXCEPT ![w] = n.todo] /\ Gives' = [Gives EXCEPT ![w] = n.gives]
    BY JobBecomes
  <2> QED BY <2>1, Zenon
<1>5. Appends' \in {[Appends EXCEPT ![w] = a] : a \in BOOLEAN}
  BY JobBecomes
<1> QED BY <1>1, <1>2, <1>3, <1>4, <1>5 DEF Abstract!Begin

\* The rows to store are settled: read and merged, or encoded.
LEMMA PlanStep ==
  ASSUME OneWriter, Typed, NEW w \in Writers, NEW n, Becomes(w, n),
         UNCHANGED <<table, objects, count>>, StoredRows' = StoredRows,
         job[w].data = << >>, n.dir \in job[w].todo, n.data # << >>, n.gives = job[w].gives,
         n.todo = job[w].todo, n.append = job[w].append, ResultOf(n) = ResultOf(job[w]),
         \E old \in IF job[w].append THEN Abstract!Existing(Abstract!Read(StoredRows[n.dir]))
                   ELSE {<< >>} :
            n.data = old \o NewRows(job[w].gives[n.dir])
  PROVE  Abstract!Plan(w)
<1>1. Plans[w] = Abstract!NoPlan /\ Plans' = [Plans EXCEPT ![w] = [dir |-> n.dir, rows |-> n.data]]
  BY JobBecomes DEF PlanOf, Abstract!NoPlan
<1>2. /\ Gives' = Gives /\ Todos' = Todos /\ Appends' = Appends /\ Results' = Results
  <2>1. (\A v \in Writers : v = w) /\ job'[w] = n
    BY JobBecomes
  <2> QED BY <2>1 DEF Gives, Todos, Appends, Results
<1>3. \E d \in Todos[w] :
         \E old \in IF Appends[w] THEN Abstract!Existing(Abstract!Read(StoredRows[d])) ELSE {<< >>} :
            Plans' = [Plans EXCEPT ![w] = [dir |-> d, rows |-> old \o Abstract!NewRows(Gives[w][d])]]
  <2>1. Todos[w] = job[w].todo /\ Appends[w] = job[w].append /\ Gives[w] = job[w].gives
    BY JobBecomes
  <2>2. \A v : Abstract!NewRows(v) = NewRows(v)
    BY DEF Abstract!NewRows, NewRows
  <2> QED BY <1>1, <2>1, <2>2, Zenon
<1> QED BY <1>1, <1>2, <1>3 DEF Abstract!Plan

\* The job has planned the rows it is writing.
LEMMA Planned ==
  ASSUME NEW w \in Writers, job[w].data # << >>
  PROVE  /\ Plans[w] = [dir |-> job[w].dir, rows |-> job[w].data]
         /\ Plans[w] # Abstract!NoPlan
         /\ Plans[w].dir = job[w].dir /\ Plans[w].rows = job[w].data
<1>1. Plans[w] = [dir |-> job[w].dir, rows |-> job[w].data]
  BY DEF Plans, PlanOf
<1>2. Plans[w].dir = job[w].dir /\ Plans[w].rows = job[w].data
  BY <1>1
<1>3. Abstract!NoPlan.rows = << >>
  BY DEF Abstract!NoPlan
<1> QED BY <1>1, <1>2, <1>3

\* Rows, or some of them, are in the data file or in their object.
Halfway(w) == \/ UNCHANGED <<StoredRows, objects>>
              \/ Plans[w] # Abstract!NoPlan /\ (Abstract!WriteContent(w) \/ Abstract!WriteObject(w))

\* What INSERT INTO can leave in a data file that it writes in place.
Partial(rows) == IF Abstract!SharesObjects THEN {<< >>, Torn, rows} ELSE Abstract!CutShort(rows)

\* INSERT INTO has written some of its rows.
LEMMA ContentHalfway ==
  ASSUME NEW w \in Writers, job[w].append, ~PutIsAtomic, job[w].data # << >>,
         NEW rows \in Partial(job[w].data), rows = job[w].data => Abstract!ObjectIsStored(rows),
         StoredRows' = [StoredRows EXCEPT ![job[w].dir] = rows], UNCHANGED objects
  PROVE  Halfway(w)
<1>1. Abstract!InPlace(w)
  BY DEF Appends, Abstract!InPlace, Abstract!PutIsAtomic, PutIsAtomic
<1>2. Abstract!Torn = Torn
  BY DEF Abstract!Torn, Torn
<1>3. /\ Plans[w] # Abstract!NoPlan /\ Plans[w].rows = job[w].data
      /\ Plans[w].dir = job[w].dir
  BY Planned
<1>4. Abstract!WriteContent(w)
  BY <1>1, <1>2, <1>3 DEF Abstract!WriteContent, Partial
<1> QED BY <1>3, <1>4 DEF Halfway

\* A Git LFS object has some of its rows.
LEMMA ObjectHalfway ==
  ASSUME NEW w \in Writers, table.backend = "gitlfs", job[w].data # << >>,
         NEW p \in Abstract!Prefixes(job[w].data), NEW rows \in Abstract!CutShort(p),
         objects' = PutObjectAt(p, rows), StoredRows' = StoredRows
  PROVE  Halfway(w)
<1>1. Plans[w] # Abstract!NoPlan /\ Plans[w].rows = job[w].data
  BY Planned
<1>2. objects' = Abstract!WithObject(p, rows)
  BY DEF Abstract!WithObject, PutObjectAt
<1>3. Abstract!WriteObject(w)
  BY <1>1, <1>2 DEF Abstract!WriteObject, Abstract!SharesObjects
<1> QED BY <1>1, <1>3 DEF Halfway

\* The job goes on after it.
LEMMA OverwriteStep ==
  ASSUME OneWriter, Typed, NEW w \in Writers, NEW n, Becomes(w, n),
         UNCHANGED <<table, count>>, Halfway(w), SamePlan(w, n)
  PROVE  Abstract!Overwrite(w) \/ UNCHANGED Abstract!vars
BY SameAbstract DEF Halfway, Abstract!Overwrite, Abstract!vars

\* A partition is stored.
LEMMA StoreStep ==
  ASSUME OneWriter, Typed, NEW w \in Writers, NEW n, Becomes(w, n),
         UNCHANGED <<table, objects, count>>, job[w].data # << >>, NEW rows,
         Abstract!ObjectIsStored(job[w].data), n.gives = job[w].gives,
         \/ rows = job[w].data /\ (rows \in Abstract!CutShort(rows))
         \/ Abstract!LastErrorIsLost /\ ~job[w].append /\ rows \in Abstract!CutShort(job[w].data),
         StoredRows' = [StoredRows EXCEPT ![job[w].dir] = rows],
         n.todo = job[w].todo \ {job[w].dir}, n.append = job[w].append,
         n.data = << >>, ResultOf(n) = ResultOf(job[w])
  PROVE  Abstract!Store(w)
<1>1. /\ Gives' = Gives /\ Appends' = Appends /\ Results' = Results
  <2>1. (\A v \in Writers : v = w) /\ job'[w] = n
    BY JobBecomes
  <2> QED BY <2>1 DEF Gives, Appends, Results
<1>2. Todos' = [Todos EXCEPT ![w] = @ \ {Plans[w].dir}]
  <2>1. Todos[w] \ {Plans[w].dir} = n.todo
    BY JobBecomes, Planned
  <2>2. Todos' = [Todos EXCEPT ![w] = n.todo]
    BY JobBecomes
  <2> QED BY <2>1, <2>2, Zenon
<1>3. Plans' = [Plans EXCEPT ![w] = Abstract!NoPlan]
  BY JobBecomes DEF PlanOf, Abstract!NoPlan
<1>4. rows \in IF Abstract!LastErrorIsLost /\ ~Appends[w]
               THEN Abstract!CutShort(Plans[w].rows) ELSE {Plans[w].rows}
  <2>1. Plans[w].rows = job[w].data /\ Appends[w] = job[w].append
    BY JobBecomes, Planned
  <2> QED BY <2>1, Zenon
<1> QED BY <1>1, <1>2, <1>3, <1>4, Planned DEF Abstract!Store

\* A statement ends without an error.
LEMMA SucceedStep ==
  ASSUME OneWriter, Typed, NEW w \in Writers, NEW n, Becomes(w, n),
         UNCHANGED <<table, objects, count>>, StoredRows' = StoredRows,
         job[w].pc # "idle", job[w].todo = {}, job[w].data = << >>, n.gives = << >>,
         n.pc = "idle", n.result = "ok", n.append = FALSE, n.todo = {}, n.data = << >>
  PROVE  Abstract!Succeed(w)
<1>1. Results[w] = "busy" /\ Results' = [Results EXCEPT ![w] = "ok"]
  BY JobBecomes DEF ResultOf
<1>2. /\ Todos' = Todos /\ Plans' = Plans
  <2>1. (\A v \in Writers : v = w) /\ job'[w] = n
    BY JobBecomes
  <2> QED BY <2>1 DEF Todos, Plans, PlanOf
<1>3. /\ Todos[w] = {} /\ Appends' = [Appends EXCEPT ![w] = FALSE]
      /\ Gives' = [Gives EXCEPT ![w] = << >>]
  BY JobBecomes
<1> QED BY <1>1, <1>2, <1>3 DEF Abstract!Succeed

\* A statement ends with an error or a crash.
LEMMA StopStep ==
  ASSUME OneWriter, Typed, NEW w \in Writers, NEW n, Becomes(w, n),
         UNCHANGED <<table, count>>, job[w].pc # "idle",
         \/ Halfway(w)
         \/ /\ job[w].data # << >> /\ PutIsAtomic /\ UNCHANGED objects
            /\ StoredRows' = [StoredRows EXCEPT ![job[w].dir] = job[w].data],
         n.gives = << >>,
         n.pc = "idle", n.result \in {"error", "crash"}, n.append = FALSE, n.todo = {}, n.data = << >>
  PROVE  Abstract!Stop(w)
<1>1. Results[w] = "busy" /\ Results' \in {[Results EXCEPT ![w] = r] : r \in {"error", "crash"}}
  BY JobBecomes DEF ResultOf
<1>2. Plans' = [Plans EXCEPT ![w] = Abstract!NoPlan]
  BY JobBecomes DEF PlanOf, Abstract!NoPlan
<1>3. /\ Todos' = [Todos EXCEPT ![w] = {}] /\ Appends' = [Appends EXCEPT ![w] = FALSE]
      /\ Gives' = [Gives EXCEPT ![w] = << >>]
  BY JobBecomes
<1>4. \/ UNCHANGED <<StoredRows, objects>>
      \/ Plans[w] # Abstract!NoPlan /\ (Abstract!WriteContent(w) \/ Abstract!WriteObject(w))
      \/ /\ Plans[w] # Abstract!NoPlan /\ ~Abstract!InPlace(w)
         /\ Abstract!ObjectIsStored(Plans[w].rows)
         /\ StoredRows' = [StoredRows EXCEPT ![Plans[w].dir] = Plans[w].rows]
         /\ UNCHANGED objects
  <2>1. CASE Halfway(w)
    BY <2>1 DEF Halfway
  <2>2. CASE /\ job[w].data # << >> /\ PutIsAtomic /\ UNCHANGED objects
             /\ StoredRows' = [StoredRows EXCEPT ![job[w].dir] = job[w].data]
    <3>1. ~Abstract!InPlace(w) /\ Abstract!ObjectIsStored(Plans[w].rows)
      BY <2>2 DEF Abstract!InPlace, Abstract!PutIsAtomic, PutIsAtomic,
                  Abstract!ObjectIsStored, Abstract!SharesObjects
    <3> QED BY <2>2, <3>1, Planned
  <2> QED BY <2>1, <2>2
<1> QED BY <1>1, <1>2, <1>3, <1>4 DEF Abstract!Stop

---------------------------------------------------------------------------
(* Steps.                                                                  *)

\* A step of AtomicTable, or none.
AbstractStep == (\E v \in Writers : \/ Abstract!Begin(v) \/ Abstract!Plan(v) \/ Abstract!Overwrite(v)
                                    \/ Abstract!Store(v) \/ Abstract!Succeed(v) \/ Abstract!Stop(v))
                \/ UNCHANGED Abstract!vars

\* What the invariant says of one writer.
LEMMA Here ==
  ASSUME IInv, NEW w \in Writers
  PROVE  /\ Typed /\ NamesInv /\ JobInv(job[w]) /\ StoreInv(w) /\ (Blamed(job[w]) => Cause)
         /\ job[w] \in Job /\ job[w].gives \in Gifts
         /\ job[w].todo \subseteq DOMAIN job[w].gives /\ job[w].todo \subseteq table.dirs
         /\ job[w].data \in Rows /\ Len(job[w].data) \in Nat
         /\ job[w].upto \in 0 .. Len(job[w].data) /\ job[w].sent \in 0 .. job[w].upto
         /\ job[w].file \in 0 .. Len(files)
         /\ job[w].append \in BOOLEAN /\ job[w].faulted \in BOOLEAN
<1>1. job[w] \in Job
  BY DEF IInv, Typed
<1>2. job[w].append \in BOOLEAN /\ job[w].faulted \in BOOLEAN
  BY <1>1 DEF Job
<1>3. job[w].gives \in Gifts /\ job[w].todo \subseteq table.dirs
  BY <1>1 DEF Job
<1> QED BY <1>1, <1>2, <1>3 DEF IInv, Typed, TypeOK

\* What a statement gives is rows for partitions of the table.
LEMMA GiftsTyped ==
  ASSUME NEW g \in Gifts
  PROVE  DOMAIN g \subseteq table.dirs /\ \A d \in DOMAIN g : g[d] \in Values
BY DEF Gifts

\* The invariant holds again when it holds of the job that changed.
LEMMA Reduce ==
  ASSUME OneWriter, IInv, NEW w \in Writers, NEW n, Becomes(w, n), table' = table,
         count' \in 0 .. table.statements,
         names' \in [Paths -> 0 .. Len(files')], files' \in Seq(Stored0), ObjectsTyped',
         n.todo \subseteq DOMAIN n.gives, n.data \in Rows, n.upto \in 0 .. Len(n.data),
         n.sent \in 0 .. n.upto, n.file \in 0 .. Len(files'),
         NamesInv', JobInv(n), StoreInv(w)', Blamed(n) => Cause'
  PROVE  IInv'
<1>1. (\A v \in Writers : v = w) /\ job'[w] = n /\ n \in Job
  BY JobBecomes DEF IInv, Becomes
<1>2. Paths' = Paths /\ Job' = Job
  BY DEF Paths, Job, Gifts
<1>3. job' \in [Writers -> Job]
  BY <1>1 DEF IInv, Typed, Becomes
<1>4. /\ n.pc \in {"idle", "pick", "open", "encode", "create", "object", "fill", "rename", "remove"}
      /\ n.gives \in Gifts /\ n.dir \in table.dirs \cup {Root}
      /\ n.result \in {"idle", "ok", "error", "crash"}
  BY <1>1 DEF Job
<1>5. Typed'
  <2>1. table \in Tables
    BY DEF IInv, Typed, TypeOK
  <2>2. \A v \in Writers : job'[v] = n
    BY <1>1
  <2>3. /\ files' \in Seq(Rows \cup {Torn}) /\ DOMAIN objects' \subseteq Rows
        /\ \A h \in DOMAIN objects' : objects'[h] \in Rows
    BY DEF Stored0, ObjectsTyped
  <2>4. DOMAIN n.gives \subseteq table.dirs /\ \A d \in DOMAIN n.gives : n.gives[d] \in Values
    BY <1>4, GiftsTyped
  <2> QED BY <1>2, <1>3, <1>4, <2>1, <2>2, <2>3, <2>4 DEF Typed, TypeOK
<1>6. \A v \in Writers : JobInv(job[v])' /\ StoreInv(v)' /\ (Blamed(job[v])' => Cause')
  <2> SUFFICES ASSUME NEW v \in Writers
               PROVE  JobInv(job[v])' /\ StoreInv(v)' /\ (Blamed(job[v])' => Cause')
    OBVIOUS
  <2>1. v = w /\ job'[v] = n
    BY <1>1
  <2>2. JobInv(job[v])'
    BY <2>1 DEF JobInv
  <2>3. Blamed(job[v])' => Cause'
    BY <2>1 DEF Blamed
  <2> QED BY <2>1, <2>2, <2>3
<1> QED BY <1>5, <1>6 DEF IInv

\* A writer without a statement.
LEMMA IdleJob == Idle \in Job
<1>1. << >> \in Gifts
  <2>1. << >> \in [{} -> Values] /\ {} \in SUBSET table.dirs
    OBVIOUS
  <2> QED BY <2>1 DEF Gifts
<1>2. << >> \in Rows /\ 0 \in Nat /\ {} \in SUBSET table.dirs /\ Root \in table.dirs \cup {Root}
  BY DEF Rows
<1> QED BY <1>1, <1>2 DEF Job, Idle

Ended(r, f) == [Idle EXCEPT !.result = r, !.faulted = f]

\* An idle job that keeps how its statement ended.
IsEnded(n, r, f) ==
    /\ n \in Job /\ n.pc = "idle" /\ n.data = << >> /\ n.todo = {} /\ n.append = FALSE
    /\ n.result = r /\ n.faulted = f /\ n.gives = << >> /\ n.upto = 0 /\ n.sent = 0 /\ n.file = 0

\* The job of a writer whose statement has ended.
LEMMA EndJob ==
  ASSUME NEW r \in {"ok", "error", "crash"}, NEW f \in BOOLEAN
  PROVE  IsEnded(Ended(r, f), r, f)
<1>2. Idle \in Job
  BY IdleJob
<1> DEFINE n == Ended(r, f)
<1>3. n \in Job
  BY <1>2 DEF Job, Ended
<1>4. /\ n.pc = Idle.pc /\ n.data = Idle.data /\ n.todo = Idle.todo /\ n.append = Idle.append
      /\ n.gives = Idle.gives /\ n.upto = Idle.upto /\ n.sent = Idle.sent /\ n.file = Idle.file
      /\ n.result = r /\ n.faulted = f
  BY <1>2 DEF Job, Ended
<1>5. /\ Idle.pc = "idle" /\ Idle.data = << >> /\ Idle.todo = {} /\ Idle.append = FALSE
      /\ Idle.gives = << >> /\ Idle.upto = 0 /\ Idle.sent = 0 /\ Idle.file = 0
  BY Zenon DEF Idle
<1> QED BY <1>3, <1>4, <1>5 DEF IsEnded

\* A statement ends, and its job is idle again.
LEMMA EndStep ==
  ASSUME OneWriter, IInv, NEW w \in Writers, NEW r \in {"ok", "error", "crash"}, NEW f \in BOOLEAN,
         End(w, r, f), UNCHANGED <<table, count>>, job[w].pc # "idle",
         names' \in [Paths -> 0 .. Len(files')], files' \in Seq(Stored0), NamesInv', ObjectsTyped',
         r = "error" /\ ~f => Cause',
         \/ Halfway(w)
         \/ /\ job[w].data # << >> /\ PutIsAtomic /\ UNCHANGED objects
            /\ StoredRows' = [StoredRows EXCEPT ![job[w].dir] = job[w].data],
         r = "ok" => UNCHANGED <<StoredRows, objects>> /\ job[w].todo = {} /\ job[w].data = << >>
  PROVE  IInv' /\ AbstractStep
<1> DEFINE n == Ended(r, f)
<1>2. job' = [job EXCEPT ![w] = n]
  BY DEF End, Ended
<1>1. /\ n \in Job /\ n.pc = "idle" /\ n.data = << >> /\ n.todo = {} /\ n.append = FALSE
      /\ n.result = r /\ n.faulted = f /\ n.gives = << >> /\ n.upto = 0 /\ n.sent = 0 /\ n.file = 0
  <2>1. IsEnded(n, r, f)
    BY EndJob
  <2> HIDE DEF n
  <2> QED BY <2>1 DEF IsEnded
<1> HIDE DEF n
<1>3. Becomes(w, n) /\ Typed
  BY <1>1, <1>2, Here DEF Becomes
<1>4. job'[w] = n
  BY <1>3, JobBecomes
<1>5. /\ n.todo \subseteq DOMAIN n.gives /\ n.data \in Rows /\ n.upto \in 0 .. Len(n.data)
      /\ n.sent \in 0 .. n.upto /\ n.file \in 0 .. Len(files')
  <2>1. Len(files') \in Nat
    BY DEF Stored0
  <2>2. << >> \in Rows /\ Len(<< >>) = 0
    BY DEF Rows
  <2> QED BY <1>1, <2>1, <2>2
<1>6. JobInv(n)
  BY <1>1 DEF JobInv
<1>7. StoreInv(w)'
  BY <1>1, <1>4 DEF StoreInv
<1>8. Blamed(n) => Cause'
  BY <1>1 DEF Blamed
<1>9. files' \in Seq(Stored0) /\ count' \in 0 .. table.statements
  BY <1>3 DEF Stored0, Typed, TypeOK
<1>10. IInv'
  BY <1>3, <1>5, <1>6, <1>7, <1>8, <1>9, Reduce
<1>11. AbstractStep
  <2>1. CASE r = "ok"
    BY <1>1, <1>3, <2>1, SucceedStep DEF AbstractStep
  <2>2. CASE r # "ok"
    <3>1. Abstract!Stop(w)
      BY <1>1, <1>3, <2>2, StopStep
    <3> QED BY <3>1 DEF AbstractStep
  <2> QED BY <2>1, <2>2
<1> QED BY <1>10, <1>11

\* The names and files stay as they are.
LEMMA FilesStay ==
  ASSUME IInv, UNCHANGED <<table, names, files>>
  PROVE  /\ names' \in [Paths -> 0 .. Len(files')] /\ files' \in Seq(Stored0) /\ NamesInv'
         /\ Len(files) <= Len(files') /\ StoredRows' = StoredRows /\ Cause' = Cause
<1>1. Paths' = Paths /\ Misplaced' = Misplaced
  BY DEF Paths, Misplaced
<1>2. /\ names' \in [Paths -> 0 .. Len(files')] /\ files' \in Seq(Stored0)
      /\ Len(files) <= Len(files')
  BY TableTyped DEF IInv
<1>3. NamesInv'
  BY <1>1 DEF IInv, NamesInv
<1>4. StoredRows' = StoredRows
  BY DEF StoredRows, Content
<1>5. Cause' = Cause
  BY <1>1 DEF Cause, MissingIsNotExist, RenameReplaces, Content
<1> QED BY <1>2, <1>3, <1>4, <1>5

\* And so do the objects.
LEMMA NamesStay ==
  ASSUME IInv, UNCHANGED <<table, names, files, objects>>
  PROVE  /\ names' \in [Paths -> 0 .. Len(files')] /\ files' \in Seq(Stored0) /\ NamesInv'
         /\ StoredRows' = StoredRows /\ Cause' = Cause /\ ObjectsTyped'
<1>1. ObjectsTyped'
  BY TableTyped DEF IInv, ObjectsTyped
<1> QED BY <1>1, FilesStay

\* Finish and PrepareFails: the statement ends, and no file has changed.
LEMMA FinishStep ==
  ASSUME OneWriter, IInv, NEW w \in Writers, Finish(w) \/ PrepareFails(w)
  PROVE  IInv' /\ AbstractStep
<1>1. /\ job[w].pc \in {"pick", "open"} /\ UNCHANGED <<table, names, files, objects, count>>
      /\ job[w].faulted \in BOOLEAN /\ job[w].data = << >>
  BY Here DEF Finish, PrepareFails, JobInv
<1>2. CASE Finish(w)
  BY <1>1, <1>2, NamesStay, EndStep DEF Finish, Halfway
<1>3. CASE PrepareFails(w)
  BY <1>1, <1>3, NamesStay, EndStep DEF PrepareFails, Halfway
<1> QED BY <1>2, <1>3

---------------------------------------------------------------------------
(* Steps that leave the files alone.                                       *)

\* The invariant is kept when it is kept for the new job.
LEMMA QuietStep ==
  ASSUME OneWriter, IInv, NEW w \in Writers, NEW n, Becomes(w, n),
         UNCHANGED <<table, names, files, objects, count>>,
         n.todo \subseteq DOMAIN n.gives, n.data \in Rows, n.upto \in 0 .. Len(n.data),
         n.sent \in 0 .. n.upto, n.file \in 0 .. Len(files),
         JobInv(n), StoreInv(w)', Blamed(n) => Cause
  PROVE  IInv' /\ StoredRows' = StoredRows
<1>1. /\ names' \in [Paths -> 0 .. Len(files')] /\ files' \in Seq(Stored0) /\ NamesInv'
      /\ StoredRows' = StoredRows /\ Cause' = Cause /\ ObjectsTyped'
  BY NamesStay
<1>2. count' \in 0 .. table.statements
  BY Here DEF Typed, TypeOK
<1>3. n.file \in 0 .. Len(files')
  OBVIOUS
<1> QED BY <1>1, <1>2, <1>3, Reduce

\* Nothing is claimed of a file that is not being written.
LEMMA NothingStored ==
  ASSUME NEW w \in Writers, NEW n, job'[w] = n, table' = table, n.pc \notin {"object", "fill", "rename"},
         n.pc = "create" => ~(Misplaced /\ n.append)
  PROVE  StoreInv(w)'
<1>1. Misplaced' = Misplaced
  BY DEF Misplaced
<1> QED BY <1>1 DEF StoreInv

\* PickPartition chooses what to read or to encode.
LEMMA PickStep ==
  ASSUME OneWriter, IInv, NEW w \in Writers, PickPartition(w)
  PROVE  IInv' /\ AbstractStep
<1>1. PICK d \in job[w].todo :
         job' = [job EXCEPT ![w].pc = IF job[w].append THEN "open" ELSE "encode", ![w].dir = d]
  BY DEF PickPartition
<1>2. job[w].pc = "pick" /\ UNCHANGED <<table, names, files, objects, count>>
  BY DEF PickPartition
<1>h. /\ Typed /\ job[w] \in Job /\ job \in [Writers -> Job] /\ JobInv(job[w])
      /\ job[w].todo \subseteq table.dirs /\ job[w].todo \subseteq DOMAIN job[w].gives
  BY Here DEF Typed
<1> DEFINE n == [job[w] EXCEPT !.pc = IF job[w].append THEN "open" ELSE "encode", !.dir = d]
<1>3. job' = [job EXCEPT ![w] = n]
  BY <1>1, <1>h
<1>4. n \in Job
  BY <1>h DEF Job
<1>5. /\ n.pc = IF job[w].append THEN "open" ELSE "encode"
      /\ n.dir = d /\ n.gives = job[w].gives /\ n.todo = job[w].todo
      /\ n.data = job[w].data /\ n.upto = job[w].upto /\ n.sent = job[w].sent
      /\ n.file = job[w].file /\ n.result = job[w].result
  BY <1>h DEF Job
<1>6. n.append = job[w].append /\ n.faulted = job[w].faulted
  BY <1>h, Zenon DEF Job
<1> HIDE DEF n
<1>7. Becomes(w, n) /\ job'[w] = n
  BY <1>3, <1>4, <1>h DEF Becomes
<1>8. JobInv(n) /\ n.result = "idle" /\ n.pc \in {"open", "encode"} /\ n.data = << >>
  BY <1>2, <1>5, <1>6, <1>h DEF JobInv
<1>9. StoreInv(w)'
  BY <1>2, <1>7, <1>8, NothingStored
<1>10. ~Blamed(n)
  BY <1>8 DEF Blamed
<1>11. IInv' /\ StoredRows' = StoredRows
  BY <1>2, <1>5, <1>7, <1>8, <1>9, <1>10, <1>h, QuietStep, Here
<1>12. PlanOf(n) = PlanOf(job[w]) /\ ResultOf(n) = ResultOf(job[w])
  BY <1>2, <1>5, <1>8, <1>h DEF PlanOf, ResultOf, JobInv
<1>13. SamePlan(w, n)
  BY <1>5, <1>6, <1>12 DEF SamePlan
<1>14. UNCHANGED Abstract!vars
  BY <1>2, <1>7, <1>11, <1>13, <1>h, NoChange
<1> QED BY <1>11, <1>14 DEF AbstractStep

\* Begin keeps the invariant.
LEMMA BeginsStep ==
  ASSUME OneWriter, IInv, NEW w \in Writers, Begin(w)
  PROVE  IInv' /\ AbstractStep
<1>1. PICK append \in table.modes, dirs \in SUBSET table.dirs \ {{}} :
         \E gives \in [dirs -> Values] :
            job' = [job EXCEPT ![w] = [Idle EXCEPT !.pc = "pick", !.gives = gives,
                                                   !.append = append, !.todo = dirs]]
  BY DEF Begin
<1>g. PICK gives \in [dirs -> Values] :
         job' = [job EXCEPT ![w] = [Idle EXCEPT !.pc = "pick", !.gives = gives,
                                                !.append = append, !.todo = dirs]]
  BY <1>1
<1>2. /\ job[w].pc = "idle" /\ count < table.statements /\ count' = count + 1
      /\ UNCHANGED <<table, names, files, objects>>
  BY DEF Begin
<1>h. /\ Typed /\ job[w] \in Job /\ JobInv(job[w]) /\ count \in Nat /\ append \in BOOLEAN
      /\ table.statements \in Nat
  BY Here, TableTyped
<1> DEFINE n == [Idle EXCEPT !.pc = "pick", !.gives = gives, !.append = append, !.todo = dirs]
<1>3. job' = [job EXCEPT ![w] = n]
  BY <1>g
<1>4. Idle \in Job
  BY IdleJob
<1>c. gives \in Gifts /\ dirs \in SUBSET table.dirs
  BY DEF Gifts
<1>5. n \in Job
  BY <1>4, <1>c, <1>h DEF Job
<1>6. /\ n.pc = "pick" /\ n.gives = gives /\ n.todo = dirs
      /\ n.data = Idle.data /\ n.upto = Idle.upto /\ n.sent = Idle.sent
      /\ n.file = Idle.file /\ n.result = Idle.result
  BY <1>4 DEF Job
<1>7. n.append = append
  BY <1>4, Zenon DEF Job
<1>8. /\ Idle.data = << >> /\ Idle.upto = 0 /\ Idle.sent = 0 /\ Idle.file = 0
      /\ Idle.result = "idle"
  BY Zenon DEF Idle
<1> HIDE DEF n
<1>9. Becomes(w, n) /\ job'[w] = n
  BY <1>3, <1>5, JobBecomes, <1>h DEF Becomes
<1>10. JobInv(n)
  BY <1>6, <1>8 DEF JobInv
<1>11. StoreInv(w)'
  BY <1>2, <1>6, <1>9, NothingStored
<1>12. ~Blamed(n)
  BY <1>6, <1>8 DEF Blamed
<1>13. /\ names' \in [Paths -> 0 .. Len(files')] /\ NamesInv' /\ StoredRows' = StoredRows
       /\ files' \in Seq(Stored0) /\ ObjectsTyped' /\ count' \in 0 .. table.statements
  BY <1>2, <1>h, NamesStay
<1>14. /\ n.todo \subseteq DOMAIN n.gives /\ n.data \in Rows /\ n.upto \in 0 .. Len(n.data)
       /\ n.sent \in 0 .. n.upto /\ n.file \in 0 .. Len(files')
  <2>1. Len(files') \in Nat
    BY <1>2, <1>h, TableTyped
  <2>2. << >> \in Rows /\ Len(<< >>) = 0
    BY DEF Rows
  <2> QED BY <1>6, <1>8, <2>1, <2>2
<1>15. IInv'
  BY <1>2, <1>9, <1>10, <1>11, <1>12, <1>13, <1>14, Reduce
<1>16. job[w].data = << >> /\ job[w].result # "busy"
  BY <1>2, <1>h DEF JobInv, Job
<1>17. Abstract!Begin(w)
  BY <1>2, <1>6, <1>7, <1>8, <1>9, <1>13, <1>16, <1>h, BeginStep
<1> QED BY <1>15, <1>17 DEF AbstractStep

\* A file holds rows, or is a cut pointer; Missing is none of these.
LEMMA MissingIsNoFile ==
  ASSUME IInv, NEW p \in Paths
  PROVE  /\ Content(p) = Missing <=> names[p] = 0
         /\ Content(p) \in {Missing, Torn} \cup Rows
         /\ DataAt(p) = Missing <=> names[p] = 0
         /\ DataAt(p) = Torn <=> Content(p) = Torn
         /\ DataAt(p) \in {Missing, Unfetched, Torn} \cup Rows
<1>1. names \in [Paths -> 0 .. Len(files)] /\ files \in Seq(Stored0) /\ Len(files) \in Nat
  BY TableTyped DEF IInv
<1> HIDE DEF Stored0
<1>2. /\ Content(p) = Missing <=> names[p] = 0
      /\ Content(p) \in {Missing, Torn} \cup Rows
  <2>1. CASE names[p] = 0
    BY <2>1 DEF Content
  <2>2. CASE names[p] # 0
    <3>1. names[p] \in 1 .. Len(files)
      BY <1>1, <2>2
    <3>2. Content(p) \in Stored0
      BY <1>1, <2>2, <3>1 DEF Content
    <3> QED BY <2>2, <3>2, NoMarks DEF Stored0
  <2> QED BY <2>1, <2>2
<1>3. \A h \in DOMAIN objects : objects[h] \in Rows
  BY TableTyped DEF IInv, ObjectsTyped
<1>4. DataAt(p) = IF table.backend # "gitlfs" \/ Content(p) \in {Missing, Torn, << >>}
                  THEN Content(p)
                  ELSE IF Content(p) \in DOMAIN objects THEN objects[Content(p)] ELSE Unfetched
  BY DEF DataAt
<1> QED BY <1>2, <1>3, <1>4, NoMarks, Zenon

\* AtomicTable reads what the statement reads.
LEMMA SameRead ==
  ASSUME NEW p
  PROVE  DataAt(p) = Abstract!Read(Content(p))
BY DEF DataAt, Abstract!Read, Abstract!SharesObjects, Abstract!Missing, Missing,
       Abstract!Torn, Torn, Abstract!Unfetched, Unfetched

\* And it makes the same of it.
LEMMA SameDecodings ==
  ASSUME NEW old
  PROVE  Decodings(old) = Abstract!Existing(old)
BY DEF Decodings, Abstract!Existing, Abstract!Missing, Missing, Abstract!Unfetched, Unfetched,
       Abstract!Torn, Torn, Abstract!Decoded, Abstract!Whole, Whole, Abstract!Damaged, Damaged

\* What INSERT INTO takes over is rows.
LEMMA DecodedRows ==
  ASSUME NEW old \in {Missing, Unfetched, Torn} \cup Rows, NEW rows \in Decodings(old)
  PROVE  rows \in Rows
<1>1. << >> \in Rows /\ <<Damaged>> \in Rows
  BY DEF Rows
<1> QED BY <1>1, Zenon DEF Decodings

\* The statement's rows for its partition.
LEMMA GivenRows ==
  ASSUME IInv, NEW w \in Writers, job[w].dir \in job[w].todo
  PROVE  Given(w) \in Rows /\ Len(Given(w)) = 2 /\ Given(w) = NewRows(job[w].gives[job[w].dir])
<1>1. job[w].gives[job[w].dir] \in Values
  BY Here, GiftsTyped
<1> QED BY <1>1 DEF Given, NewRows, Rows

\* FTP finds no data file of a partition where it looks for it.
LEMMA ReadsItsFile ==
  ASSUME IInv, NEW w \in Writers, job[w].pc = "open"
  PROVE  /\ Misplaced => DataAt(At(Out(w))) = Missing /\ ~MissingIsNotExist
         /\ ~Misplaced => /\ At(Out(w)) = <<job[w].dir, "out">> /\ At(Out(w)) \in Paths
                          /\ StoredRows[job[w].dir] = Content(At(Out(w)))
         /\ job[w].dir \in job[w].todo /\ job[w].dir \in table.dirs
<1>1. Typed /\ NamesInv /\ job[w].dir \in job[w].todo /\ job[w].dir \in table.dirs
  BY Here DEF JobInv
<1>2. ASSUME Misplaced
      PROVE  DataAt(At(Out(w))) = Missing /\ ~MissingIsNotExist
  <2>1. table.backend = "ftp"
    BY <1>2 DEF Misplaced
  <2>2. Out(w)[2] = "out"
    BY DEF Out
  <2>3. At(Out(w)) = <<Root, "out">> /\ At(Out(w)) \in Paths
    BY <1>1, <2>1, <2>2, PathTyped DEF At
  <2>4. <<Root, "out">> # <<Root, "tmp">>
    OBVIOUS
  <2>5. names[At(Out(w))] = 0
    BY <1>1, <1>2, <2>3, <2>4 DEF NamesInv
  <2> QED BY <2>1, <2>3, <2>5, MissingIsNoFile DEF MissingIsNotExist
<1>3. ASSUME ~Misplaced
      PROVE  /\ At(Out(w)) = <<job[w].dir, "out">> /\ At(Out(w)) \in Paths
             /\ StoredRows[job[w].dir] = Content(At(Out(w)))
  <2>1. At(Out(w)) = <<job[w].dir, "out">> /\ At(Out(w)) \in Paths
    BY <1>1, <1>3, PlacedRight, PathTyped
  <2> QED BY <1>1, <2>1 DEF StoredRows
<1> QED BY <1>1, <1>2, <1>3

\* ReadExisting plans the rows that were there and the new ones, or ends.
LEMMA ReadStep ==
  ASSUME OneWriter, IInv, NEW w \in Writers, ReadExisting(w)
  PROVE  IInv' /\ AbstractStep
<1> DEFINE old == DataAt(At(Out(w)))
<1>1. job[w].pc = "open" /\ UNCHANGED <<table, names, files, objects, count>>
  BY DEF ReadExisting
<1>h. /\ Typed /\ NamesInv /\ job[w] \in Job /\ JobInv(job[w]) /\ job[w].faulted \in BOOLEAN
      /\ job[w].append \in BOOLEAN /\ job[w].todo \subseteq DOMAIN job[w].gives
      /\ job \in [Writers -> Job] /\ job[w].data \in Rows /\ count \in Nat
  BY Here, TableTyped DEF Typed
<1> HIDE DEF old
<1>2. CASE Unreadable(old) /\ End(w, "error", job[w].faulted)
  <2>1. Cause
    <3>1. ASSUME ~Misplaced
          PROVE  /\ job[w].dir \in table.dirs /\ At(Out(w)) = <<job[w].dir, "out">>
                 /\ At(Out(w)) \in Paths
      BY <1>1, <3>1, ReadsItsFile
    <3>2. ASSUME ~Misplaced, old = Missing, ~MissingIsNotExist
          PROVE  Cause
      <4>1. names[<<job[w].dir, "out">>] = 0
        BY <3>1, <3>2, MissingIsNoFile DEF old
      <4> QED BY <3>1, <3>2, <4>1 DEF Cause
    <3>3. ASSUME ~Misplaced, old = Torn
          PROVE  Cause
      <4>1. Content(<<job[w].dir, "out">>) = Torn
        BY <3>1, <3>3, MissingIsNoFile DEF old
      <4> QED BY <3>1, <3>3, <4>1 DEF Cause
    <3> QED BY <1>2, <3>2, <3>3 DEF Cause, Unreadable
  <2>2. /\ names' \in [Paths -> 0 .. Len(files')] /\ files' \in Seq(Stored0) /\ NamesInv'
        /\ StoredRows' = StoredRows /\ Cause' /\ ObjectsTyped' /\ Halfway(w)
    BY <1>1, <2>1, NamesStay DEF Halfway
  <2>3. UNCHANGED <<table, count>> /\ job[w].pc # "idle"
    BY <1>1
  <2> QED BY <1>h, <1>2, <2>2, <2>3, EndStep
<1>3. CASE /\ old # Missing \/ MissingIsNotExist
           /\ \E rows \in Decodings(old) :
                job' = [job EXCEPT ![w].pc = "create", ![w].data = rows \o Given(w),
                                   ![w].upto = Len(rows \o Given(w))]
  <2>1. PICK rows \in Decodings(old) :
          job' = [job EXCEPT ![w].pc = "create", ![w].data = rows \o Given(w),
                             ![w].upto = Len(rows \o Given(w))]
    BY <1>3
  <2>2. ~Misplaced /\ job[w].dir \in job[w].todo
    BY <1>1, <1>3, ReadsItsFile DEF old
  <2>3. job[w].data = << >> /\ job[w].append /\ job[w].result = "idle"
    BY <1>1, <1>h DEF JobInv
  <2>4. rows \in Rows /\ rows \in Abstract!Existing(Abstract!Read(StoredRows[job[w].dir]))
    <3>1. /\ old \in {Missing, Unfetched, Torn} \cup Rows
          /\ StoredRows[job[w].dir] = Content(At(Out(w)))
      BY <1>1, <2>2, ReadsItsFile, MissingIsNoFile DEF old
    <3>2. old = Abstract!Read(StoredRows[job[w].dir])
      BY <3>1, SameRead DEF old
    <3>3. rows \in Rows
      BY <2>1, <3>1, DecodedRows
    <3>4. rows \in Abstract!Existing(old)
      BY <2>1, SameDecodings
    <3> QED BY <3>2, <3>3, <3>4
  <2> DEFINE merged == rows \o Given(w)
             n == [job[w] EXCEPT !.pc = "create", !.data = merged, !.upto = Len(merged)]
  <2>5. merged \in Rows /\ merged # << >> /\ Len(merged) \in Nat
    <3>1. Given(w) \in Rows /\ Len(Given(w)) = 2
      BY <2>2, GivenRows
    <3>2. \A s, t \in Rows : s \o t \in Rows /\ Len(s \o t) = Len(s) + Len(t)
      BY ConcatProperties DEF Rows
    <3>3. merged \in Rows /\ Len(merged) = Len(rows) + 2
      BY <2>4, <3>1, <3>2
    <3>4. Len(rows) \in Nat
      BY <2>4 DEF Rows
    <3> HIDE DEF merged
    <3> QED BY <3>3, <3>4
  <2> HIDE DEF merged
  <2>7. job' = [job EXCEPT ![w] = n]
    BY <1>h, <2>1 DEF merged
  <2>8. n \in Job
    BY <1>h, <2>5 DEF Job
  <2>9. /\ n.pc = "create" /\ n.dir = job[w].dir /\ n.gives = job[w].gives /\ n.todo = job[w].todo
        /\ n.data = merged /\ n.upto = Len(merged) /\ n.sent = job[w].sent
        /\ n.file = job[w].file /\ n.result = job[w].result
    BY <1>h DEF Job
  <2>10. n.append = job[w].append /\ n.faulted = job[w].faulted
    BY <1>h, Zenon DEF Job
  <2> HIDE DEF n
  <2>11. Becomes(w, n) /\ job'[w] = n
    BY <1>h, <2>7, <2>8 DEF Becomes
  <2>12. n.sent = 0
    <3>1. job[w].upto \in 0 .. Len(job[w].data) /\ job[w].sent \in 0 .. job[w].upto
      BY Here
    <3>2. Len(job[w].data) = 0
      BY <2>3
    <3> QED BY <2>9, <3>1, <3>2
  <2>13. JobInv(n)
    BY <2>2, <2>3, <2>5, <2>9, <2>10, <2>12 DEF JobInv
  <2>14. StoreInv(w)'
    BY <1>1, <2>2, <2>9, <2>11, NothingStored
  <2>15. ~Blamed(n)
    BY <2>3, <2>9 DEF Blamed
  <2>16. /\ n.upto \in 0 .. Len(n.data) /\ n.sent \in 0 .. n.upto /\ n.file \in 0 .. Len(files)
         /\ n.todo \subseteq DOMAIN n.gives
    BY <1>h, <2>5, <2>9, <2>12, Here
  <2>17. IInv' /\ StoredRows' = StoredRows
    BY <1>1, <2>5, <2>9, <2>11, <2>13, <2>14, <2>15, <2>16, QuietStep
  <2>18. Abstract!Plan(w)
    <3>1. ResultOf(n) = ResultOf(job[w])
      BY <1>1, <2>9 DEF ResultOf
    <3>2. \E x \in IF job[w].append THEN Abstract!Existing(Abstract!Read(StoredRows[n.dir]))
                   ELSE {<< >>} :
             n.data = x \o NewRows(job[w].gives[n.dir])
      <4>1. n.data = rows \o NewRows(job[w].gives[n.dir])
        BY <2>2, <2>9, GivenRows DEF merged
      <4>2. n.dir = job[w].dir
        BY <2>9
      <4> QED BY <2>3, <2>4, <4>1, <4>2, Zenon
    <3> QED BY <1>1, <1>h, <2>2, <2>3, <2>5, <2>9, <2>10, <2>11, <2>17, <3>1, <3>2, PlanStep
  <2> QED BY <2>17, <2>18 DEF AbstractStep
<1> QED BY <1>2, <1>3, Zenon DEF ReadExisting, old

\* EncodeRows plans the new rows.
LEMMA EncodeStep ==
  ASSUME OneWriter, IInv, NEW w \in Writers, EncodeRows(w)
  PROVE  IInv' /\ AbstractStep
<1>1. job[w].pc = "encode" /\ UNCHANGED <<table, names, files, objects, count>>
  BY DEF EncodeRows
<1>h. /\ Typed /\ job[w] \in Job /\ JobInv(job[w]) /\ job[w].faulted \in BOOLEAN
      /\ job[w].append \in BOOLEAN /\ job[w].todo \subseteq DOMAIN job[w].gives
      /\ job \in [Writers -> Job] /\ count \in Nat
  BY Here, TableTyped DEF Typed
<1>2. /\ job[w].data = << >> /\ ~job[w].append /\ job[w].result = "idle"
      /\ job[w].dir \in job[w].todo
  BY <1>1, <1>h DEF JobInv
<1> DEFINE rows == Given(w)
<1>3. rows \in Rows /\ Len(rows) = 2 /\ rows # << >>
  <2>1. rows \in Rows /\ Len(rows) = 2
    BY <1>2, GivenRows
  <2> HIDE DEF rows
  <2> QED BY <2>1
<1> HIDE DEF rows
<1>4. PICK u \in 0 .. Len(rows) :
         job' = [job EXCEPT ![w].pc = "create", ![w].data = rows, ![w].upto = u,
                            ![w].faulted = @ \/ u < Len(rows)]
  BY Zenon DEF EncodeRows, rows
<1>u. u \in Nat /\ u \in 0 .. 2
  BY <1>3, <1>4
<1> DEFINE b == job[w].faulted \/ u < Len(rows)
<1>b. b \in BOOLEAN /\ (u < 2 => b)
  BY <1>h, <1>3
<1>5. job' = [job EXCEPT ![w].pc = "create", ![w].data = rows, ![w].upto = u, ![w].faulted = b]
  BY <1>4, <1>h
<1> HIDE DEF b
<1> DEFINE n == [job[w] EXCEPT !.pc = "create", !.data = rows, !.upto = u, !.faulted = b]
<1>6. job' = [job EXCEPT ![w] = n]
  BY <1>5, <1>h
<1>7. n \in Job
  BY <1>b, <1>3, <1>u, <1>h DEF Job
<1>8. /\ n.pc = "create" /\ n.dir = job[w].dir /\ n.gives = job[w].gives /\ n.todo = job[w].todo
      /\ n.data = rows /\ n.upto = u /\ n.sent = job[w].sent
      /\ n.file = job[w].file /\ n.result = job[w].result
  BY <1>h DEF Job
<1>9. n.append = job[w].append /\ n.faulted = b
  BY <1>h, Zenon DEF Job
<1> HIDE DEF n
<1>10. Becomes(w, n) /\ job'[w] = n
  BY <1>h, <1>6, <1>7 DEF Becomes
<1>11. n.sent = 0
  <2>1. job[w].upto \in 0 .. Len(job[w].data) /\ job[w].sent \in 0 .. job[w].upto
    BY Here
  <2>2. Len(job[w].data) = 0
    BY <1>2
  <2> QED BY <1>8, <2>1, <2>2
<1>12. JobInv(n)
  BY <1>2, <1>3, <1>8, <1>9, <1>11, <1>b DEF JobInv
<1>13. StoreInv(w)'
  BY <1>1, <1>2, <1>8, <1>9, <1>10, NothingStored
<1>14. ~Blamed(n)
  BY <1>2, <1>8 DEF Blamed
<1>15. n.upto \in 0 .. Len(n.data) /\ n.sent \in 0 .. n.upto /\ n.file \in 0 .. Len(files)
       /\ n.todo \subseteq DOMAIN n.gives
  <2>1. job[w].file \in 0 .. Len(files)
    BY Here
  <2>2. n.upto = u /\ Len(n.data) = 2
    BY <1>3, <1>8
  <2>3. n.sent = 0 /\ n.file \in 0 .. Len(files)
    BY <1>8, <1>11, <2>1
  <2> QED BY <1>h, <1>8, <1>u, <2>2, <2>3
<1>16. IInv' /\ StoredRows' = StoredRows
  BY <1>1, <1>3, <1>8, <1>10, <1>12, <1>14, <1>13, <1>15, QuietStep
<1>17. Abstract!Plan(w)
  <2>1. ResultOf(n) = ResultOf(job[w])
    BY <1>1, <1>8 DEF ResultOf
  <2>2. \E x \in IF job[w].append THEN Abstract!Existing(Abstract!Read(StoredRows[n.dir]))
                 ELSE {<< >>} :
           n.data = x \o NewRows(job[w].gives[n.dir])
    <3>1. NewRows(job[w].gives[n.dir]) = rows
      BY <1>2, <1>8, GivenRows DEF rows
    <3>2. << >> \o rows = rows
      BY <1>3, ConcatEmptySeq DEF Rows
    <3> QED BY <1>2, <1>8, <3>1, <3>2
  <2> QED BY <1>1, <1>h, <1>2, <1>3, <1>8, <1>9, <1>10, <1>16, <2>1, <2>2, PlanStep
<1> QED BY <1>16, <1>17 DEF AbstractStep

---------------------------------------------------------------------------
(* Storing the rows.                                                       *)

Storing(w) == job[w].pc \in {"create", "object", "fill"}

\* Only the file that is being written is not at its right place.
LEMMA TargetStored ==
  ASSUME IInv, NEW w \in Writers, Storing(w), table' = table,
         NEW rows, Puts(Target(w), rows)
  PROVE  StoredRows' = IF job[w].append THEN [StoredRows EXCEPT ![job[w].dir] = rows] ELSE StoredRows
<1>1. /\ Typed /\ job[w].append \in BOOLEAN /\ job[w].dir \in job[w].todo /\ job[w].dir \in table.dirs
      /\ (Misplaced /\ job[w].append => FALSE)
  BY Here DEF Storing, JobInv, StoreInv, Misplaced
<1>2. Target(w) \in Paths
  BY <1>1, PathTyped
<1>3. CASE job[w].append
  <2>1. Target(w) = <<job[w].dir, "out">>
    BY <1>1, <1>3, PlacedRight, PathTyped
  <2> QED BY <1>1, <1>2, <1>3, <2>1, PutsStored
<1>4. CASE ~job[w].append
  <2>1. Target(w) = <<Root, "tmp">> \/ Target(w) = <<job[w].dir, "tmp">>
    BY <1>1, <1>4, PathTyped
  <2>2. \A d \in table.dirs : Target(w) # <<d, "out">>
    BY <2>1
  <2> QED BY <1>2, <1>4, <2>2, PutsStored
<1> QED BY <1>1, <1>3, <1>4

\* Over FTP a partitioned table has only a temporary file to write.
LEMMA TargetPlace ==
  ASSUME IInv, NEW w \in Writers, Storing(w)
  PROVE  Misplaced => Target(w) = <<Root, "tmp">>
<1>1. Typed /\ job[w].append \in BOOLEAN /\ (Misplaced /\ job[w].append => FALSE)
  BY Here DEF Storing, StoreInv, Misplaced
<1> QED BY <1>1, PathTyped DEF Misplaced

\* Storing the rows fails.
LEMMA StoreFailsStep ==
  ASSUME OneWriter, IInv, NEW w \in Writers, Storing(w), StoreFails(w), UNCHANGED <<table, count>>,
         names' \in [Paths -> 0 .. Len(files')], files' \in Seq(Stored0), NamesInv',
         Len(files) <= Len(files'),
         ObjectsTyped',
         \/ Halfway(w)
         \/ /\ job[w].append /\ PutIsAtomic /\ UNCHANGED objects
            /\ StoredRows' = [StoredRows EXCEPT ![job[w].dir] = job[w].data]
  PROVE  IInv' /\ AbstractStep
<1>h. /\ Typed /\ job[w] \in Job /\ JobInv(job[w]) /\ job[w].faulted \in BOOLEAN
      /\ job[w].append \in BOOLEAN
      /\ job \in [Writers -> Job] /\ count \in Nat
  BY Here, TableTyped DEF Typed
<1>1. /\ job[w].data # << >> /\ job[w].dir \in job[w].todo /\ job[w].pc # "idle"
      /\ job[w].result = "idle"
  BY <1>h DEF JobInv, Storing
<1>2. CASE job[w].append \/ (~Buffered /\ job[w].pc = "create")
  <2>1. End(w, "error", TRUE)
    BY <1>2 DEF StoreFails
  <2> QED BY <1>1, <2>1, EndStep
<1>3. CASE ~(job[w].append \/ (~Buffered /\ job[w].pc = "create"))
  <2>1. job' = [job EXCEPT ![w].pc = "remove", ![w].faulted = TRUE]
    BY <1>3 DEF StoreFails
  <2> DEFINE n == [job[w] EXCEPT !.pc = "remove", !.faulted = TRUE]
  <2>2. job' = [job EXCEPT ![w] = n]
    BY <1>h, <2>1
  <2>3. n \in Job
    BY <1>h DEF Job
  <2>4. /\ n.pc = "remove" /\ n.dir = job[w].dir /\ n.gives = job[w].gives /\ n.todo = job[w].todo
        /\ n.data = job[w].data /\ n.upto = job[w].upto /\ n.sent = job[w].sent
        /\ n.file = job[w].file /\ n.result = job[w].result
    BY <1>h DEF Job
  <2>5. n.append = job[w].append /\ n.faulted = TRUE
    BY <1>h, Zenon DEF Job
  <2> HIDE DEF n
  <2>6. Becomes(w, n) /\ job'[w] = n
    BY <1>h, <2>2, <2>3 DEF Becomes
  <2>7. JobInv(n)
    BY <1>1, <1>3, <2>4, <2>5 DEF JobInv
  <2>9. StoreInv(w)'
    BY <2>4, <2>6, NothingStored
  <2>10. ~Blamed(n)
    BY <2>5 DEF Blamed
  <2>11. /\ n.todo \subseteq DOMAIN n.gives /\ n.data \in Rows /\ n.upto \in 0 .. Len(n.data)
         /\ n.sent \in 0 .. n.upto
    BY <2>4, Here
  <2>f. n.file \in 0 .. Len(files')
    <3>1. job[w].file \in 0 .. Len(files) /\ Len(files) \in Nat /\ Len(files') \in Nat
      BY Here, TableTyped
    <3> QED BY <2>4, <3>1
  <2>12. files' \in Seq(Stored0) /\ count' \in 0 .. table.statements
    BY <1>h DEF Typed, TypeOK
  <2>13. IInv'
    BY <2>6, <2>7, <2>9, <2>10, <2>11, <2>f, <2>12, Reduce
  <2>14. PlanOf(n) = PlanOf(job[w]) /\ ResultOf(n) = ResultOf(job[w])
    BY <1>1, <2>4 DEF PlanOf, ResultOf
  <2>15. SamePlan(w, n)
    BY <2>4, <2>5, <2>14 DEF SamePlan
  <2>16. Abstract!Overwrite(w) \/ UNCHANGED Abstract!vars
    BY <1>3, <1>h, <2>6, <2>15, OverwriteStep
  <2> QED BY <2>13, <2>16 DEF AbstractStep
<1> QED BY <1>2, <1>3

\* CreateFails: no file has changed.
LEMMA CreateFailsStep ==
  ASSUME OneWriter, IInv, NEW w \in Writers, CreateFails(w)
  PROVE  IInv' /\ AbstractStep
<1>1. Storing(w) /\ StoreFails(w) /\ UNCHANGED <<table, names, files, objects, count>>
  BY DEF CreateFails, Storing
<1>2. Len(files) \in Nat
  BY TableTyped DEF IInv
<1> QED BY <1>1, <1>2, NamesStay, StoreFailsStep DEF Halfway

\* The partition is done.
LEMMA StoredStep ==
  ASSUME OneWriter, IInv, NEW w \in Writers, Storing(w) \/ job[w].pc = "rename", Stored(w),
         UNCHANGED <<table, objects, count>>, Abstract!ObjectIsStored(job[w].data),
         names' \in [Paths -> 0 .. Len(files')], files' \in Seq(Stored0), NamesInv',
         NEW rows,
         \/ rows = job[w].data
         \/ Abstract!LastErrorIsLost /\ ~job[w].append /\ rows \in Abstract!CutShort(job[w].data),
         StoredRows' = [StoredRows EXCEPT ![job[w].dir] = rows]
  PROVE  IInv' /\ AbstractStep
<1>h. /\ Typed /\ job[w] \in Job /\ JobInv(job[w])
      /\ job \in [Writers -> Job] /\ count \in Nat /\ job[w].data \in Rows
  BY Here, TableTyped DEF Typed
<1>1. /\ job[w].data # << >> /\ job[w].pc # "idle"
      /\ job[w].result = "idle"
  BY <1>h DEF JobInv, Storing
<1>e. << >> \in Rows /\ Len(<< >>) = 0
  BY DEF Rows
<1> DEFINE rest == job[w].todo \ {job[w].dir}
           n == [job[w] EXCEPT !.pc = "pick", !.todo = rest, !.data = << >>,
                               !.upto = 0, !.file = 0, !.sent = 0]
<1>2. job' = [job EXCEPT ![w] = n]
  BY <1>h DEF Stored
<1>3. rest \in SUBSET table.dirs
  BY Here
<1> HIDE DEF rest
<1>4. n \in Job
  BY <1>e, <1>3, <1>h DEF Job
<1>5. /\ n.pc = "pick" /\ n.dir = job[w].dir /\ n.gives = job[w].gives /\ n.todo = rest
      /\ n.data = << >> /\ n.upto = 0 /\ n.sent = 0 /\ n.file = 0 /\ n.result = job[w].result
  BY <1>h DEF Job
<1>6. n.append = job[w].append
  BY <1>h, Zenon DEF Job
<1> HIDE DEF n
<1>7. Becomes(w, n) /\ job'[w] = n
  BY <1>h, <1>2, <1>4 DEF Becomes
<1>8. JobInv(n)
  BY <1>1, <1>5 DEF JobInv
<1>9. StoreInv(w)'
  BY <1>5, <1>7, NothingStored
<1>10. ~Blamed(n)
  BY <1>1, <1>5 DEF Blamed
<1>11. n.todo \subseteq DOMAIN n.gives
  BY <1>5, Here DEF rest
<1>12. /\ n.data \in Rows /\ n.upto \in 0 .. Len(n.data)
       /\ n.sent \in 0 .. n.upto /\ n.file \in 0 .. Len(files')
  <2>1. Len(files') \in Nat
    BY DEF Stored0
  <2> QED BY <1>e, <1>5, <2>1
<1>13. ObjectsTyped' /\ count' \in 0 .. table.statements
  BY <1>h, TableTyped DEF ObjectsTyped, Typed, TypeOK
<1>14. IInv'
  BY <1>7, <1>8, <1>9, <1>10, <1>11, <1>12, <1>13, Reduce
<1>15. ResultOf(n) = ResultOf(job[w])
  BY <1>1, <1>5 DEF ResultOf
<1>16. job[w].data \in Abstract!CutShort(job[w].data)
  <2>1. 0 \in 0 .. Len(job[w].data)
    BY <1>h
  <2> QED BY <1>h, <2>1, Cuts DEF Rows
<1>17. Abstract!Store(w)
  BY <1>1, <1>h, <1>5, <1>6, <1>7, <1>15, <1>16, StoreStep DEF rest
<1> QED BY <1>14, <1>17 DEF AbstractStep

\* All the rows, or all that are written, are in the target file.
LEMMA WrittenStep ==
  ASSUME OneWriter, IInv, NEW w \in Writers, Storing(w), Written(w), UNCHANGED <<table, objects, count>>,
         job[w].upto = Len(job[w].data) => Abstract!ObjectIsStored(job[w].data),
         names' \in [Paths -> 0 .. Len(files')], files' \in Seq(Stored0), NamesInv',
         Len(files) <= Len(files'), names'[Target(w)] # 0,
         NEW rows, files'[names'[Target(w)]] = rows,
         StoredRows' = IF job[w].append THEN [StoredRows EXCEPT ![job[w].dir] = rows] ELSE StoredRows,
         job[w].upto = Len(job[w].data) =>
            \/ rows = job[w].data
            \/ Abstract!LastErrorIsLost /\ ~job[w].append /\ rows \in Abstract!CutShort(job[w].data)
  PROVE  IInv' /\ AbstractStep
<1>h. /\ Typed /\ job[w] \in Job /\ JobInv(job[w]) /\ job[w].faulted \in BOOLEAN
      /\ job[w].append \in BOOLEAN
      /\ job \in [Writers -> Job] /\ count \in Nat
  BY Here, TableTyped DEF Typed
<1>1. /\ job[w].data # << >> /\ job[w].dir \in job[w].todo /\ job[w].pc # "idle"
      /\ job[w].result = "idle"
      /\ (job[w].append => job[w].upto = Len(job[w].data))
      /\ (job[w].upto < Len(job[w].data) => job[w].faulted)
  BY <1>h DEF JobInv, Storing
<1>2. CASE job[w].append
  <2>1. /\ Stored(w) /\ rows = job[w].data /\ StoredRows' = [StoredRows EXCEPT ![job[w].dir] = rows]
        /\ Abstract!ObjectIsStored(job[w].data)
    BY <1>1, <1>2 DEF Written
  <2> QED BY <2>1, StoredStep
<1>3. CASE ~job[w].append
  <2> DEFINE next == IF job[w].upto < Len(job[w].data) THEN "remove" ELSE "rename"
             n == [job[w] EXCEPT !.pc = next]
  <2>1. job' = [job EXCEPT ![w] = n]
    BY <1>3, <1>h DEF Written
  <2>2. next \in {"remove", "rename"}
    OBVIOUS
  <2>3. /\ next = "remove" => job[w].faulted
        /\ next = "rename" => job[w].upto = Len(job[w].data)
    <3>1. job[w].upto \in 0 .. Len(job[w].data) /\ Len(job[w].data) \in Nat
      BY Here
    <3> QED BY <1>1, <3>1
  <2> HIDE DEF next
  <2>4. n \in Job
    BY <1>h, <2>2 DEF Job
  <2>5. /\ n.pc = next /\ n.dir = job[w].dir /\ n.gives = job[w].gives /\ n.todo = job[w].todo
        /\ n.data = job[w].data /\ n.upto = job[w].upto /\ n.sent = job[w].sent
        /\ n.file = job[w].file /\ n.result = job[w].result
    BY <1>h DEF Job
  <2>6. n.append = job[w].append /\ n.faulted = job[w].faulted
    BY <1>h, Zenon DEF Job
  <2> HIDE DEF n
  <2>7. Becomes(w, n) /\ job'[w] = n
    BY <1>h, <2>1, <2>4 DEF Becomes
  <2>8. JobInv(n)
    BY <1>1, <1>3, <2>2, <2>3, <2>5, <2>6 DEF JobInv
  <2>9. StoreInv(w)'
    <3>1. CASE next = "remove"
      BY <2>5, <2>7, <3>1, NothingStored
    <3>2. CASE next = "rename"
      <4>1. Target(w)' = Target(w)
        BY <2>5, <2>6, <2>7 DEF Target, Out, Tmp, At
      <4>2. Content(Target(w))' = rows
        BY <4>1 DEF Content
      <4>3. Abstract!LastErrorIsLost' = Abstract!LastErrorIsLost
        BY DEF Abstract!LastErrorIsLost
      <4>4. job[w]'.data = job[w].data /\ job[w]'.pc = "rename"
        BY <2>5, <2>7, <3>2
      <4>5. \/ Content(Target(w))' = job[w]'.data
            \/ Abstract!LastErrorIsLost' /\ Content(Target(w))' \in Abstract!CutShort(job[w]'.data)
        BY <2>3, <3>2, <4>2, <4>3, <4>4
      <4>6. Abstract!ObjectIsStored(job[w].data)'
        BY <2>3, <3>2, <4>4 DEF Abstract!ObjectIsStored, Abstract!SharesObjects
      <4> QED BY <4>1, <4>4, <4>5, <4>6 DEF StoreInv
    <3> QED BY <2>2, <3>1, <3>2
  <2>10. ~Blamed(n)
    BY <1>1, <2>2, <2>3, <2>5, <2>6 DEF Blamed
  <2>11. /\ n.todo \subseteq DOMAIN n.gives /\ n.data \in Rows /\ n.upto \in 0 .. Len(n.data)
         /\ n.sent \in 0 .. n.upto
    BY <2>5, Here
  <2>f. n.file \in 0 .. Len(files')
    <3>1. job[w].file \in 0 .. Len(files) /\ Len(files) \in Nat /\ Len(files') \in Nat
      BY Here, TableTyped
    <3> QED BY <2>5, <3>1
  <2>12. ObjectsTyped' /\ count' \in 0 .. table.statements
    BY <1>h, TableTyped DEF ObjectsTyped, Typed, TypeOK
  <2>13. IInv'
    BY <2>7, <2>8, <2>9, <2>10, <2>11, <2>f, <2>12, Reduce
  <2>14. PlanOf(n) = PlanOf(job[w]) /\ ResultOf(n) = ResultOf(job[w])
    BY <1>1, <2>2, <2>5 DEF PlanOf, ResultOf
  <2>15. SamePlan(w, n)
    BY <2>5, <2>6, <2>14 DEF SamePlan
  <2>16. UNCHANGED Abstract!vars
    BY <1>3, <1>h, <2>7, <2>15, NoChange
  <2> QED BY <2>13, <2>16 DEF AbstractStep
<1> QED BY <1>h, <1>2, <1>3

\* The target file is created, or grows.
LEMMA FillStep ==
  ASSUME OneWriter, IInv, NEW w \in Writers, Storing(w), ~PutIsAtomic, NEW n, Becomes(w, n),
         UNCHANGED <<table, objects, count>>, Abstract!ObjectIsStored(Payload(w)),
         table.backend = "gitlfs" => n.sent \in {0, job[w].upto},
         names' \in [Paths -> 0 .. Len(files')], files' \in Seq(Stored0), NamesInv',
         names'[Target(w)] # 0, files'[names'[Target(w)]] = SubSeq(job[w].data, 1, n.sent),
         Puts(Target(w), SubSeq(job[w].data, 1, n.sent)),
         n.pc = "fill", n.file = names'[Target(w)], n.sent \in 0 .. job[w].upto,
         n.dir = job[w].dir, n.gives = job[w].gives, n.todo = job[w].todo, n.data = job[w].data,
         n.upto = job[w].upto, n.result = job[w].result,
         n.append = job[w].append, n.faulted = job[w].faulted
  PROVE  IInv' /\ AbstractStep
<1>h. /\ Typed /\ job[w] \in Job /\ JobInv(job[w]) /\ StoreInv(w)
      /\ job[w].append \in BOOLEAN /\ job[w].data \in Rows
      /\ job[w].upto \in 0 .. Len(job[w].data) /\ Len(job[w].data) \in Nat
  BY Here
<1>1. /\ job[w].data # << >> /\ job[w].pc # "idle" /\ job[w].result = "idle"
      /\ ~(Misplaced /\ job[w].append)
  BY <1>h DEF JobInv, Storing, StoreInv, Misplaced
<1>2. job'[w] = n
  BY <1>h, JobBecomes
<1>3. JobInv(n)
  BY <1>h DEF JobInv, Storing
<1>4. StoreInv(w)'
  <2>1. Target(w)' = Target(w) /\ PutIsAtomic' = PutIsAtomic /\ Misplaced' = Misplaced
    BY <1>2 DEF Target, Out, Tmp, At, PutIsAtomic, Misplaced
  <2>2. /\ job'[w].pc = "fill" /\ job'[w].file = names'[Target(w)'] /\ job'[w].file # 0
        /\ files'[job'[w].file] = SubSeq(job'[w].data, 1, job'[w].sent)
    BY <1>2, <2>1
  <2>3. ~(Misplaced' /\ job'[w].append)
    BY <1>1, <1>2, <2>1
  <2>4. Abstract!ObjectIsStored(Payload(w))'
    <3>1. Payload(w)' = Payload(w)
      BY <1>2 DEF Payload
    <3> QED BY <3>1 DEF Abstract!ObjectIsStored, Abstract!SharesObjects
  <2> QED BY <1>2, <2>1, <2>2, <2>3, <2>4 DEF StoreInv
<1>5. ~Blamed(n)
  BY <1>1 DEF Blamed
<1>6. /\ n.todo \subseteq DOMAIN n.gives /\ n.data \in Rows /\ n.upto \in 0 .. Len(n.data)
      /\ n.sent \in 0 .. n.upto
  BY Here
<1>7. n.file \in 0 .. Len(files')
  BY <1>h, PathTyped
<1>8. ObjectsTyped' /\ count' \in 0 .. table.statements
  BY <1>h, TableTyped DEF ObjectsTyped, Typed, TypeOK
<1>9. IInv'
  BY <1>3, <1>4, <1>5, <1>6, <1>7, <1>8, Reduce
<1>10. SamePlan(w, n)
  BY <1>1 DEF PlanOf, ResultOf, SamePlan
<1> DEFINE rows == SubSeq(job[w].data, 1, n.sent)
<1>11. StoredRows' = IF job[w].append THEN [StoredRows EXCEPT ![job[w].dir] = rows] ELSE StoredRows
  BY TargetStored
<1>12. n.sent \in 0 .. Len(job[w].data)
  BY <1>h
<1>13. CASE job[w].append
  <2>1. job[w].upto = Len(job[w].data)
    BY <1>h, <1>13 DEF JobInv, Storing
  <2>2. Payload(w) = job[w].data
    BY <1>h, <2>1 DEF Payload, Rows
  <2>3. rows \in Abstract!CutShort(job[w].data)
    BY <1>h, <1>12, Cuts DEF Rows
  <2>4. table.backend = "gitlfs" => rows \in {<< >>, job[w].data}
    BY <1>h, <2>1 DEF Rows
  <2> HIDE DEF rows
  <2>5. rows \in Partial(job[w].data)
    BY <2>3, <2>4 DEF Partial, Abstract!SharesObjects
  <2>6. Halfway(w)
    BY <1>1, <1>11, <1>13, <2>2, <2>5, ContentHalfway
  <2>7. Abstract!Overwrite(w) \/ UNCHANGED Abstract!vars
    BY <1>h, <1>10, <2>6, OverwriteStep
  <2> QED BY <1>9, <2>7 DEF AbstractStep
<1>14. CASE ~job[w].append
  <2>1. UNCHANGED Abstract!vars
    BY <1>h, <1>10, <1>11, <1>14, NoChange
  <2> QED BY <1>9, <2>1 DEF AbstractStep
<1> QED BY <1>h, <1>13, <1>14

\* What there is to store, and where.
LEMMA StoringFacts ==
  ASSUME IInv, NEW w \in Writers, Storing(w)
  PROVE  /\ Typed /\ NamesInv /\ Target(w) \in Paths
         /\ job[w] \in Job /\ job \in [Writers -> Job]
         /\ job[w].append \in BOOLEAN /\ job[w].faulted \in BOOLEAN
         /\ Misplaced => Target(w) = <<Root, "tmp">>
         /\ job[w].data \in Rows /\ Len(job[w].data) \in Nat /\ job[w].data # << >>
         /\ job[w].upto \in 0 .. Len(job[w].data) /\ job[w].sent \in 0 .. job[w].upto
         /\ job[w].sent \in 0 .. Len(job[w].data)
         /\ job[w].append => job[w].upto = Len(job[w].data)
         /\ \A i \in 0 .. Len(job[w].data) : SubSeq(job[w].data, 1, i) \in Rows
         /\ job[w].pc = "fill" =>
              /\ ~PutIsAtomic
              /\ job[w].file = names[Target(w)] /\ names[Target(w)] # 0
              /\ files[names[Target(w)]] = SubSeq(job[w].data, 1, job[w].sent)
              /\ Abstract!ObjectIsStored(Payload(w))
         /\ job[w].pc = "object" =>
              /\ table.backend = "gitlfs"
              /\ objects[Payload(w)] = SubSeq(job[w].data, 1, job[w].sent)
              /\ Payload(w) \in DOMAIN objects
<1>1. /\ Typed /\ NamesInv /\ job[w] \in Job /\ StoreInv(w)
      /\ job[w].append \in BOOLEAN /\ job[w].faulted \in BOOLEAN
      /\ job[w].data \in Rows /\ Len(job[w].data) \in Nat
      /\ job[w].upto \in 0 .. Len(job[w].data) /\ job[w].sent \in 0 .. job[w].upto
  BY Here
<1>2. \A i \in 0 .. Len(job[w].data) : SubSeq(job[w].data, 1, i) \in Rows
  BY <1>1, PrefixTyped DEF Rows
<1>3. job[w].data # << >> /\ (job[w].append => job[w].upto = Len(job[w].data))
  BY Here DEF JobInv, Storing
<1>4. Target(w) \in Paths /\ job \in [Writers -> Job]
  BY <1>1, PathTyped DEF Typed
<1>5. job[w].sent \in 0 .. Len(job[w].data)
  BY <1>1
<1> QED BY <1>1, <1>2, <1>3, <1>4, <1>5, TargetPlace DEF StoreInv

\* The rows that are encoded are the first ones.
LEMMA PayloadFacts ==
  ASSUME IInv, NEW w \in Writers, Storing(w)
  PROVE  /\ Payload(w) \in Rows /\ Len(Payload(w)) = job[w].upto
         /\ Payload(w) \in Abstract!Prefixes(job[w].data)
         /\ job[w].upto = Len(job[w].data) => Payload(w) = job[w].data
<1>1. /\ job[w].data \in Rows /\ job[w].upto \in 0 .. Len(job[w].data)
      /\ Len(job[w].data) \in Nat
  BY StoringFacts
<1>2. Payload(w) \in Rows /\ Len(Payload(w)) = job[w].upto
  BY <1>1, PrefixTyped DEF Payload, Rows
<1>3. Payload(w) \in Abstract!Prefixes(job[w].data)
  BY <1>1 DEF Payload, Abstract!Prefixes
<1>4. SubSeq(job[w].data, 1, Len(job[w].data)) = job[w].data
  BY <1>1 DEF Rows
<1> QED BY <1>2, <1>3, <1>4 DEF Payload

\* What a write of them can leave behind in their object.
LEMMA ObjectCuts ==
  ASSUME IInv, NEW w \in Writers, Storing(w), NEW i \in 0 .. job[w].upto
  PROVE  /\ SubSeq(job[w].data, 1, i) \in Abstract!CutShort(Payload(w))
         /\ i < job[w].upto =>
              Append(SubSeq(job[w].data, 1, i), Damaged) \in Abstract!CutShort(Payload(w))
<1>1. /\ job[w].data \in Rows /\ job[w].upto \in 0 .. Len(job[w].data)
  BY StoringFacts
<1>2. SubSeq(Payload(w), 1, i) = SubSeq(job[w].data, 1, i)
  BY <1>1, PrefixOfPrefix DEF Payload, Rows
<1>3. PICK p : p = Payload(w)
  OBVIOUS
<1>4. p \in Seq(Row) /\ i \in 0 .. Len(p) /\ Len(p) = job[w].upto
  BY <1>3, PayloadFacts DEF Rows, Row
<1>5. /\ SubSeq(p, 1, i) \in Abstract!CutShort(p)
      /\ i < Len(p) => Append(SubSeq(p, 1, i), Damaged) \in Abstract!CutShort(p)
  BY <1>4, Cuts
<1> QED BY <1>2, <1>3, <1>4, <1>5

\* At the writer's offset what it has stored ends.
LEMMA AtEnd ==
  ASSUME IInv, NEW w \in Writers, Storing(w), job[w].sent < job[w].upto, NEW row \in Row
  PROVE  /\ WithRow(SubSeq(job[w].data, 1, job[w].sent), job[w].sent + 1, row) =
              Append(SubSeq(job[w].data, 1, job[w].sent), row)
         /\ Append(SubSeq(job[w].data, 1, job[w].sent), row) \in Rows
<1>1. PICK q, k : q = SubSeq(job[w].data, 1, job[w].sent) /\ k = job[w].sent
  OBVIOUS
<1>2. job[w].data \in Seq(Row) /\ job[w].sent \in 0 .. Len(job[w].data)
  BY StoringFacts DEF Rows, Row
<1>3. q \in Seq(Row) /\ Len(q) = k /\ k \in Nat
  BY <1>1, <1>2, PrefixTyped
<1>4. Damaged \in Row
  BY DEF Row
<1>5. WithRow(q, k + 1, row) = Append(q, row)
  BY <1>3, <1>4, PutNext
<1>6. Append(q, row) \in Seq(Row)
  BY <1>3
<1> QED BY <1>1, <1>5, <1>6 DEF Rows, Row

\* The next row makes it a longer prefix.
LEMMA NextStored ==
  ASSUME IInv, NEW w \in Writers, Storing(w), job[w].sent < job[w].upto
  PROVE  /\ job[w].data[job[w].sent + 1] \in Row
         /\ SubSeq(job[w].data, 1, job[w].sent + 1) \in Rows
         /\ WithRow(SubSeq(job[w].data, 1, job[w].sent), job[w].sent + 1,
                    job[w].data[job[w].sent + 1]) = SubSeq(job[w].data, 1, job[w].sent + 1)
<1>1. PICK all, k, i : all = job[w].data /\ k = job[w].sent /\ i = k + 1
  OBVIOUS
<1>2. /\ job[w].data \in Seq(Row) /\ job[w].upto \in 0 .. Len(job[w].data)
      /\ job[w].sent \in 0 .. job[w].upto /\ Len(job[w].data) \in Nat
      /\ \A m \in 0 .. Len(job[w].data) : SubSeq(job[w].data, 1, m) \in Rows
  BY StoringFacts DEF Rows, Row
<1>3. k \in Nat /\ k = i - 1 /\ i \in 1 .. Len(all) /\ all \in Seq(Row) /\ i \in 0 .. Len(all)
  BY <1>1, <1>2
<1>4. all[i] \in Row
  BY <1>3, ElementOfSeq
<1>5. SubSeq(all, 1, i) = Append(SubSeq(all, 1, k), all[i])
  BY <1>3, NextRow
<1>6. WithRow(SubSeq(all, 1, k), i, all[i]) = Append(SubSeq(all, 1, k), all[i])
  BY <1>1, <1>4, AtEnd
<1>7. SubSeq(all, 1, i) \in Rows
  BY <1>1, <1>2, <1>3
<1> QED BY <1>1, <1>4, <1>5, <1>6, <1>7

---------------------------------------------------------------------------
(* Git LFS objects.                                                        *)

\* Objects hold rows under the names of rows.
LEMMA PutObjectTyped ==
  ASSUME ObjectsTyped, NEW h \in Rows, NEW rows \in Rows, objects' = PutObjectAt(h, rows)
  PROVE  ObjectsTyped' /\ h \in DOMAIN objects' /\ objects'[h] = rows
BY DEF ObjectsTyped, PutObjectAt

\* An object is created, or grows.
LEMMA ObjectStep ==
  ASSUME OneWriter, IInv, NEW w \in Writers, Storing(w), table.backend = "gitlfs",
         NEW n, Becomes(w, n), UNCHANGED <<table, names, files, count>>,
         n.sent \in 0 .. job[w].upto,
         objects' = PutObjectAt(Payload(w), SubSeq(job[w].data, 1, n.sent)),
         n.pc = "object", n.file = job[w].file,
         n.dir = job[w].dir, n.gives = job[w].gives, n.todo = job[w].todo, n.data = job[w].data,
         n.upto = job[w].upto, n.result = job[w].result,
         n.append = job[w].append, n.faulted = job[w].faulted
  PROVE  IInv' /\ AbstractStep
<1>h. /\ Typed /\ job[w] \in Job /\ JobInv(job[w])
      /\ job[w].data \in Rows /\ job[w].data # << >>
      /\ job[w].upto \in 0 .. Len(job[w].data) /\ Len(job[w].data) \in Nat
  BY Here, StoringFacts
<1>1. job[w].pc # "idle" /\ job[w].result = "idle"
  BY <1>h DEF JobInv, Storing
<1>2. job'[w] = n
  BY <1>h, JobBecomes
<1>3. /\ names' \in [Paths -> 0 .. Len(files')] /\ files' \in Seq(Stored0) /\ NamesInv'
      /\ StoredRows' = StoredRows
  BY FilesStay
<1>4. SubSeq(job[w].data, 1, n.sent) \in Rows
  <2>1. n.sent \in 0 .. Len(job[w].data)
    BY <1>h
  <2> QED BY <2>1, StoringFacts
<1>5. /\ ObjectsTyped' /\ Payload(w) \in DOMAIN objects'
      /\ objects'[Payload(w)] = SubSeq(job[w].data, 1, n.sent)
  BY <1>4, <1>h, PayloadFacts, PutObjectTyped, TableTyped
<1>6. StoreInv(w)'
  <2>1. Payload(w)' = Payload(w)
    BY <1>2 DEF Payload
  <2> QED BY <1>2, <1>5, <2>1 DEF StoreInv
<1>7. JobInv(n)
  BY <1>h DEF JobInv, Storing
<1>8. ~Blamed(n)
  BY <1>1 DEF Blamed
<1>9. /\ n.todo \subseteq DOMAIN n.gives /\ n.data \in Rows /\ n.upto \in 0 .. Len(n.data)
      /\ n.sent \in 0 .. n.upto /\ n.file \in 0 .. Len(files')
  BY Here
<1>10. count' \in 0 .. table.statements
  BY <1>h DEF Typed, TypeOK
<1>11. IInv'
  BY <1>3, <1>5, <1>6, <1>7, <1>8, <1>9, <1>10, Reduce
<1>12. SamePlan(w, n)
  BY <1>1 DEF PlanOf, ResultOf, SamePlan
<1>13. Halfway(w)
  <2>1. PICK p, rows : p = Payload(w) /\ rows = SubSeq(job[w].data, 1, n.sent)
    OBVIOUS
  <2>2. p \in Abstract!Prefixes(job[w].data) /\ rows \in Abstract!CutShort(p)
    BY <2>1, PayloadFacts, ObjectCuts
  <2> QED BY <1>3, <1>h, <2>1, <2>2, ObjectHalfway
<1>14. Abstract!Overwrite(w) \/ UNCHANGED Abstract!vars
  BY <1>12, <1>13, <1>h, OverwriteStep
<1> QED BY <1>11, <1>14 DEF AbstractStep

\* CreateObject leaves an empty object.
LEMMA CreateObjectStep ==
  ASSUME OneWriter, IInv, NEW w \in Writers, CreateObject(w)
  PROVE  IInv' /\ AbstractStep
<1>1. /\ job[w].pc = "create" /\ table.backend = "gitlfs" /\ Storing(w)
      /\ objects' = PutObjectAt(Payload(w), << >>)
      /\ UNCHANGED <<table, names, files, count>>
  BY DEF CreateObject, Storing
<1>h. job[w] \in Job /\ job \in [Writers -> Job] /\ JobInv(job[w]) /\ job[w].upto \in 0 .. Len(job[w].data)
      /\ Len(job[w].data) \in Nat
  BY <1>1, StoringFacts, Here
<1>2. job[w].sent = 0
  BY <1>1, <1>h DEF JobInv
<1> DEFINE n == [job[w] EXCEPT !.pc = "object"]
<1>3. job' = [job EXCEPT ![w] = n]
  BY <1>h DEF CreateObject
<1>4. n \in Job
  BY <1>h DEF Job
<1>5. /\ n.pc = "object" /\ n.dir = job[w].dir /\ n.gives = job[w].gives /\ n.todo = job[w].todo
      /\ n.data = job[w].data /\ n.upto = job[w].upto /\ n.sent = job[w].sent
      /\ n.file = job[w].file /\ n.result = job[w].result
  BY <1>h DEF Job
<1>6. n.append = job[w].append /\ n.faulted = job[w].faulted
  BY <1>h, Zenon DEF Job
<1> HIDE DEF n
<1>7. Becomes(w, n)
  BY <1>3, <1>4 DEF Becomes
<1>8. n.sent = 0 /\ n.sent \in 0 .. job[w].upto
  BY <1>2, <1>5, <1>h
<1>9. SubSeq(job[w].data, 1, n.sent) = << >>
  BY <1>8
<1> QED BY <1>1, <1>5, <1>6, <1>7, <1>8, <1>9, ObjectStep

\* WriteObjectRow adds a row to it.
LEMMA WriteObjectRowStep ==
  ASSUME OneWriter, IInv, NEW w \in Writers, WriteObjectRow(w)
  PROVE  IInv' /\ AbstractStep
<1>1. /\ job[w].pc = "object" /\ job[w].sent < job[w].upto /\ Storing(w)
      /\ UNCHANGED <<table, names, files, count>>
  BY DEF WriteObjectRow, Storing
<1>h. /\ job[w] \in Job /\ job \in [Writers -> Job] /\ table.backend = "gitlfs"
      /\ job[w].upto \in 0 .. Len(job[w].data) /\ job[w].sent \in 0 .. job[w].upto
      /\ Len(job[w].data) \in Nat
      /\ objects[Payload(w)] = SubSeq(job[w].data, 1, job[w].sent)
  BY <1>1, StoringFacts
<1>2. PICK k : k = job[w].sent + 1
  OBVIOUS
<1>3. k \in Nat /\ k \in 0 .. job[w].upto
  BY <1>1, <1>2, <1>h
<1>4. objects' = PutObjectAt(Payload(w), SubSeq(job[w].data, 1, k))
  BY <1>1, <1>2, <1>h, NextStored DEF WriteObjectRow
<1> DEFINE n == [job[w] EXCEPT !.sent = k]
<1>5. job' = [job EXCEPT ![w] = n]
  BY <1>2, <1>h DEF WriteObjectRow
<1>6. n \in Job
  BY <1>3, <1>h DEF Job
<1>7. /\ n.pc = job[w].pc /\ n.dir = job[w].dir /\ n.gives = job[w].gives /\ n.todo = job[w].todo
      /\ n.data = job[w].data /\ n.upto = job[w].upto /\ n.sent = k
      /\ n.file = job[w].file /\ n.result = job[w].result
  BY <1>h DEF Job
<1>8. n.append = job[w].append /\ n.faulted = job[w].faulted
  BY <1>h, Zenon DEF Job
<1> HIDE DEF n
<1>9. Becomes(w, n)
  BY <1>5, <1>6 DEF Becomes
<1> QED BY <1>1, <1>3, <1>4, <1>7, <1>8, <1>9, <1>h, ObjectStep

---------------------------------------------------------------------------
(* The target file.                                                        *)

\* Create leaves an empty target file.
LEMMA CreateStep ==
  ASSUME OneWriter, IInv, NEW w \in Writers, Create(w)
  PROVE  IInv' /\ AbstractStep
<1>1. /\ Write(Target(w), << >>) /\ ReadyToCreate(w) /\ Storing(w)
      /\ UNCHANGED <<table, objects, count>>
  BY DEF Create, ReadyToCreate, Storing
<1>2. PICK f : f = names'[Target(w)]
  OBVIOUS
<1>3. job' = [job EXCEPT ![w].pc = "fill", ![w].file = f, ![w].sent = 0]
  BY <1>2 DEF Create
<1>h. /\ Typed /\ NamesInv /\ Target(w) \in Paths
      /\ job[w] \in Job /\ job \in [Writers -> Job]
      /\ (Misplaced => Target(w) = <<Root, "tmp">>)
      /\ job[w].upto \in 0 .. Len(job[w].data) /\ Len(job[w].data) \in Nat
      /\ job[w].data \in Rows
  BY <1>1, StoringFacts
<1>4. ~PutIsAtomic
  BY <1>1 DEF ReadyToCreate, PutIsAtomic
<1>o. Abstract!ObjectIsStored(Payload(w))
  <2>1. CASE table.backend = "gitlfs"
    <3>1. job[w].pc = "object" /\ job[w].sent = job[w].upto
      BY <1>1, <2>1 DEF ReadyToCreate
    <3>2. Payload(w) \in DOMAIN objects /\ objects[Payload(w)] = Payload(w)
      BY <1>1, <3>1, StoringFacts DEF Payload
    <3> QED BY <3>2 DEF Abstract!ObjectIsStored
  <2>2. CASE table.backend # "gitlfs"
    BY <2>2 DEF Abstract!ObjectIsStored, Abstract!SharesObjects
  <2> QED BY <2>1, <2>2
<1>5. SubSeq(job[w].data, 1, 0) = << >> /\ << >> \in Stored0
  BY DEF Stored0, Rows
<1>6. /\ names' \in [Paths -> 0 .. Len(files')] /\ files' \in Seq(Stored0)
      /\ names'[Target(w)] # 0 /\ files'[names'[Target(w)]] = SubSeq(job[w].data, 1, 0)
      /\ Puts(Target(w), SubSeq(job[w].data, 1, 0)) /\ NamesInv'
  BY <1>1, <1>h, <1>5, WriteSets
<1>7. f \in Nat
  <2>1. Len(files') \in Nat
    BY <1>6, LenProperties
  <2> QED BY <1>2, <1>6, <1>h, <2>1
<1> DEFINE n == [job[w] EXCEPT !.pc = "fill", !.file = f, !.sent = 0]
<1>8. job' = [job EXCEPT ![w] = n]
  BY <1>3, <1>h
<1>9. n \in Job
  BY <1>7, <1>h DEF Job
<1>10. /\ n.pc = "fill" /\ n.dir = job[w].dir /\ n.gives = job[w].gives /\ n.todo = job[w].todo
       /\ n.data = job[w].data /\ n.upto = job[w].upto /\ n.sent = 0
       /\ n.file = f /\ n.result = job[w].result
  BY <1>h DEF Job
<1>11. n.append = job[w].append /\ n.faulted = job[w].faulted
  BY <1>h, Zenon DEF Job
<1> HIDE DEF n
<1>12. Becomes(w, n)
  BY <1>8, <1>9 DEF Becomes
<1>13. n.sent \in 0 .. job[w].upto /\ n.sent \in {0, job[w].upto} /\ n.file = names'[Target(w)]
  BY <1>2, <1>10, <1>h
<1> QED BY <1>1, <1>4, <1>6, <1>10, <1>11, <1>12, <1>13, <1>o, FillStep

\* What is written at the writer's offset ends the file.
LEMMA PutAtEnd ==
  ASSUME IInv, NEW w \in Writers, job[w].pc = "fill", job[w].sent < job[w].upto, NEW row \in Row
  PROVE  PutAt(job[w].file, job[w].sent + 1, row) =
            [files EXCEPT ![names[Target(w)]] =
               WithRow(SubSeq(job[w].data, 1, job[w].sent), job[w].sent + 1, row)]
<1>1. /\ job[w].file = names[Target(w)]
      /\ files[names[Target(w)]] = SubSeq(job[w].data, 1, job[w].sent)
  BY StoringFacts DEF Storing
<1> QED BY <1>1 DEF PutAt

\* WriteRow puts one more row into it, or a pointer to them all.
LEMMA WriteRowStep ==
  ASSUME OneWriter, IInv, NEW w \in Writers, WriteRow(w)
  PROVE  IInv' /\ AbstractStep
<1>1. /\ job[w].pc = "fill" /\ job[w].sent < job[w].upto /\ Storing(w)
      /\ UNCHANGED <<table, names, objects, count>>
  BY DEF WriteRow, Storing
<1>h. /\ Typed /\ NamesInv /\ Target(w) \in Paths
      /\ job[w] \in Job /\ job \in [Writers -> Job]
      /\ job[w].data \in Rows /\ Len(job[w].data) \in Nat
      /\ job[w].upto \in 0 .. Len(job[w].data) /\ job[w].sent \in 0 .. job[w].upto
      /\ (\A i \in 0 .. Len(job[w].data) : SubSeq(job[w].data, 1, i) \in Rows)
      /\ ~PutIsAtomic /\ job[w].file = names[Target(w)] /\ names[Target(w)] # 0
      /\ Abstract!ObjectIsStored(Payload(w))
  BY <1>1, StoringFacts
<1>s. PICK s : s = IF table.backend = "gitlfs" THEN job[w].upto ELSE job[w].sent + 1
  OBVIOUS
<1>r. PICK rows : rows = SubSeq(job[w].data, 1, s)
  OBVIOUS
<1>2. /\ s \in 0 .. job[w].upto /\ s \in Nat /\ s \in 0 .. Len(job[w].data)
      /\ table.backend = "gitlfs" => s \in {0, job[w].upto}
  BY <1>1, <1>h, <1>s
<1>3. job' = [job EXCEPT ![w].sent = s]
  BY <1>s DEF WriteRow
<1>4. files' = [files EXCEPT ![names[Target(w)]] = rows]
  <2>1. CASE table.backend = "gitlfs"
    BY <1>h, <1>s, <1>r, <2>1 DEF WriteRow, Payload
  <2>2. CASE table.backend # "gitlfs"
    <3>1. files' = PutAt(job[w].file, job[w].sent + 1, job[w].data[job[w].sent + 1])
      BY <2>2 DEF WriteRow
    <3>2. rows = SubSeq(job[w].data, 1, job[w].sent + 1)
      BY <1>s, <1>r, <2>2
    <3>3. PICK row : row = job[w].data[job[w].sent + 1]
      OBVIOUS
    <3>4. /\ row \in Row
          /\ WithRow(SubSeq(job[w].data, 1, job[w].sent), job[w].sent + 1, row) = rows
      BY <1>1, <3>2, <3>3, NextStored
    <3>5. PutAt(job[w].file, job[w].sent + 1, row) =
            [files EXCEPT ![names[Target(w)]] =
               WithRow(SubSeq(job[w].data, 1, job[w].sent), job[w].sent + 1, row)]
      BY <1>1, <3>4, PutAtEnd
    <3> QED BY <3>1, <3>3, <3>4, <3>5
  <2> QED BY <2>1, <2>2
<1>5. rows \in Stored0
  BY <1>h, <1>2, <1>r DEF Stored0
<1>6. /\ names' \in [Paths -> 0 .. Len(files')] /\ files' \in Seq(Stored0)
      /\ files'[names[Target(w)]] = rows /\ Puts(Target(w), rows) /\ NamesInv'
  BY <1>1, <1>4, <1>5, <1>h, FillSets
<1> DEFINE n == [job[w] EXCEPT !.sent = s]
<1>7. job' = [job EXCEPT ![w] = n]
  BY <1>3, <1>h
<1>8. n \in Job
  BY <1>2, <1>h DEF Job
<1>9. /\ n.pc = job[w].pc /\ n.dir = job[w].dir /\ n.gives = job[w].gives /\ n.todo = job[w].todo
      /\ n.data = job[w].data /\ n.upto = job[w].upto /\ n.sent = s
      /\ n.file = job[w].file /\ n.result = job[w].result
  BY <1>h DEF Job
<1>10. n.append = job[w].append /\ n.faulted = job[w].faulted
  BY <1>h, Zenon DEF Job
<1> HIDE DEF n
<1>11. Becomes(w, n)
  BY <1>7, <1>8 DEF Becomes
<1>12. /\ n.pc = "fill" /\ n.sent \in 0 .. job[w].upto /\ n.file = names'[Target(w)]
       /\ table.backend = "gitlfs" => n.sent \in {0, job[w].upto}
       /\ names'[Target(w)] # 0
       /\ files'[names'[Target(w)]] = SubSeq(job[w].data, 1, n.sent)
       /\ Puts(Target(w), SubSeq(job[w].data, 1, n.sent))
  <2>1. /\ names' = names /\ n.sent = s /\ n.pc = "fill" /\ n.file = names'[Target(w)]
        /\ names'[Target(w)] # 0
    BY <1>1, <1>9, <1>h
  <2> QED BY <1>2, <1>6, <1>r, <2>1
<1> QED BY <1>1, <1>6, <1>9, <1>10, <1>11, <1>12, <1>h, FillStep

\* WriteEnds: the file holds what it should.
LEMMA WriteEndsStep ==
  ASSUME OneWriter, IInv, NEW w \in Writers, WriteEnds(w)
  PROVE  IInv' /\ AbstractStep
<1>1. /\ job[w].pc = "fill" /\ job[w].sent = job[w].upto /\ Storing(w) /\ Written(w)
      /\ UNCHANGED <<table, names, files, objects, count>>
  BY DEF WriteEnds, Storing
<1> DEFINE rows == Payload(w)
<1>2. /\ names[Target(w)] # 0 /\ files[names[Target(w)]] = rows
      /\ (job[w].upto = Len(job[w].data) => rows = job[w].data)
      /\ Abstract!ObjectIsStored(rows)
  BY <1>1, StoringFacts, PayloadFacts DEF Payload
<1>3. /\ names' \in [Paths -> 0 .. Len(files')] /\ files' \in Seq(Stored0) /\ NamesInv'
      /\ Len(files) <= Len(files')
  <2>1. Len(files) \in Nat
    BY TableTyped DEF IInv
  <2> QED BY <1>1, <2>1, NamesStay
<1> HIDE DEF rows
<1>4. Puts(Target(w), rows)
  BY <1>1, <1>2 DEF Puts, Content
<1>5. StoredRows' = IF job[w].append THEN [StoredRows EXCEPT ![job[w].dir] = rows] ELSE StoredRows
  BY <1>1, <1>4, TargetStored
<1>6. names'[Target(w)] # 0 /\ files'[names'[Target(w)]] = rows
  BY <1>1, <1>2
<1> QED BY <1>1, <1>2, <1>3, <1>5, <1>6, WrittenStep

\* Wherever a write of the file itself stops, it is a beginning of the rows.
LEMMA CutRowLeaves ==
  ASSUME IInv, NEW w \in Writers, job[w].pc = "fill", table.backend # "gitlfs",
         CutRow(w), UNCHANGED <<table, names, count>>
  PROVE  /\ names' \in [Paths -> 0 .. Len(files')] /\ files' \in Seq(Stored0) /\ NamesInv'
         /\ Len(files) <= Len(files') /\ names'[Target(w)] # 0 /\ UNCHANGED objects
         /\ \E rows \in Abstract!CutShort(job[w].data) :
               Puts(Target(w), rows) /\ files'[names'[Target(w)]] = rows
<1>s. PICK sent : sent = SubSeq(job[w].data, 1, job[w].sent)
  OBVIOUS
<1>h. /\ Typed /\ NamesInv /\ Target(w) \in Paths /\ Storing(w)
      /\ job[w].data \in Rows /\ Len(job[w].data) \in Nat
      /\ job[w].sent \in 0 .. Len(job[w].data)
      /\ (job[w].sent < job[w].upto => job[w].sent < Len(job[w].data))
      /\ names[Target(w)] # 0 /\ files[names[Target(w)]] = sent
  <2>1. Storing(w)
    BY DEF Storing
  <2>2. /\ job[w].upto \in 0 .. Len(job[w].data) /\ job[w].sent \in 0 .. job[w].upto
        /\ Len(job[w].data) \in Nat
    BY <2>1, StoringFacts
  <2>3. job[w].sent < job[w].upto => job[w].sent < Len(job[w].data)
    BY <2>2
  <2> QED BY <1>s, <2>1, <2>3, StoringFacts
<1>c. /\ sent \in Abstract!CutShort(job[w].data)
      /\ job[w].sent < job[w].upto => Append(sent, Damaged) \in Abstract!CutShort(job[w].data)
  <2>1. job[w].data \in Seq(Row)
    BY <1>h DEF Rows, Row
  <2> QED BY <1>h, <1>s, <2>1, Cuts
<1>1. CASE UNCHANGED <<files, objects>>
  <2>1. Puts(Target(w), sent) /\ files'[names'[Target(w)]] = sent /\ names'[Target(w)] # 0
    BY <1>1, <1>h DEF Puts, Content
  <2>2. /\ names' \in [Paths -> 0 .. Len(files')] /\ files' \in Seq(Stored0) /\ NamesInv'
        /\ Len(files) <= Len(files')
    <3>1. Len(files) \in Nat
      BY TableTyped DEF IInv
    <3> QED BY <1>1, <3>1, NamesStay
  <2> QED BY <1>1, <1>c, <2>1, <2>2
<1>2. CASE /\ job[w].sent < job[w].upto /\ UNCHANGED objects
           /\ files' = PutAt(job[w].file, job[w].sent + 1, Damaged)
  <2>1. PICK rows : rows = Append(sent, Damaged)
    OBVIOUS
  <2>2. Damaged \in Row /\ Len(files) \in Nat
    BY <1>h, TableTyped DEF Row
  <2>3. files' = [files EXCEPT ![names[Target(w)]] = rows] /\ rows \in Stored0
    <3>1. /\ WithRow(SubSeq(job[w].data, 1, job[w].sent), job[w].sent + 1, Damaged) = rows
          /\ rows \in Rows
      BY <1>2, <1>h, <1>s, <2>1, <2>2, AtEnd
    <3> QED BY <1>2, <2>2, <3>1, PutAtEnd DEF Stored0
  <2>4. rows \in Abstract!CutShort(job[w].data)
    BY <1>2, <1>c, <2>1
  <2>5. /\ names' \in [Paths -> 0 .. Len(files')] /\ files' \in Seq(Stored0)
        /\ Len(files') = Len(files) /\ files'[names[Target(w)]] = rows
        /\ Puts(Target(w), rows) /\ NamesInv'
    BY <1>h, <2>3, FillSets
  <2> QED BY <1>2, <1>h, <2>2, <2>4, <2>5
<1> QED BY <1>1, <1>2 DEF CutRow

\* Wherever a write stops, the rows are half-way in their file or their object.
LEMMA CutFacts ==
  ASSUME IInv, NEW w \in Writers, job[w].pc \in {"fill", "object"}, CutRow(w),
         UNCHANGED <<table, names, count>>
  PROVE  /\ names' \in [Paths -> 0 .. Len(files')] /\ files' \in Seq(Stored0) /\ NamesInv'
         /\ Len(files) <= Len(files') /\ ObjectsTyped' /\ Halfway(w)
<1>h. /\ Typed /\ NamesInv /\ Target(w) \in Paths /\ Storing(w) /\ job[w].data # << >>
      /\ job[w].data \in Rows /\ job[w].append \in BOOLEAN
      /\ ObjectsTyped /\ Len(files) \in Nat
  <2>1. Storing(w)
    BY DEF Storing
  <2> QED BY <2>1, StoringFacts, TableTyped
<1>1. CASE UNCHANGED <<files, objects>>
  BY <1>1, <1>h, NamesStay DEF Halfway
<1>2. CASE job[w].pc = "fill" /\ table.backend # "gitlfs"
  <2>1. PICK rows \in Abstract!CutShort(job[w].data) : Puts(Target(w), rows)
    BY <1>2, CutRowLeaves
  <2>2. StoredRows' = IF job[w].append THEN [StoredRows EXCEPT ![job[w].dir] = rows] ELSE StoredRows
    BY <1>h, <2>1, TargetStored
  <2>3. /\ names' \in [Paths -> 0 .. Len(files')] /\ files' \in Seq(Stored0) /\ NamesInv'
        /\ Len(files) <= Len(files') /\ UNCHANGED objects
    BY <1>2, CutRowLeaves
  <2>4. ObjectsTyped'
    BY <1>h, <2>3 DEF ObjectsTyped
  <2>5. Halfway(w)
    <3>1. CASE job[w].append
      <4>1. /\ rows \in Partial(job[w].data) /\ ~PutIsAtomic
            /\ Abstract!ObjectIsStored(rows)
        BY <1>2, <1>h, <2>1, StoringFacts
           DEF Partial, Abstract!SharesObjects, Abstract!ObjectIsStored
      <4> QED BY <1>h, <2>2, <2>3, <3>1, <4>1, ContentHalfway
    <3>2. CASE ~job[w].append
      BY <2>2, <2>3, <3>2 DEF Halfway
    <3> QED BY <1>h, <3>1, <3>2
  <2> QED BY <2>3, <2>4, <2>5
<1>3. CASE /\ job[w].pc = "fill" /\ table.backend = "gitlfs" /\ UNCHANGED objects
           /\ files' = [files EXCEPT ![job[w].file] = Torn]
  <2>1. job[w].file = names[Target(w)] /\ names[Target(w)] # 0 /\ ~PutIsAtomic
    BY <1>3, <1>h, StoringFacts
  <2>2. PICK rows : rows = Torn
    OBVIOUS
  <2>3. rows \in Stored0
    BY <2>2 DEF Stored0
  <2>4. /\ names' \in [Paths -> 0 .. Len(files')] /\ files' \in Seq(Stored0)
        /\ Len(files') = Len(files) /\ Puts(Target(w), rows) /\ NamesInv'
    BY <1>3, <1>h, <2>1, <2>2, <2>3, FillSets
  <2>5. StoredRows' = IF job[w].append THEN [StoredRows EXCEPT ![job[w].dir] = rows] ELSE StoredRows
    BY <1>h, <2>4, TargetStored
  <2>6. ObjectsTyped'
    BY <1>3, <1>h DEF ObjectsTyped
  <2>7. Halfway(w)
    <3>1. CASE job[w].append
      <4>1. rows \in Partial(job[w].data)
        BY <1>3, <2>2 DEF Partial, Abstract!SharesObjects
      <4>2. rows # job[w].data
        BY <1>h, <2>2, NoMarks
      <4> QED BY <1>3, <1>h, <2>1, <2>5, <3>1, <4>1, <4>2, ContentHalfway
    <3>2. CASE ~job[w].append
      BY <1>3, <2>5, <3>2 DEF Halfway
    <3> QED BY <1>h, <3>1, <3>2
  <2> QED BY <1>h, <2>4, <2>6, <2>7
<1>4. CASE /\ job[w].pc = "object" /\ job[w].sent < job[w].upto /\ UNCHANGED files
           /\ objects' = PutObjectAt(Payload(w), WithRow(objects[Payload(w)], job[w].sent + 1, Damaged))
  <2>1. PICK p, rows : p = Payload(w) /\ rows = Append(SubSeq(job[w].data, 1, job[w].sent), Damaged)
    OBVIOUS
  <2>2. objects[Payload(w)] = SubSeq(job[w].data, 1, job[w].sent) /\ table.backend = "gitlfs"
    BY <1>4, <1>h, StoringFacts
  <2>3. Damaged \in Row
    BY DEF Row
  <2>4. objects' = PutObjectAt(p, rows) /\ rows \in Rows
    BY <1>4, <1>h, <2>1, <2>2, <2>3, AtEnd
  <2>5. /\ p \in Rows /\ p \in Abstract!Prefixes(job[w].data)
    BY <1>h, <2>1, PayloadFacts
  <2>6. rows \in Abstract!CutShort(p)
    <3>1. job[w].sent \in 0 .. job[w].upto
      BY <1>h, StoringFacts
    <3> QED BY <1>4, <1>h, <2>1, <3>1, ObjectCuts
  <2>7. ObjectsTyped'
    BY <1>h, <2>4, <2>5, PutObjectTyped
  <2>8. /\ names' \in [Paths -> 0 .. Len(files')] /\ files' \in Seq(Stored0) /\ NamesInv'
        /\ Len(files) <= Len(files') /\ StoredRows' = StoredRows
    BY <1>4, <1>h, FilesStay
  <2>9. Halfway(w)
    BY <1>h, <2>2, <2>4, <2>5, <2>6, <2>8, ObjectHalfway
  <2> QED BY <2>7, <2>8, <2>9
<1> QED BY <1>1, <1>2, <1>3, <1>4 DEF CutRow

\* WriteFails leaves the rows half-way.
LEMMA WriteFailsStep ==
  ASSUME OneWriter, IInv, NEW w \in Writers, WriteFails(w)
  PROVE  IInv' /\ AbstractStep
<1>1. /\ job[w].pc \in {"fill", "object"} /\ CutRow(w) /\ StoreFails(w) /\ Storing(w)
      /\ UNCHANGED <<table, names, count>>
  BY DEF WriteFails, Storing
<1>2. /\ names' \in [Paths -> 0 .. Len(files')] /\ files' \in Seq(Stored0) /\ NamesInv'
      /\ Len(files) <= Len(files') /\ ObjectsTyped' /\ Halfway(w)
  BY <1>1, CutFacts
<1> QED BY <1>1, <1>2, StoreFailsStep

\* So does a crash, if rows were being written.
LEMMA CrashStep ==
  ASSUME OneWriter, IInv, NEW w \in Writers, Crash(w)
  PROVE  IInv' /\ AbstractStep
<1>1. /\ job[w].pc # "idle" /\ CutRow(w) /\ End(w, "crash", TRUE)
      /\ UNCHANGED <<table, names, count>>
  BY DEF Crash
<1>2. CASE job[w].pc \in {"fill", "object"}
  <2>1. /\ names' \in [Paths -> 0 .. Len(files')] /\ files' \in Seq(Stored0) /\ NamesInv'
        /\ ObjectsTyped' /\ Halfway(w)
    BY <1>1, <1>2, CutFacts
  <2> QED BY <1>1, <2>1, EndStep
<1>3. CASE job[w].pc \notin {"fill", "object"}
  <2>1. UNCHANGED <<files, objects>>
    BY <1>1, <1>3 DEF CutRow
  <2>2. /\ names' \in [Paths -> 0 .. Len(files')] /\ files' \in Seq(Stored0) /\ NamesInv'
        /\ ObjectsTyped' /\ Halfway(w)
    BY <1>1, <2>1, NamesStay DEF Halfway
  <2> QED BY <1>1, <2>2, EndStep
<1> QED BY <1>2, <1>3

\* LastWriteLost takes a beginning of the rows for the whole.
LEMMA LastWriteLostStep ==
  ASSUME OneWriter, IInv, NEW w \in Writers, LastWriteLost(w)
  PROVE  IInv' /\ AbstractStep
<1>1. /\ job[w].pc = "fill" /\ CutRow(w) /\ Written(w) /\ Storing(w) /\ ~job[w].append
      /\ table.format = "csv" /\ table.backend = "local"
      /\ UNCHANGED <<table, names, count>>
  BY DEF LastWriteLost, Storing, Buffered
<1>2. PICK rows \in Abstract!CutShort(job[w].data) :
         Puts(Target(w), rows) /\ files'[names'[Target(w)]] = rows
  BY <1>1, CutRowLeaves
<1>3. StoredRows' = IF job[w].append THEN [StoredRows EXCEPT ![job[w].dir] = rows] ELSE StoredRows
  BY <1>1, <1>2, TargetStored
<1>4. Abstract!LastErrorIsLost /\ Abstract!ObjectIsStored(job[w].data)
  BY <1>1 DEF Abstract!LastErrorIsLost, Abstract!ObjectIsStored, Abstract!SharesObjects
<1>5. /\ names' \in [Paths -> 0 .. Len(files')] /\ files' \in Seq(Stored0) /\ NamesInv'
      /\ Len(files) <= Len(files') /\ names'[Target(w)] # 0 /\ UNCHANGED objects
  BY <1>1, CutRowLeaves
<1> QED BY <1>1, <1>2, <1>3, <1>4, <1>5, WrittenStep

\* PutObject stores the rows at once, whatever is answered.
LEMMA PutObjectStep ==
  ASSUME OneWriter, IInv, NEW w \in Writers, PutObject(w)
  PROVE  IInv' /\ AbstractStep
<1> DEFINE rows == Payload(w)
<1>1. /\ job[w].pc = "create" /\ PutIsAtomic /\ Write(Target(w), rows) /\ Storing(w)
      /\ (Written(w) \/ StoreFails(w))
      /\ UNCHANGED <<table, objects, count>>
  BY DEF PutObject, Storing
<1>2. /\ rows \in Stored0 /\ (job[w].upto = Len(job[w].data) => rows = job[w].data)
      /\ Typed /\ NamesInv /\ Target(w) \in Paths
      /\ (Misplaced => Target(w) = <<Root, "tmp">>)
      /\ job[w].append \in BOOLEAN /\ (job[w].append => job[w].upto = Len(job[w].data))
      /\ Abstract!ObjectIsStored(job[w].data) /\ ObjectsTyped
  BY <1>1, StoringFacts, PayloadFacts, TableTyped
     DEF Stored0, Abstract!ObjectIsStored, Abstract!SharesObjects, PutIsAtomic
<1> HIDE DEF rows
<1>4. /\ names' \in [Paths -> 0 .. Len(files')] /\ files' \in Seq(Stored0)
      /\ Len(files) <= Len(files') /\ names'[Target(w)] # 0 /\ files'[names'[Target(w)]] = rows
      /\ Puts(Target(w), rows) /\ NamesInv'
  BY <1>1, <1>2, WriteSets
<1>5. StoredRows' = IF job[w].append THEN [StoredRows EXCEPT ![job[w].dir] = rows] ELSE StoredRows
  BY <1>1, <1>4, TargetStored
<1>6. CASE Written(w)
  BY <1>1, <1>2, <1>4, <1>5, <1>6, WrittenStep
<1>7. CASE StoreFails(w)
  <2>1. \/ Halfway(w)
        \/ /\ job[w].append /\ PutIsAtomic /\ UNCHANGED objects
           /\ StoredRows' = [StoredRows EXCEPT ![job[w].dir] = job[w].data]
    BY <1>1, <1>2, <1>5 DEF Halfway
  <2>2. ObjectsTyped'
    BY <1>1, <1>2 DEF ObjectsTyped
  <2> QED BY <1>1, <1>4, <1>7, <2>1, <2>2, StoreFailsStep
<1> QED BY <1>1, <1>6, <1>7

---------------------------------------------------------------------------
(* The rename, and the removal of the temporary file.                      *)

\* What is renamed is at its right place.
LEMMA RenameFacts ==
  ASSUME IInv, NEW w \in Writers, job[w].pc = "rename"
  PROVE  /\ Typed /\ NamesInv /\ job[w] \in Job /\ job \in [Writers -> Job] /\ ~job[w].append
         /\ job[w].faulted \in BOOLEAN
         /\ job[w].dir \in job[w].todo /\ job[w].dir \in table.dirs
         /\ job[w].data # << >> /\ job[w].result = "idle"
         /\ job[w].data \in Rows
         /\ Out(w) \in Paths /\ Tmp(w) \in Paths /\ Tmp(w) # Out(w)
         /\ Out(w) = <<job[w].dir, "out">> /\ Tmp(w) = <<job[w].dir, "tmp">>
         /\ CanRename(w) => ~Misplaced
         /\ Abstract!ObjectIsStored(job[w].data)
         /\ ~Misplaced => /\ names[Tmp(w)] # 0
                          /\ \/ Content(Tmp(w)) = job[w].data
                             \/ /\ Abstract!LastErrorIsLost /\ ~job[w].append
                                /\ Content(Tmp(w)) \in Abstract!CutShort(job[w].data)
<1>1. /\ Typed /\ NamesInv /\ job[w] \in Job /\ job \in [Writers -> Job] /\ ~job[w].append
      /\ job[w].faulted \in BOOLEAN
      /\ job[w].dir \in job[w].todo /\ job[w].dir \in table.dirs
      /\ job[w].data # << >> /\ job[w].result = "idle"
      /\ job[w].data \in Rows /\ Abstract!ObjectIsStored(job[w].data)
  BY Here DEF JobInv, StoreInv, Typed
<1>2. /\ Out(w) \in Paths /\ Tmp(w) \in Paths /\ Out(w) = <<job[w].dir, "out">>
      /\ Tmp(w) = <<job[w].dir, "tmp">> /\ Tmp(w) # Out(w)
  BY <1>1, PathTyped
<1>3. ASSUME CanRename(w), Misplaced
      PROVE  FALSE
  <2>1. job[w].dir # Root
    BY <1>1, <1>3, TableTyped DEF Misplaced
  <2>2. Tmp(w) # <<Root, "tmp">>
    BY <1>2, <2>1
  <2>3. names[Tmp(w)] = 0
    BY <1>1, <1>2, <1>3, <2>2 DEF NamesInv
  <2> QED BY <1>3, <2>3 DEF CanRename
<1>4. ASSUME ~Misplaced
      PROVE  /\ names[Tmp(w)] # 0
             /\ \/ Content(Tmp(w)) = job[w].data
                \/ /\ Abstract!LastErrorIsLost /\ ~job[w].append
                   /\ Content(Tmp(w)) \in Abstract!CutShort(job[w].data)
  <2>1. Target(w) = Tmp(w)
    BY <1>1, <1>4, PlacedRight
  <2> QED BY <1>1, <2>1, Here DEF StoreInv
<1> QED BY <1>1, <1>2, <1>3, <1>4

\* The stored rows of one partition change with what its data file holds.
LEMMA OutStored ==
  ASSUME table' = table, NEW w \in Writers, NEW rows, job[w].dir \in table.dirs,
         \A p \in Paths : p[2] = "out" =>
            Content(p)' = IF p = <<job[w].dir, "out">> THEN rows ELSE Content(p)
  PROVE  StoredRows' = [StoredRows EXCEPT ![job[w].dir] = rows]
<1>1. \A d \in table.dirs : <<d, "out">> \in Paths /\ <<d, "out">>[2] = "out"
  BY DEF Paths
<1>2. \A d \in table.dirs : Content(<<d, "out">>)' = IF d = job[w].dir THEN rows ELSE Content(<<d, "out">>)
  BY <1>1
<1>3. StoredRows' = [d \in table.dirs |-> IF d = job[w].dir THEN rows ELSE Content(<<d, "out">>)]
  BY <1>2 DEF StoredRows
<1> QED BY <1>3 DEF StoredRows

\* A rename moves the temporary file to the data file.
LEMMA MovedStored ==
  ASSUME IInv, NEW w \in Writers, job[w].pc = "rename", CanRename(w),
         UNCHANGED <<table, files>>, names' = Move(Tmp(w), Out(w))
  PROVE  /\ names' \in [Paths -> 0 .. Len(files')] /\ NamesInv'
         /\ StoredRows' = [StoredRows EXCEPT ![job[w].dir] = Content(Tmp(w))]
<1>1. /\ Typed /\ NamesInv /\ Out(w) \in Paths /\ Tmp(w) \in Paths /\ Tmp(w) # Out(w)
      /\ Out(w) = <<job[w].dir, "out">> /\ Tmp(w) = <<job[w].dir, "tmp">>
      /\ ~Misplaced /\ names[Tmp(w)] # 0 /\ job[w].dir \in table.dirs
  BY RenameFacts
<1>2. /\ names' \in [Paths -> 0 .. Len(files')] /\ NamesInv'
      /\ \A r \in Paths : Content(r)' = IF r = Out(w) THEN Content(Tmp(w))
                                        ELSE IF r = Tmp(w) THEN Missing ELSE Content(r)
  BY <1>1, MoveSets
<1>3. Tmp(w)[2] = "tmp"
  BY <1>1
<1>4. \A r \in Paths : r[2] = "out" =>
         Content(r)' = IF r = <<job[w].dir, "out">> THEN Content(Tmp(w)) ELSE Content(r)
  BY <1>1, <1>2, <1>3
<1>5. PICK rows : rows = Content(Tmp(w))
  OBVIOUS
<1> QED BY <1>1, <1>2, <1>4, <1>5, OutStored

\* Rename stores the partition.
LEMMA RenameStep ==
  ASSUME OneWriter, IInv, NEW w \in Writers, Rename(w)
  PROVE  IInv' /\ AbstractStep
<1>1. /\ job[w].pc = "rename" /\ CanRename(w) /\ names' = Move(Tmp(w), Out(w)) /\ Stored(w)
      /\ UNCHANGED <<table, files, objects, count>>
  BY DEF Rename
<1>2. PICK rows : rows = Content(Tmp(w))
  OBVIOUS
<1>3. /\ names' \in [Paths -> 0 .. Len(files')] /\ NamesInv'
      /\ StoredRows' = [StoredRows EXCEPT ![job[w].dir] = rows]
  BY <1>1, <1>2, MovedStored
<1>4. \/ rows = job[w].data
      \/ Abstract!LastErrorIsLost /\ ~job[w].append /\ rows \in Abstract!CutShort(job[w].data)
  BY <1>1, <1>2, RenameFacts
<1>5. files' \in Seq(Stored0) /\ Abstract!ObjectIsStored(job[w].data)
  BY <1>1, RenameFacts, TableTyped DEF IInv
<1> QED BY <1>1, <1>3, <1>4, <1>5, StoredStep

\* RenameFails has a cause, if no fault.
LEMMA RenameFailsStep ==
  ASSUME OneWriter, IInv, NEW w \in Writers, RenameFails(w)
  PROVE  IInv' /\ AbstractStep
<1>1. job[w].pc = "rename" /\ UNCHANGED <<table, names, files, objects, count>>
  BY DEF RenameFails
<1>h. /\ Typed /\ job[w] \in Job /\ job \in [Writers -> Job] /\ ~job[w].append
      /\ job[w].faulted \in BOOLEAN
      /\ job[w].dir \in job[w].todo /\ job[w].data # << >> /\ job[w].result = "idle"
      /\ job[w].dir \in table.dirs
  BY <1>1, RenameFacts
<1> DEFINE b == job[w].faulted \/ CanRename(w)
<1>2. b \in BOOLEAN
  BY <1>h DEF CanRename
<1>3. ~b => Cause
  <2>1. ASSUME ~CanRename(w), ~Misplaced
        PROVE  ~RenameReplaces /\ names[<<job[w].dir, "out">>] # 0
    BY <1>1, <2>1, RenameFacts DEF CanRename
  <2> QED BY <1>h, <2>1 DEF Cause
<1>4. job' = [job EXCEPT ![w].pc = "remove", ![w].faulted = b]
  BY <1>h DEF RenameFails
<1> HIDE DEF b
<1> DEFINE n == [job[w] EXCEPT !.pc = "remove", !.faulted = b]
<1>5. job' = [job EXCEPT ![w] = n]
  BY <1>4, <1>h
<1>6. n \in Job
  BY <1>2, <1>h DEF Job
<1>7. /\ n.pc = "remove" /\ n.dir = job[w].dir /\ n.gives = job[w].gives /\ n.todo = job[w].todo
      /\ n.data = job[w].data /\ n.upto = job[w].upto /\ n.sent = job[w].sent
      /\ n.file = job[w].file /\ n.result = job[w].result
  BY <1>h DEF Job
<1>8. n.append = job[w].append /\ n.faulted = b
  BY <1>h, Zenon DEF Job
<1> HIDE DEF n
<1>9. Becomes(w, n) /\ job'[w] = n
  BY <1>h, <1>5, <1>6 DEF Becomes
<1>10. JobInv(n)
  BY <1>h, <1>7, <1>8 DEF JobInv
<1>11. StoreInv(w)'
  BY <1>1, <1>7, <1>9, NothingStored
<1>12. Blamed(n) => Cause
  BY <1>3, <1>8 DEF Blamed
<1>13. /\ n.todo \subseteq DOMAIN n.gives /\ n.data \in Rows /\ n.upto \in 0 .. Len(n.data)
       /\ n.sent \in 0 .. n.upto /\ n.file \in 0 .. Len(files)
  BY <1>7, Here
<1>14. IInv' /\ StoredRows' = StoredRows
  BY <1>1, <1>7, <1>9, <1>10, <1>11, <1>12, <1>13, QuietStep
<1>15. PlanOf(n) = PlanOf(job[w]) /\ ResultOf(n) = ResultOf(job[w])
  BY <1>1, <1>7 DEF PlanOf, ResultOf
<1>s. SamePlan(w, n)
  BY <1>7, <1>8, <1>15 DEF SamePlan
<1>16. UNCHANGED Abstract!vars
  BY <1>1, <1>h, <1>9, <1>14, <1>s, NoChange
<1> QED BY <1>14, <1>16 DEF AbstractStep

\* RenameUnanswered stores the partition and does not know it.
LEMMA RenameUnansweredStep ==
  ASSUME OneWriter, IInv, NEW w \in Writers, RenameUnanswered(w)
  PROVE  IInv' /\ AbstractStep
<1>1. /\ job[w].pc = "rename" /\ CanRename(w) /\ UNCHANGED <<table, objects, count>>
  BY DEF RenameUnanswered
<1>h. /\ Typed /\ NamesInv /\ job[w] \in Job /\ job \in [Writers -> Job] /\ ~job[w].append
      /\ Out(w) \in Paths /\ Tmp(w) \in Paths /\ ~Misplaced /\ names[Tmp(w)] # 0
      /\ Out(w) = <<job[w].dir, "out">>
      /\ job[w].dir \in table.dirs /\ job[w].data # << >> /\ job[w].result = "idle"
      /\ job[w].data \in Rows /\ Abstract!ObjectIsStored(job[w].data) /\ ObjectsTyped
      /\ names \in [Paths -> 0 .. Len(files)] /\ files \in Seq(Stored0) /\ Len(files) \in Nat
  BY <1>1, RenameFacts, TableTyped
<1>2. PICK rows : rows = Content(Tmp(w))
  OBVIOUS
<1>3. \/ rows = job[w].data
      \/ Abstract!LastErrorIsLost /\ ~job[w].append /\ rows \in Abstract!CutShort(job[w].data)
  BY <1>1, <1>2, RenameFacts
<1>4. /\ names' \in [Paths -> 0 .. Len(files')] /\ NamesInv' /\ files' \in Seq(Stored0)
      /\ Len(files) <= Len(files')
      /\ StoredRows' = [StoredRows EXCEPT ![job[w].dir] = rows]
  <2>1. CASE PutIsAtomic
    <3>1. Write(Out(w), rows)
      BY <1>2, <2>1 DEF RenameUnanswered
    <3>2. rows \in Stored0
      <4>1. names[Tmp(w)] \in 1 .. Len(files)
        BY <1>h
      <4> HIDE DEF Stored0
      <4> QED BY <1>2, <1>h, <4>1 DEF Content
    <3>3. /\ names' \in [Paths -> 0 .. Len(files')] /\ files' \in Seq(Stored0)
          /\ Len(files) <= Len(files') /\ Puts(Out(w), rows) /\ NamesInv'
      BY <1>1, <1>h, <3>1, <3>2, WriteSets
    <3>4. StoredRows' = [StoredRows EXCEPT ![job[w].dir] = rows]
      BY <1>1, <1>h, <3>3, PutsStored
    <3> QED BY <3>3, <3>4
  <2>2. CASE ~PutIsAtomic
    <3>1. names' = Move(Tmp(w), Out(w)) /\ UNCHANGED files
      BY <2>2 DEF RenameUnanswered
    <3>2. /\ names' \in [Paths -> 0 .. Len(files')] /\ NamesInv'
          /\ StoredRows' = [StoredRows EXCEPT ![job[w].dir] = rows]
      BY <1>1, <1>2, <3>1, MovedStored
    <3>3. files' \in Seq(Stored0) /\ Len(files) <= Len(files')
      BY <1>h, <3>1
    <3> QED BY <3>2, <3>3
  <2> QED BY <2>1, <2>2
<1>e. << >> \in Rows /\ Len(<< >>) = 0
  BY DEF Rows
<1> DEFINE rest == job[w].todo \ {job[w].dir}
           n == [job[w] EXCEPT !.pc = "remove", !.faulted = TRUE, !.todo = rest, !.data = << >>,
                               !.upto = 0, !.sent = 0]
<1>5. job' = [job EXCEPT ![w] = n]
  BY <1>h DEF RenameUnanswered
<1>6. rest \in SUBSET table.dirs
  BY Here
<1> HIDE DEF rest
<1>7. n \in Job
  BY <1>e, <1>6, <1>h DEF Job
<1>8. /\ n.pc = "remove" /\ n.dir = job[w].dir /\ n.gives = job[w].gives /\ n.todo = rest
      /\ n.data = << >> /\ n.upto = 0 /\ n.sent = 0
      /\ n.file = job[w].file /\ n.result = job[w].result
  BY <1>h DEF Job
<1>9. n.append = job[w].append /\ n.faulted = TRUE
  BY <1>h, Zenon DEF Job
<1> HIDE DEF n
<1>10. Becomes(w, n) /\ job'[w] = n
  BY <1>h, <1>5, <1>7 DEF Becomes
<1>11. JobInv(n)
  BY <1>1, <1>h, <1>8, <1>9 DEF JobInv
<1>12. StoreInv(w)'
  BY <1>1, <1>8, <1>10, NothingStored
<1>13. ~Blamed(n)
  BY <1>9 DEF Blamed
<1>14. n.todo \subseteq DOMAIN n.gives /\ ObjectsTyped'
  BY <1>1, <1>8, <1>h, Here DEF rest, ObjectsTyped
<1>15. n.data \in Rows /\ n.upto \in 0 .. Len(n.data) /\ n.sent \in 0 .. n.upto
  BY <1>1, <1>e, <1>8
<1>16. n.file \in 0 .. Len(files')
  <2>1. job[w].file \in 0 .. Len(files) /\ Len(files') \in Nat
    BY <1>4, Here DEF Stored0
  <2> QED BY <1>4, <1>8, <1>h, <2>1
<1>17. files' \in Seq(Stored0) /\ count' \in 0 .. table.statements
  BY <1>1, <1>4, <1>h DEF Stored0, Typed, TypeOK
<1>18. IInv'
  BY <1>1, <1>4, <1>10, <1>11, <1>12, <1>13, <1>14, <1>15, <1>16, <1>17, Reduce
<1>19. ResultOf(n) = ResultOf(job[w])
  BY <1>1, <1>8 DEF ResultOf
<1>20. job[w].data \in Abstract!CutShort(job[w].data)
  <2>1. 0 \in 0 .. Len(job[w].data)
    BY <1>h
  <2> QED BY <1>h, <2>1, Cuts DEF Rows
<1>21. Abstract!Store(w)
  BY <1>1, <1>3, <1>4, <1>h, <1>8, <1>9, <1>10, <1>19, <1>20, StoreStep DEF rest
<1> QED BY <1>18, <1>21 DEF AbstractStep

\* RemoveTmp ends the statement and leaves the data files alone.
LEMMA RemoveTmpStep ==
  ASSUME OneWriter, IInv, NEW w \in Writers, RemoveTmp(w)
  PROVE  IInv' /\ AbstractStep
<1>1. job[w].pc = "remove" /\ UNCHANGED <<table, files, objects, count>>
  BY DEF RemoveTmp
<1>h. /\ Typed /\ NamesInv /\ Tmp(w) \in Paths /\ Tmp(w)[2] = "tmp" /\ job[w].faulted \in BOOLEAN
      /\ files \in Seq(Stored0) /\ ObjectsTyped /\ (Blamed(job[w]) => Cause)
      /\ names \in [Paths -> 0 .. Len(files)]
  BY Here, PathTyped, TableTyped DEF Tmp
<1>2. CASE UNCHANGED names /\ End(w, "error", TRUE)
  BY <1>1, <1>2, NamesStay, EndStep DEF Halfway
<1>3. CASE names' = [names EXCEPT ![Tmp(w)] = 0] /\ End(w, "error", job[w].faulted)
  <2>1. /\ names' \in [Paths -> 0 .. Len(files')] /\ NamesInv' /\ Puts(Tmp(w), Missing)
        /\ \A r \in Paths : r # Tmp(w) => names'[r] = names[r]
    BY <1>1, <1>3, <1>h, ClearSets
  <2>2. \A d \in table.dirs : <<d, "out">> \in Paths /\ Tmp(w) # <<d, "out">>
    <3>1. \A d \in table.dirs : <<d, "out">>[2] = "out"
      OBVIOUS
    <3> QED BY <1>h, <3>1 DEF Paths
  <2>3. StoredRows' = StoredRows /\ Halfway(w) /\ ObjectsTyped'
    BY <1>1, <1>h, <2>1, <2>2, PutsStored DEF Halfway, ObjectsTyped
  <2>4. ~job[w].faulted => Cause'
    <3>1. ASSUME ~job[w].faulted
          PROVE  Cause
      BY <1>1, <1>h, <3>1 DEF Blamed
    <3>2. \A d \in table.dirs : /\ names'[<<d, "out">>] = names[<<d, "out">>]
                                /\ Content(<<d, "out">>)' = Content(<<d, "out">>)
      BY <2>1, <2>2 DEF Puts
    <3>3. Misplaced' = Misplaced /\ MissingIsNotExist' = MissingIsNotExist /\ RenameReplaces' = RenameReplaces
      BY <1>1 DEF Misplaced, MissingIsNotExist, RenameReplaces
    <3>4. Cause => Cause'
      BY <1>1, <3>2, <3>3 DEF Cause
    <3> QED BY <3>1, <3>4
  <2> QED BY <1>1, <1>3, <1>h, <2>1, <2>3, <2>4, EndStep
<1> QED BY <1>1, <1>2, <1>3 DEF RemoveTmp

---------------------------------------------------------------------------
(* Init, Next, and what follows.                                           *)

\* At first there is no file, or a clone has a pointer.
LEMMA InitFiles ==
  ASSUME Init
  PROVE  /\ names \in [Paths -> 0 .. Len(files)] /\ files \in Seq(Stored0) /\ Len(files) \in Nat
         /\ NamesInv /\ \A p \in Paths : Content(p) \in {Missing} \cup {NewRows(v) : v \in Values}
         /\ table.backend # "gitlfs" => \A p \in Paths : Content(p) = Missing
<1>1. CASE names = [p \in Paths |-> 0] /\ files = << >>
  <2>1. << >> \in Seq(Stored0) /\ Len(<< >>) = 0
    OBVIOUS
  <2>2. names \in [Paths -> 0 .. Len(files)] /\ \A p \in Paths : names[p] = 0
    BY <1>1, <2>1
  <2>3. NamesInv
    BY <2>2 DEF NamesInv
  <2>4. \A p \in Paths : Content(p) = Missing
    BY <2>2 DEF Content
  <2> QED BY <1>1, <2>1, <2>2, <2>3, <2>4
<1>2. CASE /\ table.backend = "gitlfs" /\ \E v \in Values : files = <<NewRows(v)>>
           /\ \E d \in table.dirs : names = [p \in Paths |-> IF p = <<d, "out">> THEN 1 ELSE 0]
  <2>1. PICK d \in table.dirs : names = [p \in Paths |-> IF p = <<d, "out">> THEN 1 ELSE 0]
    BY <1>2
  <2>v. PICK v \in Values : files = <<NewRows(v)>>
    BY <1>2
  <2>2. NewRows(v) \in Stored0
    BY DEF Stored0, NewRows, Rows
  <2> HIDE DEF Stored0
  <2>3. files \in Seq(Stored0) /\ Len(files) = 1 /\ files[1] = NewRows(v)
    BY <2>v, <2>2
  <2>4. \A p \in Paths : names[p] = IF p = <<d, "out">> THEN 1 ELSE 0
    BY <2>1
  <2>5. names \in [Paths -> 0 .. Len(files)]
    BY <2>1, <2>3
  <2>6. NamesInv
    BY <1>2, <2>4 DEF NamesInv, Misplaced
  <2>7. \A p \in Paths : Content(p) \in {Missing} \cup {NewRows(x) : x \in Values}
    BY <2>3, <2>4 DEF Content
  <2> QED BY <1>2, <2>3, <2>5, <2>6, <2>7
<1> QED BY <1>1, <1>2 DEF Init

\* The invariant holds at first.
LEMMA InitInv ==
  ASSUME Init
  PROVE  IInv
<1>1. table \in Tables /\ count = 0 /\ objects = << >> /\ job = [w \in Writers |-> Idle]
  BY DEF Init
<1>2. Idle \in Job
  BY IdleJob
<1>3. /\ Idle.pc = "idle" /\ Idle.gives = << >> /\ Idle.todo = {} /\ Idle.dir = Root /\ Idle.data = << >>
      /\ Idle.upto = 0 /\ Idle.sent = 0 /\ Idle.file = 0 /\ Idle.result = "idle"
  BY Zenon DEF Idle
<1>4. /\ names \in [Paths -> 0 .. Len(files)] /\ files \in Seq(Stored0) /\ Len(files) \in Nat
      /\ NamesInv
  BY InitFiles
<1>5. \A w \in Writers : job[w] = Idle
  BY <1>1
<1>6. Typed
  <2>1. count \in 0 .. table.statements
    BY <1>1, TableAssumption
  <2>2. << >> \in Rows /\ Len(<< >>) = 0
    BY DEF Rows
  <2>3. /\ Idle.todo \subseteq DOMAIN Idle.gives /\ Idle.dir \in table.dirs \cup {Root}
        /\ Idle.data \in Rows /\ Idle.upto \in 0 .. Len(Idle.data)
        /\ Idle.sent \in 0 .. Idle.upto /\ Idle.file \in 0 .. Len(files)
    BY <1>1, <1>3, <1>4, <2>2
  <2>4. files \in Seq(Rows \cup {Torn})
    BY <1>4 DEF Stored0
  <2>5. job \in [Writers -> Job]
    BY <1>1, <1>2
  <2>6. DOMAIN Idle.gives = {} /\ DOMAIN objects = {}
    BY <1>1, <1>3
  <2> QED BY <1>1, <1>3, <1>4, <1>5, <2>1, <2>3, <2>4, <2>5, <2>6 DEF Typed, TypeOK
<1>7. JobInv(Idle) /\ ~Blamed(Idle)
  BY <1>3 DEF JobInv, Blamed
<1>8. \A w \in Writers : StoreInv(w)
  BY <1>3, <1>5 DEF StoreInv
<1> QED BY <1>4, <1>5, <1>6, <1>7, <1>8 DEF IInv

\* One step keeps the invariant and is one of AtomicTable, or none.
LEMMA NextStep ==
  ASSUME OneWriter, IInv, [Next]_vars
  PROVE  IInv' /\ AbstractStep
<1>1. CASE UNCHANGED vars
  <2>1. UNCHANGED <<table, names, files, objects, count, job>>
    BY <1>1 DEF vars
  <2>2. IInv'
    <3>1. Paths' = Paths /\ Job' = Job /\ Misplaced' = Misplaced /\ Typed' = Typed
      BY <2>1 DEF Paths, Job, Gifts, Misplaced, Typed, TypeOK
    <3>2. NamesInv' /\ (Cause' = Cause)
      BY <2>1, <3>1, NamesStay
    <3>3. ASSUME NEW w \in Writers
          PROVE  /\ JobInv(job[w])' = JobInv(job[w])
                 /\ StoreInv(w)' = StoreInv(w) /\ Blamed(job[w])' = Blamed(job[w])
      <4>1. /\ Target(w)' = Target(w) /\ Content(Target(w))' = Content(Target(w))
            /\ Payload(w)' = Payload(w)
            /\ \A p : Abstract!ObjectIsStored(p)' = Abstract!ObjectIsStored(p)
        BY <2>1 DEF Target, Out, Tmp, At, Content, Payload, Abstract!ObjectIsStored, Abstract!SharesObjects
      <4>2. JobInv(job[w])' = JobInv(job[w]) /\ Blamed(job[w])' = Blamed(job[w])
        BY <2>1 DEF JobInv, Blamed
      <4>3. StoreInv(w)' = StoreInv(w)
        BY <2>1, <3>1, <4>1 DEF StoreInv, PutIsAtomic, Abstract!LastErrorIsLost
      <4> QED BY <4>2, <4>3
    <3> QED BY <3>1, <3>2, <3>3 DEF IInv
  <2>3. UNCHANGED Abstract!vars
    BY <2>1 DEF Abstract!vars, StoredRows, Content, Gives, Todos, Plans, Appends, Results
  <2> QED BY <2>2, <2>3 DEF AbstractStep
<1>2. CASE Next
  <2>1. PICK w \in Writers : Statement(w)
    BY <1>2 DEF Next
  <2> QED BY <2>1, BeginsStep, PickStep, FinishStep, ReadStep, EncodeStep, CreateFailsStep,
             PutObjectStep, CreateObjectStep, WriteObjectRowStep, CreateStep, WriteRowStep, WriteEndsStep, WriteFailsStep,
             LastWriteLostStep, RenameStep, RenameFailsStep, RenameUnansweredStep,
             RemoveTmpStep, CrashStep DEF Statement
<1> QED BY <1>1, <1>2

\* The inductive invariant holds in every state, when one process writes.
THEOREM InvCorrect == ASSUME OneWriter PROVE Spec => []IInv
<1>1. IInv /\ [Next]_vars => IInv'
  BY NextStep
<1> QED BY <1>1, InitInv, PTL DEF Spec

\* Type correctness of writeTable and writePartitionedTable (table.go): every
\* name leads to a file, and no row is sent before it is encoded.
THEOREM TypeCorrect == ASSUME OneWriter PROVE Spec => []TypeOK
<1>1. IInv => TypeOK
  BY DEF IInv, Typed
<1> QED BY <1>1, InvCorrect, PTL

\* An error that no fault of the backend explains comes from a statement that
\* fails every time: a missing file, a rename that does not replace, FTP paths.
THEOREM CauseCorrect == ASSUME OneWriter PROVE Spec => []ErrorsHaveACause
<1>1. IInv => ErrorsHaveACause
  BY DEF IInv, Blamed, Cause, Misplaced, ErrorsHaveACause
<1> QED BY <1>1, InvCorrect, PTL

\* The table is at first one of AtomicTable.
LEMMA AbstractInit ==
  ASSUME Init
  PROVE  Abstract!Init
<1>1. \A d \in table.dirs : <<d, "out">> \in Paths
  BY DEF Paths
<1>2. /\ \A d \in table.dirs : Content(<<d, "out">>) \in {Missing} \cup {NewRows(v) : v \in Values}
      /\ table.backend # "gitlfs" => \A d \in table.dirs : Content(<<d, "out">>) = Missing
  BY <1>1, InitFiles
<1>3. /\ StoredRows \in [table.dirs -> {Abstract!Missing} \cup {Abstract!NewRows(v) : v \in Values}]
      /\ ~Abstract!SharesObjects => \A d \in table.dirs : StoredRows[d] = Abstract!Missing
  BY <1>2 DEF StoredRows, Abstract!Missing, Missing, Abstract!NewRows, NewRows, Abstract!SharesObjects
<1>4. count = 0 /\ objects = << >> /\ \A w \in Writers : job[w] = Idle
  BY DEF Init
<1>5. /\ Idle.pc = "idle" /\ Idle.gives = << >> /\ Idle.todo = {} /\ Idle.append = FALSE
      /\ Idle.data = << >> /\ Idle.result = "idle"
  BY Zenon DEF Idle
<1>g. Gives = [w \in Writers |-> << >>]
  BY <1>4, <1>5 DEF Gives
<1>6. Todos = [w \in Writers |-> {}]
  BY <1>4, <1>5 DEF Todos
<1>7. Appends = [w \in Writers |-> FALSE]
  BY <1>4, <1>5 DEF Appends
<1>8. Plans = [w \in Writers |-> Abstract!NoPlan]
  BY <1>4, <1>5 DEF Plans, PlanOf, Abstract!NoPlan
<1>9. Results = [w \in Writers |-> "idle"]
  BY <1>4, <1>5 DEF Results, ResultOf
<1> QED BY <1>3, <1>4, <1>6, <1>7, <1>8, <1>9, <1>g DEF Abstract!Init

(***************************************************************************)
(* Statement after statement of one process, on every backend: what the    *)
(* data files hold, or on Git LFS the rows their pointers name and the     *)
(* objects under these names, changes as in AtomicTable, with the four     *)
(* exceptions it states.                                                   *)
(***************************************************************************)
THEOREM Refinement == ASSUME OneWriter PROVE Spec => ImplementsAtomicTable
<1>1. IInv /\ [Next]_vars => [Abstract!Next]_Abstract!vars
  BY NextStep DEF AbstractStep, Abstract!Next
<1> QED BY <1>1, AbstractInit, InvCorrect, PTL DEF Spec, ImplementsAtomicTable, Abstract!Spec

===============================================================================
