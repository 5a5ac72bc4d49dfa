----------------------------- MODULE SessionProofs -----------------------------
(***************************************************************************)
(* Theorems about Session, for every set of tables and statements, and     *)
(* whatever the statements compute.                                        *)
(***************************************************************************)
EXTENDS Session, FiniteSetTheorems, WellFoundedInduction, TLAPS

-------------------------------------------------------------------------------
(* What ElementsAt returns. *)

RankIn(places, p) == Cardinality({q \in places : q <= p})

(***************************************************************************)
(* The n-th of some places has rank n, and every rank is that of a place.  *)
(***************************************************************************)
LEMMA RankType ==
    ASSUME NEW places \in SUBSET Nat, IsFiniteSet(places), NEW p \in places
    PROVE  RankIn(places, p) \in 1 .. Cardinality(places)
<1> DEFINE below == {q \in places : q <= p}
<1>1. IsFiniteSet(below) /\ Cardinality(below) <= Cardinality(places)
  BY FS_Subset
<1>2. p \in below
  OBVIOUS
<1>3. Cardinality(below) \in Nat /\ Cardinality(places) \in Nat
  BY <1>1, FS_CardinalityType
<1>4. Cardinality(below) # 0
  BY <1>1, <1>2, FS_EmptySet
<1> QED
  BY <1>1, <1>3, <1>4 DEF RankIn

LEMMA RankGrows ==
    ASSUME NEW places \in SUBSET Nat, IsFiniteSet(places),
           NEW p \in places, NEW q \in places, p < q
    PROVE  RankIn(places, p) < RankIn(places, q)
<1> DEFINE below(x) == {y \in places : y <= x}
<1>1. p \in Nat /\ q \in Nat /\ \A y \in places : y \in Nat
  OBVIOUS
<1>2. below(p) \subseteq below(q) /\ q \in below(q) /\ q \notin below(p)
  <2>1. \A y \in places : y <= p => y <= q
    BY <1>1
  <2>2. q <= q /\ ~(q <= p)
    BY <1>1
  <2> QED
    BY <2>1, <2>2
<1>3. IsFiniteSet(below(q)) /\ IsFiniteSet(below(p))
  BY FS_Subset
<1>4. Cardinality(below(p)) <= Cardinality(below(q))
  BY <1>2, <1>3, FS_Subset
<1>5. Cardinality(below(p)) # Cardinality(below(q))
  BY <1>2, <1>3, FS_Subset
<1>6. Cardinality(below(p)) \in Nat /\ Cardinality(below(q)) \in Nat
  BY <1>3, FS_CardinalityType
<1> QED
  BY <1>4, <1>5, <1>6 DEF RankIn

LEMMA RankBijection ==
    ASSUME NEW places \in SUBSET Nat, IsFiniteSet(places)
    PROVE  /\ \A p, q \in places : RankIn(places, p) = RankIn(places, q) => p = q
           /\ \A n \in 1 .. Cardinality(places) : \E p \in places : RankIn(places, p) = n
<1> DEFINE f == [p \in places |-> RankIn(places, p)]
           ranks == {RankIn(places, p) : p \in places}
<1>1. Cardinality(places) \in Nat
  BY FS_CardinalityType
<1>2. ASSUME NEW p \in places, NEW q \in places, RankIn(places, p) = RankIn(places, q)
      PROVE  p = q
  <2>1. RankIn(places, p) \in Nat /\ RankIn(places, q) \in Nat
    BY <1>1, RankType
  <2>2. ~(p < q) /\ ~(q < p)
    BY <2>1, <1>2, RankGrows
  <2> QED
    BY <2>2
<1>3. f \in Bijection(places, ranks)
  BY <1>2 DEF Bijection, Injection, Surjection, IsInjective
<1>4. IsFiniteSet(ranks) /\ Cardinality(ranks) = Cardinality(places)
  BY <1>3, FS_Bijection DEF ExistsBijection
<1>5. ranks \subseteq 1 .. Cardinality(places)
  BY RankType
<1>6. IsFiniteSet(1 .. Cardinality(places))
      /\ Cardinality(1 .. Cardinality(places)) = Cardinality(places)
  BY <1>1, FS_Interval
<1>7. ranks = 1 .. Cardinality(places)
  BY <1>4, <1>5, <1>6, FS_Subset
<1> QED
  BY <1>2, <1>7

(***************************************************************************)
(* ElementsAt keeps the elements at the places, and no other.              *)
(***************************************************************************)
LEMMA ElementsAtPlaces ==
    ASSUME NEW seq, NEW places \in SUBSET Nat, IsFiniteSet(places)
    PROVE  /\ DOMAIN ElementsAt(seq, places) = 1 .. Cardinality(places)
           /\ \A p \in places : ElementsAt(seq, places)[RankIn(places, p)] = seq[p]
<1> DEFINE At(n) == CHOOSE p \in places : Cardinality({q \in places : q <= p}) = n
<1>1. ASSUME NEW p \in places
      PROVE  At(RankIn(places, p)) = p
  <2>1. At(RankIn(places, p)) \in places /\ RankIn(places, At(RankIn(places, p))) = RankIn(places, p)
    BY DEF RankIn
  <2>2. \A x \in places : RankIn(places, x) = RankIn(places, p) => x = p
    BY RankBijection
  <2> HIDE DEF At
  <2> QED
    BY <2>1, <2>2
<1>2. ElementsAt(seq, places) = [n \in 1 .. Cardinality(places) |-> seq[At(n)]]
  BY DEF ElementsAt
<1> HIDE DEF At
<1> QED
  BY <1>1, <1>2, RankType
-------------------------------------------------------------------------------
(* Sequences. *)

IsSequence(s) == s \in Seq(ToSet(s))

LEMMA SequenceFacts ==
    ASSUME NEW s, IsSequence(s)
    PROVE  /\ Len(s) \in Nat
           /\ DOMAIN s = 1 .. Len(s)
           /\ IsFiniteSet(DOMAIN s)
           /\ Cardinality(DOMAIN s) = Len(s)
<1>1. Len(s) \in Nat /\ DOMAIN s = 1 .. Len(s)
  BY DEF IsSequence
<1>2. IsFiniteSet(1 .. Len(s)) /\ Cardinality(1 .. Len(s)) = Len(s)
  <2>1. \A n \in Nat : IsFiniteSet(1 .. n) /\ Cardinality(1 .. n) = n
    BY FS_Interval
  <2> QED
    BY <1>1, <2>1
<1> QED
  BY <1>1, <1>2

LEMMA FunctionIsSequence ==
    ASSUME NEW n \in Nat, NEW s, DOMAIN s = 1 .. n, s = [i \in 1 .. n |-> s[i]]
    PROVE  IsSequence(s) /\ Len(s) = n
<1>1. \A i \in 1 .. n : s[i] \in ToSet(s)
  BY DEF ToSet
<1>2. s \in [1 .. n -> ToSet(s)]
  BY <1>1
<1> QED
  BY <1>2 DEF IsSequence

LEMMA ConcatFacts ==
    ASSUME NEW s, NEW t, IsSequence(s), IsSequence(t)
    PROVE  /\ IsSequence(s \o t)
           /\ Len(s \o t) = Len(s) + Len(t)
           /\ \A i \in 1 .. Len(s) : (s \o t)[i] = s[i]
           /\ \A i \in 1 .. Len(t) : (s \o t)[Len(s) + i] = t[i]
           /\ ToSet(s \o t) = ToSet(s) \cup ToSet(t)
<1> DEFINE S == ToSet(s) \cup ToSet(t)
           u == s \o t
<1>1. s \in Seq(S) /\ t \in Seq(S)
  BY DEF IsSequence
<1>2. u \in Seq(S) /\ Len(u) = Len(s) + Len(t)
  BY <1>1
<1>3. Len(s) \in Nat /\ Len(t) \in Nat /\ DOMAIN s = 1 .. Len(s) /\ DOMAIN t = 1 .. Len(t)
  BY SequenceFacts
<1>4. \A i \in 1 .. Len(s) : u[i] = s[i]
  BY <1>1, <1>3
<1>5. \A i \in 1 .. Len(t) : u[Len(s) + i] = t[i]
  BY <1>1, <1>3
<1>6. DOMAIN u = 1 .. Len(s) + Len(t)
  BY <1>2
<1>7. ToSet(u) \subseteq S
  BY <1>2 DEF ToSet
<1>8. ASSUME NEW x \in S
      PROVE  x \in ToSet(u)
  <2>1. CASE x \in ToSet(s)
    <3>1. PICK i \in 1 .. Len(s) : x = s[i]
      BY <2>1, <1>3 DEF ToSet
    <3>2. i \in DOMAIN u
      BY <1>3, <1>6
    <3> HIDE DEF u
    <3> QED
      BY <3>1, <3>2, <1>4 DEF ToSet
  <2>2. CASE x \in ToSet(t)
    <3>1. PICK i \in 1 .. Len(t) : x = t[i]
      BY <2>2, <1>3 DEF ToSet
    <3>2. Len(s) + i \in DOMAIN u
      BY <1>3, <1>6
    <3> HIDE DEF u
    <3> QED
      BY <3>1, <3>2, <1>5 DEF ToSet
  <2> QED
    BY <2>1, <2>2
<1>9. ToSet(u) = S
  BY <1>7, <1>8
<1> HIDE DEF u
<1>10. IsSequence(u)
  BY <1>2, <1>9 DEF IsSequence
<1> QED
  BY <1>2, <1>4, <1>5, <1>9, <1>10 DEF u

-------------------------------------------------------------------------------
(* What a write puts into a file. *)

NotBlank(table, rows, places) == {i \in places : ~IsBlank(table, rows[i])}

LEMMA StoredFacts ==
    ASSUME NEW table, NEW rows, IsSequence(rows), NEW places \in SUBSET DOMAIN rows
    PROVE  LET nb == NotBlank(table, rows, places)
               s == Stored(table, rows, places)
           IN  /\ nb \in SUBSET Nat /\ IsFiniteSet(nb)
               /\ IsSequence(s)
               /\ Len(s) = Cardinality(nb)
               /\ \A p \in nb : s[RankIn(nb, p)] = Encoded(table, rows[p])
               /\ \A row \in ToSet(s) : DOMAIN row = ToSet(ColumnNames(table))
<1> DEFINE nb == NotBlank(table, rows, places)
           s == Stored(table, rows, places)
           e == ElementsAt(rows, nb)
<1>1. nb \in SUBSET Nat /\ IsFiniteSet(nb)
  <2>1. nb \subseteq DOMAIN rows
    BY DEF NotBlank
  <2>2. IsFiniteSet(DOMAIN rows) /\ DOMAIN rows \subseteq Nat
    BY SequenceFacts
  <2> QED
    BY <2>1, <2>2, FS_Subset
<1>2. Cardinality(nb) \in Nat
  BY <1>1, FS_CardinalityType
<1>3. DOMAIN e = 1 .. Cardinality(nb) /\ \A p \in nb : e[RankIn(nb, p)] = rows[p]
  BY <1>1, ElementsAtPlaces
<1>4. s = [i \in DOMAIN e |-> Encoded(table, e[i])]
  BY DEF Stored, MapRows, NotBlank
<1> HIDE DEF nb, s, e
<1>5. DOMAIN s = 1 .. Cardinality(nb) /\ s = [i \in 1 .. Cardinality(nb) |-> s[i]]
  BY <1>3, <1>4
<1>6. IsSequence(s) /\ Len(s) = Cardinality(nb)
  BY <1>2, <1>5, FunctionIsSequence
<1>7. \A p \in nb : s[RankIn(nb, p)] = Encoded(table, rows[p])
  <2>1. \A p \in nb : RankIn(nb, p) \in DOMAIN e
    BY <1>1, <1>3, RankType
  <2> QED
    BY <2>1, <1>3, <1>4
<1>8. \A row \in ToSet(s) : DOMAIN row = ToSet(ColumnNames(table))
  BY <1>4 DEF ToSet, Encoded
<1> QED
  BY <1>1, <1>6, <1>7, <1>8 DEF nb, s

-------------------------------------------------------------------------------
(* Where a write puts the rows. *)

IsTable(table) == IsSequence(table.columns) /\ IsSequence(table.partitionBy)

\* A path has one value for a column, however often PARTITIONED BY names it.
LevelsAgree(table, path) ==
    \A i, j \in DOMAIN table.partitionBy :
        table.partitionBy[i] = table.partitionBy[j] => path[i][2] = path[j][2]

AreFiles(table, files) ==
    /\ IsFiniteSet(DOMAIN files)
    /\ \A path \in DOMAIN files : IsFileOf(table, path, files[path]) /\ LevelsAgree(table, path)

LEMMA PathOfFacts ==
    ASSUME NEW table, IsTable(table), NEW row
    PROVE  /\ IsSequence(PathOf(table, row))
           /\ Len(PathOf(table, row)) = Len(table.partitionBy)
           /\ DOMAIN PathOf(table, row) = DOMAIN table.partitionBy
           /\ \A i \in DOMAIN table.partitionBy :
                 PathOf(table, row)[i] =
                     <<DirName(table, table.partitionBy[i]), Get(row, table.partitionBy[i])>>
           /\ table.partitionBy = << >> => PathOf(table, row) = << >>
<1> DEFINE path == PathOf(table, row)
           cols == table.partitionBy
<1>1. Len(cols) \in Nat /\ DOMAIN cols = 1 .. Len(cols)
  BY SequenceFacts DEF IsTable
<1>2. path = [i \in DOMAIN cols |-> <<DirName(table, cols[i]), Get(row, cols[i])>>]
  BY DEF PathOf
<1> HIDE DEF path
<1>3. DOMAIN path = 1 .. Len(cols) /\ path = [i \in 1 .. Len(cols) |-> path[i]]
  BY <1>1, <1>2
<1>4. IsSequence(path) /\ Len(path) = Len(cols)
  BY <1>1, <1>3, FunctionIsSequence
<1>5. cols = << >> => path = << >>
  BY <1>3, <1>4 DEF IsSequence
<1> QED
  BY <1>1, <1>2, <1>3, <1>4, <1>5 DEF path

PartOf(table, rows, path) == {i \in DOMAIN rows : PathOf(table, rows[i]) = path}
OldRows(files, path, append) ==
    IF append /\ path \in DOMAIN files THEN files[path] ELSE << >>

NewRows(table, rows, path) == Stored(table, rows, PartOf(table, rows, path))

(***************************************************************************)
(* A write changes the files of its rows, each to what it keeps of it and  *)
(* the rows of its path.                                                   *)
(***************************************************************************)
IsWritten(files, table, rows, append, after) ==
    /\ DOMAIN after = DOMAIN files \cup Written(table, rows)
    /\ \A path \in DOMAIN files \ Written(table, rows) : after[path] = files[path]
    /\ \A path \in Written(table, rows) :
          after[path] = OldRows(files, path, append) \o NewRows(table, rows, path)

LEMMA WriteFacts ==
    ASSUME NEW table, IsTable(table), NEW files, AreFiles(table, files),
           NEW rows, IsSequence(rows), NEW append
    PROVE  IsWritten(files, table, rows, append, writeTable(files, table, rows, append))
<1> DEFINE after == writeTable(files, table, rows, append)
           written == Written(table, rows)
           new(path) == Stored(table, rows, PartOf(table, rows, path))
<1>1. \A path : FileWith(files, path, new(path), append) = OldRows(files, path, append) \o new(path)
  <2> TAKE path
  <2>1. IsSequence(new(path))
    BY StoredFacts DEF PartOf
  <2> HIDE DEF new
  <2>2. << >> \o new(path) = new(path)
    BY <2>1 DEF IsSequence
  <2> QED
    BY <2>2 DEF FileWith, OldRows
<1> DEFINE Done == /\ DOMAIN after = DOMAIN files \cup written
                   /\ \A path \in DOMAIN files \ written : after[path] = files[path]
                   /\ \A path \in written : after[path] = OldRows(files, path, append) \o new(path)
<1> SUFFICES Done
  BY DEF IsWritten, NewRows
<1>2. CASE table.partitionBy # << >>
  <2>1. written = {PathOf(table, rows[i]) : i \in DOMAIN rows}
    BY <1>2 DEF Written
  <2>2. after = [path \in DOMAIN files \cup written |->
                    IF path \in written THEN FileWith(files, path, new(path), append) ELSE files[path]]
    BY <1>2, <2>1 DEF writeTable, writePartitionedTable, PartOf
  <2> HIDE DEF after, new, written
  <2> QED
    BY <1>1, <2>2
<1>3. CASE table.partitionBy = << >>
  <2>1. written = {<< >>}
    BY <1>3 DEF Written
  <2>2. PartOf(table, rows, << >>) = DOMAIN rows
    BY <1>3, PathOfFacts DEF PartOf
  <2>3. after = [path \in DOMAIN files \cup {<< >>} |->
                    IF path = << >> THEN FileWith(files, << >>, new(<< >>), append) ELSE files[path]]
    BY <1>3, <2>2 DEF writeTable, Put
  <2> HIDE DEF after, new, written
  <2> QED
    BY <1>1, <2>1, <2>3
<1> QED
  BY <1>2, <1>3

LEMMA WrittenIsFinite ==
    ASSUME NEW table, NEW rows, IsSequence(rows)
    PROVE  IsFiniteSet(Written(table, rows))
<1> DEFINE paths == {PathOf(table, rows[i]) : i \in DOMAIN rows}
           f == [i \in DOMAIN rows |-> PathOf(table, rows[i])]
<1>1. f \in Surjection(DOMAIN rows, paths)
  BY DEF Surjection
<1>2. IsFiniteSet(DOMAIN rows)
  BY SequenceFacts
<1>3. IsFiniteSet(paths)
  <2> HIDE DEF paths, f
  <2> QED
    BY <1>1, <1>2, FS_Surjection
<1>4. IsFiniteSet({<< >>})
  BY FS_Singleton
<1> QED
  BY <1>3, <1>4 DEF Written

LEMMA WrittenPath ==
    ASSUME NEW table, IsTable(table), NEW rows, NEW path \in Written(table, rows)
    PROVE  /\ IsSequence(path) /\ Len(path) = Len(table.partitionBy)
           /\ \A i \in DOMAIN path : path[i][1] = DirName(table, table.partitionBy[i])
           /\ LevelsAgree(table, path)
<1>1. CASE table.partitionBy = << >>
  <2>1. path = << >> /\ IsSequence(<< >>)
    BY <1>1 DEF Written, IsSequence, ToSet
  <2> QED
    BY <1>1, <2>1 DEF LevelsAgree
<1>2. CASE table.partitionBy # << >>
  <2>1. PICK i \in DOMAIN rows : path = PathOf(table, rows[i])
    BY <1>2 DEF Written
  <2> QED
    BY <2>1, PathOfFacts DEF LevelsAgree
<1> QED
  BY <1>1, <1>2

(***************************************************************************)
(* A write leaves files of the table.                                      *)
(***************************************************************************)
LEMMA WriteKeepsFiles ==
    ASSUME NEW table, IsTable(table), NEW files, AreFiles(table, files),
           NEW rows, IsSequence(rows), NEW append
    PROVE  AreFiles(table, writeTable(files, table, rows, append))
<1> DEFINE after == writeTable(files, table, rows, append)
           written == Written(table, rows)
           new(path) == NewRows(table, rows, path)
           old(path) == OldRows(files, path, append)
<1>1. IsWritten(files, table, rows, append, after)
  BY WriteFacts
<1>2. /\ DOMAIN after = DOMAIN files \cup written
      /\ \A path \in DOMAIN files \ written : after[path] = files[path]
      /\ \A path \in written : after[path] = old(path) \o new(path)
  BY <1>1 DEF IsWritten
<1>3. IsFiniteSet(written) /\ IsFiniteSet(DOMAIN files)
  BY WrittenIsFinite DEF AreFiles
<1>4. IsFiniteSet(DOMAIN after)
  <2> HIDE DEF after, written
  <2> QED
    BY <1>2, <1>3, FS_Union
<1>5. ASSUME NEW path \in written
      PROVE  IsFileOf(table, path, old(path) \o new(path)) /\ LevelsAgree(table, path)
  <2>1. IsSequence(new(path)) /\ \A row \in ToSet(new(path)) : DOMAIN row = ToSet(ColumnNames(table))
    BY StoredFacts DEF PartOf, NewRows
  <2>2. IsSequence(old(path)) /\ \A row \in ToSet(old(path)) : DOMAIN row = ToSet(ColumnNames(table))
    <3>1. IsSequence(<< >>) /\ ToSet(<< >>) = {}
      BY DEF IsSequence, ToSet
    <3>2. path \in DOMAIN files => /\ IsSequence(files[path])
                                   /\ \A row \in ToSet(files[path]) : DOMAIN row = ToSet(ColumnNames(table))
      BY DEF AreFiles, IsFileOf, IsSequence
    <3> QED
      BY <3>1, <3>2 DEF OldRows
  <2>3. /\ IsSequence(path) /\ Len(path) = Len(table.partitionBy)
        /\ \A i \in DOMAIN path : path[i][1] = DirName(table, table.partitionBy[i])
        /\ LevelsAgree(table, path)
    BY WrittenPath
  <2> HIDE DEF new, old, written
  <2>4. IsSequence(old(path) \o new(path)) /\ ToSet(old(path) \o new(path)) = ToSet(old(path)) \cup ToSet(new(path))
    BY <2>1, <2>2, ConcatFacts
  <2> QED
    BY <2>1, <2>2, <2>3, <2>4 DEF IsFileOf, IsSequence
<1> HIDE DEF after, written, new, old
<1>6. \A path \in DOMAIN files : IsFileOf(table, path, files[path]) /\ LevelsAgree(table, path)
  BY DEF AreFiles
<1>7. \A path \in DOMAIN after : IsFileOf(table, path, after[path]) /\ LevelsAgree(table, path)
  BY <1>2, <1>5, <1>6
<1> QED
  BY <1>4, <1>7 DEF AreFiles, after

-------------------------------------------------------------------------------
(* Type correctness. *)

(***************************************************************************)
(* TypeOK, and what makes it inductive: every table is a declared one, so  *)
(* its columns are sequences, and it has finitely many files.              *)
(***************************************************************************)
IInv ==
    /\ TypeOK
    /\ \A name \in DOMAIN catalog : IsTable(catalog[name]) /\ AreFiles(catalog[name], store[name])

LEMMA IInvInit == Init => IInv
<1> SUFFICES ASSUME Init PROVE IInv
  OBVIOUS
<1>1. DOMAIN catalog = {} /\ DOMAIN store = {}
  BY DEF Init
<1>2. last.kind = "none"
  BY DEF Init
<1> QED
  BY <1>1, <1>2 DEF IInv, TypeOK, AreTables

LEMMA CreateOutcome ==
    ASSUME NEW table \in CreateTables, CreateTable(table)
    PROVE  last'.kind = "create"
<1>1. \/ Outcome("create", table, "table already exists", << >>)
      \/ Outcome("create", table, NoError, << >>)
  BY DEF CreateTable
<1>2. \A err : Outcome("create", table, err, << >>) => last'.kind = "create"
  BY DEF Outcome
<1> QED
  BY <1>1, <1>2

LEMMA QueryOutcome ==
    ASSUME NEW stmt, Select(stmt) \/ Explain(stmt)
    PROVE  UNCHANGED <<catalog, store>> /\ (last'.kind = "select" \/ last'.kind = "explain")
<1>1. ASSUME Select(stmt)
      PROVE  UNCHANGED <<catalog, store>> /\ last'.kind = "select"
  BY <1>1 DEF Select, Outcome
<1>2. ASSUME Explain(stmt)
      PROVE  UNCHANGED <<catalog, store>> /\ last'.kind = "explain"
  BY <1>2 DEF Explain, Outcome
<1> QED
  BY <1>1, <1>2

LEMMA CreateKeeps ==
    ASSUME IInv, NEW table \in CreateTables, CreateTable(table)
    PROVE  IInv'
<1> DEFINE key == ToLower(table.name)
<1>1. CASE key \in DOMAIN catalog
  <2>1. UNCHANGED <<catalog, store>> /\ last'.kind = "create"
    BY <1>1, CreateOutcome DEF CreateTable
  <2> QED
    BY <2>1 DEF IInv, TypeOK
<1>2. CASE key \notin DOMAIN catalog
  <2>1. catalog' = Put(catalog, key, table) /\ store' = Put(store, key, << >>) /\ last'.kind = "create"
    BY <1>2, CreateOutcome DEF CreateTable
  <2> HIDE DEF key
  <2>2. DOMAIN catalog' = DOMAIN catalog \cup {key} /\ DOMAIN store' = DOMAIN store \cup {key}
    BY <2>1 DEF Put
  <2>3. /\ catalog'[key] = table /\ store'[key] = << >>
        /\ \A name \in DOMAIN catalog : catalog'[name] = catalog[name] /\ store'[name] = store[name]
    BY <1>2, <2>1 DEF Put, IInv, TypeOK, AreTables
  <2>4. IsTable(table)
    BY SessionAssumption DEF IsTable, IsSequence
  <2>5. AreFiles(table, << >>)
    <3>1. DOMAIN << >> = {}
      OBVIOUS
    <3> QED
      BY <3>1, FS_EmptySet DEF AreFiles
  <2>6. key = ToLower(table.name)
    BY DEF key
  <2>7. AreTables(catalog', store')
    BY <2>2, <2>3, <2>5, <2>6 DEF IInv, TypeOK, AreTables, AreFiles
  <2>8. \A name \in DOMAIN catalog' : IsTable(catalog'[name]) /\ AreFiles(catalog'[name], store'[name])
    BY <2>2, <2>3, <2>4, <2>5 DEF IInv
  <2> QED
    BY <2>1, <2>7, <2>8 DEF IInv, TypeOK
<1> QED
  BY <1>1, <1>2

LEMMA InsertKeeps ==
    ASSUME ResultsAreRows, IInv, NEW ins \in Inserts, Insert(ins)
    PROVE  IInv'
<1> DEFINE key == ToLower(ins.table)
           result == InsertedRows(ins)
<1>1. catalog' = catalog /\ last'.kind = "insert" /\ last'.err = result.err /\ last'.rows = result.rows
  BY DEF Insert, Stores, Outcome
<1>2. result.err = NoError => HasTable(catalog, ins.table) /\ IsSequence(result.rows)
  BY DEF InsertedRows, Failed, NoError, ResultsAreRows, IInv, TypeOK, IsSequence
<1>3. CASE result.err # NoError
  <2>1. catalog' = catalog /\ store' = store
    BY <1>3 DEF Insert, Stores
  <2> QED
    BY <1>1, <1>3, <2>1 DEF IInv, TypeOK
<1>4. CASE result.err = NoError
  <2> DEFINE table == catalog[key]
             after == writeTable(store[key], table, result.rows, ins.append)
  <2>1. store' = [store EXCEPT ![key] = after]
    BY <1>4 DEF Insert, Stores
  <2>2. key \in DOMAIN catalog /\ key \in DOMAIN store /\ IsSequence(result.rows)
    BY <1>2, <1>4 DEF HasTable, IInv, TypeOK, AreTables
  <2>3. IsTable(table) /\ AreFiles(table, store[key])
    BY <2>2 DEF IInv
  <2> HIDE DEF key, result
  <2>4. AreFiles(table, after)
    BY <2>2, <2>3, WriteKeepsFiles
  <2> HIDE DEF after
  <2>5. /\ DOMAIN store' = DOMAIN store /\ store'[key] = after
        /\ \A name \in DOMAIN store : name # key => store'[name] = store[name]
    BY <2>1, <2>2
  <2>6. \A name \in DOMAIN catalog' : IsTable(catalog'[name]) /\ AreFiles(catalog'[name], store'[name])
    <3> SUFFICES ASSUME NEW name \in DOMAIN catalog
                 PROVE  IsTable(catalog[name]) /\ AreFiles(catalog[name], store'[name])
      BY <1>1
    <3>1. IsTable(catalog[name]) /\ AreFiles(catalog[name], store[name]) /\ name \in DOMAIN store
      BY DEF IInv, TypeOK, AreTables
    <3>2. CASE name = key
      BY <3>1, <3>2, <2>4, <2>5
    <3>3. CASE name # key
      BY <3>1, <3>3, <2>5
    <3> QED
      BY <3>2, <3>3
  <2>7. AreTables(catalog', store')
    BY <1>1, <2>5, <2>6 DEF IInv, TypeOK, AreTables, AreFiles
  <2>8. last'.rows \in Seq(ToSet(last'.rows))
    BY <1>1, <2>2 DEF IsSequence
  <2> QED
    BY <1>1, <2>6, <2>7, <2>8 DEF IInv, TypeOK
<1> QED
  BY <1>3, <1>4

\* What an INSERT without an error does.
LEMMA InsertWrites ==
    ASSUME ResultsAreRows, IInv, NEW ins \in Inserts, Insert(ins), last'.err = NoError
    PROVE  LET key == ToLower(ins.table)
           IN  /\ IsTable(catalog[key]) /\ AreFiles(catalog[key], store[key])
               /\ last'.stmt = ins /\ IsSequence(last'.rows)
               /\ store'[key] = writeTable(store[key], catalog[key], last'.rows, ins.append)
<1> DEFINE key == ToLower(ins.table)
           result == InsertedRows(ins)
<1>1. last' = [kind |-> "insert", stmt |-> ins, err |-> result.err, rows |-> result.rows]
  BY DEF Insert, Stores, Outcome
<1>2. last'.stmt = ins /\ last'.rows = result.rows /\ result.err = NoError
  BY <1>1
<1>3. HasTable(catalog, ins.table) /\ IsSequence(result.rows)
  BY <1>2 DEF InsertedRows, Failed, NoError, ResultsAreRows, IInv, TypeOK, IsSequence
<1>4. key \in DOMAIN catalog /\ key \in DOMAIN store
  BY <1>3 DEF HasTable, IInv, TypeOK, AreTables
<1>5. store' = [store EXCEPT ![key] = writeTable(store[key], catalog[key], result.rows, ins.append)]
  BY <1>2 DEF Insert, Stores
<1> HIDE DEF key, result
<1>6. store'[key] = writeTable(store[key], catalog[key], last'.rows, ins.append)
  BY <1>2, <1>4, <1>5
<1> QED
  BY <1>2, <1>3, <1>4, <1>6 DEF IInv, key

LEMMA QueryKeeps ==
    ASSUME IInv, NEW stmt, Select(stmt) \/ Explain(stmt)
    PROVE  IInv'
<1>1. UNCHANGED <<catalog, store>> /\ (last'.kind = "select" \/ last'.kind = "explain")
  BY QueryOutcome
<1> QED
  BY <1>1 DEF IInv, TypeOK

LEMMA IInvStep ==
    ASSUME ResultsAreRows, IInv, [Next]_vars
    PROVE  IInv'
<1>1. CASE UNCHANGED vars
  BY <1>1 DEF vars, IInv, TypeOK
<1>2. CASE Next
  BY <1>2, CreateKeeps, InsertKeeps, QueryKeeps DEF Next
<1> QED
  BY <1>1, <1>2

(***************************************************************************)
(* Every table has files, each with rows of exactly the declared columns,  *)
(* at a path of one directory for each partition column (engine.go,        *)
(* table.go), if INSERT statements without an error give sequences of rows.*)
(***************************************************************************)
THEOREM TypeCorrect == ASSUME ResultsAreRows PROVE Spec => []TypeOK
<1>1. IInv => TypeOK
  BY DEF IInv
<1>2. IInv /\ [Next]_vars => IInv'
  BY IInvStep
<1> QED
  BY <1>1, <1>2, IInvInit, PTL DEF Spec
-------------------------------------------------------------------------------
(* Reading. *)

(***************************************************************************)
(* Whether directories are bare is what the option says: the reader's      *)
(* guess from the first level agrees with what the writer does.            *)
(***************************************************************************)
LEMMA UsesBareIsOption ==
    ASSUME NEW table, IsTable(table), NEW files, AreFiles(table, files)
    PROVE  UsesBare(files, table) <=> table.bare
<1> DEFINE cols == table.partitionBy
           first == {path[1][1] : path \in {p \in DOMAIN files : p # << >>}}
<1>1. ASSUME ~table.bare, NEW path \in DOMAIN files, path # << >>
      PROVE  path[1][1] = NameOf(cols[1])
  <2>1. /\ Len(path) = Len(cols)
        /\ \A i \in DOMAIN path : path[i][1] = DirName(table, cols[i])
    BY DEF AreFiles, IsFileOf
  <2>2. 1 \in DOMAIN path
    BY <1>1, SequenceFacts DEF AreFiles, IsFileOf, IsSequence
  <2> QED
    BY <2>1, <2>2, <1>1 DEF DirName
<1>2. ASSUME ~table.bare, first # {}
      PROVE  NameOf(cols[1]) \in first
  BY <1>1, <1>2
<1> QED
  BY <1>2 DEF UsesBare

ReadAt(table, path, row) ==
    IF table.partitionBy = << >> THEN row
    ELSE Overlay([c \in ToSet(table.partitionBy) |->
                    path[CHOOSE i \in DOMAIN table.partitionBy : table.partitionBy[i] = c][2]], row)

(***************************************************************************)
(* A row is read with the values its path has, whatever the other files.   *)
(***************************************************************************)
LEMMA ReadRowIsLocal ==
    ASSUME NEW table, IsTable(table), NEW files, AreFiles(table, files),
           NEW path \in DOMAIN files, NEW row
    PROVE  ReadRow(files, table, path, row) = ReadAt(table, path, row)
<1> DEFINE cols == table.partitionBy
           At(c) == CHOOSE i \in DOMAIN cols : cols[i] = c
           bare == UsesBare(files, table)
<1>1. DOMAIN path = DOMAIN cols
  BY SequenceFacts DEF AreFiles, IsFileOf, IsSequence, IsTable
<1>2. ASSUME NEW c \in ToSet(cols)
      PROVE  LeafValue(path[At(c)], bare) = path[At(c)][2]
  <2>1. At(c) \in DOMAIN cols
    BY DEF ToSet
  <2> HIDE DEF At
  <2>2. path[At(c)][1] = DirName(table, cols[At(c)])
    BY <1>1, <2>1 DEF AreFiles, IsFileOf
  <2>3. bare => path[At(c)][1] = ""
    BY <2>2, UsesBareIsOption DEF DirName
  <2> QED
    BY <2>3 DEF LeafValue
<1>3. [c \in ToSet(cols) |-> LeafValue(path[At(c)], bare)] = [c \in ToSet(cols) |-> path[At(c)][2]]
  <2> HIDE DEF At
  <2> QED
    BY <1>2
<1> QED
  BY <1>3 DEF ReadRow, ReadAt, PartitionValues

(***************************************************************************)
(* In the file of its path a row is read as it was given.                  *)
(***************************************************************************)
LEMMA WrittenRowIsRead ==
    ASSUME NEW table, IsTable(table), NEW row
    PROVE  ReadAt(table, PathOf(table, row), Encoded(table, row)) = AsRead(table, row)
<1> DEFINE cols == table.partitionBy
           At(c) == CHOOSE i \in DOMAIN cols : cols[i] = c
           path == PathOf(table, row)
<1>1. ASSUME NEW c \in ToSet(cols)
      PROVE  path[At(c)][2] = Get(row, c)
  <2>1. At(c) \in DOMAIN cols /\ cols[At(c)] = c
    BY DEF ToSet
  <2> HIDE DEF At, path
  <2>2. path[At(c)] = <<DirName(table, cols[At(c)]), Get(row, cols[At(c)])>>
    BY <2>1, PathOfFacts DEF path
  <2> QED
    BY <2>1, <2>2
<1>2. [c \in ToSet(cols) |-> path[At(c)][2]] = [c \in ToSet(cols) |-> Get(row, c)]
  <2> HIDE DEF At, path
  <2> QED
    BY <1>1
<1>3. CASE cols # << >>
  BY <1>2, <1>3 DEF ReadAt, AsRead
<1>4. CASE cols = << >>
  <2>1. ToSet(cols) = {}
    BY <1>4 DEF ToSet
  <2>2. AsRead(table, row) = Encoded(table, row)
    BY <2>1 DEF AsRead, Overlay, Encoded
  <2> QED
    BY <1>4, <2>2 DEF ReadAt
<1> QED
  BY <1>3, <1>4
-------------------------------------------------------------------------------
(* What is read after a write. *)

LEMMA PlaceFacts ==
    ASSUME NEW table, NEW files, AreFiles(table, files)
    PROVE  /\ IsFiniteSet(Places(files))
           /\ \A path \in DOMAIN files : \A n \in 1 .. Len(files[path]) : <<path, n>> \in Places(files)
           /\ \A at \in Places(files) : /\ at = <<at[1], at[2]>>
                                        /\ at[1] \in DOMAIN files
                                        /\ at[2] \in 1 .. Len(files[at[1]])
<1> DEFINE Of(path) == {path} \X DOMAIN files[path]
           all == {Of(path) : path \in DOMAIN files}
           f == [path \in DOMAIN files |-> Of(path)]
<1>1. \A path \in DOMAIN files : IsSequence(files[path])
  BY DEF AreFiles, IsFileOf, IsSequence
<1>2. \A path \in DOMAIN files : DOMAIN files[path] = 1 .. Len(files[path]) /\ IsFiniteSet(DOMAIN files[path])
  BY <1>1, SequenceFacts
<1>3. \A path \in DOMAIN files : IsFiniteSet(Of(path))
  BY <1>2, FS_Singleton, FS_Product
<1>4. f \in Surjection(DOMAIN files, all)
  BY DEF Surjection
<1>5. IsFiniteSet(DOMAIN files)
  BY DEF AreFiles
<1>6. IsFiniteSet(all) /\ \A T \in all : IsFiniteSet(T)
  <2>1. \A T \in all : IsFiniteSet(T)
    BY <1>3
  <2> HIDE DEF f, all
  <2> QED
    BY <1>4, <1>5, <2>1, FS_Surjection
<1>7. Places(files) = UNION all
  BY DEF Places
<1>8. IsFiniteSet(Places(files))
  <2> HIDE DEF all
  <2> QED
    BY <1>6, <1>7, FS_UNION
<1> QED
  BY <1>2, <1>8 DEF Places

\* The given rows that are read as a row.
Given(table, rows, row) ==
    {i \in DOMAIN rows : ~IsBlank(table, rows[i]) /\ AsRead(table, rows[i]) = row}

\* Where a write puts a given row.
PutAt(files, table, rows, append, i) ==
    LET path == PathOf(table, rows[i])
    IN  <<path, Len(OldRows(files, path, append))
                + RankIn(NotBlank(table, rows, PartOf(table, rows, path)), i)>>

(***************************************************************************)
(* A written file: what it keeps of its rows, then the new ones.           *)
(***************************************************************************)
LEMMA WrittenFile ==
    ASSUME NEW table, IsTable(table), NEW files, AreFiles(table, files),
           NEW rows, IsSequence(rows), NEW append, NEW path \in Written(table, rows)
    PROVE  LET after == writeTable(files, table, rows, append)
               old == OldRows(files, path, append)
               nb == NotBlank(table, rows, PartOf(table, rows, path))
           IN  /\ Len(old) \in Nat /\ Cardinality(nb) \in Nat
               /\ nb \in SUBSET Nat /\ IsFiniteSet(nb)
               /\ Len(after[path]) = Len(old) + Cardinality(nb)
               /\ \A n \in 1 .. Len(old) : after[path][n] = old[n]
               /\ \A i \in nb : after[path][Len(old) + RankIn(nb, i)] = Encoded(table, rows[i])
<1> DEFINE after == writeTable(files, table, rows, append)
           old == OldRows(files, path, append)
           nb == NotBlank(table, rows, PartOf(table, rows, path))
           new == NewRows(table, rows, path)
<1>1. IsWritten(files, table, rows, append, after)
  BY WriteFacts
<1>2. after[path] = old \o new
  BY <1>1 DEF IsWritten
<1>3. /\ nb \in SUBSET Nat /\ IsFiniteSet(nb) /\ IsSequence(new) /\ Len(new) = Cardinality(nb)
      /\ \A i \in nb : new[RankIn(nb, i)] = Encoded(table, rows[i])
  <2>1. PartOf(table, rows, path) \in SUBSET DOMAIN rows
    BY DEF PartOf
  <2> QED
    BY <2>1, StoredFacts DEF NewRows
<1>4. IsSequence(old)
  <2>1. IsSequence(<< >>)
    BY DEF IsSequence, ToSet
  <2>2. path \in DOMAIN files => IsSequence(files[path])
    BY DEF AreFiles, IsFileOf, IsSequence
  <2> QED
    BY <2>1, <2>2 DEF OldRows
<1> HIDE DEF after, old, nb, new
<1>5. Len(old) \in Nat /\ Len(new) \in Nat
  BY <1>3, <1>4, SequenceFacts
<1>6. /\ Len(old \o new) = Len(old) + Len(new)
      /\ \A i \in 1 .. Len(old) : (old \o new)[i] = old[i]
      /\ \A i \in 1 .. Len(new) : (old \o new)[Len(old) + i] = new[i]
  BY <1>3, <1>4, ConcatFacts
<1>7. \A i \in nb : RankIn(nb, i) \in 1 .. Len(new)
  BY <1>3, RankType
<1>8. \A i \in nb : after[path][Len(old) + RankIn(nb, i)] = Encoded(table, rows[i])
  BY <1>2, <1>3, <1>6, <1>7
<1>9. Len(after[path]) = Len(old) + Cardinality(nb)
  BY <1>2, <1>3, <1>6
<1>10. \A n \in 1 .. Len(old) : after[path][n] = old[n]
  BY <1>2, <1>6
<1>11. Len(old) \in Nat /\ Cardinality(nb) \in Nat
  BY <1>3, <1>5
<1> QED
  BY <1>3, <1>8, <1>9, <1>10, <1>11 DEF after, old, nb

LEMMA PathOfIsWritten ==
    ASSUME NEW table, IsTable(table), NEW rows, NEW i \in DOMAIN rows
    PROVE  PathOf(table, rows[i]) \in Written(table, rows)
<1>1. table.partitionBy = << >> => PathOf(table, rows[i]) = << >>
  BY PathOfFacts
<1> QED
  BY <1>1 DEF Written

(***************************************************************************)
(* The kept files are files of the table, and a write leaves their rows    *)
(* where they are.                                                         *)
(***************************************************************************)
LEMMA KeptIsRead ==
    ASSUME NEW table, IsTable(table), NEW files, AreFiles(table, files),
           NEW rows, IsSequence(rows), NEW append
    PROVE  LET after == writeTable(files, table, rows, append)
               kept == KeptFiles(files, table, rows, append)
           IN  /\ AreFiles(table, kept)
               /\ \A at \in Places(kept) : /\ at \in Places(after)
                                           /\ RowAt(after, table, at) = RowAt(kept, table, at)
<1> DEFINE after == writeTable(files, table, rows, append)
           kept == KeptFiles(files, table, rows, append)
           written == Written(table, rows)
<1>1. IsWritten(files, table, rows, append, after) /\ AreFiles(table, after)
  BY WriteFacts, WriteKeepsFiles
<1>2. /\ DOMAIN kept \subseteq DOMAIN files
      /\ \A path \in DOMAIN kept : kept[path] = files[path]
      /\ ~append => DOMAIN kept = DOMAIN files \ written
  BY DEF KeptFiles
<1>3. AreFiles(table, kept)
  <2>1. IsFiniteSet(DOMAIN kept)
    <3> HIDE DEF kept
    <3> QED
      BY <1>2, FS_Subset DEF AreFiles
  <2> HIDE DEF kept
  <2> QED
    BY <1>2, <2>1 DEF AreFiles
<1>4. ASSUME NEW path \in DOMAIN kept, NEW n \in 1 .. Len(kept[path])
      PROVE  path \in DOMAIN after /\ n \in 1 .. Len(after[path]) /\ after[path][n] = kept[path][n]
  <2>1. path \in DOMAIN after
    BY <1>1, <1>2 DEF IsWritten
  <2>2. CASE path \in written
    <3> DEFINE nb == NotBlank(table, rows, PartOf(table, rows, path))
    <3>1. OldRows(files, path, append) = kept[path]
      BY <1>2, <2>2 DEF OldRows
    <3>2. /\ Len(kept[path]) \in Nat /\ Cardinality(nb) \in Nat
          /\ Len(after[path]) = Len(kept[path]) + Cardinality(nb)
          /\ \A m \in 1 .. Len(kept[path]) : after[path][m] = kept[path][m]
      BY <2>2, <3>1, WrittenFile
    <3> HIDE DEF after, kept, nb
    <3> QED
      BY <2>1, <3>2
  <2>3. CASE path \notin written
    <3>1. after[path] = kept[path]
      BY <1>1, <1>2, <2>3 DEF IsWritten
    <3> QED
      BY <2>1, <3>1
  <2> QED
    BY <2>2, <2>3
<1> HIDE DEF after, kept
<1>5. ASSUME NEW at \in Places(kept)
      PROVE  at \in Places(after) /\ RowAt(after, table, at) = RowAt(kept, table, at)
  <2> DEFINE path == at[1]
             n == at[2]
  <2>1. at = <<path, n>> /\ path \in DOMAIN kept /\ n \in 1 .. Len(kept[path])
    BY <1>3, PlaceFacts
  <2> HIDE DEF path, n
  <2>2. path \in DOMAIN after /\ n \in 1 .. Len(after[path]) /\ after[path][n] = kept[path][n]
    BY <1>4, <2>1
  <2>3. <<path, n>> \in Places(after)
    BY <1>1, <2>2, PlaceFacts
  <2>4. ReadRow(after, table, path, after[path][n]) = ReadRow(kept, table, path, kept[path][n])
    BY <1>1, <1>3, <2>1, <2>2, ReadRowIsLocal
  <2> QED
    BY <2>1, <2>3, <2>4 DEF RowAt
<1> QED
  BY <1>3, <1>5 DEF after, kept

LEMMA PutAtFacts ==
    ASSUME NEW table, IsTable(table), NEW files, AreFiles(table, files),
           NEW rows, IsSequence(rows), NEW append,
           NEW i \in DOMAIN rows, ~IsBlank(table, rows[i])
    PROVE  LET after == writeTable(files, table, rows, append)
               at == PutAt(files, table, rows, append, i)
           IN  /\ at \in Places(after)
               /\ at \notin Places(KeptFiles(files, table, rows, append))
               /\ RowAt(after, table, at) = AsRead(table, rows[i])
<1> DEFINE after == writeTable(files, table, rows, append)
           kept == KeptFiles(files, table, rows, append)
           path == PathOf(table, rows[i])
           old == OldRows(files, path, append)
           nb == NotBlank(table, rows, PartOf(table, rows, path))
           n == Len(old) + RankIn(nb, i)
<1>1. path \in Written(table, rows)
  BY PathOfIsWritten
<1>2. i \in nb
  BY DEF NotBlank, PartOf
<1>3. /\ Len(old) \in Nat /\ Cardinality(nb) \in Nat
      /\ nb \in SUBSET Nat /\ IsFiniteSet(nb)
      /\ Len(after[path]) = Len(old) + Cardinality(nb)
      /\ after[path][n] = Encoded(table, rows[i])
  BY <1>1, <1>2, WrittenFile
<1>4. IsWritten(files, table, rows, append, after) /\ AreFiles(table, after)
  BY WriteFacts, WriteKeepsFiles
<1>5. AreFiles(table, kept)
  BY KeptIsRead
<1>6. path \in DOMAIN after
  BY <1>1, <1>4 DEF IsWritten
<1>7. path \in DOMAIN kept => kept[path] = old
  BY <1>1 DEF KeptFiles, OldRows
<1>8. ReadRow(after, table, path, Encoded(table, rows[i])) = AsRead(table, rows[i])
  BY <1>4, <1>6, ReadRowIsLocal, WrittenRowIsRead
<1>9. PutAt(files, table, rows, append, i) = <<path, n>>
  BY DEF PutAt
<1>10. RankIn(nb, i) \in 1 .. Cardinality(nb)
  <2> HIDE DEF nb
  <2> QED
    BY <1>2, <1>3, RankType
<1> HIDE DEF after, kept, path, old, nb
<1>11. n \in 1 .. Len(after[path]) /\ n \notin 1 .. Len(old)
  BY <1>3, <1>10
<1> HIDE DEF n
<1>12. <<path, n>> \in Places(after)
  BY <1>4, <1>6, <1>11, PlaceFacts
<1>13. <<path, n>> \notin Places(kept)
  <2> SUFFICES ASSUME <<path, n>> \in Places(kept) PROVE FALSE
    OBVIOUS
  <2>1. path \in DOMAIN kept /\ n \in 1 .. Len(kept[path])
    BY <1>5, PlaceFacts
  <2> QED
    BY <2>1, <1>7, <1>11
<1>14. RowAt(after, table, <<path, n>>) = AsRead(table, rows[i])
  BY <1>3, <1>8 DEF RowAt
<1> QED
  BY <1>9, <1>12, <1>13, <1>14 DEF after, kept

LEMMA PutAtInjective ==
    ASSUME NEW table, IsTable(table), NEW files, AreFiles(table, files),
           NEW rows, IsSequence(rows), NEW append,
           NEW i \in DOMAIN rows, ~IsBlank(table, rows[i]),
           NEW j \in DOMAIN rows, ~IsBlank(table, rows[j]),
           PutAt(files, table, rows, append, i) = PutAt(files, table, rows, append, j)
    PROVE  i = j
<1> DEFINE path == PathOf(table, rows[i])
           old == OldRows(files, path, append)
           nb == NotBlank(table, rows, PartOf(table, rows, path))
<1>1. PathOf(table, rows[j]) = path
  BY DEF PutAt
<1>2. i \in nb /\ j \in nb
  BY <1>1 DEF NotBlank, PartOf
<1>3. path \in Written(table, rows)
  BY PathOfIsWritten
<1>4. Len(old) \in Nat /\ Cardinality(nb) \in Nat /\ nb \in SUBSET Nat /\ IsFiniteSet(nb)
  BY <1>3, WrittenFile
<1>5. Len(old) + RankIn(nb, i) = Len(old) + RankIn(nb, j)
  BY <1>1 DEF PutAt
<1> HIDE DEF nb, old
<1>6. RankIn(nb, i) \in Nat /\ RankIn(nb, j) \in Nat
  BY <1>2, <1>4, RankType
<1>7. RankIn(nb, i) = RankIn(nb, j)
  BY <1>4, <1>5, <1>6
<1> QED
  BY <1>2, <1>4, <1>7, RankBijection

LEMMA NewPlaceIsPut ==
    ASSUME NEW table, IsTable(table), NEW files, AreFiles(table, files),
           NEW rows, IsSequence(rows), NEW append,
           NEW at \in Places(writeTable(files, table, rows, append)),
           at \notin Places(KeptFiles(files, table, rows, append))
    PROVE  \E i \in DOMAIN rows : /\ ~IsBlank(table, rows[i])
                                  /\ at = PutAt(files, table, rows, append, i)
<1> DEFINE after == writeTable(files, table, rows, append)
           kept == KeptFiles(files, table, rows, append)
           path == at[1]
           n == at[2]
           old == OldRows(files, path, append)
           nb == NotBlank(table, rows, PartOf(table, rows, path))
<1>1. IsWritten(files, table, rows, append, after) /\ AreFiles(table, after)
  BY WriteFacts, WriteKeepsFiles
<1>2. AreFiles(table, kept)
  BY KeptIsRead
<1>3. at = <<path, n>> /\ path \in DOMAIN after /\ n \in 1 .. Len(after[path])
  BY <1>1, PlaceFacts
<1>4. path \in Written(table, rows)
  <2> SUFFICES ASSUME path \notin Written(table, rows) PROVE FALSE
    OBVIOUS
  <2>1. path \in DOMAIN files /\ after[path] = files[path]
    BY <1>1, <1>3 DEF IsWritten
  <2>2. path \in DOMAIN kept /\ kept[path] = files[path]
    BY <2>1 DEF KeptFiles
  <2> HIDE DEF path, n, kept, after
  <2>3. <<path, n>> \in Places(kept)
    BY <1>2, <1>3, <2>1, <2>2, PlaceFacts
  <2> QED
    BY <1>3, <2>3 DEF kept
<1>5. /\ Len(old) \in Nat /\ Cardinality(nb) \in Nat
      /\ nb \in SUBSET Nat /\ IsFiniteSet(nb)
      /\ Len(after[path]) = Len(old) + Cardinality(nb)
  BY <1>4, WrittenFile
<1>6. n \notin 1 .. Len(old)
  <2> SUFFICES ASSUME n \in 1 .. Len(old) PROVE FALSE
    OBVIOUS
  <2>1. Len(<< >>) = 0
    OBVIOUS
  <2>2. path \in DOMAIN kept /\ kept[path] = old
    <3>1. old # << >>
      <4> HIDE DEF old
      <4> QED
        BY <1>5, <2>1
    <3> QED
      BY <3>1 DEF KeptFiles, OldRows
  <2> HIDE DEF path, n, kept, old
  <2>3. <<path, n>> \in Places(kept)
    BY <1>2, <2>2, PlaceFacts
  <2> QED
    BY <1>3, <2>3 DEF kept
<1> HIDE DEF n, old, nb, after
<1>7. n \in Nat /\ n - Len(old) \in 1 .. Cardinality(nb)
  BY <1>3, <1>5, <1>6
<1>8. PICK i \in nb : RankIn(nb, i) = n - Len(old)
  BY <1>5, <1>7, RankBijection
<1>9. n = Len(old) + RankIn(nb, i)
  BY <1>5, <1>7, <1>8
<1>10. i \in DOMAIN rows /\ ~IsBlank(table, rows[i]) /\ PathOf(table, rows[i]) = path
  BY DEF nb, NotBlank, PartOf
<1>11. at = PutAt(files, table, rows, append, i)
  <2>1. PutAt(files, table, rows, append, i) = <<path, Len(old) + RankIn(nb, i)>>
    BY <1>10 DEF PutAt, old, nb
  <2> QED
    BY <1>3, <1>9, <2>1
<1> QED
  BY <1>10, <1>11

(***************************************************************************)
(* What is read after a write: the kept rows and the given ones.           *)
(***************************************************************************)
LEMMA ReadAfterWrite ==
    ASSUME NEW table, IsTable(table), NEW files, AreFiles(table, files),
           NEW rows, IsSequence(rows), NEW append, NEW row
    PROVE  Occurrences(writeTable(files, table, rows, append), table, row)
           = Occurrences(KeptFiles(files, table, rows, append), table, row)
             + Cardinality(Given(table, rows, row))
<1> DEFINE after == writeTable(files, table, rows, append)
           kept == KeptFiles(files, table, rows, append)
           All == {at \in Places(after) : RowAt(after, table, at) = row}
           Old == {at \in Places(kept) : RowAt(kept, table, at) = row}
           given == Given(table, rows, row)
           f == [i \in given |-> PutAt(files, table, rows, append, i)]
<1>1. AreFiles(table, after) /\ AreFiles(table, kept)
  BY WriteKeepsFiles, KeptIsRead
<1>2. IsFiniteSet(Places(after)) /\ IsFiniteSet(Places(kept))
  <2> HIDE DEF after, kept
  <2> QED
    BY <1>1, PlaceFacts
<1>3. IsFiniteSet(All) /\ IsFiniteSet(Old)
  BY <1>2, FS_Subset
<1>4. Old \subseteq All
  BY KeptIsRead
<1>5. \A i \in given : f[i] \in All \ Old
  BY PutAtFacts DEF Given
<1>6. \A i, j \in given : f[i] = f[j] => i = j
  BY PutAtInjective DEF Given
<1>7. \A at \in All \ Old : \E i \in given : f[i] = at
  <2> TAKE at \in All \ Old
  <2>1. at \in Places(after) /\ at \notin Places(kept) /\ RowAt(after, table, at) = row
    BY KeptIsRead
  <2>2. PICK i \in DOMAIN rows : /\ ~IsBlank(table, rows[i])
                                 /\ at = PutAt(files, table, rows, append, i)
    BY <2>1, NewPlaceIsPut
  <2>3. RowAt(after, table, at) = AsRead(table, rows[i])
    BY <2>2, PutAtFacts
  <2>4. i \in given
    BY <2>1, <2>2, <2>3 DEF Given
  <2> QED
    BY <2>2, <2>4
<1>8. f \in Bijection(given, All \ Old)
  BY <1>5, <1>6, <1>7 DEF Bijection, Injection, Surjection, IsInjective
<1>9. IsFiniteSet(given)
  <2>1. given \subseteq DOMAIN rows /\ IsFiniteSet(DOMAIN rows)
    BY SequenceFacts DEF Given
  <2> HIDE DEF given
  <2> QED
    BY <2>1, FS_Subset
<1> HIDE DEF All, Old, f, given
<1>10. Cardinality(given) = Cardinality(All \ Old)
  <2>1. ExistsBijection(given, All \ Old)
    BY <1>8 DEF ExistsBijection
  <2> QED
    BY <1>9, <2>1, FS_Bijection
<1>11. Cardinality(All \ Old) = Cardinality(All) - Cardinality(Old)
  <2>1. All \cap Old = Old
    BY <1>4
  <2> QED
    BY <1>3, <2>1, FS_Difference
<1>12. Cardinality(All) \in Nat /\ Cardinality(Old) \in Nat
  BY <1>3, FS_CardinalityType
<1>13. Cardinality(All) = Cardinality(Old) + Cardinality(given)
  BY <1>10, <1>11, <1>12
<1> QED
  BY <1>13 DEF Occurrences, All, Old, given

(***************************************************************************)
(* Read again, a table has after an INSERT what the files it keeps had,    *)
(* and every row given that is no blank line, with its partition values    *)
(* (table.go writeTable, rowiter.go fileRowIter.Next).                     *)
(***************************************************************************)
THEOREM InsertCorrect == ASSUME ResultsAreRows PROVE Spec => InsertIsRead
<1> DEFINE key == ToLower(last'.stmt.table)
           Read == ReadAgain(store[key], store'[key], catalog[key], last'.rows, last'.stmt.append)
           Step == last'.kind = "insert" /\ last'.err = NoError => Read
<1>1. IInv /\ [Next]_vars => IInv'
  BY IInvStep
<1>2. ASSUME IInv, NEW ins \in Inserts, Insert(ins), last'.err = NoError
      PROVE  Read
  <2> DEFINE k == ToLower(ins.table)
             table == catalog[k]
             after == writeTable(store[k], table, last'.rows, ins.append)
             kept == KeptFiles(store[k], table, last'.rows, ins.append)
  <2>1. /\ IsTable(table) /\ AreFiles(table, store[k])
        /\ last'.stmt = ins /\ IsSequence(last'.rows)
        /\ store'[k] = after
    BY <1>2, InsertWrites
  <2>2. \A row : Occurrences(after, table, row)
                 = Occurrences(kept, table, row) + Cardinality(Given(table, last'.rows, row))
    BY <2>1, ReadAfterWrite
  <2>3. ReadAgain(store[k], store'[k], table, last'.rows, ins.append)
    BY <2>1, <2>2 DEF ReadAgain, Given
  <2> QED
    BY <2>1, <2>3
<1>3. ASSUME IInv, Next, last'.kind = "insert", last'.err = NoError
      PROVE  Read
  <2>1. PICK ins \in Inserts : Insert(ins)
    BY <1>3, CreateOutcome, QueryOutcome DEF Next
  <2> HIDE DEF Read
  <2> QED
    BY <1>2, <1>3, <2>1
<1> QED
  BY <1>1, <1>3, IInvInit, PTL DEF Spec, InsertIsRead
-------------------------------------------------------------------------------
(* Scans. *)

LEMMA Least ==
    ASSUME NEW T \in SUBSET Nat, T # {}
    PROVE  \E x \in T : \A y \in T : ~(y < x)
<1>1. IsWellFoundedOn(OpToRel(<, Nat), Nat)
  BY NatLessThanWellFounded
<1>2. PICK x \in T : \A y \in T : ~(<<y, x>> \in OpToRel(<, Nat))
  BY <1>1, WFMin
<1>3. \A y \in T : y < x => <<y, x>> \in OpToRel(<, Nat)
  BY DEF OpToRel
<1> QED
  BY <1>2, <1>3

\* f holds the concatenations of the first n of some sequences.
Flattens(f, seqs, n) ==
    f = [i \in 1 .. n |-> IF i = 1 THEN seqs[i] ELSE f[i - 1] \o seqs[i]]

LEMMA FlattensExists ==
    ASSUME NEW seqs, NEW n \in Nat
    PROVE  \E f : Flattens(f, seqs, n)
<1> DEFINE bad == {m \in Nat : ~\E f : Flattens(f, seqs, m)}
<1> SUFFICES ASSUME bad # {} PROVE FALSE
  OBVIOUS
<1>1. PICK m \in bad : \A y \in bad : ~(y < m)
  BY Least
<1>2. m \in Nat /\ ~\E f : Flattens(f, seqs, m)
  OBVIOUS
<1>3. m # 0
  <2>1. Flattens([i \in 1 .. 0 |-> i], seqs, 0)
    BY DEF Flattens
  <2> QED
    BY <1>2, <2>1
<1>4. m - 1 \in Nat /\ m - 1 \notin bad
  BY <1>1, <1>2, <1>3
<1>5. PICK g : Flattens(g, seqs, m - 1)
  BY <1>4
<1> DEFINE f == [i \in 1 .. m |-> IF i < m THEN g[i] ELSE IF i = 1 THEN seqs[i] ELSE g[i - 1] \o seqs[i]]
<1>6. ASSUME NEW i \in 1 .. m
      PROVE  f[i] = IF i = 1 THEN seqs[i] ELSE f[i - 1] \o seqs[i]
  <2>1. CASE i < m
    <3>1. i \in 1 .. m - 1 /\ i \in Nat
      BY <1>2, <2>1
    <3>2. g[i] = IF i = 1 THEN seqs[i] ELSE g[i - 1] \o seqs[i]
      BY <1>5, <3>1 DEF Flattens
    <3>3. i # 1 => i - 1 \in 1 .. m /\ i - 1 < m
      BY <1>2, <3>1
    <3> QED
      BY <2>1, <3>2, <3>3
  <2>2. CASE i = m
    <3>1. i # 1 => i - 1 \in 1 .. m /\ i - 1 < m
      BY <1>2, <2>2
    <3> QED
      BY <1>2, <2>2, <3>1
  <2> QED
    BY <1>2, <2>1, <2>2
<1>7. Flattens(f, seqs, m)
  <2>1. f = [i \in 1 .. m |-> f[i]]
    OBVIOUS
  <2> HIDE DEF f
  <2>2. [i \in 1 .. m |-> f[i]] = [i \in 1 .. m |-> IF i = 1 THEN seqs[i] ELSE f[i - 1] \o seqs[i]]
    BY <1>6
  <2> QED
    BY <2>1, <2>2 DEF Flattens
<1> QED
  BY <1>2, <1>7

\* How often a value occurs in a sequence.
Count(s, v) == Cardinality({i \in DOMAIN s : s[i] = v})

LEMMA CountConcat ==
    ASSUME NEW s, NEW t, IsSequence(s), IsSequence(t), NEW v
    PROVE  Count(s \o t, v) = Count(s, v) + Count(t, v)
<1> DEFINE u == s \o t
           All == {i \in DOMAIN u : u[i] = v}
           Old == {i \in DOMAIN s : s[i] = v}
           New == {i \in DOMAIN t : t[i] = v}
           f == [i \in New |-> Len(s) + i]
<1>1. /\ IsSequence(u) /\ Len(u) = Len(s) + Len(t)
      /\ \A i \in 1 .. Len(s) : u[i] = s[i]
      /\ \A i \in 1 .. Len(t) : u[Len(s) + i] = t[i]
  BY ConcatFacts
<1> HIDE DEF u
<1>2. /\ DOMAIN s = 1 .. Len(s) /\ DOMAIN t = 1 .. Len(t) /\ DOMAIN u = 1 .. Len(u)
      /\ Len(s) \in Nat /\ Len(t) \in Nat /\ Len(u) \in Nat
      /\ IsFiniteSet(DOMAIN s) /\ IsFiniteSet(DOMAIN t) /\ IsFiniteSet(DOMAIN u)
  BY <1>1, SequenceFacts
<1>3. Old \subseteq All
  BY <1>1, <1>2
<1>4. f \in Bijection(New, All \ Old)
  <2>1. \A i \in New : f[i] \in All \ Old
    BY <1>1, <1>2
  <2>2. \A i, j \in New : f[i] = f[j] => i = j
    BY <1>2
  <2>3. \A k \in All \ Old : \E i \in New : f[i] = k
    <3> TAKE k \in All \ Old
    <3>1. k \in 1 .. Len(u) /\ k \notin 1 .. Len(s)
      BY <1>1, <1>2
    <3>2. k - Len(s) \in 1 .. Len(t) /\ Len(s) + (k - Len(s)) = k
      BY <1>1, <1>2, <3>1
    <3>3. k - Len(s) \in New
      BY <1>1, <1>2, <3>2
    <3> QED
      BY <3>2, <3>3
  <2> QED
    BY <2>1, <2>2, <2>3 DEF Bijection, Injection, Surjection, IsInjective
<1>5. IsFiniteSet(All) /\ IsFiniteSet(Old) /\ IsFiniteSet(New)
  BY <1>2, FS_Subset
<1> HIDE DEF All, Old, New, f
<1>6. Cardinality(New) = Cardinality(All \ Old)
  <2>1. ExistsBijection(New, All \ Old)
    BY <1>4 DEF ExistsBijection
  <2> QED
    BY <1>5, <2>1, FS_Bijection
<1>7. Cardinality(All \ Old) = Cardinality(All) - Cardinality(Old)
  <2>1. All \cap Old = Old
    BY <1>3
  <2> QED
    BY <1>5, <2>1, FS_Difference
<1>8. Cardinality(All) \in Nat /\ Cardinality(Old) \in Nat
  BY <1>5, FS_CardinalityType
<1>9. Cardinality(All) = Cardinality(Old) + Cardinality(New)
  BY <1>6, <1>7, <1>8
<1> QED
  BY <1>9 DEF Count, All, Old, New, u

\* The places of a row in some of the files.
RowIn(files, table, paths, row) ==
    {at \in Places(files) : at[1] \in paths /\ RowAt(files, table, at) = row}

LEMMA RowInIsFinite ==
    ASSUME NEW table, NEW files, AreFiles(table, files), NEW paths, NEW row
    PROVE  IsFiniteSet(RowIn(files, table, paths, row))
<1>1. IsFiniteSet(Places(files))
  BY PlaceFacts
<1> QED
  BY <1>1, FS_Subset DEF RowIn

LEMMA ReadFileFacts ==
    ASSUME NEW table, NEW files, AreFiles(table, files), NEW path \in DOMAIN files
    PROVE  /\ IsSequence(ReadFile(files, table, path))
           /\ DOMAIN ReadFile(files, table, path) = 1 .. Len(files[path])
           /\ \A k \in 1 .. Len(files[path]) :
                 ReadFile(files, table, path)[k] = RowAt(files, table, <<path, k>>)
<1> DEFINE s == ReadFile(files, table, path)
<1>1. DOMAIN files[path] = 1 .. Len(files[path]) /\ Len(files[path]) \in Nat
  BY SequenceFacts DEF AreFiles, IsFileOf, IsSequence
<1>2. s = [k \in 1 .. Len(files[path]) |-> ReadRow(files, table, path, files[path][k])]
  BY <1>1 DEF ReadFile, MapRows
<1> HIDE DEF s
<1>3. DOMAIN s = 1 .. Len(files[path]) /\ s = [k \in 1 .. Len(files[path]) |-> s[k]]
  BY <1>2
<1>4. IsSequence(s)
  BY <1>1, <1>3, FunctionIsSequence
<1>5. \A k \in 1 .. Len(files[path]) : s[k] = RowAt(files, table, <<path, k>>)
  BY <1>2 DEF RowAt
<1> QED
  BY <1>3, <1>4, <1>5 DEF s

(***************************************************************************)
(* One file more: the rows of that file more.                              *)
(***************************************************************************)
LEMMA ReadOneMore ==
    ASSUME NEW table, NEW files, AreFiles(table, files), NEW row,
           NEW paths, NEW path \in DOMAIN files, path \notin paths
    PROVE  Cardinality(RowIn(files, table, paths \cup {path}, row))
           = Cardinality(RowIn(files, table, paths, row)) + Count(ReadFile(files, table, path), row)
<1> DEFINE s == ReadFile(files, table, path)
           All == RowIn(files, table, paths \cup {path}, row)
           Old == RowIn(files, table, paths, row)
           New == {k \in DOMAIN s : s[k] = row}
           f == [k \in New |-> <<path, k>>]
<1>1. /\ IsSequence(s) /\ DOMAIN s = 1 .. Len(files[path])
      /\ \A k \in 1 .. Len(files[path]) : s[k] = RowAt(files, table, <<path, k>>)
  BY ReadFileFacts
<1> HIDE DEF s
<1>2. IsFiniteSet(All) /\ IsFiniteSet(Old)
  BY RowInIsFinite
<1>3. IsFiniteSet(New)
  <2>1. IsFiniteSet(DOMAIN s)
    BY <1>1, SequenceFacts
  <2> QED
    BY <2>1, FS_Subset
<1>4. Old \subseteq All
  BY DEF RowIn
<1>5. \A k \in New : f[k] \in All \ Old
  <2> TAKE k \in New
  <2>1. k \in 1 .. Len(files[path]) /\ RowAt(files, table, <<path, k>>) = row
    BY <1>1
  <2>2. <<path, k>> \in Places(files)
    BY <2>1, PlaceFacts
  <2> QED
    BY <2>1, <2>2 DEF RowIn
<1>6. \A k \in New : \A m \in New : f[k] = f[m] => k = m
  OBVIOUS
<1>7. \A at \in All \ Old : \E k \in New : f[k] = at
  <2> TAKE at \in All \ Old
  <2>1. at \in Places(files) /\ at[1] = path /\ RowAt(files, table, at) = row
    BY DEF RowIn
  <2>2. at = <<path, at[2]>> /\ at[2] \in 1 .. Len(files[path])
    BY <2>1, PlaceFacts
  <2>3. at[2] \in New
    BY <1>1, <2>1, <2>2
  <2> QED
    BY <2>2, <2>3
<1>8. f \in Bijection(New, All \ Old)
  <2> HIDE DEF All, Old, New
  <2> QED
    BY <1>5, <1>6, <1>7 DEF Bijection, Injection, Surjection, IsInjective
<1> HIDE DEF All, Old, New, f
<1>9. Cardinality(New) = Cardinality(All \ Old)
  <2>1. ExistsBijection(New, All \ Old)
    BY <1>8 DEF ExistsBijection
  <2> QED
    BY <1>3, <2>1, FS_Bijection
<1>10. Cardinality(All \ Old) = Cardinality(All) - Cardinality(Old)
  <2>1. All \cap Old = Old
    BY <1>4
  <2>2. Cardinality(All \ Old) = Cardinality(All) - Cardinality(All \cap Old)
    BY <1>2, FS_Difference, Zenon
  <2> QED
    BY <2>1, <2>2
<1>11. Cardinality(All) \in Nat /\ Cardinality(Old) \in Nat
  BY <1>2, FS_CardinalityType
<1>12. Cardinality(All) = Cardinality(Old) + Cardinality(New)
  BY <1>9, <1>10, <1>11
<1> QED
  BY <1>12 DEF Count, All, Old, New, s

(***************************************************************************)
(* Reading some files, each once, returns their rows.                      *)
(***************************************************************************)
LEMMA ReadFilesFacts ==
    ASSUME NEW table, NEW files, AreFiles(table, files), NEW row,
           NEW set \in SUBSET DOMAIN files, NEW paths, Lists(paths, set)
    PROVE  Count(ReadFiles(files, table, paths), row) = Cardinality(RowIn(files, table, set, row))
<1> DEFINE seqs == [i \in DOMAIN paths |-> ReadFile(files, table, paths[i])]
           upTo(n) == {paths[i] : i \in 1 .. n}
           total == Len(paths)
<1>1. /\ total \in Nat /\ DOMAIN paths = 1 .. total
      /\ \A i \in 1 .. total : paths[i] \in DOMAIN files
      /\ \A i, j \in 1 .. total : paths[i] = paths[j] => i = j
      /\ upTo(total) = set
  BY DEF Lists, ToSet
<1>2. /\ DOMAIN seqs = 1 .. total /\ Len(seqs) = total
      /\ seqs = [i \in 1 .. total |-> seqs[i]]
      /\ \A i \in 1 .. total : IsSequence(seqs[i]) /\ seqs[i] = ReadFile(files, table, paths[i])
  <2>1. \A i \in 1 .. total : IsSequence(ReadFile(files, table, paths[i]))
    BY <1>1, ReadFileFacts
  <2>2. DOMAIN seqs = 1 .. total /\ seqs = [i \in 1 .. total |-> seqs[i]]
    BY <1>1
  <2>3. \A i \in 1 .. total : seqs[i] = ReadFile(files, table, paths[i])
    BY <1>1
  <2> HIDE DEF seqs, total
  <2>4. Len(seqs) = total
    BY <1>1, <2>2, FunctionIsSequence
  <2> QED
    BY <2>1, <2>2, <2>3, <2>4
<1> HIDE DEF seqs, total
<1>3. ReadFiles(files, table, paths) = FlattenSeq(seqs)
  BY DEF ReadFiles, seqs
<1>4. CASE total = 0
  <2>1. seqs = << >>
    <3>1. IsSequence(seqs)
      BY <1>1, <1>2, FunctionIsSequence
    <3> QED
      BY <1>2, <1>4, <3>1 DEF IsSequence
  <2>2. FlattenSeq(seqs) = << >>
    BY <1>2, <1>4, <2>1 DEF FlattenSeq
  <2>3. {i \in DOMAIN << >> : << >>[i] = row} = {}
    OBVIOUS
  <2>4. RowIn(files, table, set, row) = {}
    BY <1>1, <1>4 DEF RowIn
  <2> QED
    BY <1>3, <2>2, <2>3, <2>4, FS_EmptySet DEF Count
<1>5. CASE total # 0
  <2> DEFINE flat == CHOOSE f : Flattens(f, seqs, total)
  <2>1. Flattens(flat, seqs, total)
    <3>1. \E f : Flattens(f, seqs, total)
      BY <1>1, FlattensExists
    <3> QED
      BY <3>1
  <2>2. FlattenSeq(seqs) = flat[total]
    BY <1>2, <1>5 DEF FlattenSeq, Flattens
  <2> HIDE DEF flat
  <2> DEFINE Good(n) == /\ IsSequence(flat[n])
                        /\ Count(flat[n], row) = Cardinality(RowIn(files, table, upTo(n), row))
             bad == {n \in 1 .. total : ~Good(n)}
  <2>3. bad = {}
    <3> SUFFICES ASSUME bad # {} PROVE FALSE
      OBVIOUS
    <3>1. PICK n \in bad : \A m \in bad : ~(m < n)
      <4>1. bad \in SUBSET Nat
        BY <1>1
      <4> QED
        BY <4>1, Least
    <3>2. n \in 1 .. total /\ n \in Nat /\ ~Good(n)
      BY <1>1
    <3> DEFINE path == paths[n]
               before == upTo(n - 1)
    <3>3. upTo(n) = before \cup {path} /\ path \notin before /\ path \in DOMAIN files
      <4>1. 1 .. n = (1 .. n - 1) \cup {n} /\ n \notin 1 .. n - 1
        BY <3>2
      <4>2. \A i \in 1 .. n - 1 : i \in 1 .. total
        BY <1>1, <3>2
      <4> QED
        BY <1>1, <3>2, <4>1, <4>2
    <3>4. /\ IsSequence(seqs[n]) /\ seqs[n] = ReadFile(files, table, path)
          /\ flat[n] = IF n = 1 THEN seqs[n] ELSE flat[n - 1] \o seqs[n]
      BY <1>2, <2>1, <3>2 DEF Flattens
    <3> HIDE DEF path, before
    <3>5. Cardinality(RowIn(files, table, upTo(n), row))
          = Cardinality(RowIn(files, table, before, row)) + Count(seqs[n], row)
      BY <3>3, <3>4, ReadOneMore
    <3>6. Count(seqs[n], row) \in Nat
      <4>1. IsFiniteSet(DOMAIN seqs[n])
        BY <3>4, SequenceFacts
      <4>2. IsFiniteSet({i \in DOMAIN seqs[n] : seqs[n][i] = row})
        BY <4>1, FS_Subset
      <4> QED
        BY <4>2, FS_CardinalityType DEF Count
    <3>7. CASE n = 1
      <4>1. before = {}
        BY <3>7 DEF before
      <4>2. RowIn(files, table, before, row) = {}
        BY <4>1 DEF RowIn
      <4>3. Cardinality(RowIn(files, table, before, row)) = 0
        BY <4>2, FS_EmptySet
      <4> QED
        BY <3>2, <3>4, <3>5, <3>6, <3>7, <4>3
    <3>8. CASE n # 1
      <4>1. n - 1 \in 1 .. total /\ n - 1 < n
        BY <1>1, <3>2, <3>8
      <4>2. Good(n - 1)
        BY <3>1, <4>1
      <4>3. Count(flat[n - 1] \o seqs[n], row) = Count(flat[n - 1], row) + Count(seqs[n], row)
        BY <3>4, <4>2, CountConcat
      <4>4. IsSequence(flat[n - 1] \o seqs[n])
        BY <3>4, <4>2, ConcatFacts
      <4> QED
        BY <3>2, <3>4, <3>5, <3>8, <4>2, <4>3, <4>4 DEF before
    <3> QED
      BY <3>7, <3>8
  <2>4. Good(total)
    <3>1. total \in 1 .. total
      BY <1>1, <1>5
    <3> HIDE DEF Good
    <3> QED
      BY <2>3, <3>1
  <2> QED
    BY <1>1, <1>3, <2>2, <2>4
<1> QED
  BY <1>4, <1>5

(***************************************************************************)
(* The directories of a file match exactly if its rows pass.               *)
(***************************************************************************)
LEMMA MatchingIsPassing ==
    ASSUME NEW table, IsTable(table), NEW files, AreFiles(table, files), NEW filters,
           NEW path \in DOMAIN files, NEW row
    PROVE  path \in FilesToRead(files, table, filters)
           <=> Passes(table, filters, ReadAt(table, path, row))
<1> DEFINE cols == table.partitionBy
           bare == UsesBare(files, table)
           At(c) == CHOOSE i \in DOMAIN cols : cols[i] = c
           Conds(col) == {filters[i] : i \in {i \in DOMAIN filters : filters[i].col = col}}
           read == ReadAt(table, path, row)
<1>1. /\ IsSequence(path) /\ Len(path) = Len(cols) /\ DOMAIN path = DOMAIN cols
      /\ \A i \in DOMAIN cols : path[i][1] = DirName(table, cols[i])
      /\ LevelsAgree(table, path)
  <2>1. IsSequence(path) /\ Len(path) = Len(cols) /\ LevelsAgree(table, path)
    BY DEF AreFiles, IsFileOf, IsSequence
  <2>2. DOMAIN path = DOMAIN cols
    BY <2>1, SequenceFacts DEF IsTable
  <2> QED
    BY <2>1, <2>2 DEF AreFiles, IsFileOf
<1>2. CASE cols = << >>
  <2>1. path = << >>
    BY <1>1, <1>2, SequenceFacts DEF IsSequence
  <2>2. path \in FilesToRead(files, table, filters)
    BY <1>2, <2>1 DEF FilesToRead
  <2>3. ToSet(cols) = {}
    BY <1>2 DEF ToSet
  <2>4. Passes(table, filters, read)
    BY <2>3 DEF Passes
  <2> QED
    BY <2>2, <2>4
<1>3. CASE cols # << >>
  <2>1. ASSUME NEW i \in DOMAIN cols
        PROVE  /\ IsLevel(path[i], cols[i], bare)
               /\ LeafValue(path[i], bare) = path[i][2]
    <3>1. path[i][1] = DirName(table, cols[i])
      BY <1>1
    <3>2. bare <=> table.bare
      BY UsesBareIsOption
    <3> HIDE DEF bare
    <3> QED
      BY <3>1, <3>2 DEF IsLevel, LeafValue, DirName
  <2>2. path \in FilesToRead(files, table, filters)
        <=> \A i \in DOMAIN cols : matchPartitionValue(path[i][2], Conds(cols[i]))
    <3> HIDE DEF bare, Conds
    <3>1. FilesToRead(files, table, filters)
          = {p \in DOMAIN files :
                /\ Len(p) = Len(cols)
                /\ \A i \in DOMAIN cols :
                      /\ IsLevel(p[i], cols[i], bare)
                      /\ matchPartitionValue(LeafValue(p[i], bare), Conds(cols[i]))}
      BY <1>3 DEF FilesToRead, MatchingPaths, bare, Conds
    <3> QED
      BY <1>1, <2>1, <3>1
  <2>3. ASSUME NEW i \in DOMAIN cols
        PROVE  cols[i] \in ToSet(cols) /\ read[cols[i]] = path[i][2]
    <3>1. cols[i] \in ToSet(cols)
      BY DEF ToSet
    <3>2. At(cols[i]) \in DOMAIN cols /\ cols[At(cols[i])] = cols[i]
      OBVIOUS
    <3>3. read = Overlay([c \in ToSet(cols) |-> path[At(c)][2]], row)
      BY <1>3 DEF ReadAt
    <3> HIDE DEF At, read
    <3>4. read[cols[i]] = path[At(cols[i])][2]
      BY <3>1, <3>3 DEF Overlay
    <3>5. path[At(cols[i])][2] = path[i][2]
      BY <1>1, <3>2 DEF LevelsAgree
    <3> QED
      BY <3>1, <3>4, <3>5
  <2> HIDE DEF read
  <2>4. (\A i \in DOMAIN cols : matchPartitionValue(path[i][2], Conds(cols[i])))
        => Passes(table, filters, read)
    <3> SUFFICES ASSUME \A i \in DOMAIN cols : matchPartitionValue(path[i][2], Conds(cols[i])),
                        NEW k \in DOMAIN filters, filters[k].col \in ToSet(cols)
                 PROVE  MatchesOne(read[filters[k].col], filters[k])
      BY DEF Passes
    <3>1. PICK i \in DOMAIN cols : cols[i] = filters[k].col
      BY DEF ToSet
    <3>2. filters[k] \in Conds(cols[i])
      BY <3>1
    <3>3. MatchesOne(path[i][2], filters[k])
      BY <3>2 DEF matchPartitionValue
    <3> QED
      BY <2>3, <3>1, <3>3
  <2>5. Passes(table, filters, read)
        => \A i \in DOMAIN cols : matchPartitionValue(path[i][2], Conds(cols[i]))
    <3> SUFFICES ASSUME Passes(table, filters, read), NEW i \in DOMAIN cols,
                        NEW cond \in Conds(cols[i])
                 PROVE  MatchesOne(path[i][2], cond)
      BY DEF matchPartitionValue
    <3>1. PICK k \in DOMAIN filters : filters[k].col = cols[i] /\ cond = filters[k]
      OBVIOUS
    <3>2. MatchesOne(read[filters[k].col], filters[k])
      BY <2>3, <3>1 DEF Passes
    <3> QED
      BY <2>3, <3>1, <3>2
  <2> DEFINE matches == \A i \in DOMAIN cols : matchPartitionValue(path[i][2], Conds(cols[i]))
  <2>6. path \in FilesToRead(files, table, filters) <=> matches
    BY <2>2
  <2>7. Passes(table, filters, read) <=> matches
    BY <2>4, <2>5
  <2> HIDE DEF matches
  <2> QED
    BY <2>6, <2>7 DEF read
<1> QED
  BY <1>2, <1>3

LEMMA ScanFacts ==
    ASSUME NEW table, IsTable(table), NEW files, AreFiles(table, files), NEW filters,
           NEW paths, Lists(paths, FilesToRead(files, table, filters))
    PROVE  ScanIsExact(files, table, filters, paths)
<1> DEFINE set == FilesToRead(files, table, filters)
           scanned == ReadFiles(files, table, paths)
<1> SUFFICES ASSUME NEW row
             PROVE  Cardinality({i \in DOMAIN scanned : scanned[i] = row}) =
                    IF Passes(table, filters, row) THEN Occurrences(files, table, row) ELSE 0
  BY DEF ScanIsExact
<1>1. set \in SUBSET DOMAIN files
  BY DEF FilesToRead, MatchingPaths
<1>2. Count(scanned, row) = Cardinality(RowIn(files, table, set, row))
  BY <1>1, ReadFilesFacts
<1>3. ASSUME NEW at \in Places(files), RowAt(files, table, at) = row
      PROVE  at[1] \in set <=> Passes(table, filters, row)
  <2>1. at[1] \in DOMAIN files
    BY PlaceFacts
  <2>2. RowAt(files, table, at) = ReadAt(table, at[1], files[at[1]][at[2]])
    BY <2>1, ReadRowIsLocal DEF RowAt
  <2> HIDE DEF set
  <2> QED
    BY <1>3, <2>1, <2>2, MatchingIsPassing DEF set
<1> HIDE DEF set
<1>4. CASE Passes(table, filters, row)
  <2>1. RowIn(files, table, set, row) = {at \in Places(files) : RowAt(files, table, at) = row}
    BY <1>3, <1>4 DEF RowIn
  <2> QED
    BY <1>2, <1>4, <2>1 DEF Count, Occurrences
<1>5. CASE ~Passes(table, filters, row)
  <2>1. RowIn(files, table, set, row) = {}
    BY <1>3, <1>5 DEF RowIn
  <2> QED
    BY <1>2, <1>5, <2>1, FS_EmptySet DEF Count
<1> QED
  BY <1>4, <1>5

(***************************************************************************)
(* Of a table's rows a scan returns those that pass its partition filters, *)
(* each as often as it is there, and no other: no directory is passed over *)
(* wrongly (table.go resolvePartitionPaths, rowiter.go).                   *)
(***************************************************************************)
THEOREM ScanCorrect == ASSUME ResultsAreRows PROVE Spec => []ScansAreExact
<1>1. IInv => ScansAreExact
  BY ScanFacts DEF IInv, ScansAreExact
<1>2. IInv /\ [Next]_vars => IInv'
  BY IInvStep
<1> QED
  BY <1>1, <1>2, IInvInit, PTL DEF Spec

===============================================================================
