----------------------------- MODULE ScanIterProofs -----------------------------
(***************************************************************************)
(* For any files, limits and callers: a scan returns the kept rows in      *)
(* their order, all of them before its end, reads no further than its      *)
(* limit and leaves nothing open.                                          *)
(***************************************************************************)
EXTENDS ScanIter, FiniteSetTheorems, TLAPS

FileSet == [rows : Seq(BOOLEAN), fault : {"none", "open", "decoder", "row"}]
Handle == [file : Nat, read : Nat, open : BOOLEAN]

Typed ==
    /\ TypeOK
    /\ handles \in Seq(Handle) /\ rows \in Seq(Nat \X Nat)

\* Where the files are: the decoder reads file idx, and the files before it,
\* and it once its end was read, had no fault.
PlaceInv ==
    /\ decoder # 0 => decoder = Len(handles)
    /\ decoder # 0 \/ pc \in {"decode", "reading"} => Reading.file = idx
    /\ decoder # 0 \/ pc = "reading" => scan.files[idx].fault \in {"none", "row"}
    /\ pc \in {"open", "decode", "opened", "reading", "eof", "eoffile"} => idx <= NumFiles
    /\ pc \in {"open", "decode", "eoffile"} => decoder = 0
    /\ pc \in {"decode", "opened", "reading"} => Len(handles) > 0
    /\ pc = "decode" => Reading.read = 0 /\ scan.files[idx].fault # "open"
    /\ pc \in {"reading", "eof"} => decoder # 0 \/ closed
    /\ \A f \in 1 .. NumFiles : f < idx => scan.files[f].fault = "none"
    /\ pc \in {"eof", "eoffile"} => scan.files[idx].fault = "none"

CloseInv ==
    /\ pc \notin {"close", "done"} => outcome = "none"
    /\ cpc # "idle" => closed
    /\ ~scan.shared => cpc = "idle" /\ (closed => pc = "done")

InNext == {"enter", "loop", "open", "decode", "opened", "read", "reading", "eof", "eoffile"}

LimitInv ==
    /\ rest = scan.limit - Len(rows)
    /\ scan.limit >= 0 => rest >= 0
    /\ scan.limit >= 0 /\ pc \in InNext => rest > 0
    /\ LimitStopsReading

\* How far the scan has read.
ReachedFile == IF pc \in {"eof", "eoffile"} THEN idx + 1 ELSE idx
ReachedRow == IF pc = "reading" \/ (decoder # 0 /\ pc \notin {"eof", "eoffile"})
              THEN Reading.read ELSE 0
Past(k, f, r) == k[1] < f \/ (k[1] = f /\ k[2] <= r)

\* The rows returned are kept rows, all those passed and, before Close, no other.
Delivered == {rows[q] : q \in DOMAIN rows}

OrderInv ==
    /\ Delivered \subseteq Kept
    /\ \A k \in Kept : Past(k, ReachedFile, ReachedRow) => k \in Delivered
    /\ ~closed => \A k \in Delivered : Past(k, ReachedFile, ReachedRow)
    /\ ScanOrder

\* What is open, where Close is not called by another goroutine.
OpenInv ==
    ~scan.shared =>
        /\ pc \in {"decode", "opened"} => file = 0 /\ Open = {Len(handles)}
        /\ pc = "opened" => decoder = Len(handles)
        /\ pc \notin {"decode", "opened"} => Open = {file} \ {0}
        /\ pc \notin {"opened", "eoffile"} => decoder = file
        /\ pc \in {"new", "done"} => ~storeOpen /\ file = 0

IInv == Typed /\ PlaceInv /\ CloseInv /\ LimitInv /\ OrderInv /\ OpenInv /\ EndIsComplete

---------------------------------------------------------------------------
(* Scans, handles and kept rows.                                           *)

LEMMA ScanTyped ==
  ASSUME Typed
  PROVE  /\ scan.limit \in Int /\ scan.shared \in BOOLEAN /\ NumFiles \in Nat
         /\ \A f \in 1 .. NumFiles : /\ scan.files[f].rows \in Seq(BOOLEAN)
                                     /\ scan.files[f].fault \in {"none", "open", "decoder", "row"}
<1>1. scan.files \in Seq(FileSet) /\ scan.limit \in Int /\ scan.shared \in BOOLEAN
  BY ScanAssumption DEF Typed, TypeOK, FileSet
<1>2. \A f \in 1 .. NumFiles : scan.files[f] \in FileSet
  BY <1>1 DEF NumFiles
<1> QED BY <1>1, <1>2 DEF NumFiles, FileSet

LEMMA HandleTyped ==
  ASSUME Typed, NEW h \in DOMAIN handles
  PROVE  /\ handles[h] \in Handle /\ handles[h].file \in 1 .. NumFiles
         /\ handles[h].read \in 0 .. Len(scan.files[handles[h].file].rows)
BY DEF Typed, TypeOK

LEMMA KeptIs ==
  ASSUME Typed, NEW k
  PROVE  k \in Kept <=> /\ k = <<k[1], k[2]>> /\ k[1] \in 1 .. NumFiles
                        /\ k[2] \in 1 .. Len(scan.files[k[1]].rows)
                        /\ scan.files[k[1]].rows[k[2]]
<1>1. \A f \in 1 .. NumFiles : DOMAIN scan.files[f].rows = 1 .. Len(scan.files[f].rows)
  BY ScanTyped
<1> QED BY <1>1 DEF Kept, KeptIn

\* Closing a handle changes nothing else.
LEMMA CloseHandleTyped ==
  ASSUME Typed, NEW h \in DOMAIN handles
  PROVE  /\ CloseHandle(h) \in Seq(Handle) /\ DOMAIN CloseHandle(h) = DOMAIN handles
         /\ Len(CloseHandle(h)) = Len(handles)
         /\ \A g \in DOMAIN handles : /\ CloseHandle(h)[g].file = handles[g].file
                                      /\ CloseHandle(h)[g].read = handles[g].read
                                      /\ CloseHandle(h)[g].open = (handles[g].open /\ g # h)
<1>1. handles \in Seq(Handle) /\ h \in DOMAIN handles
  BY DEF Typed
<1>2. \A g \in DOMAIN handles : handles[g] \in Handle
  BY <1>1
<1> DEFINE c == [handles[h] EXCEPT !.open = FALSE]
<1>3. /\ c \in Handle /\ c.open = FALSE
      /\ c.file = handles[h].file /\ c.read = handles[h].read
  BY <1>1, <1>2 DEF Handle
<1>4. CloseHandle(h) = [handles EXCEPT ![h] = c]
  BY DEF CloseHandle
<1> HIDE DEF c
<1>5. /\ CloseHandle(h) \in Seq(Handle) /\ DOMAIN CloseHandle(h) = DOMAIN handles
      /\ Len(CloseHandle(h)) = Len(handles)
  BY <1>1, <1>3, <1>4
<1>6. \A g \in DOMAIN handles : CloseHandle(h)[g] = IF g = h THEN c ELSE handles[g]
  BY <1>1, <1>4
<1>7. ASSUME NEW g \in DOMAIN handles
      PROVE  /\ CloseHandle(h)[g].file = handles[g].file
             /\ CloseHandle(h)[g].read = handles[g].read
             /\ CloseHandle(h)[g].open = (handles[g].open /\ g # h)
  <2>1. CASE g = h
    BY <1>3, <1>6, <2>1, Zenon
  <2>2. CASE g # h
    <3>1. CloseHandle(h)[g] = handles[g]
      BY <1>6, <2>2
    <3>2. handles[g].open \in BOOLEAN
      BY <1>2 DEF Handle
    <3> QED BY <2>2, <3>1, <3>2, Zenon
  <2> QED BY <2>1, <2>2
<1> QED BY <1>5, <1>7

\* What a step that opens no file does to the handles.
SameFiles ==
    /\ handles' \in Seq(Handle) /\ DOMAIN handles' = DOMAIN handles
    /\ Len(handles') = Len(handles)
    /\ \A h \in DOMAIN handles : handles'[h].file = handles[h].file

LEMMA CloseOne ==
  ASSUME Typed, NEW h \in DOMAIN handles, handles' = CloseHandle(h)
  PROVE  /\ SameFiles /\ Open' = Open \ {h}
         /\ \A g \in DOMAIN handles : /\ handles'[g].read = handles[g].read
                                      /\ handles'[g].open \in BOOLEAN
<1>1. \A g \in DOMAIN handles : handles[g].open \in BOOLEAN
  BY DEF Typed, TypeOK
<1>2. /\ handles' \in Seq(Handle) /\ DOMAIN handles' = DOMAIN handles
      /\ Len(handles') = Len(handles)
      /\ \A g \in DOMAIN handles : /\ handles'[g].file = handles[g].file
                                   /\ handles'[g].read = handles[g].read
                                   /\ handles'[g].open = (handles[g].open /\ g # h)
  <2>1. /\ CloseHandle(h) \in Seq(Handle) /\ DOMAIN CloseHandle(h) = DOMAIN handles
        /\ Len(CloseHandle(h)) = Len(handles)
        /\ \A g \in DOMAIN handles : /\ CloseHandle(h)[g].file = handles[g].file
                                     /\ CloseHandle(h)[g].read = handles[g].read
                                     /\ CloseHandle(h)[g].open = (handles[g].open /\ g # h)
    BY CloseHandleTyped
  <2> QED BY <2>1, Zenon
<1>3. Open' = Open \ {h}
  BY <1>2, Zenon DEF Open
<1>4. \A g \in DOMAIN handles : handles'[g].open \in BOOLEAN
  BY <1>1, <1>2, Zenon
<1> QED BY <1>2, <1>3, <1>4 DEF SameFiles

LEMMA SameFilesTyped ==
  ASSUME Typed, SameFiles, scan' = scan,
         \A h \in DOMAIN handles : /\ handles'[h].read = handles[h].read
                                  /\ handles'[h].open \in BOOLEAN
  PROVE  \A h \in DOMAIN handles' :
            /\ handles'[h].file \in 1 .. NumFiles'
            /\ handles'[h].read \in 0 .. Len(scan'.files[handles'[h].file].rows)
            /\ handles'[h].open \in BOOLEAN
BY DEF SameFiles, Typed, TypeOK, NumFiles

LEMMA PastZero ==
  ASSUME Typed, NEW f, NEW n \in Nat
  PROVE  \A k \in Kept : Past(k, f, 0) => Past(k, f, n)
<1> TAKE k \in Kept
<1>1. k[2] \in Nat
  BY KeptIs, ScanTyped
<1> QED BY <1>1 DEF Past

LEMMA ReachedIs ==
  ASSUME IInv
  PROVE  ReachedRow \in Nat
<1>1. pc = "reading" \/ decoder # 0 => Len(handles) \in DOMAIN handles
  BY DEF IInv, PlaceInv, Typed, TypeOK
<1>2. pc = "reading" \/ decoder # 0 => Reading \in Handle
  BY <1>1, HandleTyped DEF Reading, IInv
<1> QED BY <1>2 DEF ReachedRow, Handle

---------------------------------------------------------------------------
(* Steps that move the caller on, and change nothing else.                 *)

Complete ==
    \/ closed /\ scan.shared
    \/ Len(rows) = scan.limit
    \/ /\ Len(rows) = Cardinality(Kept)
       /\ \A f \in 1 .. NumFiles : scan.files[f].fault = "none"

LEMMA MoveStep ==
  ASSUME IInv, UNCHANGED <<scan, cpc, closed, idx, decoder, file, handles, rest, rows>>,
         pc \notin {"decode", "opened", "eof", "eoffile", "close", "done"},
         pc' \in {"call", "enter", "loop", "open", "read", "reading", "close", "done", "panic"},
         pc' = "reading" => decoder # 0,
         pc' = "open" => idx <= NumFiles /\ decoder = 0,
         pc' \in InNext => pc \in InNext \/ ~AtLimit,
         pc' = "done" => scan.shared \/ (pc = "new" /\ ~storeOpen'),
         storeOpen' \in BOOLEAN,
         \/ outcome' = outcome
         \/ pc' \in {"close", "done"} /\ outcome' = "error"
         \/ pc' \in {"close", "done"} /\ outcome' = "EOF" /\ Complete
  PROVE  IInv'
<1>1. Typed'
  BY DEF IInv, Typed, TypeOK, NumFiles
<1>2. PlaceInv'
  <2>1. decoder # 0 => idx <= NumFiles /\ Len(handles) > 0
    <3>1. decoder # 0 => decoder \in DOMAIN handles /\ idx \in Nat /\ NumFiles \in Nat
      BY ScanTyped DEF IInv, Typed, TypeOK
    <3> QED BY <3>1, HandleTyped DEF IInv, PlaceInv, Reading, Typed
  <2> QED BY <2>1 DEF IInv, PlaceInv, NumFiles, Reading
<1>3. CloseInv'
  BY DEF IInv, CloseInv
<1>4. LimitInv'
  <2>1. rest = scan.limit - Len(rows) /\ (scan.limit >= 0 => rest >= 0)
    BY DEF IInv, LimitInv
  <2>2. LimitStopsReading'
    BY DEF IInv, LimitInv, LimitStopsReading, Kept, KeptIn, NumFiles
  <2>3. scan.limit >= 0 /\ pc' \in InNext => rest > 0
    <3>1. rest \in Int
      BY DEF IInv, Typed, TypeOK
    <3> QED BY <2>1, <3>1, ScanTyped DEF IInv, LimitInv, AtLimit
  <2> QED BY <2>1, <2>2, <2>3 DEF LimitInv, InNext
<1>5. OrderInv'
  <2>1. /\ Delivered' = Delivered /\ Kept' = Kept /\ ScanOrder' = ScanOrder
        /\ ReachedFile' = ReachedFile /\ ReachedRow' \in {0, ReachedRow}
        /\ ~closed => ReachedRow' = ReachedRow
    BY DEF Delivered, Kept, KeptIn, NumFiles, ScanOrder, ReachedFile, ReachedRow, Reading, IInv,
       PlaceInv
  <2>2. \A k \in Kept : Past(k, ReachedFile', ReachedRow') => Past(k, ReachedFile, ReachedRow)
    BY <2>1, ReachedIs, PastZero DEF IInv
  <2> QED BY <2>1, <2>2 DEF IInv, OrderInv
<1>6. OpenInv'
  BY DEF IInv, OpenInv, Open
<1>7. EndIsComplete'
  BY DEF IInv, EndIsComplete, Complete, Kept, KeptIn, NumFiles
<1> QED BY <1>1, <1>2, <1>3, <1>4, <1>5, <1>6, <1>7 DEF IInv

\* The rows returned, counted.
LEMMA CountTo ==
  ASSUME NEW n \in Nat
  PROVE  IsFiniteSet(1 .. n) /\ Cardinality(1 .. n) = n
<1>1. n \in Int /\ 1 \in Int
  OBVIOUS
<1>2. IsFiniteSet(1 .. n) /\ Cardinality(1 .. n) = IF 1 > n THEN 0 ELSE n - 1 + 1
  BY <1>1, FS_Interval, Zenon
<1>3. (IF 1 > n THEN 0 ELSE n - 1 + 1) = n
  OBVIOUS
<1> QED BY <1>2, <1>3

LEMMA RowsBound ==
  ASSUME Typed
  PROVE  IsFiniteSet(Delivered) /\ Cardinality(Delivered) <= Len(rows)
<1>1. rows \in [1 .. Len(rows) -> Nat \X Nat] /\ Len(rows) \in Nat /\ DOMAIN rows = 1 .. Len(rows)
  BY DEF Typed
<1>2. rows \in Surjection(1 .. Len(rows), Delivered)
  BY <1>1 DEF Surjection, Delivered
<1>3. IsFiniteSet(1 .. Len(rows)) /\ Cardinality(1 .. Len(rows)) = Len(rows)
  BY <1>1, CountTo
<1> HIDE DEF Delivered
<1> QED BY <1>2, <1>3, FS_Surjection

LEMMA RowsCounted ==
  ASSUME Typed, ScanOrder, ~closed
  PROVE  Cardinality(Delivered) = Len(rows)
<1>1. /\ rows \in [1 .. Len(rows) -> Nat \X Nat] /\ Len(rows) \in Nat
      /\ DOMAIN rows = 1 .. Len(rows)
  BY DEF Typed
<1>2. ASSUME NEW i \in 1 .. Len(rows), NEW j \in 1 .. Len(rows), i < j
      PROVE  rows[i] # rows[j]
  <2>1. rows[i] \in {rows[q] : q \in 1 .. j - 1}
    BY <1>1, <1>2
  <2>2. Before(rows[i], rows[j])
    BY <1>1, <2>1 DEF ScanOrder
  <2>3. rows[j] \in Nat \X Nat
    BY <1>1
  <2> QED BY <2>2, <2>3 DEF Before
<1>3. rows \in Bijection(1 .. Len(rows), Delivered)
  <2>1. \A i, j \in 1 .. Len(rows) : rows[i] = rows[j] => i = j
    BY <1>1, <1>2
  <2> QED BY <1>1, <2>1 DEF Bijection, Injection, Surjection, IsInjective, Delivered
<1>4. IsFiniteSet(1 .. Len(rows)) /\ Cardinality(1 .. Len(rows)) = Len(rows)
  BY <1>1, CountTo
<1>5. ExistsBijection(1 .. Len(rows), Delivered)
  BY <1>3 DEF ExistsBijection
<1> HIDE DEF Delivered
<1> QED BY <1>4, <1>5, FS_Bijection

\* Reading past the last file, nothing is left.
LEMMA LastFile ==
  ASSUME IInv, pc = "loop", decoder = 0, idx > NumFiles
  PROVE  Complete
<1>1. CASE closed
  BY <1>1 DEF IInv, CloseInv, Complete
<1>2. CASE ~closed
  <2>1. Typed
    BY DEF IInv
  <2>2. \A k \in Kept : Past(k, idx, 0)
    BY <2>1, KeptIs, ScanTyped DEF Past, Typed, TypeOK
  <2>3. Delivered = Kept
    BY <2>2 DEF IInv, OrderInv, ReachedFile, ReachedRow
  <2>4. Len(rows) = Cardinality(Kept)
    BY <1>2, <2>1, <2>3, RowsCounted DEF IInv, OrderInv
  <2>5. \A f \in 1 .. NumFiles : scan.files[f].fault = "none"
    BY <2>1, ScanTyped DEF IInv, PlaceInv, Typed, TypeOK
  <2> QED BY <2>4, <2>5 DEF Complete
<1> QED BY <1>1, <1>2

LEMMA MovesStep ==
  ASSUME IInv, OpenTableFails \/ OpenTable \/ LimitReached \/ EnterNext \/ LoopTest
               \/ OpenFileFails \/ NilDecoder \/ LoadDecoder \/ RowFails \/ AskAgain
  PROVE  IInv'
<1>1. storeOpen \in BOOLEAN
  BY DEF IInv, Typed, TypeOK
<1>2. CASE OpenTableFails
  BY <1>2, MoveStep DEF OpenTableFails, InNext
<1>3. CASE OpenTable
  BY <1>3, MoveStep DEF OpenTable, callerVars, InNext
<1>4. CASE LimitReached
  <2>1. Len(rows) = scan.limit
    <3>1. rest \in Int /\ Len(rows) \in Nat
      BY DEF IInv, Typed, TypeOK
    <3> QED BY <1>4, <3>1, ScanTyped DEF IInv, LimitReached, AtLimit, LimitInv
  <2> QED BY <1>1, <1>4, <2>1, MoveStep DEF LimitReached, Return, Complete, iterVars, InNext
<1>5. CASE EnterNext
  BY <1>1, <1>5, MoveStep DEF EnterNext, Return, Complete, iterVars, InNext, IInv, CloseInv
<1>6. CASE LoopTest
  BY <1>6, LastFile, MoveStep, ScanTyped DEF LoopTest, Return, iterVars, InNext, IInv, Typed, TypeOK
<1>7. CASE OpenFileFails
  BY <1>1, <1>7, MoveStep DEF OpenFileFails, Return, iterVars, InNext
<1>8. CASE NilDecoder
  BY <1>1, <1>8, MoveStep DEF NilDecoder, iterVars, callerVars, InNext
<1>11. CASE LoadDecoder
  BY <1>1, <1>11, MoveStep DEF LoadDecoder, iterVars, callerVars, InNext
<1>9. CASE RowFails
  BY <1>1, <1>9, MoveStep DEF RowFails, Return, iterVars, InNext
<1>10. CASE AskAgain
  BY <1>1, <1>10, MoveStep DEF AskAgain, Return, Complete, iterVars, InNext, IInv, CloseInv
<1> QED BY <1>2, <1>3, <1>4, <1>5, <1>6, <1>7, <1>8, <1>9, <1>10, <1>11

---------------------------------------------------------------------------
(* Opening a file, reading it and going on to the next.                    *)

LEMMA OpenStep ==
  ASSUME IInv, OpenFile
  PROVE  IInv'
<1> DEFINE new == [file |-> idx, read |-> 0, open |-> TRUE]
<1>1. /\ pc = "open" /\ pc' = "decode" /\ decoder = 0 /\ idx \in 1 .. NumFiles
      /\ handles \in Seq(Handle) /\ Len(handles) \in Nat /\ Typed
  BY ScanTyped DEF IInv, PlaceInv, Typed, TypeOK, OpenFile
<1>2. /\ UNCHANGED <<scan, cpc, storeOpen, closed, idx, decoder, file, rest, rows, outcome>>
      /\ scan.files[idx].fault # "open"
      /\ handles' = Append(handles, new)
  BY DEF OpenFile, callerVars
<1>3. /\ new \in Handle /\ new.file = idx /\ new.read = 0 /\ new.open = TRUE
  BY <1>1, ScanTyped DEF Handle
<1> HIDE DEF new
<1>4. /\ handles' \in Seq(Handle) /\ Len(handles') = Len(handles) + 1
      /\ DOMAIN handles' = DOMAIN handles \cup {Len(handles) + 1}
      /\ \A h \in DOMAIN handles : handles'[h] = handles[h]
      /\ handles'[Len(handles) + 1] = new
  BY <1>1, <1>2, <1>3
<1>6. Typed'
  <2>1. \A h \in DOMAIN handles' :
           /\ handles'[h].file \in 1 .. NumFiles
           /\ handles'[h].read \in 0 .. Len(scan.files[handles'[h].file].rows)
           /\ handles'[h].open \in BOOLEAN
    <3>1. Len(scan.files[idx].rows) \in Nat
      BY <1>1, ScanTyped
    <3>2. \A h \in DOMAIN handles :
           /\ handles'[h].file \in 1 .. NumFiles
           /\ handles'[h].read \in 0 .. Len(scan.files[handles'[h].file].rows)
           /\ handles'[h].open \in BOOLEAN
      BY <1>1, <1>4 DEF Typed, TypeOK
    <3>3. /\ new.file \in 1 .. NumFiles /\ new.open \in BOOLEAN
          /\ new.read \in 0 .. Len(scan.files[new.file].rows)
      <4>1. 0 \in 0 .. Len(scan.files[idx].rows)
        BY <3>1
      <4> QED BY <1>1, <1>3, <4>1, Zenon
    <3>4. \A h \in DOMAIN handles' : h \in DOMAIN handles \/ handles'[h] = new
      BY <1>4
    <3> QED BY <3>2, <3>3, <3>4
  <2>2. decoder' \in 0 .. Len(handles') /\ file' \in 0 .. Len(handles')
    BY <1>1, <1>2, <1>4 DEF Typed, TypeOK
  <2> QED BY <1>1, <1>2, <1>4, <2>1, <2>2 DEF Typed, TypeOK, NumFiles
<1>7. PlaceInv'
  BY <1>1, <1>2, <1>3, <1>4 DEF IInv, PlaceInv, NumFiles, Reading
<1>8. CloseInv'
  BY <1>1, <1>2 DEF IInv, CloseInv
<1>9. LimitInv'
  <2>1. LimitInv /\ OrderInv
    BY DEF IInv
  <2>2. ASSUME scan.limit >= 0
        PROVE  Cardinality({k \in Kept : k[1] < idx}) < scan.limit
    <3> DEFINE S == {k \in Kept : k[1] < idx}
    <3>1. S \subseteq Delivered
      BY <1>1, <2>1 DEF OrderInv, Past, ReachedFile
    <3>2. IsFiniteSet(Delivered) /\ Cardinality(Delivered) <= Len(rows)
      BY <1>1, RowsBound
    <3>3. /\ Cardinality(S) \in Nat /\ Cardinality(Delivered) \in Nat
          /\ Cardinality(S) <= Cardinality(Delivered)
      BY <3>1, <3>2, FS_Subset, FS_CardinalityType
    <3>4. Len(rows) \in Nat /\ rest > 0 /\ rest \in Int /\ rest = scan.limit - Len(rows)
      BY <1>1, <2>1, <2>2 DEF LimitInv, InNext, Typed, TypeOK
    <3> HIDE DEF S
    <3> QED BY <1>1, <3>2, <3>3, <3>4, ScanTyped DEF S
  <2>3. LimitStopsReading'
    <3>1. Kept' = Kept /\ scan' = scan /\ rows' = rows
      BY <1>2 DEF Kept, KeptIn, NumFiles
    <3>2. ASSUME scan.limit >= 0, NEW h \in DOMAIN handles'
          PROVE  Cardinality({k \in Kept : k[1] < handles'[h].file}) < scan.limit
      <4>1. CASE h = Len(handles) + 1
        BY <1>3, <1>4, <2>2, <3>2, <4>1
      <4>2. CASE h # Len(handles) + 1
        <5>1. h \in DOMAIN handles /\ handles'[h] = handles[h]
          BY <1>4, <3>2, <4>2
        <5> QED BY <2>1, <3>2, <5>1 DEF LimitInv, LimitStopsReading
      <4> QED BY <4>1, <4>2
    <3> QED BY <2>1, <3>1, <3>2 DEF LimitInv, LimitStopsReading
  <2> QED BY <1>1, <1>2, <2>1, <2>3 DEF LimitInv, InNext
<1>10. OrderInv'
  <2>1. ReachedFile' = ReachedFile /\ ReachedRow' = ReachedRow
    BY <1>1, <1>2 DEF ReachedFile, ReachedRow
  <2>2. Kept' = Kept /\ Delivered' = Delivered
    BY <1>2 DEF Kept, KeptIn, NumFiles, Delivered
  <2> QED BY <1>2, <2>1, <2>2 DEF IInv, OrderInv, ScanOrder
<1>11. OpenInv'
  <2>1. ASSUME ~scan.shared
        PROVE  Open' = {Len(handles')} /\ file' = 0
    <3>1. file = 0 /\ Open = {}
      BY <1>1, <2>1 DEF IInv, OpenInv
    <3> QED BY <1>2, <1>3, <1>4, <3>1 DEF Open
  <2> QED BY <1>1, <1>2, <1>4, <2>1 DEF OpenInv
<1>12. EndIsComplete'
  BY <1>1, <1>2 DEF IInv, CloseInv, EndIsComplete
<1> QED BY <1>6, <1>7, <1>8, <1>9, <1>10, <1>11, <1>12 DEF IInv

\* The decoder fails, and the file is closed.
LEMMA DecoderFailsStep ==
  ASSUME IInv, DecoderFails
  PROVE  IInv'
<1>1. /\ pc = "decode" /\ pc' \in {"done", "close"} /\ outcome' = "error" /\ Typed
      /\ ~scan.shared => pc' = "close"
      /\ decoder = 0 /\ Len(handles) \in DOMAIN handles
      /\ handles' = CloseHandle(Len(handles))
      /\ UNCHANGED <<scan, cpc, storeOpen, closed, idx, decoder, file, rest, rows>>
  BY DEF DecoderFails, Return, IInv, PlaceInv, Typed
<1>2. /\ SameFiles /\ Open' = Open \ {Len(handles)}
      /\ \A h \in DOMAIN handles : /\ handles'[h].read = handles[h].read
                                   /\ handles'[h].open \in BOOLEAN
  BY <1>1, CloseOne
<1>3. Kept' = Kept /\ NumFiles' = NumFiles
  BY <1>1 DEF Kept, KeptIn, NumFiles
<1>4. Typed'
  BY <1>1, <1>2, <1>3, SameFilesTyped DEF Typed, TypeOK, SameFiles
<1>5. PlaceInv'
  BY <1>1, <1>3 DEF IInv, PlaceInv
<1>6. CloseInv'
  BY <1>1 DEF IInv, CloseInv
<1>7. LimitInv'
  BY <1>1, <1>2, <1>3 DEF IInv, LimitInv, LimitStopsReading, SameFiles, InNext
<1>8. OrderInv'
  <2>1. ReachedFile' = ReachedFile /\ ReachedRow' = ReachedRow
    BY <1>1 DEF ReachedFile, ReachedRow
  <2>2. Delivered' = Delivered /\ ScanOrder' = ScanOrder
    BY <1>1, <1>3 DEF Delivered, ScanOrder
  <2> QED BY <1>1, <1>3, <2>1, <2>2 DEF IInv, OrderInv
<1>9. OpenInv'
  BY <1>1, <1>2 DEF IInv, OpenInv
<1>10. EndIsComplete'
  BY <1>1 DEF EndIsComplete
<1> QED BY <1>4, <1>5, <1>6, <1>7, <1>8, <1>9, <1>10 DEF IInv

LEMMA DecoderStep ==
  ASSUME IInv, NewDecoder
  PROVE  IInv'
<1>1. /\ pc = "decode" /\ pc' = "opened" /\ decoder = 0 /\ decoder' = Len(handles)
      /\ Typed /\ Len(handles) \in Nat /\ Len(handles) > 0 /\ idx \in 1 .. NumFiles
      /\ Reading.file = idx /\ Reading.read = 0
      /\ scan.files[idx].fault \notin {"open", "decoder"}
      /\ UNCHANGED <<scan, cpc, storeOpen, closed, idx, file, handles, rest, rows, outcome>>
  BY ScanTyped DEF NewDecoder, callerVars, IInv, Typed, TypeOK, PlaceInv
<1>2. Typed'
  BY <1>1 DEF Typed, TypeOK, NumFiles
<1>3. PlaceInv'
  <2>1. scan.files[idx].fault \in {"none", "row"}
    BY <1>1, ScanTyped
  <2> QED BY <1>1, <2>1 DEF IInv, PlaceInv, NumFiles, Reading
<1>4. CloseInv'
  BY <1>1 DEF IInv, CloseInv
<1>5. LimitInv'
  BY <1>1 DEF IInv, LimitInv, LimitStopsReading, Kept, KeptIn, NumFiles, InNext
<1>6. OrderInv'
  BY <1>1 DEF IInv, OrderInv, Delivered, Kept, KeptIn, NumFiles, ReachedFile, ReachedRow, Reading,
     ScanOrder
<1>7. OpenInv'
  BY <1>1 DEF IInv, OpenInv, Open
<1>8. EndIsComplete'
  BY <1>1 DEF IInv, CloseInv, EndIsComplete
<1> QED BY <1>2, <1>3, <1>4, <1>5, <1>6, <1>7, <1>8 DEF IInv

LEMMA KeepStep ==
  ASSUME IInv, KeepFile
  PROVE  IInv'
<1>1. /\ pc = "opened" /\ pc' = "read" /\ file' = Len(handles) /\ Len(handles) \in Nat
      /\ Len(handles) > 0
      /\ UNCHANGED <<scan, cpc, storeOpen, closed, idx, decoder, handles, rest, rows, outcome>>
  BY DEF KeepFile, callerVars, IInv, Typed, PlaceInv
<1>2. Typed'
  BY <1>1 DEF IInv, Typed, TypeOK, NumFiles
<1>3. PlaceInv'
  BY <1>1 DEF IInv, PlaceInv, NumFiles, Reading
<1>4. CloseInv'
  BY <1>1 DEF IInv, CloseInv
<1>5. LimitInv'
  BY <1>1 DEF IInv, LimitInv, LimitStopsReading, Kept, KeptIn, NumFiles, InNext
<1>6. OrderInv'
  BY <1>1 DEF IInv, OrderInv, Delivered, Kept, KeptIn, NumFiles, ReachedFile, ReachedRow, Reading,
     ScanOrder
<1>7. OpenInv'
  BY <1>1 DEF IInv, OpenInv, Open
<1>8. EndIsComplete'
  BY <1>1 DEF IInv, CloseInv, EndIsComplete
<1> QED BY <1>2, <1>3, <1>4, <1>5, <1>6, <1>7, <1>8 DEF IInv

LEMMA ReadOne ==
  ASSUME NEW d \in Handle
  PROVE  LET c == [d EXCEPT !.read = d.read + 1]
         IN  c \in Handle /\ c.file = d.file /\ c.open = d.open /\ c.read = d.read + 1
<1> DEFINE c == [d EXCEPT !.read = d.read + 1]
<1>1. d.read \in Nat
  BY DEF Handle
<1>2. d.read + 1 \in Nat
  BY <1>1
<1>3. c \in Handle /\ c.file = d.file /\ c.read = d.read + 1
  BY <1>2 DEF Handle
<1>4. c.open = d.open
  BY DEF Handle
<1> QED BY <1>3, <1>4

LEMMA ReadTyped ==
  ASSUME IInv, ReadRow
  PROVE  /\ SameFiles /\ Len(handles) \in DOMAIN handles /\ idx \in 1 .. NumFiles
         /\ Reading.file = idx /\ Reading.read \in Nat
         /\ Reading.read + 1 \in 1 .. Len(scan.files[idx].rows)
         /\ Reading'.read = Reading.read + 1
         /\ Open' = Open
         /\ \A h \in DOMAIN handles :
               /\ handles'[h].open = handles[h].open
               /\ h # Len(handles) => handles'[h].read = handles[h].read
<1>1. /\ handles \in Seq(Handle) /\ Typed /\ Len(handles) \in DOMAIN handles
      /\ Reading.file = idx
  BY DEF IInv, Typed, TypeOK, ReadRow, PlaceInv
<1>2. \A h \in DOMAIN handles : handles[h] \in Handle
  BY <1>1
<1> DEFINE n == Len(handles)
           d == Reading
           c == [d EXCEPT !.read = d.read + 1]
<1>3. c \in Handle /\ c.file = d.file /\ c.open = d.open /\ c.read = d.read + 1
  BY <1>1, <1>2, ReadOne DEF Reading
<1>4. handles' = [handles EXCEPT ![n] = c]
  BY DEF ReadRow, Reading
<1>5. /\ d.file = idx /\ d.read \in Nat /\ idx \in 1 .. NumFiles
      /\ d.read + 1 \in 1 .. Len(scan.files[idx].rows)
  <2>1. d.read \in Nat /\ idx \in 1 .. NumFiles
    BY <1>1, HandleTyped DEF Handle, Reading
  <2>2. d.read < Len(scan.files[idx].rows) /\ Len(scan.files[idx].rows) \in Nat
    <3>1. Reading.read < Len(scan.files[Reading.file].rows)
      BY DEF ReadRow, Source
    <3> QED BY <1>1, <2>1, <3>1, ScanTyped
  <2> QED BY <1>1, <2>1, <2>2
<1> HIDE DEF c
<1>6. /\ handles' \in Seq(Handle) /\ DOMAIN handles' = DOMAIN handles
      /\ Len(handles') = Len(handles)
  BY <1>1, <1>3, <1>4
<1>7. \A h \in DOMAIN handles : handles'[h] = IF h = n THEN c ELSE handles[h]
  BY <1>1, <1>4
<1>8. \A h \in DOMAIN handles :
         /\ handles'[h].file = handles[h].file
         /\ handles'[h].open = handles[h].open
         /\ h # n => handles'[h].read = handles[h].read
  BY <1>3, <1>7, Zenon DEF Reading
<1>9. Open' = Open
  BY <1>6, <1>8, Zenon DEF Open
<1>10. Reading'.read = d.read + 1
  BY <1>1, <1>3, <1>6, <1>7 DEF Reading
<1> QED BY <1>1, <1>5, <1>6, <1>8, <1>9, <1>10 DEF SameFiles

LEMMA ReadStep ==
  ASSUME IInv, ReadRow
  PROVE  IInv'
<1> DEFINE r == Reading.read + 1
           keep == scan.files[idx].rows[r]
<1>1. /\ pc = "reading" /\ Typed
      /\ UNCHANGED <<scan, cpc, storeOpen, closed, idx, decoder, file, outcome>>
  BY DEF ReadRow, IInv
<1>2. /\ SameFiles /\ Len(handles) \in DOMAIN handles /\ idx \in 1 .. NumFiles
      /\ Reading.file = idx /\ Reading.read \in Nat
      /\ r \in 1 .. Len(scan.files[idx].rows)
      /\ Reading'.read = r /\ Open' = Open
  BY ReadTyped
<1>3. /\ pc' = IF keep THEN "call" ELSE "enter"
      /\ IF keep THEN rows' = Append(rows, <<idx, r>>) /\ rest' = rest - 1
                 ELSE UNCHANGED <<rows, rest>>
  BY <1>2 DEF ReadRow, Source
<1>4. rows \in Seq(Nat \X Nat) /\ rest \in Int /\ Len(rows) \in Nat /\ DOMAIN rows = 1 .. Len(rows)
  BY <1>1 DEF Typed, TypeOK
<1>5. Kept' = Kept /\ NumFiles' = NumFiles /\ pc' \in {"call", "enter"}
  BY <1>1, <1>3 DEF Kept, KeptIn, NumFiles
<1> HIDE DEF r
<1>6. <<idx, r>> \in Kept <=> keep
  BY <1>1, <1>2, KeptIs
<1>7. keep => /\ rows' \in Seq(Nat \X Nat) /\ Len(rows') = Len(rows) + 1
              /\ rows'[Len(rows) + 1] = <<idx, r>>
              /\ \A q \in 1 .. Len(rows) : rows'[q] = rows[q]
  <2>1. <<idx, r>> \in Nat \X Nat
    BY <1>2, ScanTyped, <1>1
  <2> DEFINE row == <<idx, r>>
  <2>2. keep => rows' = Append(rows, row)
    BY <1>3
  <2> HIDE DEF row
  <2>3. keep => /\ rows' \in Seq(Nat \X Nat) /\ Len(rows') = Len(rows) + 1
                /\ rows'[Len(rows) + 1] = row
                /\ \A q \in 1 .. Len(rows) : rows'[q] = rows[q]
    <3>1. row \in Nat \X Nat
      BY <2>1 DEF row
    <3> SUFFICES ASSUME keep
                 PROVE  /\ rows' \in Seq(Nat \X Nat) /\ Len(rows') = Len(rows) + 1
                        /\ rows'[Len(rows) + 1] = row
                        /\ \A q \in 1 .. Len(rows) : rows'[q] = rows[q]
      OBVIOUS
    <3>2. rows' = Append(rows, row)
      BY <2>2
    <3> QED BY <1>4, <3>1, <3>2
  <2> QED BY <2>3 DEF row
<1> HIDE DEF keep
<1>8. Delivered' = IF keep THEN Delivered \cup {<<idx, r>>} ELSE Delivered
  <2>1. CASE keep
    <3>1. DOMAIN rows' = 1 .. Len(rows) + 1
      BY <1>4, <1>7, <2>1
    <3>2. \A q \in DOMAIN rows' : rows'[q] = IF q \in DOMAIN rows THEN rows[q] ELSE <<idx, r>>
      BY <1>4, <1>7, <2>1, <3>1
    <3>3. DOMAIN rows' = DOMAIN rows \cup {Len(rows) + 1} /\ Len(rows) + 1 \notin DOMAIN rows
      BY <1>4, <3>1
    <3> QED BY <2>1, <3>2, <3>3 DEF Delivered
  <2>2. CASE ~keep
    BY <1>3, <2>2 DEF Delivered
  <2> QED BY <2>1, <2>2
<1>9. Typed'
  <2>1. rows' \in Seq(Nat \X Nat) /\ rest' \in Int
    BY <1>3, <1>4, <1>7
  <2>2. \A h \in DOMAIN handles' :
           /\ handles'[h].file \in 1 .. NumFiles
           /\ handles'[h].read \in 0 .. Len(scan.files[handles'[h].file].rows)
           /\ handles'[h].open \in BOOLEAN
    <3> SUFFICES ASSUME NEW h \in DOMAIN handles
                 PROVE  /\ handles'[h].file \in 1 .. NumFiles
                        /\ handles'[h].read \in 0 .. Len(scan.files[handles'[h].file].rows)
                        /\ handles'[h].open \in BOOLEAN
      BY <1>2 DEF SameFiles
    <3>1. /\ handles[h].file \in 1 .. NumFiles /\ handles[h].open \in BOOLEAN
          /\ handles[h].read \in 0 .. Len(scan.files[handles[h].file].rows)
      BY <1>1, HandleTyped DEF Handle
    <3>2. handles'[h].file = handles[h].file /\ handles'[h].open = handles[h].open
      BY ReadTyped DEF SameFiles
    <3>3. CASE h = Len(handles)
      BY <1>2, <3>1, <3>2, <3>3 DEF Reading, SameFiles
    <3>4. CASE h # Len(handles)
      BY <3>1, <3>2, <3>4, ReadTyped
    <3> QED BY <3>3, <3>4
  <2> QED BY <1>1, <1>2, <1>5, <2>1, <2>2 DEF Typed, TypeOK, SameFiles
<1>10. PlaceInv'
  BY <1>1, <1>2, <1>5 DEF IInv, PlaceInv, SameFiles, Reading
<1>11. CloseInv'
  BY <1>1, <1>5 DEF IInv, CloseInv
<1>12. LimitInv'
  <2>1. LimitInv /\ scan.limit \in Int /\ (scan.limit >= 0 => rest > 0)
    BY <1>1, ScanTyped DEF IInv, LimitInv, InNext
  <2>2. /\ rest' = scan.limit - Len(rows')
        /\ scan.limit >= 0 => rest' >= 0
        /\ scan.limit >= 0 /\ pc' = "enter" => rest' > 0
        /\ scan.limit >= 0 => Len(rows') <= scan.limit
    <3>1. rest = scan.limit - Len(rows) /\ Len(rows') \in Nat
      BY <1>4, <1>9, <2>1 DEF LimitInv, Typed
    <3>2. CASE keep
      <4>1. rest' = rest - 1 /\ Len(rows') = Len(rows) + 1 /\ pc' = "call"
        BY <1>3, <1>7, <3>2
      <4>2. rest' = scan.limit - Len(rows') /\ rest' \in Int
        <5>1. Len(rows) \in Int /\ scan.limit \in Int
          BY <1>4, <2>1
        <5>2. (scan.limit - Len(rows)) - 1 = scan.limit - (Len(rows) + 1)
          BY <5>1
        <5>3. rest' = scan.limit - Len(rows')
          BY <3>1, <4>1, <5>2, Zenon
        <5>4. rest' \in Int
          BY <1>4, <4>1
        <5> QED BY <5>3, <5>4
      <4>3. scan.limit >= 0 => rest' >= 0
        BY <1>4, <2>1, <4>1
      <4>4. scan.limit >= 0 => Len(rows') <= scan.limit
        BY <2>1, <3>1, <4>2, <4>3
      <4> QED BY <4>1, <4>2, <4>3, <4>4
    <3>3. CASE ~keep
      <4>1. rest' = rest /\ Len(rows') = Len(rows)
        BY <1>3, <3>3
      <4> QED BY <1>4, <2>1, <3>1, <4>1
    <3> QED BY <3>2, <3>3
  <2>3. LimitStopsReading'
    BY <1>1, <1>2, <1>5, <2>1, <2>2 DEF LimitInv, LimitStopsReading, SameFiles
  <2> QED BY <1>1, <1>5, <2>2, <2>3 DEF LimitInv, InNext
<1>13. OrderInv'
  <2>1. /\ ReachedFile = idx /\ ReachedRow = r - 1 /\ ReachedFile' = idx /\ ReachedRow' \in {0, r}
        /\ ~closed => ReachedRow' = r
        /\ r \in Nat /\ idx \in Nat
    <3>1. r \in Nat /\ idx \in Nat /\ r = Reading.read + 1
      BY <1>1, <1>2, ScanTyped DEF r
    <3>2. r - 1 = Reading.read
      BY <1>2, <3>1
    <3>3. ~closed => decoder # 0
      BY <1>1 DEF IInv, PlaceInv
    <3> QED BY <1>1, <1>2, <1>5, <3>1, <3>2, <3>3 DEF ReachedFile, ReachedRow
  <2>2. \A k \in Kept : /\ Past(k, idx, r) <=> Past(k, idx, r - 1) \/ k = <<idx, r>>
                        /\ Before(k, <<idx, r>>) <=> Past(k, idx, r - 1)
    <3> TAKE k \in Kept
    <3>1. k = <<k[1], k[2]>> /\ k[1] \in Nat /\ k[2] \in Nat
      BY <1>1, KeptIs, ScanTyped
    <3> QED BY <2>1, <3>1 DEF Past, Before
  <2>3. /\ Delivered \subseteq Kept
        /\ \A k \in Kept : Past(k, idx, r - 1) => k \in Delivered
        /\ ~closed => \A k \in Delivered : Past(k, idx, r - 1)
        /\ ScanOrder
    BY <2>1 DEF IInv, OrderInv
  <2>4. Delivered' \subseteq Kept'
    BY <1>5, <1>6, <1>8, <2>3
  <2>5. \A k \in Kept' : Past(k, ReachedFile', ReachedRow') => k \in Delivered'
    <3>1. \A k \in Kept : Past(k, idx, 0) => Past(k, idx, r)
      BY <1>1, <2>1, PastZero
    <3> QED BY <1>5, <1>6, <1>8, <2>1, <2>2, <2>3, <3>1
  <2>6. ~closed' => \A k \in Delivered' : Past(k, ReachedFile', ReachedRow')
    BY <1>1, <1>6, <1>8, <2>1, <2>2, <2>3
  <2>7. ScanOrder'
    <3>1. CASE ~keep
      BY <1>1, <1>3, <1>5, <2>3, <3>1 DEF ScanOrder
    <3>2. CASE keep
      <4> SUFFICES ASSUME ~closed, NEW p \in DOMAIN rows'
                   PROVE  /\ rows'[p] \in Kept
                          /\ {k \in Kept : Before(k, rows'[p])} = {rows'[q] : q \in 1 .. p - 1}
        BY <1>1, <1>5 DEF ScanOrder
      <4>1. p \in 1 .. Len(rows) + 1
        BY <1>7, <3>2
      <4>2. CASE p = Len(rows) + 1
        <5>1. rows'[p] = <<idx, r>>
          BY <1>7, <3>2, <4>2
        <5>2. {k \in Kept : Before(k, <<idx, r>>)} = Delivered
          BY <2>2, <2>3
        <5>3. {rows'[q] : q \in 1 .. p - 1} = Delivered
          <6>1. 1 .. p - 1 = DOMAIN rows
            BY <1>4, <4>2
          <6>2. \A q \in DOMAIN rows : rows'[q] = rows[q]
            BY <1>4, <1>7, <3>2
          <6> QED BY <6>1, <6>2 DEF Delivered
        <5> QED BY <1>6, <3>2, <5>1, <5>2, <5>3
      <4>3. CASE p # Len(rows) + 1
        <5>1. p \in DOMAIN rows /\ rows'[p] = rows[p]
          <6>1. p \in 1 .. Len(rows)
            BY <1>4, <4>1, <4>3
          <6> QED BY <1>4, <1>7, <3>2, <6>1, Zenon
        <5>2. {rows'[q] : q \in 1 .. p - 1} = {rows[q] : q \in 1 .. p - 1}
          <6>1. \A q \in 1 .. p - 1 : rows'[q] = rows[q]
            BY <1>4, <1>7, <3>2, <5>1
          <6> QED BY <6>1
        <5> QED BY <2>3, <5>1, <5>2 DEF ScanOrder
      <4> QED BY <4>2, <4>3
    <3> QED BY <3>1, <3>2
  <2> QED BY <2>4, <2>5, <2>6, <2>7 DEF OrderInv
<1>14. OpenInv'
  BY <1>1, <1>2, <1>5 DEF IInv, OpenInv
<1>15. EndIsComplete'
  BY <1>1 DEF IInv, CloseInv, EndIsComplete
<1> QED BY <1>9, <1>10, <1>11, <1>12, <1>13, <1>14, <1>15 DEF IInv

LEMMA EndStep ==
  ASSUME IInv, ReadEOF
  PROVE  IInv'
<1>1. /\ pc = "reading" /\ pc' = "eof" /\ Typed
      /\ UNCHANGED <<scan, cpc, storeOpen, closed, idx, decoder, file, handles, rest, rows, outcome>>
  BY DEF ReadEOF, iterVars, callerVars, IInv
<1>2. Reading.file = idx /\ scan.files[idx].fault \in {"none", "row"}
  BY <1>1 DEF IInv, PlaceInv
<1>3. idx \in 1 .. NumFiles
  <2>1. Len(handles) \in DOMAIN handles
    BY <1>1 DEF IInv, PlaceInv, Typed
  <2> QED BY <1>1, <1>2, <2>1, HandleTyped DEF Reading
<1>4. /\ scan.files[idx].fault = "none"
      /\ Reading.read = Len(scan.files[idx].rows)
  BY <1>1, <1>2, <1>3 DEF ReadEOF, AtFault, Source
<1>5. Typed'
  BY <1>1 DEF Typed, TypeOK, NumFiles
<1>6. PlaceInv'
  BY <1>1, <1>3, <1>4 DEF IInv, PlaceInv, NumFiles, Reading
<1>7. CloseInv'
  BY <1>1 DEF IInv, CloseInv
<1>8. LimitInv'
  BY <1>1 DEF IInv, LimitInv, LimitStopsReading, Kept, KeptIn, NumFiles, InNext
<1>9. OrderInv'
  <2>1. /\ ReachedFile = idx /\ ReachedRow = Len(scan.files[idx].rows)
        /\ ReachedFile' = idx + 1 /\ ReachedRow' = 0
    BY <1>1, <1>4 DEF ReachedFile, ReachedRow
  <2>2. \A k \in Kept : Past(k, ReachedFile', ReachedRow') <=> Past(k, ReachedFile, ReachedRow)
    <3> TAKE k \in Kept
    <3>1. /\ k[1] \in 1 .. NumFiles /\ k[2] \in 1 .. Len(scan.files[k[1]].rows)
          /\ Len(scan.files[k[1]].rows) \in Nat
      BY <1>1, KeptIs, ScanTyped
    <3>2. Past(k, idx + 1, 0) <=> k[1] <= idx
      BY <1>3, <3>1 DEF Past
    <3>3. Past(k, idx, Len(scan.files[idx].rows)) <=> k[1] <= idx
      BY <1>3, <3>1 DEF Past
    <3> QED BY <2>1, <3>2, <3>3
  <2>3. Kept' = Kept /\ Delivered' = Delivered /\ ScanOrder' = ScanOrder
    BY <1>1 DEF Kept, KeptIn, NumFiles, Delivered, ScanOrder
  <2>4. Delivered \subseteq Kept
    BY DEF IInv, OrderInv
  <2> QED BY <1>1, <2>2, <2>3, <2>4 DEF IInv, OrderInv
<1>10. OpenInv'
  BY <1>1 DEF IInv, OpenInv, Open
<1>11. EndIsComplete'
  BY <1>1 DEF IInv, CloseInv, EndIsComplete
<1> QED BY <1>5, <1>6, <1>7, <1>8, <1>9, <1>10, <1>11 DEF IInv

LEMMA DropStep ==
  ASSUME IInv, DropDecoder
  PROVE  IInv'
<1>1. /\ pc = "eof" /\ decoder' = 0 /\ Typed
      /\ pc' = IF decoder = 0 THEN "panic" ELSE "eoffile"
      /\ UNCHANGED <<scan, cpc, storeOpen, closed, idx, file, handles, rest, rows, outcome>>
  BY DEF DropDecoder, callerVars, IInv
<1>2. idx \in 1 .. NumFiles + 1 /\ NumFiles \in Nat /\ Len(handles) \in Nat
  BY <1>1, ScanTyped DEF Typed, TypeOK
<1>3. Typed'
  BY <1>1, <1>2 DEF Typed, TypeOK, NumFiles
<1>4. PlaceInv'
  BY <1>1 DEF IInv, PlaceInv, NumFiles
<1>5. CloseInv'
  BY <1>1 DEF IInv, CloseInv
<1>6. LimitInv'
  BY <1>1 DEF IInv, LimitInv, LimitStopsReading, Kept, KeptIn, NumFiles, InNext
<1>7. OrderInv'
  <2>1. ReachedFile = idx + 1 /\ ReachedRow = 0 /\ ReachedRow' = 0
    BY <1>1 DEF ReachedFile, ReachedRow
  <2>2. ReachedFile' = idx + 1 \/ (ReachedFile' = idx /\ closed)
    BY <1>1 DEF ReachedFile, IInv, PlaceInv
  <2>3. \A k \in Kept : Past(k, idx, 0) => Past(k, idx + 1, 0)
    <3> TAKE k \in Kept
    <3>1. k[1] \in Nat /\ k[2] \in Nat
      BY <1>1, KeptIs, ScanTyped
    <3> QED BY <1>2, <3>1 DEF Past
  <2>4. Kept' = Kept /\ Delivered' = Delivered /\ ScanOrder' = ScanOrder
    BY <1>1 DEF Kept, KeptIn, NumFiles, Delivered, ScanOrder
  <2> QED BY <1>1, <2>1, <2>2, <2>3, <2>4 DEF IInv, OrderInv
<1>8. OpenInv'
  BY <1>1 DEF IInv, OpenInv, Open, PlaceInv, CloseInv
<1>9. EndIsComplete'
  BY <1>1 DEF IInv, CloseInv, EndIsComplete
<1> QED BY <1>3, <1>4, <1>5, <1>6, <1>7, <1>8, <1>9 DEF IInv

\* it.file.Close() where there is a file to close.
LEMMA CloseFile ==
  ASSUME Typed, IF file # 0 THEN handles' = CloseHandle(file) ELSE UNCHANGED handles
  PROVE  /\ SameFiles /\ Open' = Open \ {file}
         /\ \A h \in DOMAIN handles : /\ handles'[h].read = handles[h].read
                                      /\ handles'[h].open \in BOOLEAN
<1>1. handles \in Seq(Handle) /\ \A h \in DOMAIN handles : handles[h].open \in BOOLEAN
  BY DEF Typed, TypeOK
<1>2. CASE file # 0
  <2>1. file \in DOMAIN handles
    BY <1>2 DEF Typed, TypeOK
  <2> QED BY <1>2, <2>1, CloseOne
<1>3. CASE file = 0
  <2>1. 0 \notin DOMAIN handles
    BY <1>1
  <2> QED BY <1>1, <1>3, <2>1 DEF SameFiles, Open
<1> QED BY <1>2, <1>3

LEMMA NextFileStep ==
  ASSUME IInv, NextFile
  PROVE  IInv'
<1>1. /\ pc = "eoffile" /\ pc' = "loop" /\ file' = 0 /\ idx' = idx + 1 /\ Typed /\ decoder = 0
      /\ idx \in 1 .. NumFiles /\ NumFiles \in Nat /\ scan.files[idx].fault = "none"
      /\ UNCHANGED <<scan, cpc, storeOpen, closed, decoder, rest, rows, outcome>>
  BY ScanTyped DEF NextFile, callerVars, IInv, PlaceInv, Typed, TypeOK
<1>2. /\ SameFiles /\ Open' = Open \ {file}
      /\ \A h \in DOMAIN handles : /\ handles'[h].read = handles[h].read
                                   /\ handles'[h].open \in BOOLEAN
  BY <1>1, CloseFile DEF NextFile
<1>3. Kept' = Kept /\ NumFiles' = NumFiles
  BY <1>1 DEF Kept, KeptIn, NumFiles
<1>4. Typed'
  <2>1. handles \in Seq(Handle) /\ Len(handles) \in Nat
    BY <1>1 DEF Typed
  <2> QED BY <1>1, <1>2, <1>3, <2>1, SameFilesTyped DEF Typed, TypeOK, SameFiles
<1>5. PlaceInv'
  BY <1>1, <1>3 DEF IInv, PlaceInv
<1>6. CloseInv'
  BY <1>1 DEF IInv, CloseInv
<1>7. LimitInv'
  BY <1>1, <1>2, <1>3 DEF IInv, LimitInv, LimitStopsReading, SameFiles, InNext
<1>8. OrderInv'
  <2>1. ReachedFile' = ReachedFile /\ ReachedRow' = ReachedRow
    BY <1>1 DEF ReachedFile, ReachedRow
  <2>2. Delivered' = Delivered /\ ScanOrder' = ScanOrder
    BY <1>1, <1>3 DEF Delivered, ScanOrder
  <2> QED BY <1>1, <1>3, <2>1, <2>2 DEF IInv, OrderInv
<1>9. OpenInv'
  BY <1>1, <1>2 DEF IInv, OpenInv
<1>10. EndIsComplete'
  BY <1>1 DEF IInv, CloseInv, EndIsComplete
<1> QED BY <1>4, <1>5, <1>6, <1>7, <1>8, <1>9, <1>10 DEF IInv

---------------------------------------------------------------------------
(* Close, by the caller or in another goroutine.                           *)

LEMMA ClosingStep ==
  ASSUME IInv, UNCHANGED <<scan, idx, rest, rows, outcome>>, closed',
         SameFiles,
         \A h \in DOMAIN handles : /\ handles'[h].read = handles[h].read
                                  /\ handles'[h].open \in BOOLEAN,
         closed' \in BOOLEAN, decoder' \in {decoder, 0}, file' \in {file, 0}, storeOpen' \in BOOLEAN,
         cpc' \in {"idle", "decoder", "decoderClose", "file", "store", "done", "panic"},
         pc' = pc \/ (pc = "close" /\ pc' = "done"),
         \/ scan.shared
         \/ cpc' = "idle" /\ pc' = "done" /\ ~storeOpen' /\ file' = 0 /\ decoder' = 0 /\ Open' = {}
  PROVE  IInv'
<1>1. /\ Typed /\ Kept' = Kept /\ NumFiles' = NumFiles /\ NumFiles \in Nat
      /\ Delivered' = Delivered /\ handles \in Seq(Handle) /\ Len(handles) \in Nat
  BY ScanTyped DEF IInv, Kept, KeptIn, NumFiles, Delivered, Typed
<1>2. Typed'
  <2>1. pc' \in {"new", "call", "enter", "loop", "open", "decode", "opened", "read",
                 "reading", "eof", "eoffile", "close", "done", "panic"}
    BY <1>1 DEF Typed, TypeOK
  <2>2. decoder' \in 0 .. Len(handles') /\ file' \in 0 .. Len(handles')
    BY <1>1 DEF SameFiles, Typed, TypeOK
  <2> QED BY <1>1, <2>1, <2>2, SameFilesTyped DEF Typed, TypeOK, SameFiles
<1>3. PlaceInv'
  <2>1. decoder' # 0 => decoder' = decoder /\ decoder \in DOMAIN handles
    BY <1>1 DEF Typed, TypeOK
  <2>2. Len(handles) > 0 => Reading'.file = Reading.file /\ Reading'.read = Reading.read
    BY <1>1 DEF Reading, SameFiles
  <2> QED BY <1>1, <2>1, <2>2 DEF IInv, PlaceInv, SameFiles
<1>4. CloseInv'
  BY DEF IInv, CloseInv
<1>5. LimitInv'
  BY <1>1 DEF IInv, LimitInv, LimitStopsReading, SameFiles, InNext
<1>6. OrderInv'
  <2>1. ReachedFile' = ReachedFile /\ ReachedRow' \in {0, ReachedRow}
    <3>1. pc \in {"reading", "eof", "eoffile"} \/ pc' \in {"reading", "eof", "eoffile"}
            => pc' = pc
      OBVIOUS
    <3>2. decoder # 0 \/ pc = "reading" => Len(handles) \in DOMAIN handles
      BY <1>1 DEF IInv, PlaceInv, Typed, TypeOK
    <3>3. decoder # 0 \/ pc = "reading" => Reading'.read = Reading.read
      BY <3>2 DEF Reading, SameFiles
    <3> QED BY <3>1, <3>3 DEF ReachedFile, ReachedRow
  <2>2. \A k \in Kept : Past(k, ReachedFile, 0) => Past(k, ReachedFile, ReachedRow)
    BY <1>1, ReachedIs, PastZero
  <2>3. ScanOrder'
    BY DEF ScanOrder
  <2> QED BY <1>1, <2>1, <2>2, <2>3 DEF IInv, OrderInv
<1>7. OpenInv'
  BY DEF IInv, OpenInv
<1>8. EndIsComplete'
  BY <1>1 DEF IInv, EndIsComplete
<1> QED BY <1>2, <1>3, <1>4, <1>5, <1>6, <1>7, <1>8 DEF IInv

LEMMA CloseStep ==
  ASSUME IInv, Close
  PROVE  IInv'
<1>1. /\ pc = "close" /\ pc' = "done" /\ closed' = TRUE /\ Typed
      /\ UNCHANGED <<scan, cpc, idx, rest, rows, outcome>>
      /\ cpc \in {"idle", "decoder", "decoderClose", "file", "store", "done", "panic"}
      /\ storeOpen \in BOOLEAN
      /\ ~scan.shared => cpc = "idle" /\ ~closed /\ Open = {file} \ {0}
  BY DEF Close, callerVars, IInv, CloseInv, OpenInv, Typed, TypeOK
<1>2. CASE closed
  <2>1. SameFiles /\ UNCHANGED <<storeOpen, decoder, file, handles>>
    BY <1>1, <1>2 DEF Close, SameFiles, Typed
  <2>2. \A h \in DOMAIN handles : /\ handles'[h].read = handles[h].read
                                 /\ handles'[h].open \in BOOLEAN
    BY <1>1, <2>1 DEF Typed, TypeOK
  <2> QED BY <1>1, <1>2, <2>1, <2>2, ClosingStep
<1>3. CASE ~closed
  <2>1. decoder' = 0 /\ file' = 0 /\ storeOpen' = FALSE
    BY <1>3 DEF Close
  <2>2. IF file # 0 THEN handles' = CloseHandle(file) ELSE UNCHANGED handles
    BY <1>3 DEF Close
  <2>3. /\ SameFiles /\ Open' = Open \ {file}
        /\ \A h \in DOMAIN handles : /\ handles'[h].read = handles[h].read
                                     /\ handles'[h].open \in BOOLEAN
    BY <1>1, <2>2, CloseFile
  <2> QED BY <1>1, <2>1, <2>3, ClosingStep
<1> QED BY <1>2, <1>3

LEMMA SharedCloseStep ==
  ASSUME IInv, SharedClose
  PROVE  IInv'
<1>1. /\ scan.shared /\ Typed /\ UNCHANGED <<scan, pc, idx, rest, rows, outcome>>
      /\ closed \in BOOLEAN /\ storeOpen \in BOOLEAN
  BY DEF SharedClose, callerVars, IInv, Typed, TypeOK
<1>2. /\ closed' = TRUE
      /\ decoder' \in {decoder, 0} /\ file' \in {file, 0} /\ storeOpen' \in BOOLEAN
      /\ cpc' \in {"idle", "decoder", "decoderClose", "file", "store", "done", "panic"}
  BY <1>1 DEF SharedClose, IInv, CloseInv
<1>3. /\ SameFiles
      /\ \A h \in DOMAIN handles : /\ handles'[h].read = handles[h].read
                                   /\ handles'[h].open \in BOOLEAN
  <2>1. CASE UNCHANGED handles
    BY <1>1, <2>1 DEF SameFiles, Typed, TypeOK
  <2>2. CASE IF file # 0 THEN handles' = CloseHandle(file) ELSE UNCHANGED handles
    BY <1>1, <2>2, CloseFile
  <2> QED BY <2>1, <2>2 DEF SharedClose
<1> QED BY <1>1, <1>2, <1>3, ClosingStep

---------------------------------------------------------------------------
(* The theorems.                                                           *)

LEMMA InitInv == Init => IInv
<1> SUFFICES ASSUME Init PROVE IInv
  OBVIOUS
<1>1. /\ scan \in Scans /\ pc = "new" /\ cpc = "idle" /\ storeOpen = FALSE /\ closed = FALSE
      /\ idx = 1 /\ decoder = 0 /\ file = 0 /\ handles = << >> /\ rest = scan.limit
      /\ rows = << >> /\ outcome = "none" /\ Len(handles) = 0 /\ Len(rows) = 0
      /\ DOMAIN handles = {} /\ DOMAIN rows = {}
  BY DEF Init
<1>2. scan.limit \in Int /\ NumFiles \in Nat /\ scan.files \in Seq(FileSet)
  BY <1>1, ScanAssumption DEF NumFiles, FileSet
<1>3. Typed
  <2>1. handles \in Seq(Handle) /\ rows \in Seq(Nat \X Nat)
    BY <1>1
  <2>2. idx \in 1 .. NumFiles + 1 /\ decoder \in 0 .. Len(handles) /\ file \in 0 .. Len(handles)
    BY <1>1, <1>2
  <2>3. storeOpen \in BOOLEAN /\ closed \in BOOLEAN /\ rest \in Int
    BY <1>1, <1>2
  <2> QED BY <1>1, <2>1, <2>2, <2>3 DEF Typed, TypeOK
<1>4. PlaceInv
  BY <1>1, <1>2 DEF PlaceInv
<1>5. CloseInv
  BY <1>1 DEF CloseInv
<1>6. LimitInv
  BY <1>1, <1>2 DEF LimitInv, LimitStopsReading, InNext
<1>7. OrderInv
  <2>1. \A k \in Kept : ~Past(k, ReachedFile, ReachedRow)
    <3> TAKE k \in Kept
    <3>1. k[1] \in 1 .. NumFiles /\ k[2] \in 1 .. Len(scan.files[k[1]].rows)
          /\ Len(scan.files[k[1]].rows) \in Nat
      BY <1>3, KeptIs, ScanTyped
    <3> QED BY <1>1, <1>2, <3>1 DEF Past, ReachedFile, ReachedRow
  <2>2. Delivered = {} /\ ScanOrder
    BY <1>1 DEF Delivered, ScanOrder
  <2> QED BY <2>1, <2>2 DEF OrderInv
<1>8. OpenInv
  BY <1>1 DEF OpenInv, Open
<1>9. EndIsComplete
  BY <1>1 DEF EndIsComplete
<1> QED BY <1>3, <1>4, <1>5, <1>6, <1>7, <1>8, <1>9 DEF IInv

LEMMA NextInv == IInv /\ [Next]_vars => IInv'
<1> SUFFICES ASSUME IInv, [Next]_vars PROVE IInv'
  OBVIOUS
<1>1. CASE UNCHANGED vars
  <2>1. UNCHANGED <<scan, pc, cpc, storeOpen, closed, idx, decoder, file, handles, rest, rows, outcome>>
    BY <1>1 DEF vars, iterVars, callerVars
  <2>2. /\ Kept' = Kept /\ Delivered' = Delivered /\ NumFiles' = NumFiles
        /\ ReachedFile' = ReachedFile /\ ReachedRow' = ReachedRow /\ Open' = Open
        /\ Reading' = Reading
    BY <2>1 DEF Kept, KeptIn, Delivered, NumFiles, ReachedFile, ReachedRow, Open, Reading
  <2>3. Typed' /\ PlaceInv' /\ CloseInv'
    BY <2>1, <2>2 DEF IInv, Typed, TypeOK, PlaceInv, CloseInv
  <2>4. LimitInv'
    BY <2>1, <2>2 DEF IInv, LimitInv, LimitStopsReading, InNext
  <2>5. OrderInv'
    BY <2>1, <2>2 DEF IInv, OrderInv, ScanOrder
  <2>6. OpenInv' /\ EndIsComplete'
    BY <2>1, <2>2 DEF IInv, OpenInv, EndIsComplete
  <2> QED BY <2>3, <2>4, <2>5, <2>6 DEF IInv
<1>2. CASE Next
  BY <1>2, MovesStep, OpenStep, DecoderFailsStep, DecoderStep, KeepStep, ReadStep, EndStep, DropStep, NextFileStep, CloseStep,
     SharedCloseStep DEF Next, FileNext
<1> QED BY <1>1, <1>2

\* The inductive invariant holds in every state.
THEOREM InvCorrect == Spec => []IInv
BY InitInv, NextInv, PTL DEF Spec

\* Type correctness of fileRowIter and its callers (iter.go, remote.go), and
\* no index past the list of files.
THEOREM TypeCorrect == Spec => []TypeOK
<1>1. IInv => TypeOK
  BY DEF IInv, Typed
<1> QED BY <1>1, InvCorrect, PTL

\* Rows come in file order and row order, none skipped and none repeated.
THEOREM OrderCorrect == Spec => []ScanOrder
<1>1. IInv => ScanOrder
  BY DEF IInv, OrderInv
<1> QED BY <1>1, InvCorrect, PTL

\* io.EOF means that the limit is reached or that every file was read to its
\* end without a fault and every kept row returned.
THEOREM EndCorrect == Spec => []EndIsComplete
<1>1. IInv => EndIsComplete
  BY DEF IInv
<1> QED BY <1>1, InvCorrect, PTL

\* A limit stops the reading: no file is opened once it is reached.
THEOREM LimitCorrect == Spec => []LimitStopsReading
<1>1. IInv => LimitStopsReading
  BY DEF IInv, LimitInv
<1> QED BY <1>1, InvCorrect, PTL

\* A scan has at most one file open, and none, nor the store, when Collect has
\* returned.
THEOREM ClosedCorrect == Spec => []FilesAreClosed
<1>1. IInv => FilesAreClosed
  <2> SUFFICES ASSUME IInv, ~scan.shared
               PROVE  Cardinality(Open) <= 1 /\ (pc = "done" => Open = {} /\ ~storeOpen)
    BY DEF FilesAreClosed
  <2>1. Open = {} \/ \E h : Open = {h}
    BY DEF IInv, OpenInv
  <2>2. Cardinality({}) = 0 /\ \A h : Cardinality({h}) = 1
    BY FS_Singleton, FS_EmptySet, Zenon
  <2>3. pc = "done" => Open = {} /\ ~storeOpen
    BY DEF IInv, OpenInv
  <2>4. Cardinality(Open) \in {0, 1}
    BY <2>1, <2>2, Zenon
  <2> QED BY <2>3, <2>4
<1> QED BY <1>1, InvCorrect, PTL

---------------------------------------------------------------------------
(* Refinement of RowIter.                                                  *)

\* Until Close the decoder reads a file that is open, whoever calls Close; the
\* calls stop with a result; and there is no Close before the scan is opened.
ReadInv ==
    /\ (decoder # 0 \/ pc \in {"decode", "reading"}) /\ ~closed => Reading.open
    /\ pc \in {"close", "done"} => outcome # "none"
    /\ pc = "new" => ~closed

LEMMA ReadInvInit == Init => ReadInv
BY DEF Init, ReadInv

LEMMA ReadInvNext == IInv /\ ReadInv /\ [Next]_vars => ReadInv'
<1> SUFFICES ASSUME IInv, ReadInv, [Next]_vars PROVE ReadInv'
  OBVIOUS
<1>1. CASE UNCHANGED vars
  BY <1>1 DEF ReadInv, vars, iterVars, callerVars, Reading
<1>2. CASE OpenTableFails \/ OpenTable \/ LimitReached \/ EnterNext \/ LoopTest \/ OpenFileFails
           \/ KeepFile \/ NilDecoder \/ LoadDecoder \/ RowFails \/ AskAgain \/ ReadEOF
  BY <1>2 DEF ReadInv, OpenTableFails, OpenTable, LimitReached, EnterNext, LoopTest,
     OpenFileFails, KeepFile, NilDecoder, LoadDecoder, RowFails, AskAgain, ReadEOF, Return,
     iterVars, callerVars, Reading
<1>3. CASE OpenFile
  <2>1. handles \in Seq(Handle) /\ idx \in Nat
    BY <1>3, ScanTyped DEF IInv, Typed, TypeOK
  <2> DEFINE h == [file |-> idx, read |-> 0, open |-> TRUE]
  <2>2. h \in Handle /\ h.open = TRUE
    BY <2>1 DEF Handle
  <2>3. handles' = Append(handles, h) /\ decoder' = 0 /\ pc' = "decode"
    BY <1>3 DEF OpenFile, IInv, PlaceInv
  <2> HIDE DEF h
  <2>4. handles'[Len(handles')] = h
    BY <2>1, <2>2, <2>3
  <2> QED BY <2>2, <2>3, <2>4 DEF ReadInv, Reading
<1>4. CASE ReadRow
  <2>1. Reading'.open = Reading.open
    BY <1>4, ReadTyped DEF Reading, SameFiles
  <2>2. UNCHANGED <<decoder, closed, outcome>> /\ pc' \in {"call", "enter"}
    BY <1>4 DEF ReadRow
  <2> QED BY <1>4, <2>1, <2>2 DEF ReadInv, ReadRow
<1>5. CASE DropDecoder \/ NextFile
  <2>1. decoder' = 0 /\ pc' \in {"panic", "eoffile", "loop"}
    BY <1>5 DEF DropDecoder, NextFile, IInv, PlaceInv
  <2> QED BY <2>1 DEF ReadInv
<1>6. CASE Close \/ SharedClose
  <2>1. closed' = TRUE /\ outcome' = outcome /\ pc' # "new"
      /\ (pc' = pc \/ pc = "close")
    BY <1>6 DEF Close, SharedClose, callerVars, IInv, CloseInv
  <2> QED BY <2>1 DEF ReadInv
<1>7. CASE NewDecoder
  BY <1>7 DEF ReadInv, NewDecoder, callerVars, Reading
<1>8. CASE DecoderFails
  <2>1. decoder' = 0 /\ outcome' = "error" /\ pc' \in {"done", "close"}
    BY <1>8 DEF DecoderFails, Return, IInv, PlaceInv
  <2> QED BY <2>1 DEF ReadInv
<1> QED BY <1>1, <1>2, <1>3, <1>4, <1>5, <1>6, <1>7, <1>8 DEF Next, FileNext

\* The parameters of the refinement do not change.
LEMMA PromisedSame ==
  ASSUME UNCHANGED scan
  PROVE  UNCHANGED Promised
BY DEF Promised, Kept, KeptIn, NumFiles

LEMMA DeliveredIs == Delivered = Abstract!Delivered
BY DEF Delivered, Abstract!Delivered

LEMMA LimitIs ==
  ASSUME IInv
  PROVE  Abstract!AtLimit <=> AtLimit
<1>1. scan.limit \in Int /\ rest = scan.limit - Len(rows) /\ Len(rows) \in Nat
  BY ScanTyped DEF IInv, Typed, LimitInv
<1> QED BY <1>1 DEF Abstract!AtLimit, AtLimit, Promised

\* A Next that returns, with io.EOF or an error.
LEMMA ReturnMaps ==
  ASSUME IInv, pc \in {"call", "enter", "loop", "open", "decode", "reading"},
         NEW result \in {"EOF", "error"}, Return(result),
         UNCHANGED <<scan, closed, rows>>,
         result = "EOF" => AtLimit \/ closed \/ (Delivered = Kept /\ Promised.sound),
         result = "error" => closed \/ ~Promised.sound
  PROVE  Abstract!Next
<1>1. UNCHANGED Promised /\ outcome = "none" /\ outcome' = result /\ pc' \in {"done", "close"}
  BY PromisedSame DEF Return, IInv, CloseInv
<1>2. Progress # "new" /\ (closed => Progress \in {"closing", "closed"})
      /\ Progress' = IF Progress = "closing" THEN "closed" ELSE Progress
  BY <1>1 DEF Progress, InFlight
<1>3. Promised.wanted = Kept
  BY DEF Promised
<1>4. CASE result = "EOF"
  <2>1. \/ Abstract!AtLimit
        \/ Abstract!Delivered = Promised.wanted /\ Promised.sound
        \/ Progress \in {"closing", "closed"}
    BY <1>2, <1>3, <1>4, LimitIs, DeliveredIs
  <2> QED BY <1>1, <1>2, <1>4, <2>1 DEF Abstract!Next, Abstract!End, Abstract!Overtaken
<1>5. CASE result = "error"
  <2>1. ~Promised.sound \/ Progress \in {"closing", "closed"}
    BY <1>2, <1>5
  <2> QED BY <1>1, <1>2, <1>5, <2>1 DEF Abstract!Next, Abstract!Fail, Abstract!Overtaken
<1> QED BY <1>4, <1>5

\* A step inside Next that returns nothing.
LEMMA StutterMaps ==
  ASSUME UNCHANGED <<scan, closed, rows, outcome>>, pc # "new", pc' # "new",
         closed /\ InFlight' => InFlight
  PROVE  Abstract!Next \/ UNCHANGED Abstract!vars
<1>1. UNCHANGED Promised
  BY PromisedSame
<1>2. Progress' = Progress \/ (Progress = "closing" /\ Progress' = "closed")
  BY DEF Progress
<1> QED BY <1>1, <1>2 DEF Abstract!Next, Abstract!Idle, Abstract!Overtaken, Abstract!vars

LEMMA CreateMaps ==
  ASSUME IInv, ReadInv, OpenTableFails \/ OpenTable
  PROVE  Abstract!Next
<1>1. /\ UNCHANGED <<scan, closed, rows>> /\ pc = "new" /\ pc' \in {"call", "done"}
      /\ outcome' \in {"none", "error"}
  BY DEF OpenTableFails, OpenTable, callerVars, IInv, CloseInv
<1>2. ~closed
  BY <1>1 DEF ReadInv
<1> QED BY <1>1, <1>2, PromisedSame DEF Abstract!Next, Abstract!Create, Progress

LEMMA EndMaps ==
  ASSUME IInv, ReadInv,
         LimitReached \/ EnterNext \/ LoopTest \/ OpenFileFails \/ DecoderFails \/ RowFails
         \/ AskAgain
  PROVE  Abstract!Next \/ UNCHANGED Abstract!vars
<1>1. /\ UNCHANGED <<scan, closed, rows>> /\ Typed
      /\ pc \in {"call", "enter", "loop", "open", "decode", "reading"}
  BY DEF LimitReached, EnterNext, LoopTest, OpenFileFails, DecoderFails, RowFails, AskAgain,
     iterVars, IInv
<1>2. CASE LimitReached
  <2>1. Return("EOF") /\ AtLimit
    BY <1>2 DEF LimitReached
  <2>2. AtLimit \/ closed \/ (Delivered = Kept /\ Promised.sound)
    BY <2>1
  <2> QED BY <1>1, <2>1, <2>2, ReturnMaps
<1>3. CASE (EnterNext \/ AskAgain) /\ closed
  <2>1. Return("EOF")
    BY <1>3 DEF EnterNext, AskAgain
  <2>2. AtLimit \/ closed \/ (Delivered = Kept /\ Promised.sound)
    BY <1>3
  <2> QED BY <1>1, <2>1, <2>2, ReturnMaps
<1>4. CASE (EnterNext \/ AskAgain) /\ ~closed
  BY <1>1, <1>4, StutterMaps DEF EnterNext, AskAgain
<1>5. CASE LoopTest /\ (decoder # 0 \/ idx <= NumFiles)
  <2>1. UNCHANGED outcome /\ pc = "loop" /\ pc' \in {"read", "open"}
    BY <1>1, <1>5 DEF LoopTest, Typed, TypeOK, NumFiles
  <2> QED BY <1>1, <2>1, StutterMaps DEF InFlight
<1>6. CASE LoopTest /\ decoder = 0 /\ idx > NumFiles
  <2>1. closed \/ (Delivered = Kept /\ Promised.sound)
    <3>1. \A k \in Kept : Past(k, idx, 0)
      BY <1>1, <1>6, KeptIs, ScanTyped DEF Past, Typed, TypeOK
    <3>2. ~closed => Delivered = Kept
      BY <1>6, <3>1 DEF IInv, OrderInv, LoopTest, ReachedFile, ReachedRow
    <3>3. \A f \in 1 .. NumFiles : scan.files[f].fault = "none"
      BY <1>1, <1>6, ScanTyped DEF IInv, PlaceInv, Typed, TypeOK
    <3> QED BY <3>2, <3>3 DEF Promised
  <2>2. Return("EOF")
    BY <1>6 DEF LoopTest
  <2> QED BY <1>1, <2>1, <2>2, ReturnMaps
<1>7. CASE OpenFileFails \/ DecoderFails
  <2>1. idx \in 1 .. NumFiles /\ scan.files[idx].fault # "none"
    BY <1>1, <1>7, ScanTyped DEF OpenFileFails, DecoderFails, IInv, PlaceInv, Typed, TypeOK
  <2>2. ~Promised.sound
    BY <2>1 DEF Promised
  <2>3. Return("error")
    BY <1>7 DEF OpenFileFails, DecoderFails
  <2> QED BY <1>1, <2>2, <2>3, ReturnMaps
<1>8. CASE RowFails
  <2>1. Len(handles) \in DOMAIN handles
    BY <1>1, <1>8 DEF RowFails, IInv, PlaceInv, Typed
  <2>2. CASE AtFault
    <3>1. idx \in 1 .. NumFiles /\ scan.files[idx].fault # "none"
      BY <1>1, <1>8, <2>1, <2>2, HandleTyped
         DEF AtFault, Source, Reading, IInv, PlaceInv, RowFails
    <3> QED BY <1>1, <1>8, <3>1, ReturnMaps DEF RowFails, Promised
  <2>3. CASE ~Reading.open
    <3>1. closed
      BY <1>8, <2>3 DEF ReadInv, RowFails
    <3> QED BY <1>1, <1>8, <3>1, ReturnMaps DEF RowFails
  <2> QED BY <1>8, <2>2, <2>3 DEF RowFails
<1> QED BY <1>2, <1>3, <1>4, <1>5, <1>6, <1>7, <1>8, <1>1, ScanTyped DEF Typed, TypeOK, LoopTest

\* Opening a file, and coming to its end.
LEMMA FileMaps ==
  ASSUME \/ OpenFile \/ NewDecoder \/ KeepFile \/ NilDecoder \/ LoadDecoder \/ ReadEOF
         \/ DropDecoder \/ NextFile
  PROVE  Abstract!Next \/ UNCHANGED Abstract!vars
<1>1. /\ UNCHANGED <<scan, closed, rows, outcome>>
      /\ pc # "new" /\ pc' # "new" /\ InFlight
  BY DEF OpenFile, NewDecoder, KeepFile, NilDecoder, LoadDecoder, ReadEOF, DropDecoder, NextFile, iterVars,
     callerVars, InFlight
<1> QED BY <1>1, StutterMaps

\* Reading a row: the next kept row, and after Close one that was read before.
LEMMA ReadMaps ==
  ASSUME IInv, ReadRow
  PROVE  Abstract!Next \/ UNCHANGED Abstract!vars
<1> DEFINE r == Reading.read + 1
           row == <<idx, r>>
           keep == scan.files[idx].rows[r]
<1>1. /\ pc = "reading" /\ Typed /\ UNCHANGED <<scan, closed, outcome>>
  BY DEF ReadRow, IInv
<1>2. /\ idx \in 1 .. NumFiles /\ Reading.file = idx /\ Reading.read \in Nat
      /\ r \in 1 .. Len(scan.files[idx].rows)
  BY ReadTyped
<1>3. /\ pc' = IF keep THEN "call" ELSE "enter"
      /\ rows' = IF keep THEN Append(rows, row) ELSE rows
  BY <1>2 DEF ReadRow, Source
<1>4. CASE ~keep
  <2>1. UNCHANGED rows /\ pc' = "enter" /\ ~InFlight'
    BY <1>3, <1>4 DEF InFlight
  <2> QED BY <1>1, <2>1, StutterMaps
<1>5. CASE keep
  <2>1. row \in Promised.wanted
    BY <1>1, <1>2, <1>5, KeptIs DEF Promised
  <2>2. outcome = "none" /\ ~Abstract!AtLimit
    BY <1>1, LimitIs, ScanTyped DEF IInv, CloseInv, LimitInv, AtLimit, InNext, Typed, TypeOK
  <2>3. ReachedFile = idx /\ ReachedRow = Reading.read
    BY <1>1 DEF ReachedFile, ReachedRow
  <2>4. \A k \in Promised.wanted : Before(k, row) => k \in Abstract!Delivered
    <3> SUFFICES ASSUME NEW k \in Kept, Before(k, row) PROVE k \in Delivered
      BY DeliveredIs DEF Promised
    <3>1. k[1] \in Nat /\ k[2] \in Nat
      BY <1>1, KeptIs, ScanTyped
    <3>2. Past(k, idx, Reading.read)
      BY <1>2, <3>1 DEF Before, Past
    <3> QED BY <2>3, <3>2 DEF IInv, OrderInv
  <2>5. ~closed => row \notin Abstract!Delivered
    <3>1. ~Past(row, idx, Reading.read)
      BY <1>2 DEF Past
    <3> QED BY <2>3, <3>1, DeliveredIs DEF IInv, OrderInv
  <2>6. \/ Progress = "open" /\ Progress' = "open" /\ ~closed
        \/ Progress = "closing" /\ Progress' = "closed"
    BY <1>1, <1>3, <1>5 DEF Progress, InFlight
  <2>7. rows' = Append(rows, row) /\ UNCHANGED Promised
    BY <1>1, <1>3, <1>5, PromisedSame
  <2> HIDE DEF row
  <2>8. Abstract!Return(row)
    BY <1>1, <2>2, <2>4, <2>5, <2>6, <2>7 DEF Abstract!Return
  <2> QED BY <2>1, <2>8 DEF Abstract!Next
<1> QED BY <1>4, <1>5

LEMMA CloseMaps ==
  ASSUME IInv, ReadInv, Close \/ SharedClose
  PROVE  Abstract!Next \/ UNCHANGED Abstract!vars
<1>1. /\ UNCHANGED <<scan, rows, outcome>> /\ closed' = TRUE
      /\ pc # "new" /\ pc' # "new" /\ InFlight' = InFlight
      /\ scan.shared \/ outcome # "none"
  BY DEF Close, SharedClose, callerVars, IInv, CloseInv, ReadInv, InFlight
<1>2. UNCHANGED Promised /\ Promised.shared = scan.shared
  BY <1>1, PromisedSame DEF Promised
<1>3. CASE closed
  <2>1. Progress' = Progress
    BY <1>1, <1>3 DEF Progress
  <2> QED BY <1>1, <1>2, <2>1 DEF Abstract!vars
<1>4. CASE ~closed
  <2>1. Progress = "open" /\ Progress' = IF InFlight THEN "closing" ELSE "closed"
    BY <1>1, <1>4 DEF Progress
  <2>2. InFlight => outcome = "none"
    BY DEF IInv, CloseInv, InFlight
  <2> QED BY <1>1, <1>2, <2>1, <2>2 DEF Abstract!Next, Abstract!Close
<1> QED BY <1>3, <1>4

\* What a scan does is what RowIter allows: the kept rows in order, an end
\* that is complete, an error only for a file that cannot be read, and at most
\* one row after a Close that overtakes a Next.
THEOREM Refinement == Spec => ImplementsRowIter
<1>1. Init => Abstract!Init
  BY DEF Init, Abstract!Init, Progress
<1>2. IInv /\ ReadInv /\ [Next]_vars => [Abstract!Next]_(Abstract!vars)
  <2> SUFFICES ASSUME IInv, ReadInv, [Next]_vars
               PROVE  Abstract!Next \/ UNCHANGED Abstract!vars
    OBVIOUS
  <2>1. CASE UNCHANGED vars
    <3>1. UNCHANGED <<scan, pc, closed, rows, outcome>>
      BY <2>1 DEF vars, iterVars, callerVars
    <3>2. UNCHANGED <<Promised, Progress>>
      BY <3>1, PromisedSame DEF Progress, InFlight
    <3> QED BY <3>1, <3>2 DEF Abstract!vars
  <2>2. CASE Next
    BY <2>2, CreateMaps, EndMaps, FileMaps, ReadMaps, CloseMaps DEF Next, FileNext
  <2> QED BY <2>1, <2>2
<1> QED
  BY <1>1, <1>2, ReadInvInit, ReadInvNext, InvCorrect, PTL
     DEF Spec, ImplementsRowIter, Abstract!Spec

===============================================================================
