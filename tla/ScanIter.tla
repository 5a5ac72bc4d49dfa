------------------------------- MODULE ScanIter -------------------------------
(***************************************************************************)
(* Streaming a table from its files: storage.fileRowIter under the         *)
(* filterIter and limitIter of pkg/plan/iter.go.                           *)
(*                                                                         *)
(* Two callers exist.  Collect calls Next until the end and then Close:    *)
(* one goroutine.  A join's readBatches only calls Next, and the join's    *)
(* Close calls fileRowIter.Close from another goroutine, at any time and   *)
(* without a lock; a shared scan has that caller.                          *)
(***************************************************************************)
EXTENDS Integers, Sequences, FiniteSets

CONSTANT Scans      \* the scans to run, see ScanAssumption

NoLimit == -1

(***************************************************************************)
(* A scan is a record: files is a sequence of files, each with its rows    *)
(* (TRUE when the predicate keeps the row) and the step that fails on it;  *)
(* limit is the LimitNode's N; shared says that Close runs in another      *)
(* goroutine than Next.                                                    *)
(***************************************************************************)
ASSUME ScanAssumption ==
    \A s \in Scans :
        /\ s.limit \in Int /\ s.shared \in BOOLEAN
        /\ s.files \in Seq([rows : Seq(BOOLEAN), fault : {"none", "open", "decoder", "row"}])

VARIABLES
    scan,
    pc,         \* where the caller is, see TypeOK
    cpc,        \* where a concurrent Close is
    \* fileRowIter
    storeOpen, closed, idx,
    decoder,    \* 0 is nil, otherwise the handle it reads from
    file,       \* the same
    \* the open files, as handle |-> [file, rows read]
    handles,
    \* limitIter and the caller
    rest, rows, outcome

iterVars   == <<storeOpen, closed, idx, decoder, file, handles>>
callerVars == <<rest, rows, outcome>>
vars == <<scan, pc, cpc, iterVars, callerVars>>

NumFiles == Len(scan.files)

Open == {h \in DOMAIN handles : handles[h].open}

CloseHandle(h) == [handles EXCEPT ![h].open = FALSE]

Init ==
    /\ scan \in Scans
    /\ pc = "new" /\ cpc = "idle"
    /\ storeOpen = FALSE /\ closed = FALSE /\ idx = 1
    /\ decoder = 0 /\ file = 0 /\ handles = << >>
    /\ rest = scan.limit /\ rows = << >> /\ outcome = "none"

(***************************************************************************)
(* OpenTableIter.                                                          *)
(***************************************************************************)
\* GetStorage has opened the store; a missing format, a failing listing and
\* an empty one close it again.
OpenTableFails ==
    /\ pc = "new"
    /\ storeOpen' = FALSE
    /\ outcome' = "error"
    /\ pc' = "done"
    /\ UNCHANGED <<scan, cpc, closed, idx, decoder, file, handles, rest, rows>>

OpenTable ==
    /\ pc = "new" /\ NumFiles > 0
    /\ storeOpen' = TRUE
    /\ pc' = "call"
    /\ UNCHANGED <<scan, cpc, closed, idx, decoder, file, handles, callerVars>>

(***************************************************************************)
(* One call of Next, from limitIter down to fileRowIter.                   *)
(***************************************************************************)
\* How Collect and readBatches take an end or an error.
Return(result) ==
    /\ outcome' = result
    /\ pc' = IF scan.shared THEN "done" ELSE "close"

\* Mutant: one row too many.
OverLimit == scan.limit >= 0 /\ rest < 0

\* if it.rest <= 0; a LimitNode with a negative N makes no limitIter.
AtLimit == scan.limit >= 0 /\ rest <= 0

LimitReached ==
    /\ pc = "call" /\ AtLimit
    /\ Return("EOF")
    /\ UNCHANGED <<scan, cpc, iterVars, rest, rows>>

\* Mutant: Next does not look whether the iterator was closed.
EnterClosed ==
    /\ pc = "call" /\ ~AtLimit
    /\ pc' = "loop"
    /\ UNCHANGED <<scan, cpc, iterVars, callerVars>>

\* if it.closed
EnterNext ==
    /\ pc = "call" /\ ~AtLimit
    /\ IF closed THEN Return("EOF") ELSE pc' = "loop" /\ UNCHANGED outcome
    /\ UNCHANGED <<scan, cpc, iterVars, rest, rows>>

\* if it.decoder == nil, and if it.idx >= len(it.files)
LoopTest ==
    /\ pc = "loop"
    /\ IF decoder # 0 THEN pc' = "read" /\ UNCHANGED outcome
       ELSE IF idx > NumFiles THEN Return("EOF")
       ELSE pc' = "open" /\ UNCHANGED outcome
    /\ UNCHANGED <<scan, cpc, iterVars, rest, rows>>

\* Mutant: a file that cannot be opened ends the scan like a missing one.
OpenFileEnds ==
    /\ pc = "open" /\ scan.files[idx].fault = "open"
    /\ Return("EOF")
    /\ UNCHANGED <<scan, cpc, iterVars, rest, rows>>

\* store.Open
OpenFileFails ==
    /\ pc = "open" /\ scan.files[idx].fault = "open"
    /\ Return("error")
    /\ UNCHANGED <<scan, cpc, iterVars, rest, rows>>

OpenFile ==
    /\ pc = "open" /\ scan.files[idx].fault # "open"
    /\ handles' = Append(handles, [file |-> idx, read |-> 0, open |-> TRUE])
    /\ pc' = "decode"
    /\ UNCHANGED <<scan, cpc, storeOpen, closed, idx, decoder, file, callerVars>>

\* Mutant: the file just opened is not closed.
DecoderLeaks ==
    /\ pc = "decode" /\ scan.files[idx].fault = "decoder"
    /\ Return("error")
    /\ UNCHANGED <<scan, cpc, iterVars, rest, rows>>

\* serde.NewDecoder fails, for a header, say; the file, which is in no field of
\* the iterator yet, is closed here.
DecoderFails ==
    /\ pc = "decode" /\ scan.files[idx].fault = "decoder"
    /\ handles' = CloseHandle(Len(handles))
    /\ Return("error")
    /\ UNCHANGED <<scan, cpc, storeOpen, closed, idx, decoder, file, rest, rows>>

\* it.decoder = dec
NewDecoder ==
    /\ pc = "decode" /\ scan.files[idx].fault # "decoder"
    /\ decoder' = Len(handles)
    /\ pc' = "opened"
    /\ UNCHANGED <<scan, cpc, storeOpen, closed, idx, file, handles, callerVars>>

\* it.file = file
KeepFile ==
    /\ pc = "opened"
    /\ file' = Len(handles)
    /\ pc' = "read"
    /\ UNCHANGED <<scan, cpc, storeOpen, closed, idx, decoder, handles,
                   callerVars>>

\* it.decoder.Next() loads the field first, which another goroutine may have set
\* to nil.
NilDecoder ==
    /\ pc = "read" /\ decoder = 0
    /\ pc' = "panic"
    /\ UNCHANGED <<scan, cpc, iterVars, callerVars>>

LoadDecoder ==
    /\ pc = "read" /\ decoder # 0
    /\ pc' = "reading"
    /\ UNCHANGED <<scan, cpc, iterVars, callerVars>>

\* The decoder that was loaded reads the file opened last.
Reading == handles[Len(handles)]
Source == scan.files[Reading.file]

AtFault == Reading.read = Len(Source.rows) /\ Source.fault = "row"

\* Mutant: a row that cannot be decoded is asked for again.
RowSkipped ==
    /\ pc = "reading"
    /\ AtFault \/ ~Reading.open
    /\ pc' = "enter"
    /\ UNCHANGED <<scan, cpc, iterVars, callerVars>>

\* Reading a file that has been closed fails, except for what is buffered; the
\* end of a file may be, too.
RowFails ==
    /\ pc = "reading"
    /\ AtFault \/ ~Reading.open
    /\ Return("error")
    /\ UNCHANGED <<scan, cpc, iterVars, rest, rows>>

\* filterIter asks for the next row until the predicate keeps one.
ReadRow ==
    /\ pc = "reading"
    /\ Reading.read < Len(Source.rows)
    /\ LET r == Reading.read + 1
       IN  /\ handles' = [handles EXCEPT ![Len(handles)].read = r]
           /\ IF Source.rows[r]
              THEN /\ rows' = Append(rows, <<Reading.file, r>>)
                   /\ rest' = rest - 1
              ELSE UNCHANGED <<rows, rest>>
           /\ pc' = IF Source.rows[r] THEN "call" ELSE "enter"
    /\ UNCHANGED <<scan, cpc, storeOpen, closed, idx, decoder, file, outcome>>

\* filterIter calls fileRowIter.Next again, without passing limitIter.
AskAgain ==
    /\ pc = "enter"
    /\ IF closed THEN Return("EOF") ELSE pc' = "loop" /\ UNCHANGED outcome
    /\ UNCHANGED <<scan, cpc, iterVars, rest, rows>>

ReadEOF ==
    /\ pc = "reading"
    /\ Reading.read = Len(Source.rows) /\ ~AtFault
    /\ pc' = "eof"
    /\ UNCHANGED <<scan, cpc, iterVars, callerVars>>

\* it.decoder.Close(), it.decoder = nil
DropDecoder ==
    /\ pc = "eof"
    /\ decoder' = 0
    /\ pc' = IF decoder = 0 THEN "panic" ELSE "eoffile"
    /\ UNCHANGED <<scan, cpc, storeOpen, closed, idx, file, handles, callerVars>>

\* Mutant: the index advances twice.
NextFileTwice ==
    /\ pc = "eoffile"
    /\ IF file # 0 THEN handles' = CloseHandle(file) ELSE UNCHANGED handles
    /\ file' = 0
    /\ idx' = idx + 2
    /\ pc' = "loop"
    /\ UNCHANGED <<scan, cpc, storeOpen, closed, decoder, callerVars>>

\* Mutant: the index does not advance.
SameFile ==
    /\ pc = "eoffile"
    /\ IF file # 0 THEN handles' = CloseHandle(file) ELSE UNCHANGED handles
    /\ file' = 0
    /\ idx' = idx
    /\ pc' = "loop"
    /\ UNCHANGED <<scan, cpc, storeOpen, closed, decoder, callerVars>>

\* it.file.Close(), it.file = nil, it.idx++
NextFile ==
    /\ pc = "eoffile"
    /\ IF file # 0 THEN handles' = CloseHandle(file) ELSE UNCHANGED handles
    /\ file' = 0
    /\ idx' = idx + 1
    /\ pc' = "loop"
    /\ UNCHANGED <<scan, cpc, storeOpen, closed, decoder, callerVars>>

FileNext == \/ EnterNext \/ LoopTest \/ OpenFileFails \/ OpenFile
            \/ DecoderFails \/ NewDecoder \/ KeepFile
            \/ NilDecoder \/ LoadDecoder \/ RowFails \/ ReadRow \/ AskAgain \/ ReadEOF
            \/ DropDecoder \/ NextFile

(***************************************************************************)
(* Close.                                                                  *)
(***************************************************************************)
\* Mutant: only the decoder is closed; it does not close the file.
CloseDecoder ==
    /\ pc = "close"
    /\ closed' = TRUE
    /\ decoder' = 0 /\ storeOpen' = FALSE
    /\ pc' = "done"
    /\ UNCHANGED <<scan, cpc, idx, file, handles, callerVars>>

\* The effect of Close when nothing else runs: Collect's deferred call.
Close ==
    /\ pc = "close"
    /\ closed' = TRUE
    /\ IF closed THEN UNCHANGED <<storeOpen, decoder, file, handles>>
       ELSE /\ decoder' = 0 /\ file' = 0 /\ storeOpen' = FALSE
            /\ IF file # 0 THEN handles' = CloseHandle(file)
               ELSE UNCHANGED handles
    /\ pc' = "done"
    /\ UNCHANGED <<scan, cpc, idx, callerVars>>

\* The same call in another goroutine, a field at a time.  Both sides test
\* and close it.file in one step: their races on it.decoder are enough.
SharedClose ==
    /\ scan.shared /\ pc # "new"
    /\ \/ /\ cpc = "idle" /\ storeOpen
          /\ closed' = TRUE
          /\ cpc' = IF closed THEN "done" ELSE "decoder"
          /\ UNCHANGED <<storeOpen, decoder, file, handles>>
       \/ /\ cpc = "decoder"
          /\ cpc' = IF decoder # 0 THEN "decoderClose" ELSE "file"
          /\ UNCHANGED <<storeOpen, closed, decoder, file, handles>>
       \/ /\ cpc = "decoderClose"
          /\ decoder' = 0
          /\ cpc' = IF decoder = 0 THEN "panic" ELSE "file"
          /\ UNCHANGED <<storeOpen, closed, file, handles>>
       \/ /\ cpc = "file"
          /\ file' = 0
          /\ IF file # 0 THEN handles' = CloseHandle(file)
             ELSE UNCHANGED handles
          /\ cpc' = "store"
          /\ UNCHANGED <<storeOpen, closed, decoder>>
       \/ /\ cpc = "store"
          /\ storeOpen' = FALSE
          /\ cpc' = "done"
          /\ UNCHANGED <<closed, decoder, file, handles>>
    /\ UNCHANGED <<scan, pc, idx, callerVars>>

-------------------------------------------------------------------------------
Running == pc # "panic" /\ cpc # "panic"

Next == Running /\ (OpenTableFails \/ OpenTable \/ LimitReached \/ FileNext
                    \/ Close \/ SharedClose)

Spec == Init /\ [][Next]_vars

\* Collect goes on calling, and the file operations return.
FairSpec == Spec /\ WF_vars(Next)

-------------------------------------------------------------------------------
(***************************************************************************)
(* Properties.                                                             *)
(***************************************************************************)
TypeOK ==
    /\ scan \in Scans
    /\ pc \in {"new", "call", "enter", "loop", "open", "decode", "opened", "read",
               "reading", "eof", "eoffile", "close", "done", "panic"}
    /\ cpc \in {"idle", "decoder", "decoderClose", "file", "store", "done",
                "panic"}
    /\ storeOpen \in BOOLEAN /\ closed \in BOOLEAN
    /\ idx \in 1 .. NumFiles + 1
    /\ \A h \in DOMAIN handles :
          /\ handles[h].file \in 1 .. NumFiles
          /\ handles[h].read \in 0 .. Len(scan.files[handles[h].file].rows)
          /\ handles[h].open \in BOOLEAN
    /\ decoder \in 0 .. Len(handles) /\ file \in 0 .. Len(handles)
    /\ rest \in Int
    /\ outcome \in {"none", "EOF", "error"}

\* The rows the predicate keeps, as <<file, row>>, and their order.
KeptIn(f) == {r \in DOMAIN scan.files[f].rows : scan.files[f].rows[r]}
Kept == UNION {{<<f, r>> : r \in KeptIn(f)} : f \in 1 .. NumFiles}

Before(a, b) == a[1] < b[1] \/ (a[1] = b[1] /\ a[2] < b[2])

(***************************************************************************)
(* Until Close, rows come in file order and row order, none is skipped and *)
(* none is repeated, whatever files are empty or hold no kept row.         *)
(***************************************************************************)
ScanOrder ==
    ~closed =>
        \A p \in DOMAIN rows :
            /\ rows[p] \in Kept
            /\ {k \in Kept : Before(k, rows[p])} = {rows[q] : q \in 1 .. p - 1}

(***************************************************************************)
(* io.EOF means that the limit is reached or that no kept row is left, and *)
(* a file that cannot be read is never passed over in silence (a scan that *)
(* another goroutine has closed may end early).                            *)
(***************************************************************************)
EndIsComplete ==
    outcome = "EOF" =>
        \/ closed /\ scan.shared
        \/ Len(rows) = scan.limit
        \/ /\ Len(rows) = Cardinality(Kept)
           /\ \A f \in 1 .. NumFiles : scan.files[f].fault = "none"

(***************************************************************************)
(* A limit stops the scan: no row is delivered past it, and a file is      *)
(* opened only while rows are missing.                                     *)
(***************************************************************************)
LimitStopsReading ==
    scan.limit >= 0 =>
        /\ Len(rows) <= scan.limit
        /\ \A h \in DOMAIN handles :
            Cardinality({k \in Kept : k[1] < handles[h].file}) < scan.limit

(***************************************************************************)
(* "Files are opened and decoded one at a time on demand", and when        *)
(* Collect returns, with rows or with an error of any step, no file and no *)
(* store is left open.                                                     *)
(***************************************************************************)
FilesAreClosed ==
    ~scan.shared =>
        /\ Cardinality(Open) <= 1
        /\ pc = "done" => Open = {} /\ ~storeOpen

(***************************************************************************)
(* Collect returns: files without rows, or without kept rows, do not keep  *)
(* Next in its loop.                                                       *)
(***************************************************************************)
CollectReturns == ~scan.shared => <>(pc = "done")

(***************************************************************************)
(* What the caller sees is a RowIter over the kept rows: each row once and *)
(* in order, an end that is complete, an error only when a file cannot be  *)
(* read, and at most one more row, of the Next that is running, after a    *)
(* Close that overtakes it.                                                *)
(***************************************************************************)
\* A Next runs that has looked at it.closed.
InFlight == pc \in {"loop", "open", "decode", "opened", "read", "reading",
                   "eof", "eoffile"}

Promised ==
    [wanted |-> Kept, limit |-> scan.limit, shared |-> scan.shared,
     sound |-> \A f \in 1 .. NumFiles : scan.files[f].fault = "none"]

Progress ==
    IF pc = "new" THEN "new" ELSE IF ~closed THEN "open"
    ELSE IF InFlight THEN "closing" ELSE "closed"

Abstract == INSTANCE RowIter WITH source <- Promised, state <- Progress

ImplementsRowIter == Abstract!Spec

(***************************************************************************)
(* The join's Close is "safe to call while the pipeline is still running": *)
(* the Close of its probe input does not break a Next that is running.     *)
(***************************************************************************)
CloseIsSafe == Running
===============================================================================
