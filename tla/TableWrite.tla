------------------------------ MODULE TableWrite ------------------------------
(***************************************************************************)
(* storage.WriteRows on files: writeTable and writePartitionedTable        *)
(* (pkg/storage/table.go) over the storage backends (local.go, gitlfs.go,  *)
(* s3.go, remote.go).  INSERT OVERWRITE writes a temporary file and        *)
(* renames it; INSERT INTO reads the data file and writes it again.        *)
(*                                                                         *)
(* A file is a sequence of rows, a row one of Values or Damaged; two       *)
(* statements may give the same rows.  Names lead to files the way         *)
(* directory entries lead to inodes, so that a local writer keeps writing  *)
(* to its file when another one renames or truncates it.  On Git LFS a     *)
(* file is a pointer: it names rows by their hash, here the rows           *)
(* themselves, and objects holds what is stored under that name.           *)
(***************************************************************************)
EXTENDS Integers, Sequences, FiniteSets

CONSTANTS Tables,           \* the tables to write, see TableAssumption
          Values,           \* what a row can hold
          Writers           \* processes that run statements

Backends == {"local", "gitlfs", "s3", "ftp", "sftp", "webdav"}

\* The one directory of a table without PARTITIONED BY.
Root == "."

ASSUME TableAssumption ==
    \A t \in Tables : /\ t.backend \in Backends
                      /\ t.format \in {"csv", "json"}
                      /\ t.dirs # {} /\ (Root \in t.dirs => t.dirs = {Root})
                      /\ t.modes \subseteq BOOLEAN
                      /\ t.statements \in Nat

VARIABLES
    table,      \* [backend, format, dirs: its partitions, modes: the kinds of
                \*  INSERT it gets, TRUE for INTO, statements: how many at most]
    names,      \* path -> file, 0 when there is none
    files,      \* the files ever created
    objects,    \* the Git LFS cache: rows as hashed -> rows as stored
    count,      \* statements begun
    job         \* what each writer is doing

vars == <<table, names, files, objects, count, job>>

Missing == << -1 >>
Damaged == 0

\* What a Git LFS pointer gives whose object is not in the cache: the repository
\* was cloned without its objects.
Unfetched == << -2 >>

\* A Git LFS pointer cut in the middle.
Torn == << -3 >>

ASSUME ValuesAssumption ==
    \A v \in Values : <<v>> \notin {Missing, Unfetched, Torn, <<Damaged>>}

\* The rows of a statement for one partition.
NewRows(v) == <<v, v>>
Whole(rows) == \A i \in DOMAIN rows : rows[i] # Damaged

Paths == (table.dirs \cup {Root}) \X {"out", "tmp"}

Idle == [pc |-> "idle", gives |-> << >>, append |-> FALSE, todo |-> {}, dir |-> Root,
         data |-> << >>, upto |-> 0, file |-> 0, sent |-> 0,
         result |-> "idle", faulted |-> FALSE]

-------------------------------------------------------------------------------
(***************************************************************************)
(* The backends.                                                           *)
(***************************************************************************)
Out(w) == <<job[w].dir, "out">>
Tmp(w) == <<job[w].dir, "tmp">>

\* Only the local backend writes while encoding; the others collect the rows
\* in a buffer and store it when the file is closed.
Buffered == table.backend # "local"

\* An S3 object is replaced in one request.
PutIsAtomic == table.backend = "s3"

\* Opening a file that does not exist wraps fs.ErrNotExist; so does opening a
\* Git LFS pointer whose object is not there.
MissingIsNotExist == table.backend \in {"local", "gitlfs", "sftp"}

\* Rename replaces a file of the new name; SFTP's refuses to.
RenameReplaces == table.backend # "sftp"

\* FTP opens and stores the base name of a path in the table's directory, but
\* renames and removes the whole path.
At(path) == IF table.backend = "ftp" THEN <<Root, path[2]>> ELSE path

Content(path) == IF names[path] = 0 THEN Missing ELSE files[names[path]]

\* What a reader gets: the rows a Git LFS pointer leads to.
DataAt(path) ==
    LET c == Content(path)
    IN  IF table.backend # "gitlfs" \/ c \in {Missing, Torn, << >>} THEN c
        ELSE IF c \in DOMAIN objects THEN objects[c] ELSE Unfetched

\* Create and truncate, or replace, the file of a path.
Write(path, rows) ==
    IF names[path] = 0
    THEN /\ names' = [names EXCEPT ![path] = Len(files) + 1]
         /\ files' = Append(files, rows)
    ELSE /\ UNCHANGED names
         /\ files' = [files EXCEPT ![names[path]] = rows]

\* The row at position i is written, at the writer's own offset.
WithRow(rows, i, row) ==
    [n \in 1 .. (IF i > Len(rows) THEN i ELSE Len(rows)) |->
        IF n = i THEN row ELSE IF n <= Len(rows) THEN rows[n] ELSE Damaged]

PutAt(f, i, row) == [files EXCEPT ![f] = WithRow(@, i, row)]

\* An object of the Git LFS cache is created, or written over.
PutObjectAt(hash, rows) ==
    [h \in DOMAIN objects \cup {hash} |-> IF h = hash THEN rows ELSE objects[h]]

Move(from, to) == [names EXCEPT ![to] = names[from], ![from] = 0]

-------------------------------------------------------------------------------
(***************************************************************************)
(* A statement.                                                            *)
(***************************************************************************)
\* There are no data files, or a clone's pointer for one of the partitions.
Init ==
    /\ table \in Tables
    /\ \/ names = [p \in Paths |-> 0] /\ files = << >>
       \/ /\ table.backend = "gitlfs"
          /\ \E v \in Values : files = <<NewRows(v)>>
          /\ \E d \in table.dirs :
                names = [p \in Paths |-> IF p = <<d, "out">> THEN 1 ELSE 0]
    /\ objects = << >>
    /\ count = 0
    /\ job = [w \in Writers |-> Idle]

End(w, result, faulted) ==
    job' = [job EXCEPT ![w] = [Idle EXCEPT !.result = result,
                                           !.faulted = faulted]]

\* WriteRows, with rows for some partitions.
Begin(w) ==
    /\ job[w].pc = "idle" /\ count < table.statements
    /\ count' = count + 1
    /\ \E append \in table.modes, dirs \in SUBSET table.dirs \ {{}} :
          \E gives \in [dirs -> Values] :
             job' = [job EXCEPT ![w] = [Idle EXCEPT !.pc = "pick",
                                                    !.gives = gives,
                                                    !.append = append,
                                                    !.todo = dirs]]
    /\ UNCHANGED <<table, names, files, objects>>

\* The statement's rows for the partition it is at.
Given(w) == NewRows(job[w].gives[job[w].dir])

\* The next partition, in the order of a Go map, and its MkdirAll.
PickPartition(w) ==
    /\ job[w].pc = "pick"
    /\ \E d \in job[w].todo :
          job' = [job EXCEPT ![w].pc = IF job[w].append THEN "open" ELSE "encode",
                             ![w].dir = d]
    /\ UNCHANGED <<table, names, files, objects, count>>

Finish(w) ==
    /\ job[w].pc = "pick" /\ job[w].todo = {}
    /\ End(w, "ok", job[w].faulted)
    /\ UNCHANGED <<table, names, files, objects, count>>

\* MkdirAll, opening, reading or encoding fails: nothing has been changed.
PrepareFails(w) ==
    /\ job[w].pc \in {"pick", "open"} /\ job[w].todo # {}
    /\ End(w, "error", TRUE)
    /\ UNCHANGED <<table, names, files, objects, count>>

\* What INSERT INTO can make of a file.  One that does not decode is passed
\* over: CSV takes a cut row for a short one, JSON does not.  A cut Git LFS
\* pointer may have lost its first line, or most of its hash.
Decodings(old) ==
    IF old \in {Missing, Unfetched} THEN {<< >>}
    ELSE IF old = Torn THEN {<< >>, <<Damaged>>}
    ELSE IF Whole(old) THEN {old} ELSE {old, << >>}

\* Opening fails every time: no fs.ErrNotExist, or a pointer without its hash.
Unreadable(old) == (old = Missing /\ ~MissingIsNotExist) \/ old = Torn

\* INSERT INTO: the rows of the data file come first.
ReadExisting(w) ==
    /\ job[w].pc = "open"
    /\ LET old == DataAt(At(Out(w)))
       IN  \/ Unreadable(old) /\ End(w, "error", job[w].faulted)
           \/ /\ old # Missing \/ MissingIsNotExist
              /\ \E rows \in Decodings(old) :
                    LET merged == rows \o Given(w)
                    IN  job' = [job EXCEPT ![w].pc = "create",
                                           ![w].data = merged,
                                           ![w].upto = Len(merged)]
    /\ UNCHANGED <<table, names, files, objects, count>>

\* INSERT OVERWRITE: encoding may fail after some rows.
EncodeRows(w) ==
    /\ job[w].pc = "encode"
    /\ \E n \in 0 .. Len(Given(w)) :
          job' = [job EXCEPT ![w].pc = "create",
                             ![w].data = Given(w),
                             ![w].upto = n,
                             ![w].faulted = @ \/ n < Len(Given(w))]
    /\ UNCHANGED <<table, names, files, objects, count>>

-------------------------------------------------------------------------------
(***************************************************************************)
(* Storing the encoded rows: in the temporary file, or in the data file.   *)
(***************************************************************************)
\* Mutant: INSERT OVERWRITE writes the data file itself.
DataFile(w) == At(Out(w))

Target(w) == At(IF job[w].append THEN Out(w) ELSE Tmp(w))

\* The rows that were encoded.
Payload(w) == SubSeq(job[w].data, 1, job[w].upto)

\* Mutant: the next partition is written from the offset of the last one.
StoredHere(w) == job' = [job EXCEPT ![w].pc = "pick",
                                    ![w].todo = @ \ {job[w].dir},
                                    ![w].data = << >>, ![w].upto = 0]

\* The partition is done; writePartitionedTable goes on with the next one.
Stored(w) == job' = [job EXCEPT ![w].pc = "pick", ![w].todo = @ \ {job[w].dir},
                                ![w].data = << >>, ![w].upto = 0,
                                ![w].file = 0, ![w].sent = 0]

\* A temporary file that Encode has not finished is removed again.
Written(w) ==
    IF job[w].append THEN Stored(w)
    ELSE job' = [job EXCEPT ![w].pc = IF job[w].upto < Len(job[w].data)
                                      THEN "remove" ELSE "rename"]

\* Create, or Close of a buffered file, fails: Close's error removes the
\* temporary file, Create's does not.
StoreFails(w) ==
    IF job[w].append \/ (~Buffered /\ job[w].pc = "create")
    THEN End(w, "error", TRUE)
    ELSE job' = [job EXCEPT ![w].pc = "remove", ![w].faulted = TRUE]

CreateFails(w) ==
    /\ job[w].pc = "create"
    /\ StoreFails(w)
    /\ UNCHANGED <<table, names, files, objects, count>>

\* S3: one request, which may take effect although its answer is lost.
PutObject(w) ==
    /\ job[w].pc = "create" /\ PutIsAtomic
    /\ Write(Target(w), Payload(w))
    /\ Written(w) \/ StoreFails(w)
    /\ UNCHANGED <<table, objects, count>>

\* Git LFS stores an object of the rows before the pointer to it.  Nobody looks
\* whether the object is there: it is truncated and written again.
CreateObject(w) ==
    /\ job[w].pc = "create" /\ table.backend = "gitlfs"
    /\ objects' = PutObjectAt(Payload(w), << >>)
    /\ job' = [job EXCEPT ![w].pc = "object"]
    /\ UNCHANGED <<table, names, files, count>>

WriteObjectRow(w) ==
    /\ job[w].pc = "object" /\ job[w].sent < job[w].upto
    /\ objects' = PutObjectAt(Payload(w),
                       WithRow(objects[Payload(w)], job[w].sent + 1,
                               job[w].data[job[w].sent + 1]))
    /\ job' = [job EXCEPT ![w].sent = @ + 1]
    /\ UNCHANGED <<table, names, files, count>>

\* Where the object is stored, or there are none.
ReadyToCreate(w) ==
    IF table.backend = "gitlfs"
    THEN job[w].pc = "object" /\ job[w].sent = job[w].upto
    ELSE job[w].pc = "create" /\ ~PutIsAtomic

\* The file is created or truncated first.
Create(w) ==
    /\ ReadyToCreate(w)
    /\ Write(Target(w), << >>)
    /\ job' = [job EXCEPT ![w].pc = "fill", ![w].file = names'[Target(w)],
                          ![w].sent = 0]
    /\ UNCHANGED <<table, objects, count>>

\* The next row, or the Git LFS pointer to all of them.
WriteRow(w) ==
    /\ job[w].pc = "fill" /\ job[w].sent < job[w].upto
    /\ IF table.backend = "gitlfs"
       THEN /\ files' = [files EXCEPT ![job[w].file] = Payload(w)]
            /\ job' = [job EXCEPT ![w].sent = job[w].upto]
       ELSE /\ files' = PutAt(job[w].file, job[w].sent + 1,
                              job[w].data[job[w].sent + 1])
            /\ job' = [job EXCEPT ![w].sent = @ + 1]
    /\ UNCHANGED <<table, names, objects, count>>

WriteEnds(w) ==
    /\ job[w].pc = "fill" /\ job[w].sent = job[w].upto
    /\ Written(w)
    /\ UNCHANGED <<table, names, files, objects, count>>

\* A write stops between two rows, or in the middle of one or of a pointer.
CutRow(w) ==
    \/ UNCHANGED <<files, objects>>
    \/ /\ job[w].pc = "fill" /\ job[w].sent < job[w].upto
       /\ files' = IF table.backend = "gitlfs"
                   THEN [files EXCEPT ![job[w].file] = Torn]
                   ELSE PutAt(job[w].file, job[w].sent + 1, Damaged)
       /\ UNCHANGED objects
    \/ /\ job[w].pc = "object" /\ job[w].sent < job[w].upto
       /\ objects' = PutObjectAt(Payload(w), WithRow(objects[Payload(w)],
                                                     job[w].sent + 1, Damaged))
       /\ UNCHANGED files

WriteFails(w) ==
    /\ job[w].pc \in {"fill", "object"}
    /\ CutRow(w)
    /\ StoreFails(w)
    /\ UNCHANGED <<table, names, count>>

\* encodeCSV looks at the writer's error before its deferred Flush, so that a
\* failing write of the last buffer is not noticed.
LastWriteLost(w) ==
    /\ job[w].pc = "fill" /\ job[w].sent < job[w].upto
    /\ table.format = "csv" /\ ~Buffered /\ ~job[w].append
    /\ CutRow(w)
    /\ Written(w)
    /\ UNCHANGED <<table, names, count>>

-------------------------------------------------------------------------------
(***************************************************************************)
(* INSERT OVERWRITE: store.Rename and store.Remove.                        *)
(***************************************************************************)
\* Mutant: no rename replaces a file.
NewName(w) == names[Tmp(w)] # 0 /\ names[Out(w)] = 0

CanRename(w) == names[Tmp(w)] # 0 /\ (RenameReplaces \/ names[Out(w)] = 0)

Rename(w) ==
    /\ job[w].pc = "rename" /\ CanRename(w)
    /\ names' = Move(Tmp(w), Out(w))
    /\ Stored(w)
    /\ UNCHANGED <<table, files, objects, count>>

RenameFails(w) ==
    /\ job[w].pc = "rename"
    /\ job' = [job EXCEPT ![w].pc = "remove", ![w].faulted = @ \/ CanRename(w)]
    /\ UNCHANGED <<table, names, files, objects, count>>

\* The rename is carried out and its answer lost; or S3, which copies and
\* deletes, has made the copy when the delete fails.
RenameUnanswered(w) ==
    /\ job[w].pc = "rename" /\ CanRename(w)
    /\ table.backend \notin {"local", "gitlfs"}
    /\ IF PutIsAtomic THEN Write(Out(w), Content(Tmp(w)))
       ELSE names' = Move(Tmp(w), Out(w)) /\ UNCHANGED files
    /\ job' = [job EXCEPT ![w].pc = "remove", ![w].faulted = TRUE,
                          ![w].todo = @ \ {job[w].dir}, ![w].data = << >>,
                          ![w].upto = 0, ![w].sent = 0]
    /\ UNCHANGED <<table, objects, count>>

\* Remove(tmpPath), whose error nobody looks at.
RemoveTmp(w) ==
    /\ job[w].pc = "remove"
    /\ \/ names' = [names EXCEPT ![Tmp(w)] = 0] /\ End(w, "error", job[w].faulted)
       \/ UNCHANGED names /\ End(w, "error", TRUE)
    /\ UNCHANGED <<table, files, objects, count>>

\* The process is killed, or the connection of a buffered upload breaks.
Crash(w) ==
    /\ job[w].pc # "idle"
    /\ CutRow(w)
    /\ End(w, "crash", TRUE)
    /\ UNCHANGED <<table, names, count>>

-------------------------------------------------------------------------------
Statement(w) == \/ Begin(w) \/ PickPartition(w) \/ Finish(w) \/ PrepareFails(w)
                \/ ReadExisting(w) \/ EncodeRows(w) \/ CreateFails(w)
                \/ PutObject(w) \/ CreateObject(w) \/ WriteObjectRow(w)
                \/ Create(w) \/ WriteRow(w) \/ WriteEnds(w)
                \/ WriteFails(w) \/ LastWriteLost(w) \/ Rename(w)
                \/ RenameFails(w) \/ RenameUnanswered(w) \/ RemoveTmp(w)
                \/ Crash(w)

Next == \E w \in Writers : Statement(w)

Spec == Init /\ [][Next]_vars

-------------------------------------------------------------------------------
(***************************************************************************)
(* Properties.                                                             *)
(***************************************************************************)
Rows == Seq(Values \cup {Damaged})

TypeOK ==
    /\ table \in Tables
    /\ names \in [Paths -> 0 .. Len(files)]
    /\ files \in Seq(Rows \cup {Torn})
    /\ DOMAIN objects \subseteq Rows
    /\ \A h \in DOMAIN objects : objects[h] \in Rows
    /\ count \in 0 .. table.statements
    /\ \A w \in Writers :
         /\ job[w].pc \in {"idle", "pick", "open", "encode", "create", "object",
                           "fill", "rename", "remove"}
         /\ DOMAIN job[w].gives \subseteq table.dirs
         /\ \A d \in DOMAIN job[w].gives : job[w].gives[d] \in Values
         /\ job[w].todo \subseteq DOMAIN job[w].gives
         /\ job[w].dir \in table.dirs \cup {Root}
         /\ job[w].data \in Rows
         /\ job[w].upto \in 0 .. Len(job[w].data)
         /\ job[w].sent \in 0 .. job[w].upto
         /\ job[w].file \in 0 .. Len(files)
         /\ job[w].result \in {"idle", "ok", "error", "crash"}

StoredRows == [d \in table.dirs |-> Content(<<d, "out">>)]

PlanOf(j) == IF j.data # << >> THEN [dir |-> j.dir, rows |-> j.data]
             ELSE [dir |-> "", rows |-> << >>]

ResultOf(j) == IF j.pc = "idle" THEN j.result ELSE "busy"

Gives == [w \in Writers |-> job[w].gives]
Todos == [w \in Writers |-> job[w].todo]
Plans == [w \in Writers |-> PlanOf(job[w])]
Appends == [w \in Writers |-> job[w].append]
Results == [w \in Writers |-> ResultOf(job[w])]

Abstract == INSTANCE AtomicTable
                WITH content <- StoredRows, object <- objects, gives <- Gives,
                     todo <- Todos, plan <- Plans, append <- Appends,
                     result <- Results

(***************************************************************************)
(* Statement after statement, the table is the atomic one: whatever fails  *)
(* and wherever a process stops, the data file of a partition holds all of *)
(* one INSERT OVERWRITE or none of it, INSERT INTO loses no row that could *)
(* be read, and a statement that returns no error has stored every         *)
(* partition - with the exceptions that AtomicTable names.                 *)
(***************************************************************************)
ImplementsAtomicTable == Abstract!Spec

(***************************************************************************)
(* A statement returns an error only when an operation on the backend has  *)
(* failed that can succeed another time; what a crash leaves behind, a     *)
(* temporary file or a data file cut short, makes no later statement fail. *)
(* Except that some statements fail every time: INSERT INTO where the file *)
(* does not exist yet and the backend does not say fs.ErrNotExist, INSERT  *)
(* OVERWRITE where it exists and rename does not replace it, either of     *)
(* them on a partitioned table over FTP, and INSERT INTO where a Git LFS   *)
(* pointer has been cut.                                                   *)
(***************************************************************************)
ErrorsHaveACause ==
    \A w \in Writers :
        job[w].result = "error" /\ ~job[w].faulted =>
            \/ ~MissingIsNotExist /\ \E d \in table.dirs : names[<<d, "out">>] = 0
            \/ ~RenameReplaces /\ \E d \in table.dirs : names[<<d, "out">>] # 0
            \/ table.backend = "ftp" /\ table.dirs # {Root}
            \/ \E d \in table.dirs : Content(<<d, "out">>) = Torn

(***************************************************************************)
(* "Atomic write: write to temp file, then rename": where every statement  *)
(* is an INSERT OVERWRITE, a reader finds no data file or all the rows of  *)
(* one statement, never some of them or a mixture.                         *)
(***************************************************************************)
OverwriteIsAtomic ==
    table.modes = {FALSE} =>
        \A d \in table.dirs :
            DataAt(<<d, "out">>) \in
                {Missing, Unfetched} \cup {NewRows(v) : v \in Values}
===============================================================================
