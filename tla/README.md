# A TLA+ model of gsql

gsql runs Hive-style SQL over files (local, Git LFS, S3, FTP, SFTP, WebDAV, Lark)
and databases. These modules model two sides of it: the code whose correctness
depends on order, on failure or on concurrency, and the way of a statement from its
tokens to its rows. TLC checks them on small instances, and TLAPS proves what
matters most about the concurrent join, the scan of files, the writing of tables in
files and in databases, the Lark drive, the tunnel, and what a session of statements
stores and reads, for every instance.

## 1. Inventory

| part | source | state | operations | what makes it correct |
|---|---|---|---|---|
| parallel hash join | `pkg/plan/join.go` | two bounded channels, the reorder map, the matched keys, `done` | reader, workers, closer goroutines; `Next`, `Close` | rows in left-input order, none lost or invented, errors reported after the rows before them, no send on a closed channel, nobody blocked for ever |
| streaming iterators | `pkg/plan/iter.go`, `pkg/storage/rowiter.go` | index, open file, decoder, closed flag | `Next`, `Close`, `Collect` | every row once and in order, a limit stops reading, every file and the store closed on every path |
| table writes | `pkg/storage/table.go` and the backends | data files and temporary files | `WriteRows`: overwrite (temporary file, rename), append (read, merge, write) | a reader sees whole results, a success is stored, a failure or crash changes nothing it should not |
| Lark storage | `pkg/storage/lark.go` | token cache, root folder, remote folders | list, ensure folder, upload in parts, export and download | no duplicate files after a retry, no data lost between delete and upload, polling ends |
| database tables | `pkg/database/*.go` | the connection, its tunnel | `ReadTable`, `WriteTable` | an overwrite replaces, an append adds, a failure keeps the old rows |
| SSH tunnel | `pkg/tunnel/tunnel.go`, `database.Open`, `Close` | listener, client, connections | `Dial`, accept, copy, close | every goroutine ends after close, every error path gives back what it opened |
| parser | `pkg/parser/parser.go` | none between statements | tokens to a query | a text means what SQL says it means |
| optimizer | `pkg/plan/optimizer.go`, `join_defaults.go` | none (rewrites plans) | merge filters, reorder joins, prune columns | the rewritten plan returns the same rows |
| relational operators | `pkg/plan/plan.go`, `builtin_agg.go`, `builtin_window.go`, `builtin_conditional.go` | rows | filter, sort, aggregate, window, lateral view, partition pruning | the rows SQL asks for |
| engine | `pkg/engine/engine.go`, `gsql.go`, `pkg/catalog` | catalog, CTE tables | one statement at a time | names resolve in their scope, subqueries agree with their expansion, an INSERT stores what its SELECT means |
| serialization, other builtins, CLI | `pkg/serde`, `pkg/plan/builtin_*.go`, `cmd/gsql` | none | conversions | stateless for the most part |

How they interact. A statement is parsed, planned and executed in one goroutine,
pulling rows through iterators with `Next`. The one place where a statement
becomes concurrent is a join: its reader goroutine calls `Next` of the probe
input (a scan, a filter, or another join), while the caller of the join's `Next`
may call `Close`, which calls `Close` of that probe input. A statement that
writes collects its rows first and then calls `storage.WriteRows`, which is the
only code that changes stored data. A database connection may go through a tunnel,
whose goroutines know nothing of the statements. Nothing is locked between processes.

A row is a map from column keys to strings. Tables, joins, aliases, calls and the
optimizer all build and look up such keys, each with rules of its own: most of what
can go wrong in a query is one of them writing a key that the next one reads
differently.

What is hard to test: the interleavings of the join's goroutines and of `Close`;
a step that fails among several that succeed; a process that stops between the
write of a temporary file and its rename; lost answers of remote stores; the
differences between backends behind one interface; a query whose parts each pass
their test and whose whole loses a column. `PROJECT.json` lists these
hazards line by line with the properties that cover them.

## 2. Modules

| module | models | checked by |
|---|---|---|
| `SerialJoin` | what a join promises its caller: a nested-loop join read one row at a time (abstract) | refined by `JoinPipeline` |
| `JoinPipeline` | `join.go`: reader, workers, closer, `Next`, `Close` | `join_order` |
| `JoinPipelineProofs` | types, the inductive invariant, channel safety, order, completeness, refinement of `SerialJoin` | tlapm |
| `RowIter` | what a `storage.RowIter` promises whoever pulls rows from it (abstract) | refined by `ScanIter` |
| `ScanIter` | `rowiter.go` and the filter, limit and `Collect` of `iter.go` | `scan_rows`, `scan_close` |
| `ScanIterProofs` | types, order, completeness, limits, what is open, refinement of `RowIter` | tlapm |
| `AtomicTable` | what `WriteRows` promises about the stored rows (abstract) | refined by `TableWrite` |
| `TableWrite` | `writeTable`, `writePartitionedTable` and the file operations of six backends | `table_write`, `table_csv` |
| `TableWriteProofs` | types, causes of errors, refinement of `AtomicTable` | tlapm |
| `NamedFiles` | what a storage that finds files by name promises its clients (abstract) | refined by `LarkStorage` |
| `LarkStorage` | `lark.go`: root, folders, `Open`, `Create`, `WriteFile`, `Rename`, `Remove`, `MkdirAll`, uploads in parts, export tasks | `lark_files`, `lark_open` |
| `LarkStorageProofs` | types, the inductive invariant, refinement of `NamedFiles` | tlapm |
| `LarkAloneProofs` | what names lead to when one client is alone | tlapm |
| `DatabaseWrite` | `WriteTable` of `database.go` with the dialects of `drivers.go` | `db_write`, `db_overwrite` |
| `DatabaseWriteProofs` | types, order of the rows, acknowledged rows, what a statement leaves | tlapm |
| `Tunnel` | `tunnel.go` inside `database.Open` and `Close` | `tunnel` |
| `TunnelProofs` | types, what is given back, closed ends | tlapm |
| `Rows` | rows, column keys, comparison of texts and numbers | `sql`, `sql_having` (with all below) |
| `Expressions`, `Aggregates`, `Windows` | conditions and values, GROUP BY, window functions with frames | |
| `Partitions` | what a statement stores in which file, and which files a condition reads | |
| `Session` | the state machine of statements: catalog, files, CREATE TABLE, INSERT, SELECT, EXPLAIN | |
| `SessionProofs` | types, what an INSERT leaves to be read, what a scan with partition filters returns | tlapm |
| `Plans`, `Optimizer` | logical and physical plans and what they return; the rewriting | |
| `Parser`, `Text` | tokens to a query; how a client writes one | |
| `Engine` | what a statement computes: planning, subqueries, aliases, the rows of an INSERT, EXPLAIN | |
| `Meaning` | what a statement means, without plans or keys; the properties | |
| `MC...` | the instances for TLC | |

### The join (`JoinPipeline`)

The variables are the fields of `joinIter` and the program counters of its
goroutines: `rpc` for `readBatches`, `wpc[w]` for `probeWorker`; the caller's
state is `outcome`. A batch is the interval `(lo, hi]` of probe rows, and the rows
that one probe row yields are one group, because `Next` delivers them together.
Each action is the code between two points where another goroutine can be seen:
a receive, a send, a `select`, a lock. A `select` with `done` is two actions, both
enabled when both channels are ready. `IterateFails` is an input that fails while
the hash table is built, when no goroutine exists yet. The rows a worker sends are
computed when it sends them: the hash table does not change after `Iterate`.
`PullEOF` and `PullError` are also possible once `Close` has closed the probe
input, whatever is left of it.

Left out: the merging of column names and defaults of the two sides, which does
not depend on the interleaving, and a second error (`joinBatch` returns none).

### The scan (`ScanIter`)

One behaviour is one `SELECT` over the files of a table. A file is a sequence of
Booleans, whether the filter keeps the row, and the step that fails on it. A scan
whose `shared` is FALSE is read by `Collect`, one goroutine; a shared one is the
probe input of a join, whose `Close` runs in another goroutine: then `SharedClose`
takes `fileRowIter.Close` apart into its accesses to `decoder` and `file`, which no
lock protects. A method call on a field that has become nil ends the process
(`panic`). A call of the decoder is taken apart where Go loads the field before it
runs the method: a `Next` that has loaded the decoder (`LoadDecoder`) goes on reading after `Close` set the
field to nil, and gets a row or the end, if these are buffered, or an error. A file whose
`NewDecoder` fails is in no field yet, and `Next` itself closes it (`DecoderFails`).

`RowIter` sees of this what the caller of `Next` sees: the rows, the end or the error, and
whether the iterator is closed. Its input is what is wanted of the files, so it is what
`JoinPipeline` takes its probe input to be. A `Close` that overtakes a `Next` (`"closing"`)
lets that `Next` return at most one row more: the next kept one, or one returned
before, because the file may be opened again from its start.

### Table writes (`TableWrite`)

`names` maps paths to files and `files` holds their rows, like directory entries
and inodes, because a local writer keeps its file when the name moves. A row is one of
`Values`, so that two statements may give equal rows. The differences between the backends are
five predicates: `Buffered`, `PutIsAtomic`, `MissingIsNotExist`, `RenameReplaces` and
the path map `At`. Each storage call is an action, and next to it stand the ways in
which it fails: without effect, with a part of its effect (a file cut between
rows or inside one), or with all of it and the answer lost. `Crash` is possible
everywhere. The behaviour of servers is external and taken as follows: FTP and
WebDAV replace a file of the new name, SFTP's rename refuses to (OpenSSH does),
stores other than S3 show a file while it is being written.

On Git LFS a file is a pointer that names rows by their hash, in the model by the rows
themselves, and `objects` holds what is stored under each name. A write stores the
object first (`CreateObject`, `WriteObjectRow`) and then the pointer (`Create`,
`WriteRow`). It does not look whether the object is there: it is truncated and written
again, although other files, or the one to be replaced, may name it. A pointer that was
there before may be without its object (`Unfetched`): it opens with `fs.ErrNotExist`,
INSERT INTO takes it for a missing file and writes over it. One that is cut (`Torn`)
opens with an error, or as a file without an object, or as rows of its own text,
depending on where it was cut.

`AtomicTable` replaces the file of a partition in one step. Its exceptions are:

1. a file that INSERT INTO writes in place (all backends but S3) may be cut until it is stored;
2. the last error of a local CSV file is lost, and a cut file stored;
3. on Git LFS the object of the rows that are about to be stored, or of the first of
   them, may be cut until they are stored, and with it every file of these same rows;
4. on Git LFS, INSERT INTO replaces a pointer that is cut, or without its object,
   without having read its rows.

The third is the one to know: an INSERT OVERWRITE that is run again with the same rows,
or that gives two partitions equal rows, writes over the object of the live file. If it
stops there, the old rows are gone, temporary file and rename notwithstanding; the rows
are in the file again only when some write of them succeeds. No file of other rows is
touched.

Left out: Excel files, of which a cut one never decodes; a power failure that loses what was written without `fsync`; listing a
directory while it is written.

### Lark storage (`LarkStorage`)

A Lark drive is a tree of entries known by token, and nothing in it keeps two
entries of a folder from having one name. `drive` is that tree, with entries in the
order of their creation; since the drive never moves one, an entry keeps the folders
above it and its path from the app's root folder, and needs no recursion up the tree
(`Placed` says that both agree with the parent's, `IsSeed` what a drive may hold at the start:
any tree without two entries of one path); `uploads` are the chunked uploads; `store` is what a
`larkStorage` keeps between calls (`rootOnce`, the root's token or its error, and
`writeBufs`); `job[c]` is the place of a goroutine in its operation. One action is
one HTTP call with the code up to the next. `home` says which goroutines share a
`larkStorage`, hence its `sync.Once` and its buffers. A path is a sequence of names
and is gone through name by name, in `ensureFolder` (which makes what is missing)
or in `resolvePath` (which fails). The data of a file are the number of the
operation that wrote it and its units; a part of a chunked upload carries the units
of its block. An export holds what the document held when its task was created
(`CreateTask`). The limit of an upload in one call and the default block size are
constants, `MaxUploadAll` and `DefaultBlock`, of which nothing is assumed but that they
are numbers and a block is not empty.

`NamedFiles` sees of all this what each path leads to. Its clients are in one of five
phases: "busy" until the old file is dealt with, "read" while a task holds an export,
"storing" from then to the answer of the upload, "stored" until the operation ends.

Failures are counted in `faults`: a call is refused, is lost before it takes effect
or after, or answers with an error page; `doUploadPost` makes three attempts. A
process can die between any two calls. The drive is external. It is taken to list a
folder in any order, to refuse a delete that names the wrong type and an upload
that is already finished, and to apply a call before its answer or never, not later.

Left out: sharing with a chat, the token cache (a call without a token fails like
any other), the pages of a listing, `List` and `Stat`, the cancelling of a context.

### Database tables (`DatabaseWrite`)

`exists` and `rows` are the table at the server, `job[w]` the statement of a process
in `WriteTable`: connect, `CREATE TABLE IF NOT EXISTS`, the clearing command of an
INSERT OVERWRITE, one insert for each row. The dialect is two predicates: `CanClear`
and `CanInsert` compare the `storage` option with the server. A command fails without
effect, or takes effect and its answer is lost, and the process may die anywhere.
`ReadTable` and the making of connection strings are left out.

### The tunnel (`Tunnel`)

`phase` is where `Open` or `Close` is, `client` and `listener` what `Dial` made,
`acceptor` its goroutine. A connection of the driver has an end at the driver, an
accepted socket, an SSH channel and two copiers; a copier that returns closes the end
it wrote to, and that is what ends the other one. Three flags say whether data waits
in the socket, in the channel and in the driver's buffer, which holds one chunk, so
that a copier can be blocked in a write. `SSHDrops` is a jump host that goes away,
`ServerEnds` a database that closes a connection. `AcceptFails` is an error of `Accept`
while the listener is open (no file descriptor is left, say): any error ends the acceptor,
and nobody is told. From then on a new connection waits in the backlog, and with it a query,
or the `Ping` of `Open`, until `Close` resets it. The driver's pool, the database and
the SSH library are external: the pool may open, use and drop a connection whenever
it likes. Left out: the contents and the order of the data, `readTable`'s use of a
second connection (another connection), and the tunnels of the file storages, which
use `Dial` in the same way.

### A statement (`Rows` to `Engine`)

`Session` has three variables: `catalog`, `store` (for every table a function from the
path of a file to its rows) and `last`, the last statement with its outcome. Its
actions are CREATE TABLE, INSERT, SELECT and EXPLAIN. All else are functions, in the
modules named after the code they translate. What a statement computes from the catalog and
the files is a parameter of `Session` (`InsertResult`, `SelectResult`, `ExplainResult`), for
which the configurations name the operators of `Engine`: planning is recursive, and the
prover reasons about no module that reaches a recursive operator. A value is a string, as in the code;
what the code asks of strings (`TextOrder`, `Spelling`, `DecimalForm`, `LowerCase`,
`Elements`: their order, the number a text spells, the lower case, the elements of a
list) are constants. A column key is `<<function, qualifier, name>>`, because the code
only ever splits keys there.

A query comes as tokens and goes through `Parser`, `RunBody` (CTEs, FROM, subqueries,
planning), `OptimizeWithPruning`, `LogicalToPhysical` and `Execute`, in this order;
an INSERT then maps the rows to the target's columns (`Remapped`) and hands them to
`Partitions!writeTable`. `Text` writes a query as a client would, with as few parentheses
as SQL needs, and `Meaning` says what the answer to it is, by scopes, groups and places instead
of plans: it uses neither the parser nor the planner, the optimizer and the operators. A query leaves the
tables as they are, so a session ends with it; that keeps the state space small and
loses nothing.

Go's maps are ranged over in any order. The model goes through aliases in the order of
SELECT, which matters only when an alias is the name of another item, and no instance
has such a query.

Left out: the tokenizer; the parsing of CREATE TABLE and of VALUES in an INSERT; LIKE;
names of more than two parts; STDDEV, CORR, PERCENTILE and histograms (floating point);
most scalar functions; CSV headers, JSON and Excel;
values with a `/` and, in a table of bare directories (`partition_format`), empty partition
values, whose directory level the code leaves out, so that the row is not found again
(table.go:466, 166).

## 3. What the runs show

| run | instance | result |
|---|---|---|
| `join_order` | 2 workers, queues of 1, batches of 2; every join type over 5 probe rows, and a probe input of 4 rows that fails at the first, a middle or the last read | types, `SerialOrder`, `EndIsComplete`, `NoSendOnClosed`, `NoLeakAtEnd`, `ImplementsSerialJoin`, and under fairness `CollectEnds` and `CloseReleases` hold |
| `scan_rows` | three files, with and without rows and kept rows, each failing step, limits -1, 0, 1, 2; and shared scans of two files | order, completeness, limits, closing, `ImplementsRowIter` and termination hold |
| `scan_close` | shared scans | `CloseIsSafe` is violated |
| `table_write` | each backend, unpartitioned with 3 statements (CSV and JSON), two partitions with 2; statements with equal and with different rows | types, `ErrorsHaveACause` and `ImplementsAtomicTable` hold |
| `table_csv` | one local CSV file, one writer | `OverwriteIsAtomic` is violated |
| `lark_files` | one client with up to three operations and two failing calls, uploads of 2 to 4 units with every block size and every attempt failing, moves and removals beside a document and a folder, a file that takes the name of its folder, a move of a folder's name and one onto itself, an export while its folder is removed, two processes, two goroutines of one storage | types, `FoldersAreUnique`, `CopiesBounded`, `WrittenIsRead`, `ImplementsNamedFiles` and `OperationsEnd` hold |
| `lark_open` | the same instances | `OpenTellsErrors` is violated |
| `db_write` | each server with and without the `storage` option, 3 statements of 0, 1 or 3 rows, 2 failures; two writers | types, `RowsInOrder`, `AcknowledgedRowsStay`, `StopsBetweenRows` and `OverwriteReplaces` hold |
| `db_overwrite` | SQLite given by its url | `UrlSuffices` is violated |
| `tunnel` | two connections | types, `TunnelGivenBack`, `EndedIsClosed` and, under fairness, `CloseReleases` hold |
| `sql` | five tables (two partitioned, two of known size), eight INSERTs, 35 queries, every session of them with at most 4 rows in a table | types, `JoinAnswers`, `GroupAnswers`, `WindowAnswers`, `OptimizedIsEquivalent`, `InsertIsReadBack` (the files hold what the statement means) and `InsertIsRead` (a scan reads it) hold |
| `sql_having` | three of these tables, one query | `HavingKeepsGroups` is violated |

Why the bounds suffice. Three batches and two workers give every order in which
results can overtake each other, with one more batch than the queues hold; batches
of 2 over 5 rows give full and partial ones. A scan needs three files for one
without rows between two with rows. Three statements let an INSERT meet what a
crashed one made of the rows of a third; two values, which may be exchanged
(`SYMMETRY`), tell equal rows from different ones. On the drive, three operations let a read
meet what a failed write left of an earlier one, and three failing calls use up the
attempts of an upload; 2 to 4 units over blocks of 1 to 3 give full, partial and
single blocks on both sides of the limit for one call. A database statement of three
rows stops before, within and after its rows. Two connections share the listener, the
acceptor and the client, which is all that connections of a tunnel can share. Four rows
in a table (`MaxRows`) give a group of two beside one of one, a tie, a key that has no
partner on either side, and an INSERT INTO of more rows than were there; the queries are one for each clause and each way
in which clauses meet. For the join, the scan, the tables in files and in databases, the tunnel, the Lark storage and the files
of a session, section 4 proves the safety properties without these bounds.

What the violated properties say:

- `CloseIsSafe`. `joinIter.Close` closes the probe input while the reader may be in
  its `Next`. For a scan of files both touch `decoder` and `file` without a lock, and
  either can call a method of nil. `SELECT ... JOIN ... LIMIT n` does this: the limit
  ends the query while the reader is reading.
- `OverwriteIsAtomic`. `encodeCSV` asks for the writer's error before its
  deferred `Flush`; a disk that is full at the last write goes unnoticed, and the
  truncated file is renamed over the old one. (On Git LFS the property fails too, because
  the object that the old file names is written in place: section 2.)
- `OpenTellsErrors`. `Open` drops the error of `doDownload`: a download that fails, or
  a file that is gone, reads as a file without data.
- `UrlSuffices`. The documentation lets the `storage` option be left out where a url is
  given, but the dialect is taken from that option alone. For SQLite the clearing
  command is then `TRUNCATE`, which fails, its error is not looked at, and INSERT
  OVERWRITE appends. For PostgreSQL the table is cleared and the first insert, with
  placeholders of the wrong kind, is refused.
- `HavingKeepsGroups`. The parser puts the call of `HAVING COUNT(*) > 1` beside the name of
  the column that holds its result, the evaluator takes the call, and a call of an
  aggregate has no value there: every group is dropped. The unit test
  builds the query by hand, without the call.

`ErrorsHaveACause` also records, as its exceptions, statements that fail every
time: the first `INSERT INTO` on S3, FTP and WebDAV (a missing file is not
`fs.ErrNotExist` there), the second `INSERT OVERWRITE` over SFTP, and any `INSERT`
into a partitioned table over FTP (stored under its base name, renamed by its
whole path).

Other conditions that the properties state and a reader should know: on Lark, a
document that has the name of a table's file is never deleted, and every write adds
a file beside it (`CopiesBounded`, `WrittenIsRead`); a file written under the name of
a folder is stored beside it, and `ensureFolder` makes another folder of that name
whenever it finds the file first (`FoldersAreUnique`; the same exception, for the
folders of a path, is in `CopiesBounded` and `WrittenIsRead`); an upload whose answer is lost
leaves one more copy; `Rename` ends by removing what it finds under the old name, so
that a move onto itself uploads the file and then removes it (the exception in
`WrittenIsRead`), and a move of a file beside which a folder has the same name may remove
the folder with all there is in it (`NamedFiles!TakesAway`); an INSERT OVERWRITE without rows does not clear a database
table, and one that stops has already lost the old rows (`OverwriteReplaces`,
`StopsBetweenRows`). Two processes that overwrite one table of files share the name of
its temporary file; `table_write` therefore has one writer. The comment at `joinIter`
bounds the probe rows in memory, but `received` has no bound: while one worker is
busy with the lowest batch the others go through the whole input.

### Queries the code answers differently

`sql` has queries that the code answers as SQL does. While the modules were written,
these came up where it does not; they are in the model as they are in the code, and no
query of the instance uses them.

| statement | what happens | where |
|---|---|---|
| a partition column selected by name (docs/usage.md:469) | NULL in every row: pruning keeps declared columns only; `SELECT *` never has them | optimizer.go:310 |
| a window with ORDER BY and without PARTITION BY | the rows of the query are left in that order | plan.go:1246 |
| a window with ORDER BY and no frame; a RANGE frame no value reaches | the whole partition, where SQL (and ast.go:207) ends at the current row; the first or the last row, where SQL has none | plan.go:1399, 1497 |
| RANK, DENSE_RANK of numbers spelt differently; CUME_DIST of peers | ties compare texts where the sort compares numbers; peers do not count as one | builtin_window.go |
| ORDER BY a qualified column of the right table (docs/usage.md:219) | not sorted | engine.go:354 |
| `u.name AS n` of the left table (docs/basic.md:310) | the alias is lost | engine.go:354 |
| ON with the sides reversed, when the right table has both names | joined on the wrong columns | engine.go:434 |
| estimates set on the tables of a LEFT or RIGHT join, or of tables with equal column names | the inputs are swapped, the type or the keys are not | optimizer.go:110 |
| the last item of SELECT is CASE, CAST, arithmetic or a window without AS | rejected: `selectItemsConsumedNext` is never set | parser.go:22 |
| arithmetic that starts with a literal (docs/usage.md:70) | the alias is lost | parser.go:1633 |
| `SELECT (2 + 3) * 4` (docs/usage.md:71) | rejected | parser.go:1633 |
| a negative number on the right of a comparison | rejected | parser.go:1342 |
| `a OR b AND c` | from left to right, without precedence | parser.go:1325 |
| arithmetic inside a call's argument (docs/functions.md:231); a call inside a call (docs/usage.md:732) | the text of the argument is the value; the inner call's columns are pruned | plan.go:809, optimizer.go:296 |
| a faulty window frame | dropped without an error | parser.go:2058 |
| IN, IS NULL of a computed left side | look up a column named by its text | parser.go:1538 |
| EXISTS that finds nothing, NOT EXISTS that finds something (docs/usage.md:170) | true: both become the comparison "0" = "0" | engine.go:1044 |
| SELECT DISTINCT * over a CTE; SELECT DISTINCT of a scalar call | one row; rows grouped by a key they lack | engine.go:664 |
| COUNT(DISTINCT c) with GROUP BY | rejected | engine.go:554 |
| HAVING with the alias of an aggregate of a qualified column | looks up a key the group lacks | engine.go:509 |
| aggregates over no rows, a CTE without rows, a table without files | no row; an error; an error | plan.go, engine.go |
| EXPLAIN of FROM (VALUES ...) | the values are left out | engine.go |
| a CTE's name in a nested query | still known after it | engine.go:229 |
| a CSV row of one NULL | lost | serde.go |
| a comparison of a partition column with a number | files are chosen by comparing texts, so `"10" < "9"`; WHERE compares numbers by value | table.go:279 |

### Fairness

`GoSpec` assumes that a goroutine that can take a step does so (`WF` on the reader,
on each worker, on the closer) and that `Close`, once called, goes on to close the
probe input. Go's scheduler gives that, if `Next` of the probe input returns. No
fairness is assumed of the caller: `CollectEnds` states its own (`Collect` calls `Next`
until the end), `CloseReleases` needs none. In a `select` with several ready cases no
fairness between them is assumed. `ScanIter` assumes that `Collect` goes on calling
and that file operations return. `LarkStorage` assumes that every call returns and that
the platform ends its export tasks; no client has to begin an operation. A task may
end with a status that `downloadViaExport` does not know, and then it is polled for
ever: `OperationsEnd` excepts it.

`Tunnel` assumes that the acceptor returns once its listener is closed; that a dial
through the SSH connection, or a write to it, returns once that connection is closed; and
that the copier towards the driver goes on when it has data and the driver's socket has
room, or when its read or write has ended. Nothing makes `Accept` return a connection, a
dial succeed, the driver read what has arrived or notice the end of a connection (`database/sql`
leaves idle connections alone), the database send, the caller call `Close`, or `Ping`, which
has no timeout, return. `CloseReleases` promises accordingly: after `Close` and after an `Open`
that failed everything ends, because the pool is closed as well; the acceptor ends with the listener;
where only the SSH connection is gone, an accepted connection ends unless data for the driver
waits that is never read (`Unread`). A connection in the backlog is promised nothing before `Close`.

`Session` states no fairness, since a statement is one step.

## 4. What is proved

The join: for any set of workers, any batch size, queue depth and set of queries that satisfy
`ParamAssumption` (at least one worker, a batch size and a depth of at least 1) and
`QueryAssumption` (the inputs are finite sequences of keys). The scan: for any scans that satisfy
`ScanAssumption` (a finite sequence of files, each a finite sequence of rows with at most
one failing step; any limit; `Close` in either goroutine). The table in files: for any
tables that satisfy `TableAssumption` (one of the six backends, CSV or JSON; any partitions, or the
table's own directory and no others; any number of statements), any values of rows that are not
among the marks of missing, cut and unfetched files (`ValuesAssumption`) and one process that runs
statements (`OneWriter`): with two, each overwrites what the other has read or renamed,
and nothing in the code prevents it. The database: for any set of
writers and any tables that satisfy `TableAssumption` (any number of statements, sizes and
failures, but finitely many writers of one table, and a `storage` option that, when it is
given, names the server: `Open` takes the driver from it). The tunnel: for any set of
connections, without an assumption. The Lark storage: for any drives, clients, operations,
failures and reported block sizes that satisfy `SetupAssumption` (the drive is at first a tree
without two entries of one path; a `root_token` leaves no path to the root folder; no operation
has an empty path and no move an empty new name), and any `MaxUploadAll` and `DefaultBlock` that satisfy
`SizeAssumption`. The session: for any
tables and statements that satisfy `SessionAssumption` (columns and partition columns are
sequences), any comparison of texts and, whatever the queries compute, under the hypothesis
`ResultsAreRows`, which each of its theorems states: an INSERT without an error gives a
sequence of rows. Both forms of INSERT build a slice of rows, one for each row of VALUES
or of the SELECT (engine.go:134, 1184); in the model `InsertRows` maps over such a sequence, and it
is not proved only because `Engine` is recursive. The three properties about names speak of one client (`Alone`): between the
listing and the change that follows it another client can change the folder, and nothing in the
code prevents it.

| theorem | statement |
|---|---|
| `TypeCorrect` | `Spec => []TypeOK` |
| `InvCorrect` | `Spec => []IInv` |
| `ChannelSafety` | `Spec => []NoSendOnClosed` |
| `EndReleases` | `Spec => []NoLeakAtEnd` |
| `OrderCorrect` | `Spec => []SerialOrder` |
| `EndCorrect` | `Spec => []EndIsComplete` |
| `Refinement` | `Spec => ImplementsSerialJoin` |
| `ScanIterProofs!TypeCorrect` | `Spec => []TypeOK` |
| `ScanIterProofs!OrderCorrect` | `Spec => []ScanOrder` |
| `ScanIterProofs!EndCorrect` | `Spec => []EndIsComplete` |
| `LimitCorrect` | `Spec => []LimitStopsReading` |
| `ClosedCorrect` | `Spec => []FilesAreClosed` |
| `ScanIterProofs!Refinement` | `Spec => ImplementsRowIter` |
| `TableWriteProofs!TypeCorrect` | `OneWriter => (Spec => []TypeOK)` |
| `CauseCorrect` | `OneWriter => (Spec => []ErrorsHaveACause)` |
| `TableWriteProofs!Refinement` | `OneWriter => (Spec => ImplementsAtomicTable)` |
| `DatabaseWriteProofs!TypeCorrect` | `Spec => []TypeOK` |
| `DatabaseWriteProofs!OrderCorrect` | `Spec => []RowsInOrder` |
| `AcknowledgedCorrect` | `Spec => []AcknowledgedRowsStay` |
| `StopsCorrect` | `Spec => []StopsBetweenRows` |
| `OverwriteCorrect` | `Spec => []OverwriteReplaces` |
| `TunnelProofs!TypeCorrect` | `Spec => []TypeOK` |
| `TunnelIsGivenBack` | `Spec => []TunnelGivenBack` |
| `EndedConnectionsAreClosed` | `Spec => []EndedIsClosed` |
| `LarkStorageProofs!TypeCorrect` | `Spec => []TypeOK` |
| `LarkStorageProofs!Refinement` | `Spec => ImplementsNamedFiles` |
| `AloneCorrect` | `Spec => []AloneInv` |
| `FoldersAreUniqueCorrect` | `Spec => []FoldersAreUnique` |
| `CopiesBoundedCorrect` | `Spec => []CopiesBounded` |
| `WrittenIsReadCorrect` | `Spec => []WrittenIsRead` |
| `SessionProofs!TypeCorrect` | `ResultsAreRows => (Spec => []TypeOK)` |
| `InsertCorrect` | `ResultsAreRows => (Spec => InsertIsRead)` |
| `ScanCorrect` | `ResultsAreRows => (Spec => []ScansAreExact)` |

The argument for the join. `NoSendOnClosed` is not inductive: that no worker sends on `results`
follows from `PipelineDone`, and that needs that a worker which has ended found `jobs`
empty and closed, hence the reader gone (`ShutdownInv`). The order of the rows needs
to know where every batch is. `ReaderInv` says that batch *n* is the interval of probe
rows from *n* times the batch size; `BatchInv`, that a batch in `jobs`, in a worker's
hand, in `results` or in `received` has the interval its number says and that no two
have the same number; `NoBatchLost`, that every number between `nextSeq` and the
reader's is in one of these places; `MatchedInv`, that the matched keys are those of
batches already joined; `OutputInv`, that what was returned is the result for the
probe rows up to the batch in hand; `EndInv`, that once the probe is over nothing is in flight.
All but the first are conditioned on `~done`: after `Close` batches are dropped on
purpose. `IInv` is their conjunction; TLC checked it before it was proved. From
`IInv`, `ProbeComplete` derives that at the end every readable probe row has been
returned, and `Refinement` maps `Started` and `done` to the status of `SerialJoin` and
takes each step to a step of it or a stutter.

The argument for the scan. None of its properties is inductive. `ScanOrder` speaks of the
rows returned, and the next one fits only if the scan stands right behind them:
`OrderInv` says how far it has read (`ReachedFile`, `ReachedRow`), that every kept row up
to there has been returned, and that until `Close` no other has. That needs `PlaceInv`
(the decoder reads file `idx`, the files before it had no fault) and `CloseInv` (who has
called `Close`, and that nobody has been told the end while `Next` runs). `LimitInv` adds that inside
`Next` a row is still missing; since the rows returned are distinct, they count those of
the files before the one being opened. `OpenInv` says which handle is open at each point.
Steps that only move the caller on share one lemma (`MoveStep`), and so do both forms of
`Close` (`ClosingStep`). For the refinement of `RowIter` the status of the iterator is
computed from `closed` and from whether a `Next` has already looked at it (`InFlight`).
`ReadInv` adds that the decoder of a scan that is not closed reads an open file, so that
an error there has a fault of a file as its cause.

The argument for the table in files. A step of a statement on the files is a step of `AtomicTable` only if
what lies in the file it touches is known. `StoreInv` says it: a file being filled holds
the first rows of those planned, as many as were sent, and it is the one that the target's
name leads to; a file waiting for its rename holds them all, or, for a local CSV file,
is cut short. On Git LFS a pointer is written, and takes the target's name, only while
its object holds all the rows it names: `Create` comes after the last `WriteObjectRow`, and
with one writer no other object is written until the rename. `NamesInv` says that no two names lead to one file, so that filling the
temporary one leaves the data file alone, and that over FTP nothing but the temporary file of
a partitioned table ever exists, so that no rename of it succeeds. `JobInv` is what the
position of the statement says about its plan, and the last conjunct carries the cause
of an error from the failed rename to the end of the statement. The proof has two
halves. The steps of `AtomicTable` are stated once each in terms of the job that results
(`PlanStep`, `StoreStep`, `StopStep`, ...), and what each file operation does to the
stored rows once (`WriteSets`, `FillSets`, `MoveSets`, `ClearSets`); each action of
`TableWrite` is then one of the first with one of the second.

The argument for the database. Statements are numbered as they begin, and the rows of one
that runs are those it has sent (`NumberInv`), so the next row comes behind them.
An INSERT OVERWRITE that has not cleared the table may clear any row; `AckInv` says that
nothing is acknowledged until it has, and that no statement which runs beside it, begun
before or after, adds its rows to those acknowledged (`cleared`). For a writer that is alone,
`AloneInv` gives the table exactly: what was there, or nothing, and the rows sent so far;
`StopsBetweenRows` and `OverwriteReplaces` are its last two cases.

The argument for the tunnel. That both ends are closed when both copiers have returned
needs to know how far a connection is (`EndsInv`: no copier before it is accepted, no
channel before it is dialled, a copier that returned closed its end). That nothing is
left open needs what has been made in which phase (`PhaseInv`: no listener and no
connection before `Listen`; nothing of the driver open when `Open` undoes its
work). `IInv` is the conjunction of both with `TypeOK` and `TunnelGivenBack`. Each step
of a connection is a `Step` to a sound connection, so that one lemma (`StepSound`)
carries all of them.

The argument for the Lark storage, with any number of clients. That a step is one of
`NamedFiles` depends on where a token leads that was looked up several calls before.
`PlaceInv` says it: the folder an operation stands in and the rest of its walk give
together the path it goes through, and a token kept for a download, an export or a delete
has the path it was looked up by, although it may be gone by now. `TreeInv` keeps the
folders above an entry earlier in the drive and on its path, so that a removal takes
away what its name is a prefix of and nothing else (`DeleteCopies`). `OpInv` says which
operations come to which call; `UploadInv`, that a part that is sent follows parts
received, so that `finish` finds all the units (by `ChunksSuffice`, about
`ChunkCount`: the blocks cover the data for every size and block size); that no two clients
have one upload, so that an attempt repeated after a lost answer adds to nobody else's.
`StoreInv` and `HomeInv` say what `sync.Once` gives: a `larkStorage` that has not
failed knows the root folder's path, one goroutine at most looks for it, and nobody
passes before it is found. `IInv` is their conjunction. Each action has one lemma, which
proves `IInv'` and the step of `NamedFiles` together, since both need the same facts.

The argument for one client. None of the three properties is inductive. `AloneInv` adds what
the client knows (`SoleInv`): from the listing of `ensureFolder` to the creation no folder
has the name; from the look-up of `WriteFile` on, the file it is about to remove is one of
those of the name; and while it uploads there are no more of them than calls have failed, one less
than the bound. That last part carries `CopiesBounded`: a call that fails raises the bound as
it breaks the count, whether it was the listing, the delete or an upload whose answer is lost.
`WrittenIsRead` needs, for a move, that the removal of the old name at the end spares the new file
(`Spared`). The old name is not the new one, so it would have to be a folder's on the way to the new
file; but what was read under it was no folder, and that is the exception `Shadowed`. That the
folders of a path are alive at every call is in `AloneInv` too (`Alive(j.at)`): with another client
it fails, and then the drive refuses.

The argument for the session. `TypeOK` is inductive with two additions: a table of the catalog is
one that CREATE TABLE may name, so its columns are sequences, and its files are finitely many
(`IInv`). `InsertIsRead` counts: a row is read after the INSERT as often as before from the files that
stay, and once more for each place in the given rows from which it comes. `WrittenFile` and
`WriteFacts` say what a write puts where, and `NewPlaceIsPut` that the places of the
new rows in the files and their places in the given sequence correspond one to one: the *n*-th
row stored in a file comes from the *n*-th place of that path (`RankBijection`, since rows
that are blank lines leave gaps). Reading adds the values of the path: `UsesBareIsOption` says
that the reader's guess whether directories are bare, made from the first level, agrees
with what the writer does, so a row is read alike whatever other files there are
(`ReadRowIsLocal`) and as it was given (`WrittenRowIsRead`). `ScanCorrect` follows from two facts:
a file's directories match the filters exactly if its rows pass them (`MatchingIsPassing`), and reading
a list of files, each once, returns each row as often as those files hold it (`ReadFilesFacts`, by
the least number of files for which it would fail, as there is no induction over operators). It
is stated for any order of the files, because the order that `SortSeq` computes is not
visible to the prover, and passing a filter means what it means in the code, a comparison of texts; `OpenTableIter` reads them in one such order. `ScansAreExact` speaks of all
filters and all rows, so it is proved and not run; `Pruned`, a query of `sql`, has partition filters.

Model-checked only: the liveness properties (TLAPS has no backend for fairness and
`ENABLED` here), and what a query returns: `JoinAnswers`, `GroupAnswers`, `WindowAnswers`,
`OptimizedIsEquivalent` and `InsertIsReadBack`. These speak of `Plans`, `Engine`, `Parser` and `Meaning`,
which are full of recursion over queries, plans and tokens: what a recursive definition
computes for every input is out of the prover's reach (no induction over operators), so no module
that is proved about has one.

## 5. Plan

Done, in this order: the join, where the code is concurrent; the iterators below it;
the code that changes stored data (files, the Lark drive, databases); the tunnel; a
statement from its tokens to its rows.

Next:

1. `readTable`, which reads files in goroutines and is called by no query; CSV headers.
2. The parsing of CREATE TABLE and VALUES; LIKE.
3. `Session` as an abstraction of `TableWrite`: today a statement of `Session` writes its files
   in one step that succeeds, and the steps and failures of that write are `TableWrite`'s.

Not modelled, and why: formatting and flags of the CLI and the layout of EXPLAIN
(wording); the scalar functions other than the conditional ones (stateless conversions
of strings and dates, which unit tests reach better than a model whose
strings are a small set); square roots and percentiles (floating point); the
constructors and the parsing of URLs that turn options into a backend; the tokenizer.
