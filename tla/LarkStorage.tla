------------------------------ MODULE LarkStorage ------------------------------
(***************************************************************************)
(* The storage of files in a Lark drive (pkg/storage/lark.go).  The drive  *)
(* knows entries by token; a name is found by listing its folder, and      *)
(* nothing keeps two entries of a folder from having the same name.        *)
(* Writing deletes the file of that name and uploads another one, moving   *)
(* copies and deletes, and Create only fills a buffer that Rename uploads. *)
(*                                                                         *)
(* Every HTTP call is a step, next to the ways in which it can fail.  The  *)
(* content of a file is the number of the operation that made it and the   *)
(* units of its data that it holds.  The drive itself is external.         *)
(***************************************************************************)
EXTENDS Integers, Sequences, FiniteSets

CONSTANTS Setups,           \* what to run, see SetupAssumption
          Clients,          \* goroutines that call a Storage
          MaxUploadAll,     \* larkMaxUploadAllSize, in units
          DefaultBlock      \* larkDefaultBlockSize

ASSUME SizeAssumption == MaxUploadAll \in Nat /\ DefaultBlock \in Nat \ {0}

UploadAttempts == 3         \* larkUploadAttempts

Kinds == {"file", "folder", "doc"}

Top == 0                    \* the token of the app's root folder
Name == STRING
Names == Seq(Name)          \* a path, from one folder to another entry
Front(s) == SubSeq(s, 1, Len(s) - 1)
Last(s) == s[Len(s)]
Units(n) == 0 .. n - 1

\* An entry keeps where it is, and the drive never moves one.
Entry == [parent : Nat, above : SUBSET Nat, path : Names, kind : Kinds,
          data : [by : Int, units : SUBSET Nat], live : BOOLEAN]

\* An entry with all the folders above it; its path from the app's root folder.
Chain(d, t) == IF t = Top THEN {} ELSE d[t].above \cup {t}
PathIn(d, t) == IF t = Top THEN << >> ELSE d[t].path

Placed(d, t) ==
    LET parent == d[t].parent
    IN  /\ parent < t
        /\ parent # Top => d[parent].kind = "folder"
        /\ d[t].above = Chain(d, parent)
        /\ d[t].path = Append(PathIn(d, parent), Last(d[t].path))

\* What a drive holds to begin with: one entry of a name, files with some data.
IsSeed(d) ==
    /\ d \in Seq(Entry)
    /\ \A t \in DOMAIN d : /\ Placed(d, t) /\ d[t].data.by \in -2 .. 0
                           /\ IsFiniteSet(d[t].data.units)
                           /\ d[t].data.units = Units(Cardinality(d[t].data.units))
    /\ \A t, u \in DOMAIN d : d[t].path = d[u].path => t = u

Operations == [do : {"create", "write", "rename", "remove", "open", "mkdir"},
               path : Names \ {<< >>}, to : Names, size : Nat]

ASSUME SetupAssumption ==
    \A s \in Setups :
        /\ s.folder \in Names /\ s.rooted \in BOOLEAN
        /\ s.rooted => s.folder = << >>
        /\ IsSeed(s.seed)
        /\ s.clients \subseteq Clients /\ s.home \in [s.clients -> s.clients]
        /\ s.ops \subseteq Operations
        /\ \A o \in s.ops : o.do = "rename" => o.to # << >>
        /\ s.most \in Nat /\ s.faults \in Nat /\ s.blocks \subseteq Nat

VARIABLES
    setup,      \* [folder: the root folder's path, rooted: root_token is given,
                \*  seed: entries of the drive, clients, home: client -> the
                \*  Storage it uses, ops: what they may ask for, most: how many
                \*  times, faults: how many calls fail, blocks: block sizes the
                \*  platform reports]
    drive,      \* token -> entry, in the order of their creation
    uploads,    \* chunked uploads: the units received, and whether finished
    store,      \* Storage -> [once, root, failed, bufs]
    job,        \* client -> the operation it is in
    begun,      \* operations begun
    faults      \* calls that have failed

vars == <<setup, drive, uploads, store, job, begun, faults>>

Empty == [by |-> -1, units |-> {}]
ErrorPage == [by |-> -2, units |-> {0}]
NoOp == [do |-> "none", path |-> << >>, to |-> << >>, size |-> 0]

Idle == [pc |-> "idle", op |-> NoOp, walk |-> << >>, at |-> Top, tok |-> Top,
         data |-> Empty, try |-> 0, up |-> 0, block |-> 1, seq |-> 0,
         buffered |-> FALSE, stored |-> FALSE, task |-> "none", result |-> "idle"]

Init ==
    /\ setup \in Setups
    /\ drive = setup.seed
    /\ uploads = << >>
    /\ store = [s \in Clients |-> [once |-> "new", root |-> Top, failed |-> FALSE,
                                   bufs |-> {}]]
    /\ job = [c \in Clients |-> Idle]
    /\ begun = 0 /\ faults = 0

-------------------------------------------------------------------------------
(***************************************************************************)
(* The drive.                                                              *)
(***************************************************************************)
PathOf(t) == PathIn(drive, t)

\* A deleted folder takes along what is in it.
Alive(t) == \A u \in Chain(drive, t) : drive[u].live

Entries(parent, name) ==
    {t \in DOMAIN drive : /\ drive[t].parent = parent
                          /\ drive[t].path = Append(PathOf(parent), name)
                          /\ Alive(t)}

IsFile(t) == Alive(t) /\ drive[t].kind = "file"

Add(parent, name, kind, data) ==
    drive' = Append(drive, [parent |-> parent, above |-> Chain(drive, parent),
                            path |-> Append(PathOf(parent), name),
                            kind |-> kind, data |-> data, live |-> TRUE])

Delete(t) == drive' = [drive EXCEPT ![t].live = FALSE]

\* A delete names the type of the entry, and the platform refuses another one.
CanDelete(t, type) == Alive(t) /\ drive[t].kind = type

\* One of the calls fails, for no reason in the drive.
Fault == faults < setup.faults /\ faults' = faults + 1

-------------------------------------------------------------------------------
(***************************************************************************)
(* Operations.                                                             *)
(***************************************************************************)
Home(c) == setup.home[c]
Op(c) == job[c].op

\* Where a file is written: Rename writes its new name.
Target(op) == IF op.do = "rename" THEN op.to ELSE op.path

End(c, result) ==
    job' = [job EXCEPT ![c] = [Idle EXCEPT !.op = Op(c), !.result = result,
                                           !.data = job[c].data]]

\* Rename only warns when it cannot remove the old file.
Fail(c) == End(c, IF job[c].stored THEN "ok" ELSE "error")

\* An operation goes through a path: to find it, or making its folders.
Walk(c, pc) ==
    [job[c] EXCEPT !.pc = pc, !.at = store[Home(c)].root,
                   !.walk = IF pc = "ensure" /\ Op(c).do # "mkdir"
                            THEN Front(Target(Op(c))) ELSE Op(c).path]

FirstPhase(c) ==
    IF Op(c).do \in {"write", "mkdir"} \/ job[c].buffered THEN "ensure" ELSE "resolve"

\* Close of a created file puts its data in writeBufs.
Create(c) ==
    /\ job[c].pc = "idle" /\ begun < setup.most
    /\ begun' = begun + 1
    /\ \E op \in setup.ops :
         /\ op.do = "create"
         /\ store' = [store EXCEPT ![Home(c)].bufs =
                         {b \in @ : b.path # op.path} \cup
                         {[path |-> op.path,
                           data |-> [by |-> begun', units |-> Units(op.size)]]}]
         /\ job' = [job EXCEPT ![c] = [Idle EXCEPT !.op = op, !.result = "ok"]]
    /\ UNCHANGED <<setup, drive, uploads, faults>>

\* The others.  Rename takes what is buffered under the old name.
Begin(c) ==
    /\ job[c].pc = "idle" /\ begun < setup.most
    /\ begun' = begun + 1
    /\ \E op \in setup.ops :
         LET found == {b \in store[Home(c)].bufs :
                         op.do = "rename" /\ b.path = op.path}
         IN  /\ op.do # "create"
             /\ store' = [store EXCEPT ![Home(c)].bufs = @ \ found]
             /\ \E data \in IF found # {} THEN {b.data : b \in found}
                            ELSE IF op.do = "write"
                            THEN {[by |-> begun', units |-> Units(op.size)]}
                            ELSE {Empty} :
                   job' = [job EXCEPT ![c] = [Idle EXCEPT !.pc = "root", !.op = op,
                                                          !.data = data,
                                                          !.buffered = found # {}]]
    /\ UNCHANGED <<setup, drive, uploads, faults>>

-------------------------------------------------------------------------------
(***************************************************************************)
(* resolveRoot, once for every Storage; what goes wrong then stays wrong.  *)
(***************************************************************************)
UseRoot(c) ==
    /\ job[c].pc = "root" /\ store[Home(c)].once = "done"
    /\ IF store[Home(c)].failed
       THEN End(c, "error")
       ELSE job' = [job EXCEPT ![c] = Walk(c, FirstPhase(c))]
    /\ UNCHANGED <<setup, drive, uploads, store, begun, faults>>

\* A root_token needs no call.  Other goroutines wait for the one inside.
EnterOnce(c) ==
    /\ job[c].pc = "root" /\ store[Home(c)].once = "new"
    /\ IF setup.rooted
       THEN store' = [store EXCEPT ![Home(c)].once = "done"] /\ UNCHANGED job
       ELSE /\ store' = [store EXCEPT ![Home(c)].once = "busy"]
            /\ job' = [job EXCEPT ![c].pc = "approot"]
    /\ UNCHANGED <<setup, drive, uploads, begun, faults>>

\* getAppRoot: one of its two queries is answered.
FindAppRoot(c) ==
    /\ job[c].pc = "approot"
    /\ job' = [job EXCEPT ![c].pc = "rootwalk", ![c].at = Top,
                          ![c].walk = setup.folder]
    /\ UNCHANGED <<setup, drive, uploads, store, begun, faults>>

LeaveOnce(c) ==
    /\ job[c].pc = "rootwalk" /\ job[c].walk = << >>
    /\ store' = [store EXCEPT ![Home(c)].once = "done",
                              ![Home(c)].root = job[c].at]
    /\ job' = [job EXCEPT ![c].pc = "root"]
    /\ UNCHANGED <<setup, drive, uploads, begun, faults>>

\* Mutant: the error is returned without being kept.
ForgetsFailure(c) == Fail(c) /\ UNCHANGED store

\* An operation ends with an error, and takes the Storage with it when it was
\* resolving the root.
GiveUp(c) ==
    /\ Fail(c)
    /\ IF job[c].pc \in {"approot", "rootwalk", "rootmake"}
       THEN store' = [store EXCEPT ![Home(c)].once = "done",
                                   ![Home(c)].failed = TRUE]
       ELSE UNCHANGED store

-------------------------------------------------------------------------------
(***************************************************************************)
(* ensureFolder and resolvePath, one name of a path at a time.             *)
(***************************************************************************)
Enter(c, t) == job' = [job EXCEPT ![c].at = t, ![c].walk = Tail(@)]

\* ensureFolder lists the parent ...
EnsureFolder(c) ==
    /\ job[c].pc \in {"rootwalk", "ensure"} /\ job[c].walk # << >>
    /\ Alive(job[c].at)
    /\ LET found == Entries(job[c].at, Head(job[c].walk))
           make  == job' = [job EXCEPT ![c].pc = IF @ = "ensure" THEN "make"
                                                 ELSE "rootmake"]
       IN  IF found = {} THEN make
           ELSE \E t \in found : IF drive[t].kind = "folder" THEN Enter(c, t) ELSE make
    /\ UNCHANGED <<setup, drive, uploads, store, begun, faults>>

\* ... and creates the folder when it is not there.
CreateFolder(c) ==
    /\ job[c].pc \in {"make", "rootmake"} /\ Alive(job[c].at)
    /\ Add(job[c].at, Head(job[c].walk), "folder", Empty)
    /\ job' = [job EXCEPT ![c].pc = IF @ = "make" THEN "ensure" ELSE "rootwalk",
                          ![c].at = Len(drive'), ![c].walk = Tail(@)]
    /\ UNCHANGED <<setup, uploads, store, begun, faults>>

\* Mutant: a folder is created again when the answer is lost.
CreateAgain(c) ==
    /\ job[c].pc \in {"make", "rootmake"} /\ Alive(job[c].at) /\ Fault
    /\ Add(job[c].at, Head(job[c].walk), "folder", Empty)
    /\ UNCHANGED <<setup, uploads, store, job, begun>>

FolderUnanswered(c) ==
    /\ job[c].pc \in {"make", "rootmake"} /\ Alive(job[c].at) /\ Fault
    /\ Add(job[c].at, Head(job[c].walk), "folder", Empty)
    /\ GiveUp(c)
    /\ UNCHANGED <<setup, uploads, begun>>

\* The folders of a path are there.
Ensured(c) ==
    /\ job[c].pc = "ensure" /\ job[c].walk = << >>
    /\ IF Op(c).do = "mkdir" THEN End(c, "ok")
       ELSE job' = [job EXCEPT ![c].pc = "lookup"]
    /\ UNCHANGED <<setup, drive, uploads, store, begun, faults>>

\* resolvePath; Open resolves a path a second time for the type of the entry.
ResolveName(c) ==
    /\ job[c].pc \in {"resolve", "type"} /\ Len(job[c].walk) > 1
    /\ Alive(job[c].at)
    /\ LET found == Entries(job[c].at, Head(job[c].walk))
       IN  IF found = {} THEN Fail(c)
           ELSE \E t \in found : IF drive[t].kind = "folder" THEN Enter(c, t) ELSE Fail(c)
    /\ UNCHANGED <<setup, drive, uploads, store, begun, faults>>

\* The last name of the path.
ResolveLast(c) ==
    /\ job[c].pc \in {"resolve", "type"} /\ Len(job[c].walk) = 1
    /\ Alive(job[c].at)
    /\ LET found == Entries(job[c].at, Head(job[c].walk))
           reads == Op(c).do = "open" \/ (Op(c).do = "rename" /\ ~job[c].stored)
       IN  IF found = {} THEN Fail(c)
           ELSE \E t \in found :
                  IF job[c].pc = "type"
                  THEN job' = [job EXCEPT ![c].pc = IF drive[t].kind = "file"
                                                    THEN "get" ELSE "export"]
                  ELSE IF ~reads
                  THEN job' = [job EXCEPT ![c].pc = "delete", ![c].tok = t]
                  ELSE IF drive[t].kind = "folder" THEN Fail(c)
                  ELSE job' = [job EXCEPT ![c] = [Walk(c, "type") EXCEPT !.tok = t]]
    /\ UNCHANGED <<setup, drive, uploads, store, begun, faults>>

-------------------------------------------------------------------------------
(***************************************************************************)
(* Open: download a file, or export a document.                            *)
(***************************************************************************)
\* Open returns the data; Rename goes on to write it under the new name.
Got(c, data) ==
    job' = [job EXCEPT ![c] =
               IF Op(c).do = "rename" THEN [Walk(c, "ensure") EXCEPT !.data = data]
               ELSE [Idle EXCEPT !.op = Op(c), !.result = "ok", !.data = data]]

Download(c) ==
    /\ job[c].pc = "get" /\ IsFile(job[c].tok)
    /\ Got(c, drive[job[c].tok].data)
    /\ UNCHANGED <<setup, drive, uploads, store, begun, faults>>

\* Open does not look at the error of doDownload: the call fails, or the file
\* is gone, and the data is empty.
DownloadFails(c) ==
    /\ job[c].pc = "get"
    /\ \/ ~IsFile(job[c].tok) /\ UNCHANGED faults
       \/ Fault
    /\ Got(c, Empty)
    /\ UNCHANGED <<setup, drive, uploads, store, begun>>

\* doGet does not look at the status of a response either.
DownloadPage(c) ==
    /\ job[c].pc \in {"get", "fetch"} /\ Fault
    /\ Got(c, ErrorPage)
    /\ UNCHANGED <<setup, drive, uploads, store, begun>>

\* The platform exports what the document holds now.
CreateTask(c) ==
    /\ job[c].pc = "export" /\ Alive(job[c].tok) /\ drive[job[c].tok].kind = "doc"
    /\ job' = [job EXCEPT ![c].pc = "poll", ![c].task = "running",
                          ![c].data = drive[job[c].tok].data]
    /\ UNCHANGED <<setup, drive, uploads, store, begun, faults>>

\* The platform ends the task: job_status 0, 2, or one the code does not know.
TaskEnds(c) ==
    /\ job[c].task = "running"
    /\ \E s \in {"done", "failed", "unknown"} : job' = [job EXCEPT ![c].task = s]
    /\ UNCHANGED <<setup, drive, uploads, store, begun, faults>>

\* Any other status is asked for again.
Poll(c) ==
    /\ job[c].pc = "poll"
    /\ \/ job[c].task = "done" /\ job' = [job EXCEPT ![c].pc = "fetch"]
       \/ job[c].task = "failed" /\ Fail(c)
    /\ UNCHANGED <<setup, drive, uploads, store, begun, faults>>

Fetch(c) ==
    /\ job[c].pc = "fetch"
    /\ Got(c, job[c].data)
    /\ UNCHANGED <<setup, drive, uploads, store, begun, faults>>

-------------------------------------------------------------------------------
(***************************************************************************)
(* WriteFile: delete the file of that name, then upload.                   *)
(***************************************************************************)
Sending == {"all", "prepare", "part", "finish"}

Send(c) == [job[c] EXCEPT !.pc = IF Cardinality(job[c].data.units) <= MaxUploadAll
                                 THEN "all" ELSE "prepare"]

LookUp(c) ==
    /\ job[c].pc = "lookup" /\ Alive(job[c].at)
    /\ LET name  == Last(Target(Op(c)))
           found == Entries(job[c].at, name)
       IN  \/ found = {} /\ job' = [job EXCEPT ![c] = Send(c)]
           \/ \E t \in found :
                job' = [job EXCEPT ![c] = IF drive[t].kind = "folder" THEN Send(c)
                                          ELSE [@ EXCEPT !.pc = "drop", !.tok = t]]
    /\ UNCHANGED <<setup, drive, uploads, store, begun, faults>>

\* Mutant: the file is not deleted.
Keep(c) == UNCHANGED drive

Remove(c) == Delete(job[c].tok)

\* Whatever becomes of the delete, the upload follows.
Drop(c) ==
    /\ job[c].pc = "drop" /\ CanDelete(job[c].tok, "file")
    /\ Remove(c)
    /\ UNCHANGED faults \/ Fault
    /\ job' = [job EXCEPT ![c] = Send(c)]
    /\ UNCHANGED <<setup, uploads, store, begun>>

\* An upload has returned: WriteFile and Rename of a buffer end, another
\* Rename removes the old name.
Uploaded(c) ==
    IF Op(c).do = "rename" /\ ~job[c].buffered
    THEN job' = [job EXCEPT ![c] = [Walk(c, "resolve") EXCEPT !.stored = TRUE]]
    ELSE End(c, "ok")

\* Mutant: one attempt too many.
RetryOnceMore(c) ==
    IF job[c].try < UploadAttempts THEN job' = [job EXCEPT ![c].try = @ + 1]
    ELSE Fail(c)

\* doUploadPost tries again after a transient failure.
Retry(c) ==
    IF job[c].try + 1 < UploadAttempts
    THEN job' = [job EXCEPT ![c].try = @ + 1]
    ELSE Fail(c)

\* An attempt has taken effect; the answer comes back, or is lost.
Answered(c, ok) == (ok /\ UNCHANGED faults) \/ (Fault /\ Retry(c))

\* Mutant: the business code of an answer is not looked at.
CodeIgnored(c) ==
    /\ job[c].pc \in {"all", "finish"} /\ Fault
    /\ Uploaded(c)
    /\ UNCHANGED <<setup, drive, uploads, store, begun>>

\* An attempt fails without effect: it is tried again, or it is not (for a
\* business code of another kind, or without an access token).
PostFails(c) ==
    /\ job[c].pc \in Sending /\ Fault
    /\ Retry(c) \/ Fail(c)
    /\ UNCHANGED <<setup, drive, uploads, store, begun>>

Store(c, units) ==
    Add(job[c].at, Last(Target(Op(c))), "file", [job[c].data EXCEPT !.units = units])

UploadAll(c) ==
    /\ job[c].pc = "all" /\ Alive(job[c].at)
    /\ Store(c, job[c].data.units)
    /\ Answered(c, Uploaded(c))
    /\ UNCHANGED <<setup, uploads, store, begun>>

\* Mutant: the last block is forgotten unless it is full.
FullBlocks(size, block) == IF size <= 0 \/ block <= 0 THEN 1 ELSE size \div block

ChunkCount(size, block) ==
    IF size <= 0 \/ block <= 0 THEN 1 ELSE (size + block - 1) \div block

\* A platform that reports no block size gets blocks of the default one.
UploadPrepare(c) ==
    /\ job[c].pc = "prepare" /\ Alive(job[c].at)
    /\ uploads' = Append(uploads, [units |-> {}, finished |-> FALSE])
    /\ Answered(c, \E b \in setup.blocks :
                      job' = [job EXCEPT ![c].pc = "part", ![c].try = 0,
                                         ![c].up = Len(uploads'), ![c].seq = 0,
                                         ![c].block = IF b = 0 THEN DefaultBlock
                                                      ELSE b])
    /\ UNCHANGED <<setup, drive, store, begun>>

UploadPart(c) ==
    /\ job[c].pc = "part"
    /\ LET j    == job[c]
           next == j.seq + 1
           last == next >= ChunkCount(Cardinality(j.data.units), j.block)
       IN  /\ uploads' = [uploads EXCEPT ![j.up].units =
                             @ \cup {u \in j.data.units : /\ j.seq * j.block <= u
                                                          /\ u < next * j.block}]
           /\ Answered(c, job' = [job EXCEPT ![c].seq = next, ![c].try = 0,
                                             ![c].pc = IF last THEN "finish" ELSE @])
    /\ UNCHANGED <<setup, drive, store, begun>>

\* Without a token in the answer the file is looked up.
UploadFinish(c) ==
    /\ job[c].pc = "finish" /\ Alive(job[c].at) /\ ~uploads[job[c].up].finished
    /\ uploads' = [uploads EXCEPT ![job[c].up].finished = TRUE]
    /\ Store(c, uploads[job[c].up].units)
    /\ Answered(c, Uploaded(c) \/ job' = [job EXCEPT ![c].pc = "find"])
    /\ UNCHANGED <<setup, store, begun>>

FindUploaded(c) ==
    /\ job[c].pc = "find" /\ Alive(job[c].at)
    /\ IF Entries(job[c].at, Last(Target(Op(c)))) = {} THEN Fail(c) ELSE Uploaded(c)
    /\ UNCHANGED <<setup, drive, uploads, store, begun, faults>>

-------------------------------------------------------------------------------
(***************************************************************************)
(* Remove, and what can go wrong anywhere.                                 *)
(***************************************************************************)
DeleteType(c) == IF drive[job[c].tok].kind = "folder" THEN "folder" ELSE "file"

RemoveByToken(c) ==
    /\ job[c].pc = "delete" /\ CanDelete(job[c].tok, DeleteType(c))
    /\ Delete(job[c].tok)
    /\ \/ End(c, "ok") /\ UNCHANGED faults
       \/ Fail(c) /\ Fault
    /\ UNCHANGED <<setup, uploads, store, begun>>

\* WriteFile goes on without a listing and without a delete.
CallFailed(c) ==
    IF job[c].pc \in {"lookup", "drop"}
    THEN job' = [job EXCEPT ![c] = Send(c)] /\ UNCHANGED store
    ELSE GiveUp(c)

Listing == {"rootwalk", "ensure", "resolve", "type", "lookup", "find"}
Making == {"make", "rootmake", "all", "prepare", "finish"}

Waiting(c) == job[c].pc \in {"rootwalk", "ensure"} /\ job[c].walk = << >>

\* The drive refuses what names a missing entry, an entry of another type or an
\* upload that is finished.
Refused(c) ==
    /\ ~Waiting(c)
    /\ \/ job[c].pc \in Listing \cup Making /\ ~Alive(job[c].at)
       \/ job[c].pc = "finish" /\ uploads[job[c].up].finished
       \/ job[c].pc = "drop" /\ ~CanDelete(job[c].tok, "file")
       \/ job[c].pc = "delete" /\ ~CanDelete(job[c].tok, DeleteType(c))
       \/ job[c].pc = "export" /\ (~Alive(job[c].tok) \/ drive[job[c].tok].kind # "doc")
    /\ CallFailed(c)
    /\ UNCHANGED <<setup, drive, uploads, begun, faults>>

\* A call that is made once fails.
CallFails(c) ==
    /\ ~Waiting(c)
    /\ job[c].pc \in Listing \cup {"approot", "make", "rootmake", "export", "poll",
                                   "fetch", "drop", "delete"}
    /\ Fault
    /\ CallFailed(c)
    /\ UNCHANGED <<setup, drive, uploads, begun>>

\* A process dies, with what its Storage has buffered.
Crash(h) ==
    /\ \E c \in setup.clients : Home(c) = h /\ job[c].pc # "idle"
    /\ Fault
    /\ store' = [store EXCEPT ![h] = [once |-> "new", root |-> Top, failed |-> FALSE,
                                      bufs |-> {}]]
    /\ job' = [c \in Clients |->
                  IF c \in setup.clients /\ Home(c) = h
                  THEN [Idle EXCEPT !.op = Op(c), !.data = job[c].data,
                                    !.result = "crash"]
                  ELSE job[c]]
    /\ UNCHANGED <<setup, drive, uploads, begun>>

-------------------------------------------------------------------------------
Step(c) ==
    \/ UseRoot(c) \/ EnterOnce(c) \/ FindAppRoot(c) \/ LeaveOnce(c)
    \/ EnsureFolder(c) \/ CreateFolder(c) \/ FolderUnanswered(c) \/ Ensured(c)
    \/ ResolveName(c) \/ ResolveLast(c)
    \/ Download(c) \/ DownloadFails(c) \/ DownloadPage(c)
    \/ CreateTask(c) \/ Poll(c) \/ Fetch(c)
    \/ LookUp(c) \/ Drop(c) \/ PostFails(c) \/ UploadAll(c)
    \/ UploadPrepare(c) \/ UploadPart(c) \/ UploadFinish(c) \/ FindUploaded(c)
    \/ RemoveByToken(c) \/ Refused(c) \/ CallFails(c)

Next == \/ \E c \in setup.clients : Create(c) \/ Begin(c) \/ Step(c) \/ TaskEnds(c)
        \/ \E h \in setup.clients : Crash(h)

Spec == Init /\ [][Next]_vars

\* Calls return and export tasks end; nobody has to begin an operation.
FairSpec == /\ Spec
            /\ \A c \in Clients : /\ WF_vars(c \in setup.clients /\ Step(c))
                                  /\ WF_vars(c \in setup.clients /\ TaskEnds(c))

-------------------------------------------------------------------------------
(***************************************************************************)
(* Properties.                                                             *)
(***************************************************************************)
TypeOK ==
    /\ setup \in Setups
    /\ drive \in Seq(Entry)
    /\ \A t \in DOMAIN drive : Placed(drive, t) /\ drive[t].data.by \in -2 .. begun
    /\ begun \in 0 .. setup.most /\ faults \in 0 .. setup.faults
    /\ \A c \in Clients :
         /\ store[c].once \in {"new", "busy", "done"}
         /\ store[c].root \in 0 .. Len(drive)
         /\ job[c].at \in 0 .. Len(drive) /\ job[c].tok \in 0 .. Len(drive)
         /\ job[c].try \in 0 .. UploadAttempts - 1
         /\ job[c].up \in 0 .. Len(uploads)
         /\ job[c].result \in {"idle", "ok", "error", "crash"}

\* The files that a path below the root can lead to.
FilesAt(path) == {t \in DOMAIN drive : /\ Alive(t) /\ drive[t].kind # "folder"
                                       /\ PathOf(t) = setup.folder \o path}

\* An entry that is not a folder has, or had, the name of a folder of the path.
Mistaken(path) ==
    \E t \in DOMAIN drive, n \in 1 .. Len(path) :
        drive[t].kind # "folder" /\ PathOf(t) = SubSeq(path, 1, n)

\* An entry that is not a file has the name, or one of its folders is mistaken.
Shadowed(path) ==
    LET full == setup.folder \o path
    IN  \/ \E t \in DOMAIN drive : drive[t].kind # "file" /\ PathOf(t) = full
        \/ Mistaken(Front(full))

Paths == UNION {{op.path, Target(op)} : op \in UNION {s.ops : s \in Setups}}

Alone == \E c \in setup.clients : setup.clients = {c}

(***************************************************************************)
(* ensureFolder looks a folder up or creates it.  One client at a time     *)
(* never makes a second folder of the same name, whichever calls fail and  *)
(* wherever it crashes, unless a file or a document has had that name, or  *)
(* the name of a folder above: when ensureFolder finds an entry that is no *)
(* folder it makes one beside it.                                          *)
(***************************************************************************)
FoldersAreUnique ==
    Alone => \A s, t \in DOMAIN drive :
               /\ s # t /\ Alive(s) /\ Alive(t)
               /\ drive[s].kind = "folder" /\ drive[t].kind = "folder"
               /\ PathOf(s) = PathOf(t)
               => Mistaken(PathOf(s))

(***************************************************************************)
(* "Delete existing file with the same name to avoid duplicates in Lark    *)
(* Drive": one client makes no more duplicates than calls have failed,     *)
(* unless a folder or a document has the name too and is found first, or   *)
(* an entry that is not a folder had the name of a folder on the way.      *)
(***************************************************************************)
CopiesBounded ==
    Alone => \A p \in Paths : Shadowed(p) \/ Cardinality(FilesAt(p)) <= 1 + faults

(***************************************************************************)
(* One client whose calls have all succeeded reads what it has written     *)
(* last, whole: after WriteFile or Rename nothing else is found under the  *)
(* name, with the same exceptions, and one more: Rename removes the old    *)
(* name at the end, also when it is the new one.                           *)
(***************************************************************************)
WrittenIsRead ==
    \A c \in setup.clients :
        /\ Alone /\ faults = 0
        /\ job[c].result = "ok" /\ Op(c).do \in {"write", "rename"}
        /\ Op(c).to # Op(c).path
        => Shadowed(Target(Op(c))) \/
           {drive[t].data : t \in FilesAt(Target(Op(c)))} = {job[c].data}

(***************************************************************************)
(* doDownload asks for Lark's error responses so that they are not taken   *)
(* for data: Open returns no error only with the data of a file.           *)
(***************************************************************************)
OpenTellsErrors ==
    \A c \in setup.clients :
        job[c].result = "ok" /\ Op(c).do = "open" => job[c].data # Empty

Copies == [p \in Paths |-> {drive[t].data : t \in FilesAt(p)}]

PhaseOf(j) == CASE j.pc = "idle" -> "idle"
                [] j.stored \/ j.pc = "find" -> "stored"
                [] j.pc \in Sending -> "storing"
                [] j.pc \in {"poll", "fetch"} -> "read"
                [] OTHER -> "busy"

Doing == [c \in Clients |-> Op(c)]
Held == [c \in Clients |-> job[c].data]
Results == [c \in Clients |-> job[c].result]
Phases == [c \in Clients |-> PhaseOf(job[c])]

Abstract == INSTANCE NamedFiles
                WITH Ops    <- UNION {s.ops : s \in Setups},
                     Values <- [by : Int, units : SUBSET Nat],
                     NoData <- {Empty, ErrorPage},
                     copies <- Copies,
                     op     <- Doing,
                     data   <- Held,
                     result <- Results,
                     phase  <- Phases

(***************************************************************************)
(* Whatever fails and whoever else works on the drive: a write removes one *)
(* file of its name at most and none of another name, and stores all of    *)
(* its data before it returns no error; Rename removes what it finds under *)
(* the old name after the new one is stored, and nothing elsewhere; a read *)
(* returns the data of one file.                                           *)
(***************************************************************************)
ImplementsNamedFiles == Abstract!Spec

(***************************************************************************)
(* Every operation ends, unless the platform reports a status of an export *)
(* task that downloadViaExport does not know, which it asks for for ever.  *)
(***************************************************************************)
OperationsEnd ==
    \A c \in Clients :
        job[c].pc # "idle" ~> (job[c].pc = "idle" \/ job[c].task = "unknown")
===============================================================================
