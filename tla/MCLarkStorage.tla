---------------------------- MODULE MCLarkStorage ----------------------------
(***************************************************************************)
(* Instances of LarkStorage for TLC: one client that writes, moves and     *)
(* removes, with failing calls; two processes and two goroutines of one    *)
(* process that meet; documents that are exported.                         *)
(***************************************************************************)
EXTENDS LarkStorage, FiniteSetsExt

Out == <<"d", "out">>
New == <<"new">>

Do(what, path, size) == [do |-> what, path |-> path, to |-> << >>, size |-> size]
Move(from, to) == [do |-> "rename", path |-> from, to |-> to, size |-> 0]

\* An entry in the folders above, of which the last is its own.
Has(above, path, kind) ==
    [parent |-> IF above = {} THEN Top ELSE Max(above), above |-> above, path |-> path,
     kind |-> kind, live |-> TRUE,
     data |-> IF kind = "folder" THEN Empty ELSE [by |-> 0, units |-> {0}]]

Base == [folder |-> <<"f">>, rooted |-> FALSE, seed |-> << >>, clients |-> {"c1"},
         home |-> [c \in {"c1"} |-> c], ops |-> {}, most |-> 2, faults |-> 1,
         blocks |-> {1}]
Pair == [Base EXCEPT !.clients = {"c1", "c2"},
                     !.home = [c \in {"c1", "c2"} |-> c]]
Rooted == [Base EXCEPT !.folder = << >>, !.rooted = TRUE]

MCClients == {"c1", "c2"}

MCSetups == {
    \* writes and reads in a folder that is not there yet
    [Base EXCEPT !.ops = {Do("write", Out, 1), Do("open", Out, 0), Do("mkdir", <<"d">>, 0)},
                 !.most = 3, !.faults = 2],
    \* a file that takes the name of its folder
    [Rooted EXCEPT !.seed = <<Has({}, <<"d">>, "folder")>>,
                   !.ops = {Do("write", <<"d">>, 1), Do("write", Out, 1), Do("mkdir", <<"d">>, 0)},
                   !.most = 3],
    \* chunks, with every attempt failing, and the block sizes reported
    [Rooted EXCEPT !.ops = {Do("write", New, 3)}, !.most = 1, !.faults = 3],
    [Rooted EXCEPT !.ops = {Do("write", New, 2), Do("write", New, 3), Do("write", New, 4)},
                   !.blocks = {0, 1, 2, 3}],
    \* buffers, moves and removals of a file, a folder and a document
    [Rooted EXCEPT !.seed = <<Has({}, <<"d">>, "folder"), Has({1}, Out, "file"),
                             Has({}, New, "doc")>>,
                   !.ops = {Do("create", New, 1), Move(New, Out), Move(Out, New),
                            Do("remove", Out, 0), Do("remove", <<"d">>, 0),
                            Do("open", New, 0), Do("write", Out, 0)},
                   !.most = 3, !.faults = 1],
    \* a move whose old name is also a folder's, and one onto itself
    [Rooted EXCEPT !.seed = <<Has({}, <<"d">>, "folder"), Has({1}, Out, "file")>>,
                   !.ops = {Do("write", <<"d">>, 1), Move(<<"d">>, New), Move(Out, Out)}],
    \* a document that is exported while its folder is removed
    [Pair EXCEPT !.folder = << >>, !.rooted = TRUE,
                 !.seed = <<Has({}, <<"d">>, "folder"), Has({1}, Out, "doc")>>,
                 !.ops = {Do("open", Out, 0), Do("remove", <<"d">>, 0)}],
    \* two processes that write, and one that reads
    [Pair EXCEPT !.ops = {Do("write", Out, 1), Do("open", Out, 0)}],
    \* two goroutines of one Storage
    [Pair EXCEPT !.home = [c \in {"c1", "c2"} |-> "c1"],
                 !.seed = <<Has({}, <<"f">>, "folder"), Has({1}, <<"f">> \o New, "file")>>,
                 !.ops = {Do("open", New, 0)}, !.faults = 1] }
===============================================================================
