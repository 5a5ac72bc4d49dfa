------------------------------ MODULE NamedFiles ------------------------------
(***************************************************************************)
(* What a storage that finds files by their names, but may hold several    *)
(* files of one name, promises to those who write, move, read and remove   *)
(* them.  A write takes away at most one file of the name, then adds its   *)
(* data, whole, once or more often when it is repeated; a move takes away  *)
(* what has the old name only when the new file is stored; what is taken   *)
(* away by its name is one file, or a folder with all there is in it, and  *)
(* nothing touches other names.  An operation may stop anywhere.           *)
(***************************************************************************)
EXTENDS Integers, Sequences, SequencesExt

CONSTANTS Clients,
          Ops,              \* [do, path, to: the new name of a move]
          Values,           \* what files hold
          NoData            \* what a failing read may return instead of data

VARIABLES
    copies,     \* path -> the data of its files
    op,         \* client -> the operation it is in or was in
    data,       \* client -> what it has read or is writing
    phase,      \* client -> "idle", "busy", "read", "storing" or "stored"
    result      \* client -> how its last operation ended

vars == <<copies, op, data, phase, result>>

IsWrite(o) == o.do \in {"write", "rename"}
Target(o) == IF o.do = "rename" THEN o.to ELSE o.path
Paths == {o.path : o \in Ops} \cup {Target(o) : o \in Ops}

AtMostOneLess(s, t) == t = s \/ \E x \in s : t = s \ {x}

\* One of the files of a name is taken away, or the folder of that name.
TakesAway(name) ==
    /\ copies' \in [Paths -> SUBSET Values]
    /\ \A p \in Paths : IF p = name THEN AtMostOneLess(copies[p], copies'[p])
                        ELSE IF IsPrefix(name, p) THEN copies'[p] \subseteq copies[p]
                        ELSE copies'[p] = copies[p]

\* The operation goes on in a phase, or ends.
Goes(c, p) ==
    /\ phase' = [phase EXCEPT ![c] = p]
    /\ result' = [result EXCEPT ![c] = "idle"]

Ends(c, r) ==
    /\ phase' = [phase EXCEPT ![c] = "idle"]
    /\ result' = [result EXCEPT ![c] = r]

Init ==
    /\ copies \in [Paths -> SUBSET Values]
    /\ phase = [c \in Clients |-> "idle"]
    /\ result = [c \in Clients |-> "idle"]

Begin(c) ==
    /\ phase[c] = "idle"
    /\ \E o \in Ops : /\ op' = [op EXCEPT ![c] = o]
                     /\ IF o.do = "create" THEN Ends(c, "ok") ELSE Goes(c, "busy")
    /\ data'[c] \in Values \cup NoData
    /\ data' = [data EXCEPT ![c] = data'[c]]
    /\ UNCHANGED copies

\* What is read may be kept for a while.  Then Open ends, a move goes on.
Read(c) ==
    /\ phase[c] \in {"busy", "read"} /\ op[c].do \in {"open", "rename"}
    /\ \E d \in copies[op[c].path] \cup NoData \cup
               (IF phase[c] = "read" THEN {data[c]} ELSE {}) :
           data' = [data EXCEPT ![c] = d]
    /\ \/ Goes(c, "read")
       \/ op[c].do = "open" /\ Ends(c, "ok")
       \/ op[c].do = "rename" /\ Goes(c, "busy")
    /\ UNCHANGED <<copies, op>>

Replace(c) ==
    /\ phase[c] = "busy" /\ IsWrite(op[c])
    /\ \E rest \in SUBSET copies[Target(op[c])] :
         /\ AtMostOneLess(copies[Target(op[c])], rest)
         /\ copies' = [copies EXCEPT ![Target(op[c])] = rest]
    /\ Goes(c, "storing")
    /\ UNCHANGED <<op, data>>

Put(c) ==
    /\ phase[c] = "storing"
    /\ copies' = [copies EXCEPT ![Target(op[c])] = @ \cup {data[c]}]
    /\ \/ Goes(c, "storing")
       \/ Goes(c, "stored")
       \/ Ends(c, "ok") \/ Ends(c, "error")
    /\ UNCHANGED <<op, data>>

\* The old name of a move.
Unlink(c) ==
    /\ phase[c] = "stored" /\ op[c].do = "rename"
    /\ TakesAway(op[c].path)
    /\ Ends(c, "ok")
    /\ UNCHANGED <<op, data>>

RemoveAll(c) ==
    /\ phase[c] = "busy" /\ op[c].do = "remove"
    /\ TakesAway(op[c].path)
    /\ Ends(c, "ok") \/ Ends(c, "error")
    /\ UNCHANGED <<op, data>>

\* A write that has stored its data may find it again, and leave the rest; all
\* others have failed.
Stop(c) ==
    /\ phase[c] # "idle"
    /\ \/ Ends(c, "error")
       \/ (phase[c] = "stored" \/ op[c].do = "mkdir") /\ Ends(c, "ok")
    /\ UNCHANGED <<copies, op, data>>

\* Clients that are one process stop together.
Crash(process) ==
    /\ phase' = [c \in Clients |-> IF c \in process THEN "idle" ELSE phase[c]]
    /\ result' = [c \in Clients |-> IF c \in process THEN "crash" ELSE result[c]]
    /\ UNCHANGED <<copies, op, data>>

Next == \/ \E c \in Clients : \/ Begin(c) \/ Read(c) \/ Replace(c) \/ Put(c)
                              \/ Unlink(c) \/ RemoveAll(c) \/ Stop(c)
        \/ \E process \in SUBSET Clients : Crash(process)

Spec == Init /\ [][Next]_vars
===============================================================================
