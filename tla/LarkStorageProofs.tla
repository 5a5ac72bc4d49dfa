--------------------------- MODULE LarkStorageProofs ---------------------------
(***************************************************************************)
(* For any drive, any clients that share it, any operations and any calls  *)
(* that fail: the types, and the refinement of NamedFiles by LarkStorage.  *)
(***************************************************************************)
EXTENDS LarkStorage, FiniteSetTheorems, SequenceTheorems, WellFoundedInduction, TLAPS

\* The units that a file holds are numbered from 0.
Data == [by : Int, units : {Units(n) : n \in Nat}]

Pcs == {"idle", "root", "approot", "rootwalk", "rootmake", "ensure", "make", "resolve",
        "type", "get", "export", "poll", "fetch", "delete", "lookup", "drop", "find"}
       \cup Sending

Job == [pc : Pcs, op : Operations \cup {NoOp}, walk : Names, at : Nat, tok : Nat,
        data : Data, try : 0 .. UploadAttempts - 1, up : Nat, block : Nat \ {0}, seq : Nat,
        buffered : BOOLEAN, stored : BOOLEAN,
        task : {"none", "running", "done", "failed", "unknown"},
        result : {"idle", "ok", "error", "crash"}]

Storage == [once : {"new", "busy", "done"}, root : Nat, failed : BOOLEAN,
            bufs : SUBSET [path : Names, data : Data]]

Upload == [units : SUBSET Nat, finished : BOOLEAN]

Typed ==
    /\ setup \in Setups
    /\ drive \in Seq(Entry) /\ uploads \in Seq(Upload)
    /\ store \in [Clients -> Storage] /\ job \in [Clients -> Job]
    /\ begun \in 0 .. setup.most /\ faults \in 0 .. setup.faults

\* The drive is a tree of folders with files and documents.
TreeInv ==
    \A t \in DOMAIN drive :
        /\ Placed(drive, t)
        /\ drive[t].data \in Data /\ drive[t].data.by \in -2 .. begun
        /\ \A u \in drive[t].above :
              /\ u \in DOMAIN drive /\ u < t
              /\ drive[u].kind = "folder"
              /\ Len(drive[u].path) < Len(drive[t].path)
              /\ \A n \in 1 .. Len(drive[u].path) : drive[t].path[n] = drive[u].path[n]

IsFolder(t) == t = Top \/ (t \in DOMAIN drive /\ drive[t].kind = "folder")

\* From the app's root folder to what a path leads to.
Full(path) == setup.folder \o path

Leads(t, path) == t \in DOMAIN drive /\ drive[t].path = Full(path)

Placing == {"lookup", "drop", "find"} \cup Sending

\* The folders that an operation makes.
Folders(op) == IF op.do = "mkdir" THEN op.path ELSE Front(Target(op))

\* How far an operation has come on its path.
PlaceInv(j) ==
    /\ IsFolder(j.at)
    /\ j.pc \in {"rootwalk", "rootmake"} => PathOf(j.at) \o j.walk = setup.folder
    /\ j.pc \in {"ensure", "make"} => PathOf(j.at) \o j.walk = Full(Folders(j.op))
    /\ j.pc \in {"make", "rootmake", "resolve", "type"} => j.walk # << >>
    /\ j.pc \in {"resolve", "type"} => PathOf(j.at) \o j.walk = Full(j.op.path)
    /\ j.pc \in Placing => PathOf(j.at) = Full(Front(Target(j.op)))
    /\ j.pc \in {"type", "get", "export", "delete"} => Leads(j.tok, j.op.path)
    /\ j.pc = "drop" => Leads(j.tok, Target(j.op)) /\ drive[j.tok].kind # "folder"
    /\ j.tok \in 0 .. Len(drive)

\* Which operations come there.
OpInv(j) ==
    /\ j.pc # "idle" => j.op \in setup.ops /\ j.op.do # "create" /\ j.result = "idle"
    /\ j.pc \in {"ensure", "make"} => j.op.do \in {"write", "rename", "mkdir"}
    /\ j.pc \in Placing => j.op.do \in {"write", "rename"}
    /\ j.pc \in {"type", "get", "export", "poll", "fetch"} => j.op.do \in {"open", "rename"}
    /\ j.pc = "resolve" => j.op.do \in {"open", "rename", "remove"}
    /\ j.pc = "delete" => j.op.do = "remove" \/ j.stored
    /\ j.stored => j.op.do = "rename" /\ j.pc \in {"resolve", "delete"}
    /\ j.buffered => j.op.do = "rename"
    /\ j.data.by \in -2 .. begun

\* What has been received of a chunked upload.
UploadInv(j) ==
    /\ j.up \in 0 .. Len(uploads)
    /\ j.pc \in {"part", "finish"} => j.up \in DOMAIN uploads
                                      /\ uploads[j.up].units \subseteq j.data.units
    /\ j.pc = "part" => \A u \in j.data.units :
                           u < j.seq * j.block => u \in uploads[j.up].units
    /\ j.pc = "finish" => uploads[j.up].units = j.data.units

\* A Storage that has found its root folder.
StoreInv(s) ==
    /\ IsFolder(s.root)
    /\ s.once = "done" /\ ~s.failed => PathOf(s.root) = setup.folder
    /\ s.once = "new" => s.root = Top
    /\ \A b \in s.bufs : b.data.by \in -2 .. begun

Rooting == {"approot", "rootwalk", "rootmake"}

\* An operation waits for the root folder of its Storage, but the one that finds it.
HomeInv(j, s) ==
    /\ j.pc \in Rooting => s.once = "busy"
    /\ j.pc \notin Rooting \cup {"idle", "root"} => s.once = "done" /\ ~s.failed

IInv ==
    /\ Typed /\ TreeInv
    /\ \A c \in Clients : /\ PlaceInv(job[c]) /\ OpInv(job[c]) /\ UploadInv(job[c])
                          /\ StoreInv(store[c])
                          /\ job[c].pc # "idle" => c \in setup.clients
    /\ \A c \in setup.clients : HomeInv(job[c], store[Home(c)])
    /\ \A c, d \in setup.clients : Home(c) = Home(d) /\ job[c].pc \in Rooting
                                  /\ job[d].pc \in Rooting => c = d
    /\ \A c, d \in Clients : job[c].up = job[d].up /\ job[c].up # 0 => c = d

---------------------------------------------------------------------------
(* Paths.                                                                  *)

\* A path is the folders and the last name.
LEMMA FrontLast ==
  ASSUME NEW s \in Names, s # << >>
  PROVE  /\ Front(s) \in Names /\ Last(s) \in Name /\ Len(s) \in Nat \ {0}
         /\ s = Append(Front(s), Last(s)) /\ Len(Front(s)) = Len(s) - 1
         /\ \A n \in 1 .. Len(s) - 1 : Front(s)[n] = s[n]
<1>1. Len(s) \in Nat \ {0} /\ s \in Seq(Name)
  BY EmptySeq DEF Names
<1>2. Last(s) \in Name
  BY <1>1 DEF Last
<1>3. \A i \in 1 .. Len(s) - 1 : s[i] \in Name
  BY <1>1
<1>4. /\ Front(s) \in Seq(Name) /\ Len(Front(s)) = Len(s) - 1
      /\ \A n \in 1 .. Len(s) - 1 : Front(s)[n] = s[n]
  <2>1. Len(s) - 1 \in Int /\ 1 \in Int
    BY <1>1
  <2> DEFINE k == Len(s) - 1
             f == SubSeq(s, 1, k)
  <2>2. /\ f \in Seq(Name) /\ Len(f) = IF 1 <= k THEN k - 1 + 1 ELSE 0
        /\ \A n \in 1 .. k - 1 + 1 : f[n] = s[1 + n - 1]
    BY <2>1, <1>3, SubSeqProperties
  <2>3. k \in Nat /\ k = Len(s) - 1
    BY <1>1
  <2> HIDE DEF f, k
  <2>4. Len(f) = k
    BY <2>2, <2>3
  <2>5. \A n \in 1 .. k : f[n] = s[n]
    BY <2>2, <2>3
  <2> QED BY <2>2, <2>3, <2>4, <2>5 DEF Front, f, k
<1> DEFINE f == Front(s)
           e == Last(s)
<1>5. e = s[Len(s)]
  BY DEF Last
<1> HIDE DEF f, e
<1>6. /\ Append(f, e) \in Seq(Name) /\ Len(Append(f, e)) = Len(s)
      /\ \A n \in 1 .. Len(s) - 1 : Append(f, e)[n] = f[n]
      /\ Append(f, e)[Len(s)] = e
  BY <1>1, <1>2, <1>4 DEF f, e
<1>7. \A n \in 1 .. Len(s) : s[n] = Append(f, e)[n]
  BY <1>1, <1>4, <1>5, <1>6 DEF f
<1>8. s = Append(f, e)
  BY <1>1, <1>6, <1>7, SeqEqual
<1> QED BY <1>1, <1>2, <1>4, <1>8 DEF Names, f, e

LEMMA AppendConcat ==
  ASSUME NEW S, NEW s \in Seq(S), NEW t \in Seq(S), NEW e \in S
  PROVE  s \o Append(t, e) = Append(s \o t, e)
<1>1. Len(s) \in Nat /\ Len(t) \in Nat
  OBVIOUS
<1>2. /\ Append(t, e) \in Seq(S) /\ Len(Append(t, e)) = Len(t) + 1
      /\ \A i \in 1 .. Len(t) : Append(t, e)[i] = t[i]
      /\ Append(t, e)[Len(t) + 1] = e
  BY AppendProperties
<1>3. /\ s \o t \in Seq(S) /\ Len(s \o t) = Len(s) + Len(t)
      /\ \A i \in 1 .. Len(s) + Len(t) : (s \o t)[i] = IF i <= Len(s) THEN s[i] ELSE t[i - Len(s)]
  BY ConcatProperties
<1> DEFINE a == Append(t, e)
           b == s \o t
<1> HIDE DEF a, b
<1>4. /\ s \o a \in Seq(S) /\ Len(s \o a) = Len(s) + Len(t) + 1
      /\ \A i \in 1 .. Len(s) + Len(t) + 1 :
            (s \o a)[i] = IF i <= Len(s) THEN s[i] ELSE a[i - Len(s)]
  BY <1>1, <1>2, ConcatProperties DEF a
<1>5. /\ Append(b, e) \in Seq(S) /\ Len(Append(b, e)) = Len(s) + Len(t) + 1
      /\ \A i \in 1 .. Len(s) + Len(t) : Append(b, e)[i] = b[i]
      /\ Append(b, e)[Len(s) + Len(t) + 1] = e
  BY <1>1, <1>3, AppendProperties DEF b
<1>6. \A i \in 1 .. Len(s) + Len(t) + 1 : (s \o a)[i] = Append(b, e)[i]
  <2> TAKE i \in 1 .. Len(s) + Len(t) + 1
  <2>1. CASE i <= Len(s)
    BY <2>1, <1>1, <1>3, <1>4, <1>5 DEF b
  <2>2. CASE i > Len(s) /\ i <= Len(s) + Len(t)
    <3>1. i - Len(s) \in 1 .. Len(t)
      BY <2>2, <1>1
    <3> QED BY <2>2, <3>1, <1>1, <1>2, <1>3, <1>4, <1>5 DEF a, b
  <2>3. CASE i = Len(s) + Len(t) + 1
    BY <2>3, <1>1, <1>2, <1>4, <1>5 DEF a
  <2>4. i <= Len(s) \/ (i > Len(s) /\ i <= Len(s) + Len(t)) \/ i = Len(s) + Len(t) + 1
    BY <1>1
  <2> QED BY <2>1, <2>2, <2>3, <2>4
<1> QED BY <1>4, <1>5, <1>6, SeqEqual DEF a, b

\* Going into a folder takes the first name from what is left of a path.
LEMMA OneName ==
  ASSUME NEW p \in Names, NEW w \in Names, w # << >>
  PROVE  /\ Head(w) \in Name /\ Tail(w) \in Names /\ Append(p, Head(w)) \in Names
         /\ Append(p, Head(w)) \o Tail(w) = p \o w
         /\ Len(w) = 1 => Append(p, Head(w)) = p \o w
<1>1. /\ Head(w) \in Name /\ Tail(w) \in Names /\ Len(w) \in Nat \ {0}
      /\ Len(Tail(w)) = Len(w) - 1 /\ w[1] = Head(w)
      /\ \A i \in 1 .. Len(w) - 1 : Tail(w)[i] = w[i + 1]
  BY EmptySeq, HeadTailProperties DEF Names
<1> DEFINE h == Head(w)
           t == Tail(w)
<1> HIDE DEF h, t
<1>2. /\ Append(p, h) \in Names /\ Len(Append(p, h)) = Len(p) + 1 /\ Len(p) \in Nat
      /\ \A i \in 1 .. Len(p) : Append(p, h)[i] = p[i]
      /\ Append(p, h)[Len(p) + 1] = h
  BY <1>1, AppendProperties DEF Names, h
<1>3. /\ p \o w \in Names /\ Len(p \o w) = Len(p) + Len(w)
      /\ \A i \in 1 .. Len(p) + Len(w) :
            (p \o w)[i] = IF i <= Len(p) THEN p[i] ELSE w[i - Len(p)]
  BY ConcatProperties DEF Names
<1>4. /\ Append(p, h) \o t \in Names /\ Len(Append(p, h) \o t) = Len(p) + Len(w)
      /\ \A i \in 1 .. Len(p) + Len(w) :
            (Append(p, h) \o t)[i] = IF i <= Len(p) + 1 THEN Append(p, h)[i]
                                     ELSE t[i - (Len(p) + 1)]
  BY <1>1, <1>2, ConcatProperties DEF Names, t
<1>5. \A i \in 1 .. Len(p) + Len(w) : (Append(p, h) \o t)[i] = (p \o w)[i]
  <2> TAKE i \in 1 .. Len(p) + Len(w)
  <2>1. CASE i <= Len(p)
    BY <2>1, <1>2, <1>3, <1>4
  <2>2. CASE i = Len(p) + 1
    BY <2>2, <1>1, <1>2, <1>3, <1>4 DEF h
  <2>3. CASE i > Len(p) + 1
    <3>1. i - (Len(p) + 1) \in 1 .. Len(w) - 1
      BY <2>3, <1>1, <1>2
    <3>2. t[i - (Len(p) + 1)] = w[i - Len(p)]
      BY <3>1, <1>1, <1>2 DEF t
    <3> QED BY <2>3, <3>2, <1>2, <1>3, <1>4
  <2>4. i <= Len(p) \/ i = Len(p) + 1 \/ i > Len(p) + 1
    BY <1>2
  <2> QED BY <2>1, <2>2, <2>3, <2>4
<1>6. Append(p, h) \o t = p \o w
  BY <1>3, <1>4, <1>5, SeqEqual DEF Names
<1>7. ASSUME Len(w) = 1
      PROVE  Append(p, h) = p \o w
  <2>1. \A i \in 1 .. Len(p) + 1 : Append(p, h)[i] = (p \o w)[i]
    BY <1>1, <1>2, <1>3, <1>7 DEF h
  <2> QED BY <1>7, <2>1, <1>2, <1>3, SeqEqual DEF Names
<1> QED BY <1>1, <1>2, <1>6, <1>7 DEF h, t

\* Paths from the Storage's root folder are told apart by the whole path.
LEMMA FullPaths ==
  ASSUME setup.folder \in Names, NEW p \in Names, NEW q \in Names
  PROVE  /\ Full(p) \in Names
         /\ Full(p) = Full(q) => p = q
         /\ Len(Full(p)) = Len(setup.folder) + Len(p)
         /\ p # << >> => Append(Full(Front(p)), Last(p)) = Full(p)
<1>1. /\ Full(p) \in Names /\ (Full(p) = Full(q) => p = q)
      /\ Len(Full(p)) = Len(setup.folder) + Len(p)
  <2>1. \A s, t, v \in Seq(Name) : s \o t = s \o v => t = v
    BY ConcatSimplifications
  <2>2. setup.folder \o p = setup.folder \o q => p = q
    BY <2>1 DEF Names
  <2>3. setup.folder \o p \in Names /\ Len(setup.folder \o p) = Len(setup.folder) + Len(p)
    BY ConcatProperties DEF Names
  <2> QED BY <2>2, <2>3 DEF Full
<1>2. ASSUME p # << >>
      PROVE  Append(Full(Front(p)), Last(p)) = Full(p)
  <2>1. Front(p) \in Names /\ Last(p) \in Name /\ p = Append(Front(p), Last(p))
    BY <1>2, FrontLast
  <2> DEFINE f == Front(p)
             e == Last(p)
  <2> HIDE DEF f, e
  <2>2. setup.folder \o Append(f, e) = Append(setup.folder \o f, e)
    <3>1. f \in Seq(Name) /\ e \in Name /\ setup.folder \in Seq(Name)
      BY <2>1 DEF Names, f, e
    <3>2. \A r, t \in Seq(Name), x \in Name : r \o Append(t, x) = Append(r \o t, x)
      BY AppendConcat
    <3> QED BY <3>1, <3>2
  <2> QED BY <2>1, <2>2 DEF Full, f, e
<1> QED BY <1>1, <1>2

\* A path that begins with another one does so below the Storage's root folder.
LEMMA FullPrefix ==
  ASSUME setup.folder \in Names, NEW p \in Names, NEW q \in Names,
         Len(Full(p)) <= Len(Full(q)),
         \A n \in 1 .. Len(Full(p)) : Full(q)[n] = Full(p)[n]
  PROVE  Abstract!IsPrefix(p, q)
<1> DEFINE f == setup.folder
<1>1. /\ Len(f \o p) = Len(f) + Len(p) /\ Len(f \o q) = Len(f) + Len(q)
      /\ Len(f) \in Nat /\ Len(p) \in Nat /\ Len(q) \in Nat
      /\ \A i \in 1 .. Len(f) + Len(p) : (f \o p)[i] = IF i <= Len(f) THEN f[i] ELSE p[i - Len(f)]
      /\ \A i \in 1 .. Len(f) + Len(q) : (f \o q)[i] = IF i <= Len(f) THEN f[i] ELSE q[i - Len(f)]
  BY ConcatProperties DEF Names
<1>2. Len(p) <= Len(q)
  BY <1>1 DEF Full
<1>3. \A i \in 1 .. Len(p) : p[i] = q[i]
  <2> TAKE i \in 1 .. Len(p)
  <2>1. i + Len(f) \in 1 .. Len(f) + Len(p) /\ i + Len(f) \in 1 .. Len(f) + Len(q)
    BY <1>1, <1>2
  <2>2. (f \o p)[i + Len(f)] = p[i] /\ (f \o q)[i + Len(f)] = q[i]
    BY <2>1, <1>1
  <2> QED BY <2>1, <2>2, <1>1 DEF Full
<1>4. p \in Seq(Name) /\ q \in Seq(Name)
  BY DEF Names
<1>5. /\ SubSeq(p, 1, Len(p)) = p
      /\ SubSeq(q, 1, Len(p)) \in Seq(Name) /\ Len(SubSeq(q, 1, Len(p))) = Len(p)
      /\ \A i \in 1 .. Len(p) : SubSeq(q, 1, Len(p))[i] = q[i]
  BY <1>1, <1>2, <1>4
<1>6. SubSeq(q, 1, Len(p)) = p
  BY <1>3, <1>4, <1>5, SeqEqual
<1> QED BY <1>2, <1>5, <1>6 DEF Abstract!IsPrefix

---------------------------------------------------------------------------
(* The drive.                                                              *)

\* Entries stay where they are, with what they hold.
Grows ==
    /\ Len(drive) <= Len(drive')
    /\ \A t \in DOMAIN drive : /\ t \in DOMAIN drive'
                               /\ drive'[t].parent = drive[t].parent
                               /\ drive'[t].above = drive[t].above
                               /\ drive'[t].path = drive[t].path
                               /\ drive'[t].kind = drive[t].kind
                               /\ drive'[t].data = drive[t].data

\* A data of units is an entry's data.
LEMMA DataTyped ==
  ASSUME NEW d \in Data
  PROVE  d \in [by : Int, units : SUBSET Nat] /\ d.by \in Int /\ d.units \subseteq Nat
<1>1. PICK n \in Nat : d.units = Units(n)
  BY DEF Data
<1>2. Units(n) \subseteq Nat
  BY DEF Units
<1> QED BY <1>1, <1>2 DEF Data

LEMMA Tokens ==
  ASSUME Typed
  PROVE  /\ Len(drive) \in Nat /\ DOMAIN drive = 1 .. Len(drive)
         /\ \A t \in DOMAIN drive : drive[t] \in Entry
         /\ \A t : IsFolder(t) => PathOf(t) \in Names /\ t \in 0 .. Len(drive)
<1>1. /\ Len(drive) \in Nat /\ DOMAIN drive = 1 .. Len(drive)
      /\ \A t \in DOMAIN drive : drive[t] \in Entry
  BY DEF Typed
<1>2. << >> \in Names
  BY DEF Names
<1> QED BY <1>1, <1>2 DEF IsFolder, PathOf, PathIn, Entry, Top

LEMMA ParentOf ==
  ASSUME Typed, NEW t \in DOMAIN drive, Placed(drive, t)
  PROVE  drive[t].parent = Top \/ drive[t].parent \in DOMAIN drive
<1>1. drive[t].parent \in Nat /\ t \in 1 .. Len(drive) /\ Len(drive) \in Nat
      /\ DOMAIN drive = 1 .. Len(drive)
  BY Tokens DEF Entry
<1>2. drive[t].parent < t
  BY DEF Placed
<1> QED BY <1>1, <1>2 DEF Top

\* A new entry in a folder.
LEMMA AddTree ==
  ASSUME Typed, TreeInv, NEW at, IsFolder(at), NEW name \in Name, NEW kind \in Kinds,
         NEW data \in Data, data.by \in -2 .. begun, begun' = begun, Add(at, name, kind, data)
  PROVE  /\ drive' \in Seq(Entry) /\ TreeInv' /\ Grows
         /\ Len(drive') = Len(drive) + 1
         /\ drive'[Len(drive')].parent = at
         /\ drive'[Len(drive')].above = Chain(drive, at)
         /\ drive'[Len(drive')].path = Append(PathOf(at), name)
         /\ drive'[Len(drive')].kind = kind
         /\ drive'[Len(drive')].data = data
         /\ drive'[Len(drive')].live
         /\ \A t \in DOMAIN drive : drive'[t] = drive[t]
<1> DEFINE e == [parent |-> at, above |-> Chain(drive, at), path |-> Append(PathOf(at), name),
                 kind |-> kind, data |-> data, live |-> TRUE]
           k == Len(drive) + 1
<1>1. /\ Len(drive) \in Nat /\ DOMAIN drive = 1 .. Len(drive)
      /\ \A t \in DOMAIN drive : drive[t] \in Entry
      /\ PathOf(at) \in Names /\ at \in 0 .. Len(drive)
  BY Tokens
<1>2. Chain(drive, at) \subseteq DOMAIN drive
  BY <1>1 DEF Chain, IsFolder, TreeInv, Top
<1>3. e.path \in Names /\ Len(e.path) = Len(PathOf(at)) + 1 /\ Last(e.path) = name
      /\ \A n \in 1 .. Len(PathOf(at)) : e.path[n] = PathOf(at)[n]
  BY <1>1, AppendProperties DEF Names, Last
<1>4. e \in Entry
  BY <1>1, <1>2, <1>3, DataTyped DEF Entry
<1>5. /\ e.parent = at /\ e.above = Chain(drive, at) /\ e.path = Append(PathOf(at), name)
      /\ e.kind = kind /\ e.data = data /\ e.live
  OBVIOUS
<1>6. drive' = Append(drive, e)
  BY DEF Add
<1> HIDE DEF e
<1>7. /\ drive' \in Seq(Entry) /\ Len(drive') = k /\ drive'[k] = e
      /\ \A t \in DOMAIN drive : drive'[t] = drive[t]
      /\ DOMAIN drive' = 1 .. k
  BY <1>1, <1>4, <1>6, AppendProperties DEF Typed
<1>8. Grows
  BY <1>1, <1>7 DEF Grows
<1>9. TreeInv'
  <2> SUFFICES ASSUME NEW t \in 1 .. k
               PROVE  /\ Placed(drive', t)
                      /\ drive'[t].data \in Data /\ drive'[t].data.by \in -2 .. begun'
                      /\ \A u \in drive'[t].above :
                            /\ u \in 1 .. k /\ u < t
                            /\ drive'[u].kind = "folder"
                            /\ Len(drive'[u].path) < Len(drive'[t].path)
                            /\ \A n \in 1 .. Len(drive'[u].path) : drive'[t].path[n] = drive'[u].path[n]
    BY <1>7 DEF TreeInv
  <2>1. CASE t \in DOMAIN drive
    <3>1. /\ Placed(drive, t) /\ drive[t].data \in Data /\ drive[t].data.by \in -2 .. begun
          /\ \A u \in drive[t].above :
                /\ u \in DOMAIN drive /\ u < t
                /\ drive[u].kind = "folder"
                /\ Len(drive[u].path) < Len(drive[t].path)
                /\ \A n \in 1 .. Len(drive[u].path) : drive[t].path[n] = drive[u].path[n]
      BY <2>1 DEF TreeInv
    <3>2. Placed(drive', t)
      <4>1. drive[t].parent = Top \/ drive[t].parent \in DOMAIN drive
        BY <2>1, <3>1, ParentOf
      <4> QED BY <4>1, <3>1, <2>1, <1>7 DEF Placed, Chain, PathIn
    <3> QED BY <3>1, <3>2, <2>1, <1>1, <1>7
  <2>2. CASE t = k
    <3>1. Placed(drive', t)
      <4>1. at = Top \/ at \in DOMAIN drive
        BY DEF IsFolder
      <4>2. /\ drive'[k].parent = at /\ at < k /\ drive'[k].above = Chain(drive, at)
            /\ drive'[k].path = Append(PathOf(at), name) /\ Last(drive'[k].path) = name
        <5>1. at < k
          BY <1>1
        <5>2. Last(drive'[k].path) = name
          BY <1>3, <1>7
        <5> QED BY <5>1, <5>2, <1>5, <1>7
      <4>3. Chain(drive', at) = Chain(drive, at) /\ PathIn(drive', at) = PathOf(at)
        BY <4>1, <1>7 DEF Chain, PathIn, PathOf
      <4>4. at # Top => drive'[at].kind = "folder"
        BY <4>1, <1>7 DEF IsFolder
      <4> QED BY <4>2, <4>3, <4>4, <2>2 DEF Placed
    <3>2. ASSUME NEW u \in drive'[t].above
          PROVE  /\ u \in 1 .. k /\ u < t
                 /\ drive'[u].kind = "folder"
                 /\ Len(drive'[u].path) < Len(drive'[t].path)
                 /\ \A n \in 1 .. Len(drive'[u].path) : drive'[t].path[n] = drive'[u].path[n]
      <4>1. at # Top /\ at \in DOMAIN drive /\ drive[at].kind = "folder"
            /\ (u = at \/ u \in drive[at].above)
        BY <3>2, <2>2, <1>5, <1>7 DEF Chain, IsFolder
      <4>2. PathOf(at) = drive[at].path /\ Len(drive[at].path) \in Nat
        BY <4>1, <1>1 DEF PathOf, PathIn, Names
      <4>3. drive'[t].path = e.path /\ Len(e.path) = Len(drive[at].path) + 1
            /\ \A n \in 1 .. Len(drive[at].path) : e.path[n] = drive[at].path[n]
        BY <4>2, <2>2, <1>3, <1>7
      <4>4. CASE u = at
        BY <4>1, <4>2, <4>3, <4>4, <2>2, <1>1, <1>7
      <4>5. CASE u \in drive[at].above
        <5>1. /\ u \in DOMAIN drive /\ u < at /\ drive[u].kind = "folder"
              /\ Len(drive[u].path) < Len(drive[at].path)
              /\ \A n \in 1 .. Len(drive[u].path) : drive[at].path[n] = drive[u].path[n]
          BY <4>1, <4>5 DEF TreeInv
        <5>2. drive[u].path \in Names /\ Len(drive[u].path) \in Nat /\ drive'[u] = drive[u]
          BY <5>1, <1>1, <1>7 DEF Entry, Names
        <5> QED BY <5>1, <5>2, <4>1, <4>2, <4>3, <2>2, <1>1
      <4> QED BY <4>1, <4>4, <4>5
    <3> QED BY <3>1, <3>2, <2>2, <1>5, <1>7
  <2> QED BY <2>1, <2>2, <1>1
<1> QED BY <1>5, <1>7, <1>8, <1>9

\* An entry is deleted.
LEMMA DeleteTree ==
  ASSUME Typed, TreeInv, NEW t \in DOMAIN drive, Delete(t), begun' = begun
  PROVE  /\ drive' \in Seq(Entry) /\ TreeInv' /\ Grows
         /\ Len(drive') = Len(drive) /\ DOMAIN drive' = DOMAIN drive
         /\ ~drive'[t].live
         /\ \A u \in DOMAIN drive : u # t => drive'[u] = drive[u]
<1>1. /\ Len(drive) \in Nat /\ DOMAIN drive = 1 .. Len(drive)
      /\ \A u \in DOMAIN drive : drive[u] \in Entry
  BY Tokens
<1> DEFINE e == [drive[t] EXCEPT !.live = FALSE]
<1>2. /\ e \in Entry /\ e.parent = drive[t].parent /\ e.above = drive[t].above
      /\ e.path = drive[t].path /\ e.kind = drive[t].kind /\ e.data = drive[t].data /\ ~e.live
  BY <1>1 DEF Entry
<1>3. drive' = [drive EXCEPT ![t] = e]
  BY DEF Delete
<1> HIDE DEF e
<1>4. /\ drive' \in Seq(Entry) /\ Len(drive') = Len(drive) /\ DOMAIN drive' = DOMAIN drive
      /\ drive'[t] = e /\ \A u \in DOMAIN drive : u # t => drive'[u] = drive[u]
  BY <1>1, <1>2, <1>3, ExceptSeq DEF Typed
<1>5. \A u \in DOMAIN drive : /\ drive'[u].parent = drive[u].parent /\ drive'[u].above = drive[u].above
                              /\ drive'[u].path = drive[u].path /\ drive'[u].kind = drive[u].kind
                              /\ drive'[u].data = drive[u].data
  BY <1>2, <1>4
<1>6. Grows
  BY <1>1, <1>4, <1>5 DEF Grows
<1>7. TreeInv'
  <2>1. ASSUME NEW u \in DOMAIN drive, Placed(drive, u)
        PROVE  Placed(drive', u)
    <3>1. drive[u].parent = Top \/ drive[u].parent \in DOMAIN drive
      BY <2>1, ParentOf
    <3> QED BY <3>1, <2>1, <1>5 DEF Placed, Chain, PathIn
  <2>2. \A u \in DOMAIN drive : Placed(drive', u)
    BY <2>1 DEF TreeInv
  <2>3. ASSUME NEW u \in DOMAIN drive
        PROVE  /\ drive'[u].data \in Data /\ drive'[u].data.by \in -2 .. begun'
               /\ \A v \in drive'[u].above :
                     /\ v \in DOMAIN drive' /\ v < u
                     /\ drive'[v].kind = "folder"
                     /\ Len(drive'[v].path) < Len(drive'[u].path)
                     /\ \A n \in 1 .. Len(drive'[v].path) : drive'[u].path[n] = drive'[v].path[n]
    <3>1. /\ drive[u].data \in Data /\ drive[u].data.by \in -2 .. begun
          /\ \A v \in drive[u].above :
                /\ v \in DOMAIN drive /\ v < u /\ drive[v].kind = "folder"
                /\ Len(drive[v].path) < Len(drive[u].path)
                /\ \A n \in 1 .. Len(drive[v].path) : drive[u].path[n] = drive[v].path[n]
      BY DEF TreeInv
    <3>2. ASSUME NEW v \in drive'[u].above
          PROVE  /\ v \in DOMAIN drive' /\ v < u
                 /\ drive'[v].kind = "folder"
                 /\ Len(drive'[v].path) < Len(drive'[u].path)
                 /\ \A n \in 1 .. Len(drive'[v].path) : drive'[u].path[n] = drive'[v].path[n]
      <4>1. v \in DOMAIN drive /\ v \in drive[u].above
        BY <3>1, <1>5
      <4>2. drive'[v].path = drive[v].path /\ drive'[u].path = drive[u].path
            /\ drive'[v].kind = drive[v].kind
        BY <4>1, <1>5
      <4> QED BY <4>1, <4>2, <3>1, <1>4
    <3>3. drive'[u].data = drive[u].data /\ begun' = begun
      BY <1>5
    <3> QED BY <3>1, <3>2, <3>3
  <2> QED BY <2>2, <2>3, <1>4 DEF TreeInv
<1> QED BY <1>2, <1>4, <1>6, <1>7

\* What an operation has found stays where it is.
LEMMA KeepPlace ==
  ASSUME Typed, drive' \in Seq(Entry), Grows, setup' = setup, NEW j \in Job, PlaceInv(j)
  PROVE  PlaceInv(j)'
<1>1. /\ Len(drive) \in Nat /\ DOMAIN drive = 1 .. Len(drive) /\ Len(drive') \in Nat
  BY Tokens
<1>2. IsFolder(j.at)' /\ PathOf(j.at)' = PathOf(j.at)
  BY DEF PlaceInv, IsFolder, Grows, PathOf, PathIn
<1>3. \A p : Full(p)' = Full(p)
  BY DEF Full
<1>4. \A p : Leads(j.tok, p) => Leads(j.tok, p)' /\ drive'[j.tok].kind = drive[j.tok].kind
  BY <1>3 DEF Leads, Grows
<1>5. IsFolder(j.at)' /\ j.tok \in 0 .. Len(drive')
  BY <1>1, <1>2 DEF PlaceInv, Grows
<1>6. j.pc = "drop" => Leads(j.tok, Target(j.op))' /\ drive'[j.tok].kind # "folder"
  BY <1>4 DEF PlaceInv
<1>7. j.pc \in {"type", "get", "export", "delete"} => Leads(j.tok, j.op.path)'
  BY <1>4 DEF PlaceInv
<1>8. (j.pc \in Placing => PathOf(j.at) = Full(Front(Target(j.op))))'
  BY <1>2, <1>3 DEF PlaceInv
<1>9. (j.pc \in {"ensure", "make"} => PathOf(j.at) \o j.walk = Full(Folders(j.op)))'
  BY <1>2, <1>3 DEF PlaceInv
<1>10. (j.pc \in {"resolve", "type"} => PathOf(j.at) \o j.walk = Full(j.op.path))'
  BY <1>2, <1>3 DEF PlaceInv
<1>11. (j.pc \in {"rootwalk", "rootmake"} => PathOf(j.at) \o j.walk = setup.folder)'
  BY <1>2 DEF PlaceInv
<1>12. j.pc \in {"make", "rootmake", "resolve", "type"} => j.walk # << >>
  BY DEF PlaceInv
<1> QED BY <1>5, <1>6, <1>7, <1>8, <1>9, <1>10, <1>11, <1>12 DEF PlaceInv

---------------------------------------------------------------------------
(* The invariant, after a step of one client.                              *)

Becomes(c, n) == n \in Job /\ job' = [job EXCEPT ![c] = n]

\* Only the client's own upload changes.
UploadsKept(c) ==
    /\ uploads' \in Seq(Upload) /\ Len(uploads) <= Len(uploads')
    /\ \A i \in DOMAIN uploads : i # job[c].up => uploads'[i] = uploads[i]

\* What the invariant says of one client.
LEMMA Here ==
  ASSUME IInv, NEW c \in setup.clients
  PROVE  /\ Typed /\ TreeInv /\ setup \in Setups /\ c \in Clients /\ Home(c) \in Clients
         /\ job[c] \in Job /\ store[Home(c)] \in Storage
         /\ PlaceInv(job[c]) /\ OpInv(job[c]) /\ UploadInv(job[c]) /\ StoreInv(store[Home(c)])
         /\ setup.folder \in Names /\ setup.ops \subseteq Operations
         /\ setup.most \in Nat /\ setup.faults \in Nat /\ begun \in Nat /\ faults \in Nat
         /\ Len(uploads) \in Nat /\ DOMAIN uploads = 1 .. Len(uploads)
         /\ HomeInv(job[c], store[Home(c)])
<1>1. Typed /\ TreeInv /\ setup \in Setups
  BY DEF IInv, Typed
<1>2. /\ setup.folder \in Names /\ setup.ops \subseteq Operations /\ setup.clients \subseteq Clients
      /\ setup.most \in Nat /\ setup.faults \in Nat /\ setup.home \in [setup.clients -> setup.clients]
  BY <1>1, SetupAssumption
<1>3. c \in Clients /\ Home(c) \in Clients
  BY <1>2 DEF Home
<1>4. begun \in Nat /\ faults \in Nat /\ uploads \in Seq(Upload)
  BY <1>1, <1>2 DEF Typed
<1>5. job[c] \in Job /\ store[Home(c)] \in Storage
  BY <1>1, <1>3 DEF Typed
<1>6. PlaceInv(job[c]) /\ OpInv(job[c]) /\ UploadInv(job[c]) /\ StoreInv(store[Home(c)])
  BY <1>3 DEF IInv
<1>7. HomeInv(job[c], store[Home(c)])
  BY DEF IInv
<1> QED BY <1>1, <1>2, <1>3, <1>4, <1>5, <1>6, <1>7

\* What is not changed goes on holding when the rest grows.
LEMMA KeepOp ==
  ASSUME setup' = setup, begun \in Nat, begun' \in Nat, begun <= begun', NEW j \in Job, OpInv(j)
  PROVE  OpInv(j)'
<1>1. j.data.by \in Int
  BY DEF Job, Data
<1>2. j.data.by \in -2 .. begun'
  BY <1>1 DEF OpInv
<1> QED BY <1>2 DEF OpInv

LEMMA KeepUpload ==
  ASSUME uploads \in Seq(Upload), NEW c, UploadsKept(c), NEW j \in Job, UploadInv(j),
         j.up = job[c].up => j.up = 0
  PROVE  UploadInv(j)'
<1>1. /\ Len(uploads) \in Nat /\ DOMAIN uploads = 1 .. Len(uploads)
      /\ Len(uploads') \in Nat /\ DOMAIN uploads' = 1 .. Len(uploads')
      /\ Len(uploads) <= Len(uploads')
  BY DEF UploadsKept
<1>2. j.up \in 0 .. Len(uploads')
  BY <1>1 DEF UploadInv
<1>3. j.pc \in {"part", "finish"} => j.up \in DOMAIN uploads' /\ uploads'[j.up] = uploads[j.up]
  BY <1>1 DEF UploadInv, UploadsKept
<1> QED BY <1>2, <1>3 DEF UploadInv

LEMMA KeepStore ==
  ASSUME setup' = setup, begun \in Nat, begun' \in Nat, begun <= begun', Grows,
         NEW s \in Storage, StoreInv(s)
  PROVE  StoreInv(s)'
<1>1. IsFolder(s.root)' /\ PathOf(s.root)' = PathOf(s.root)
  BY DEF StoreInv, IsFolder, Grows, PathOf, PathIn
<1>2. ASSUME NEW b \in s.bufs
      PROVE  b.data.by \in -2 .. begun'
  <2>1. b.data.by \in Int
    BY DEF Storage, Data
  <2> QED BY <2>1 DEF StoreInv
<1> QED BY <1>1, <1>2 DEF StoreInv

\* What a client, having done its step, leaves in its Storage.
StoreStep(c, n, s) ==
    /\ s \in Storage /\ store' = [store EXCEPT ![Home(c)] = s] /\ StoreInv(s)'
    /\ HomeInv(n, s)
    /\ \/ s.once = store[Home(c)].once /\ s.failed = store[Home(c)].failed
       \/ store[Home(c)].once = "new"
       \/ job[c].pc \in Rooting
    /\ n.pc \in Rooting => job[c].pc \in Rooting \/ store[Home(c)].once = "new"

LEMMA Change ==
  ASSUME IInv, NEW c \in setup.clients, NEW n, Becomes(c, n), setup' = setup,
         drive' \in Seq(Entry), TreeInv', Grows, UploadsKept(c),
         begun' \in begun .. setup.most, faults' \in 0 .. setup.faults,
         NEW s, StoreStep(c, n, s),
         PlaceInv(n)', OpInv(n)', UploadInv(n)',
         n.up \in {0, job[c].up} \/ n.up = Len(uploads) + 1
  PROVE  IInv'
<1>1. /\ Typed /\ c \in Clients /\ begun \in Nat /\ setup.most \in Nat
      /\ Len(uploads) \in Nat /\ DOMAIN uploads = 1 .. Len(uploads)
  BY Here
<1>2. /\ job \in [Clients -> Job] /\ job'[c] = n /\ job' \in [Clients -> Job]
      /\ \A d \in Clients : d # c => job'[d] = job[d]
  BY <1>1 DEF Becomes, Typed
<1>3. begun' \in 0 .. setup.most /\ begun <= begun' /\ begun' \in Nat
  BY <1>1
<1>4. /\ Home(c) \in Clients /\ store \in [Clients -> Storage]
      /\ store'[Home(c)] = s /\ store' \in [Clients -> Storage]
      /\ \A h \in Clients : h # Home(c) => store'[h] = store[h]
  BY Here DEF StoreStep, Typed
<1>5. Typed'
  BY <1>1, <1>2, <1>3, <1>4 DEF Typed, UploadsKept
<1>6. ASSUME NEW d \in Clients, d # c
      PROVE  PlaceInv(job[d])' /\ OpInv(job[d])' /\ UploadInv(job[d])'
  <2>1. PICK j \in Job : j = job[d] /\ j = job'[d]
    BY <1>2, <1>6
  <2>2. PlaceInv(j) /\ OpInv(j) /\ UploadInv(j) /\ (j.up = job[c].up /\ j.up # 0 => d = c)
    BY <2>1, <1>1 DEF IInv
  <2>3. PlaceInv(j)'
    BY <2>2, <1>1, KeepPlace
  <2>4. OpInv(j)'
    BY <2>2, <1>1, <1>3, KeepOp
  <2>5. UploadInv(j)'
    BY <2>2, <1>1, <1>6, KeepUpload DEF Typed
  <2>6. job'[d] = j
    BY <2>1
  <2>7. PlaceInv(job[d])'
    BY <2>3, <2>6 DEF PlaceInv
  <2>8. OpInv(job[d])' /\ UploadInv(job[d])'
    BY <2>4, <2>5, <2>6 DEF OpInv, UploadInv
  <2> QED BY <2>7, <2>8
<1>7. PlaceInv(job[c])' /\ OpInv(job[c])' /\ UploadInv(job[c])'
  <2>1. PlaceInv(job[c])'
    BY <1>2 DEF PlaceInv
  <2>2. OpInv(job[c])' /\ UploadInv(job[c])'
    BY <1>2 DEF OpInv, UploadInv
  <2> QED BY <2>1, <2>2
<1>8. ASSUME NEW h \in Clients
      PROVE  StoreInv(store[h])'
  <2>1. PICK r : r = store'[h] /\ StoreInv(r)'
    <3>1. CASE h # Home(c)
      <4>1. PICK r \in Storage : r = store[h] /\ r = store'[h]
        BY <3>1, <1>4
      <4>2. StoreInv(r)
        BY <4>1 DEF IInv
      <4>3. StoreInv(r)'
        BY <4>2, <1>1, <1>3, KeepStore
      <4> QED BY <4>1, <4>3
    <3>2. CASE h = Home(c)
      BY <3>2, <1>4 DEF StoreStep
    <3> QED BY <3>1, <3>2
  <2> QED BY <2>1 DEF StoreInv
<1>9. \A d \in setup'.clients : HomeInv(job'[d], store'[Home(d)'])
  <2> SUFFICES ASSUME NEW d \in setup.clients
               PROVE  HomeInv(job'[d], store'[Home(d)])
    BY DEF Home
  <2>1. d \in Clients /\ Home(d) \in Clients /\ HomeInv(job[d], store[Home(d)])
    BY Here
  <2>2. CASE d = c
    BY <2>2, <1>2, <1>4 DEF StoreStep
  <2>3. CASE d # c /\ Home(d) # Home(c)
    BY <2>1, <2>3, <1>2, <1>4
  <2>4. CASE d # c /\ Home(d) = Home(c)
    <3>1. job'[d] = job[d] /\ store'[Home(d)] = s
      BY <2>1, <2>4, <1>2, <1>4
    <3>2. CASE job[c].pc \in Rooting
      <4>1. job[d].pc \notin Rooting /\ store[Home(d)].once = "busy"
        BY <2>4, <3>2, Here DEF IInv, HomeInv
      <4> QED BY <4>1, <3>1, <2>1 DEF HomeInv
    <3>3. CASE store[Home(c)].once = "new"
      BY <2>1, <2>4, <3>1, <3>3 DEF HomeInv
    <3>4. CASE s.once = store[Home(c)].once /\ s.failed = store[Home(c)].failed
      BY <2>1, <2>4, <3>1, <3>4 DEF HomeInv
    <3> QED BY <3>2, <3>3, <3>4 DEF StoreStep
  <2> QED BY <2>2, <2>3, <2>4
<1>10. \A d, e \in setup'.clients : Home(d)' = Home(e)' /\ job'[d].pc \in Rooting
                                   /\ job'[e].pc \in Rooting => d = e
  <2>1. ASSUME NEW d \in setup.clients, Home(d) = Home(c), n.pc \in Rooting, d # c
        PROVE  job'[d].pc \notin Rooting
    <3>1. d \in Clients /\ HomeInv(job[d], store[Home(c)])
      BY <2>1, Here
    <3>2. job[c].pc \in Rooting \/ store[Home(c)].once = "new"
      BY <2>1 DEF StoreStep
    <3>3. job[d].pc \notin Rooting
      BY <2>1, <3>1, <3>2 DEF IInv, HomeInv
    <3> QED BY <2>1, <3>1, <3>3, <1>2
  <2>2. \A d \in setup.clients : d \in Clients
    BY Here
  <2> SUFFICES ASSUME NEW d \in setup.clients, NEW e \in setup.clients, Home(d) = Home(e),
                      job'[d].pc \in Rooting, job'[e].pc \in Rooting, d # e
               PROVE  FALSE
    BY DEF Home
  <2>3. CASE d # c /\ e # c
    BY <2>2, <2>3, <1>2 DEF IInv
  <2> QED BY <2>1, <2>2, <2>3, <1>2
<1>11. \A d \in Clients : job'[d].pc # "idle" => d \in setup'.clients
  BY <1>2 DEF IInv
<1>12. \A d, e \in Clients : job'[d].up = job'[e].up /\ job'[d].up # 0 => d = e
  <2>1. \A d \in Clients : job[d].up \in 0 .. Len(uploads)
    BY DEF IInv, UploadInv
  <2> QED BY <2>1, <1>1, <1>2 DEF IInv
<1> QED BY <1>5, <1>6, <1>7, <1>8, <1>9, <1>10, <1>11, <1>12 DEF IInv

\* A client that stays on its side of the root folder leaves its Storage alone.
Stays(c, n) ==
    \/ n.pc \in {"idle", "root"}
    \/ job[c].pc \notin {"idle", "root"} /\ (n.pc \in Rooting <=> job[c].pc \in Rooting)

LEMMA SameStore ==
  ASSUME IInv, NEW c \in setup.clients, NEW n, Stays(c, n),
         setup' = setup, Grows, store' = store, begun' \in Nat, begun <= begun'
  PROVE  \E s : StoreStep(c, n, s)
<1>1. PICK s \in Storage : s = store[Home(c)]
  BY Here
<1>2. HomeInv(job[c], s) /\ StoreInv(s) /\ begun \in Nat
  BY <1>1, Here
<1>3. HomeInv(n, s)
  BY <1>2 DEF Stays, HomeInv, Rooting
<1>4. store' = [store EXCEPT ![Home(c)] = s]
  BY <1>1, Here DEF Typed
<1>5. StoreInv(s)'
  BY <1>2, KeepStore
<1>6. n.pc \in Rooting => job[c].pc \in Rooting
  BY DEF Stays, Rooting
<1> QED BY <1>1, <1>3, <1>4, <1>5, <1>6 DEF StoreStep

LEMMA SameDrive ==
  ASSUME IInv, drive' = drive, begun' = begun
  PROVE  drive' \in Seq(Entry) /\ TreeInv' /\ Grows
<1>1. Typed /\ TreeInv
  BY DEF IInv
<1>2. drive' \in Seq(Entry) /\ Len(drive) \in Nat
  BY <1>1 DEF Typed
<1>3. TreeInv'
  BY <1>1 DEF TreeInv
<1> QED BY <1>2, <1>3 DEF Grows

LEMMA SameCopies ==
  ASSUME setup' = setup, drive' = drive
  PROVE  Copies' = Copies
BY DEF Copies, FilesAt, Alive, Chain, PathOf, PathIn

LEMMA SameInvs ==
  ASSUME UNCHANGED <<setup, drive, uploads, begun>>, NEW n, PlaceInv(n), OpInv(n), UploadInv(n)
  PROVE  PlaceInv(n)' /\ OpInv(n)' /\ UploadInv(n)'
<1>1. PlaceInv(n)'
  BY DEF PlaceInv, IsFolder, PathOf, PathIn, Full, Leads
<1>2. OpInv(n)' /\ UploadInv(n)'
  BY DEF OpInv, UploadInv
<1> QED BY <1>1, <1>2

LEMMA SameUploads ==
  ASSUME IInv, NEW c, uploads' = uploads
  PROVE  UploadsKept(c)
<1>1. uploads \in Seq(Upload) /\ Len(uploads) \in Nat
  BY DEF IInv, Typed
<1> QED BY <1>1 DEF UploadsKept

\* A step that changes nothing of the drive, but its client's Storage.
LEMMA StoreQuiet ==
  ASSUME IInv, NEW c \in setup.clients, NEW n, Becomes(c, n), NEW s, StoreStep(c, n, s),
         UNCHANGED <<setup, drive, uploads, begun>>, UNCHANGED faults \/ Fault,
         PlaceInv(n), OpInv(n), UploadInv(n), n.up \in {0, job[c].up}
  PROVE  IInv' /\ Copies' = Copies
<1>1. PlaceInv(n)' /\ OpInv(n)' /\ UploadInv(n)'
  BY SameInvs
<1>2. drive' \in Seq(Entry) /\ TreeInv' /\ Grows /\ UploadsKept(c)
  BY SameDrive, SameUploads
<1>3. faults' \in 0 .. setup.faults /\ begun' \in begun .. setup.most
  BY Here DEF IInv, Typed, Fault
<1>4. IInv'
  BY <1>1, <1>2, <1>3, Change
<1> QED BY <1>4, SameCopies

\* A step that changes nothing but the client.
LEMMA Quiet ==
  ASSUME IInv, NEW c \in setup.clients, NEW n, Becomes(c, n), Stays(c, n),
         UNCHANGED <<setup, drive, uploads, store, begun>>, UNCHANGED faults \/ Fault,
         PlaceInv(n), OpInv(n), UploadInv(n), n.up \in {0, job[c].up}
  PROVE  IInv' /\ Copies' = Copies
<1>1. Grows /\ begun' \in Nat /\ begun <= begun'
  BY SameDrive, Here
<1>2. PICK s : StoreStep(c, n, s)
  BY <1>1, SameStore
<1> QED BY <1>2, StoreQuiet

\* An operation ends, and what it held stays.
Ended(j, result) == [Idle EXCEPT !.op = j.op, !.result = result, !.data = j.data]

LEMMA EndedJob ==
  ASSUME NEW j \in Job, NEW r \in {"ok", "error", "crash"}
  PROVE  LET n == Ended(j, r)
         IN  /\ n \in Job /\ n.pc = "idle" /\ n.op = j.op /\ n.data = j.data /\ n.result = r
             /\ n.up = 0 /\ n.stored = FALSE /\ n.walk = << >> /\ n.buffered = FALSE /\ n.at = Top
             /\ n.tok = Top
<1> DEFINE n == Ended(j, r)
<1>1. << >> \in Names
  BY DEF Names
<1>2. /\ n \in Job /\ n.pc = "idle" /\ n.op = j.op /\ n.data = j.data /\ n.result = r
      /\ n.up = 0 /\ n.stored = FALSE /\ n.walk = << >> /\ n.buffered = FALSE /\ n.at = Top
      /\ n.tok = Top
  <2>1. "idle" \in Pcs /\ 0 \in 0 .. UploadAttempts - 1
    BY DEF Pcs, UploadAttempts
  <2>2. NoOp \in Operations \cup {NoOp} /\ Empty \in Data
    <3>1. {} = Units(0)
      BY DEF Units
    <3> QED BY <3>1 DEF Data, Empty
  <2>3. Idle \in Job
    BY <1>1, <2>1, <2>2 DEF Job, Idle, Top
  <2>4. Idle.pc = "idle" /\ Idle.up = 0 /\ Idle.stored = FALSE /\ Idle.walk = << >>
        /\ Idle.buffered = FALSE /\ Idle.at = Top /\ Idle.tok = Top
    BY DEF Idle
  <2> QED BY <2>3, <2>4 DEF Job, Ended
<1> QED BY <1>2

LEMMA EndedInv ==
  ASSUME Typed, NEW n \in Job, n.pc = "idle", n.at = Top, n.tok = Top, n.up = 0,
         n.stored = FALSE, n.buffered = FALSE, n.data.by \in -2 .. begun
  PROVE  PlaceInv(n) /\ OpInv(n) /\ UploadInv(n)
<1>1. PlaceInv(n)
  BY Tokens DEF PlaceInv, IsFolder, Top, Placing, Sending
<1>2. OpInv(n)
  BY DEF OpInv, Placing, Sending
<1>3. UploadInv(n)
  <2>1. Len(uploads) \in Nat
    BY DEF Typed
  <2> QED BY <2>1 DEF UploadInv
<1> QED BY <1>1, <1>2, <1>3

LEMMA EndInv ==
  ASSUME IInv, NEW c \in setup.clients, NEW r \in {"ok", "error"}, End(c, r),
         UNCHANGED <<setup, drive, uploads, begun>>, UNCHANGED faults \/ Fault,
         \/ UNCHANGED store
         \/ \E s : StoreStep(c, Ended(job[c], r), s)
  PROVE  IInv' /\ Copies' = Copies /\ Becomes(c, Ended(job[c], r))
<1>1. PICK n : n = Ended(job[c], r)
  OBVIOUS
<1>2. job[c] \in Job /\ Typed /\ job[c].data.by \in -2 .. begun
  BY Here DEF OpInv
<1>3. r \in {"ok", "error", "crash"}
  OBVIOUS
<1>4. /\ n \in Job /\ n.pc = "idle" /\ n.at = Top /\ n.tok = Top /\ n.up = 0 /\ n.stored = FALSE
      /\ n.buffered = FALSE /\ n.data = job[c].data
  BY <1>1, <1>2, <1>3, EndedJob
<1>5. PlaceInv(n) /\ OpInv(n) /\ UploadInv(n)
  BY <1>2, <1>4, EndedInv
<1>6. Becomes(c, n)
  BY <1>1, <1>4 DEF End, Becomes, Ended, Op
<1>7. CASE UNCHANGED store
  BY <1>1, <1>4, <1>5, <1>6, <1>7, Quiet DEF Stays
<1>8. CASE \E s : StoreStep(c, Ended(job[c], r), s)
  BY <1>1, <1>4, <1>5, <1>6, <1>8, StoreQuiet
<1> QED BY <1>1, <1>6, <1>7, <1>8

---------------------------------------------------------------------------
(* NamedFiles, of a step of one client.                                    *)

AbstractStep == Abstract!Next \/ UNCHANGED Abstract!vars

LEMMA PhaseIs ==
  ASSUME NEW j \in Job, OpInv(j)
  PROVE  /\ j.pc = "idle" => PhaseOf(j) = "idle"
         /\ j.stored \/ j.pc = "find" => PhaseOf(j) = "stored"
         /\ ~j.stored /\ j.pc \in Sending => PhaseOf(j) = "storing"
         /\ j.pc \in {"poll", "fetch"} => PhaseOf(j) = "read"
         /\ j.pc \notin {"idle", "find", "poll", "fetch"} \cup Sending /\ ~j.stored
            => PhaseOf(j) = "busy"
         /\ j.pc # "idle" => PhaseOf(j) # "idle"
<1>1. j.stored => j.pc \in {"resolve", "delete"}
  BY DEF OpInv
<1> QED BY <1>1 DEF PhaseOf, Sending

\* What a client's step makes of what NamedFiles keeps for it.
LEMMA Maps ==
  ASSUME Typed, NEW c \in Clients, NEW n, Becomes(c, n)
  PROVE  /\ Doing' = [Doing EXCEPT ![c] = n.op] /\ Doing[c] = job[c].op
         /\ Held' = [Held EXCEPT ![c] = n.data] /\ Held[c] = job[c].data /\ Held'[c] = n.data
         /\ Results' = [Results EXCEPT ![c] = n.result] /\ Results[c] = job[c].result
         /\ Phases' = [Phases EXCEPT ![c] = PhaseOf(n)] /\ Phases[c] = PhaseOf(job[c])
<1>1. job' = [job EXCEPT ![c] = n] /\ job \in [Clients -> Job]
  BY DEF Becomes, Typed
<1>2. job'[c] = n /\ \A d \in Clients : d # c => job'[d] = job[d]
  BY <1>1
<1>3. Doing' = [Doing EXCEPT ![c] = n.op] /\ Doing[c] = job[c].op
  BY <1>2 DEF Doing, Op
<1>4. Held' = [Held EXCEPT ![c] = n.data] /\ Held[c] = job[c].data /\ Held'[c] = n.data
  BY <1>2 DEF Held
<1>5. Results' = [Results EXCEPT ![c] = n.result] /\ Results[c] = job[c].result
  BY <1>2 DEF Results
<1>6. Phases' = [Phases EXCEPT ![c] = PhaseOf(n)] /\ Phases[c] = PhaseOf(job[c])
  <2>1. Phases'[c] = PhaseOf(n) /\ \A d \in Clients : d # c => Phases'[d] = Phases[d]
    BY <1>2 DEF Phases
  <2>2. Phases' = [d \in Clients |-> Phases'[d]] /\ Phases = [d \in Clients |-> Phases[d]]
    BY DEF Phases
  <2>3. Phases[c] = PhaseOf(job[c])
    BY DEF Phases
  <2> QED BY <2>1, <2>2, <2>3
<1> QED BY <1>3, <1>4, <1>5, <1>6

LEMMA Stutters ==
  ASSUME Typed, NEW c \in Clients, NEW n, Becomes(c, n), Copies' = Copies,
         n.op = job[c].op, n.data = job[c].data, n.result = job[c].result,
         PhaseOf(n) = PhaseOf(job[c])
  PROVE  AbstractStep
<1>1. /\ Doing' = [Doing EXCEPT ![c] = Doing[c]] /\ Held' = [Held EXCEPT ![c] = Held[c]]
      /\ Results' = [Results EXCEPT ![c] = Results[c]]
      /\ Phases' = [Phases EXCEPT ![c] = Phases[c]]
  BY Maps
<1>2. Doing' = Doing
  BY <1>1 DEF Doing
<1>3. Held' = Held
  BY <1>1 DEF Held
<1>4. Results' = Results
  BY <1>1 DEF Results
<1>5. Phases' = Phases
  BY <1>1 DEF Phases
<1> QED BY <1>2, <1>3, <1>4, <1>5 DEF AbstractStep, Abstract!vars

\* An operation that goes on, for NamedFiles in the same phase.
LEMMA GoesOn ==
  ASSUME IInv, NEW c \in setup.clients, NEW n, Becomes(c, n), Copies' = Copies,
         n.op = job[c].op, n.data = job[c].data, job[c].pc # "idle", n.pc # "idle",
         OpInv(n), PhaseOf(n) = PhaseOf(job[c])
  PROVE  AbstractStep
<1>1. n.result = job[c].result
  BY Here DEF OpInv
<1> QED BY <1>1, Here, Stutters

\* One that ends, and changes nothing more.
LEMMA Stops ==
  ASSUME IInv, NEW c \in setup.clients, NEW r \in {"ok", "error"}, Becomes(c, Ended(job[c], r)),
         Copies' = Copies, job[c].pc # "idle",
         \/ r = "error"
         \/ r = "ok" /\ (PhaseOf(job[c]) = "stored" \/ job[c].op.do = "mkdir")
  PROVE  AbstractStep
<1>1. PICK n : n = Ended(job[c], r)
  OBVIOUS
<1>2. job[c] \in Job /\ Typed /\ c \in Clients /\ OpInv(job[c]) /\ job[c].data.by \in -2 .. begun
  BY Here DEF OpInv
<1>3. PICK j \in Job : j = job[c]
  BY <1>2
<1>4. r \in {"ok", "error", "crash"}
  OBVIOUS
<1>5. /\ n \in Job /\ n.pc = "idle" /\ n.op = j.op /\ n.data = j.data /\ n.result = r
      /\ n.at = Top /\ n.tok = Top /\ n.up = 0 /\ n.stored = FALSE /\ n.buffered = FALSE
  BY <1>1, <1>3, <1>4, EndedJob
<1>6. OpInv(n)
  BY <1>2, <1>3, <1>5, EndedInv
<1>7. PhaseOf(n) = "idle" /\ PhaseOf(j) # "idle"
  BY <1>2, <1>3, <1>5, <1>6, PhaseIs
<1>8. /\ Doing' = [Doing EXCEPT ![c] = j.op] /\ Doing[c] = j.op
      /\ Held' = [Held EXCEPT ![c] = j.data] /\ Held[c] = j.data
      /\ Results' = [Results EXCEPT ![c] = r]
      /\ Phases' = [Phases EXCEPT ![c] = "idle"] /\ Phases[c] = PhaseOf(j)
  BY <1>1, <1>2, <1>3, <1>5, <1>7, Maps
<1>9. Doing' = Doing /\ Held' = Held
  BY <1>8 DEF Doing, Held
<1>10. Abstract!Stop(c)
  BY <1>3, <1>7, <1>8, <1>9 DEF Abstract!Stop, Abstract!Ends
<1> QED BY <1>2, <1>10 DEF AbstractStep, Abstract!Next

\* An operation ends with an error, or with none when Rename has stored the file.
LEMMA Failing ==
  ASSUME IInv, NEW c \in setup.clients, Fail(c), job[c].pc # "idle",
         UNCHANGED <<setup, drive, uploads, begun>>, UNCHANGED faults \/ Fault,
         \/ UNCHANGED store
         \/ \A r \in {"ok", "error"} : \E s : StoreStep(c, Ended(job[c], r), s)
  PROVE  IInv' /\ AbstractStep
<1>1. PICK r \in {"ok", "error"} : r = IF job[c].stored THEN "ok" ELSE "error"
  OBVIOUS
<1>2. End(c, r)
  BY <1>1 DEF Fail
<1>3. IInv' /\ Copies' = Copies /\ Becomes(c, Ended(job[c], r))
  BY <1>2, EndInv
<1>4. r = "ok" => PhaseOf(job[c]) = "stored"
  BY <1>1, Here, PhaseIs
<1> QED BY <1>3, <1>4, Stops

\* The same, for an operation that may be finding the root folder.
LEMMA GivingUp ==
  ASSUME IInv, NEW c \in setup.clients, GiveUp(c), job[c].pc # "idle",
         UNCHANGED <<setup, drive, uploads, begun>>, UNCHANGED faults \/ Fault
  PROVE  IInv' /\ AbstractStep
<1>1. CASE job[c].pc \notin Rooting
  BY <1>1, Failing DEF GiveUp, Rooting
<1>2. CASE job[c].pc \in Rooting
  <2>1. PICK s : s = [store[Home(c)] EXCEPT !.once = "done", !.failed = TRUE]
    OBVIOUS
  <2>2. store' = [store EXCEPT ![Home(c)] = s]
    BY <1>2, <2>1, Here DEF GiveUp, Rooting, Typed, Storage
  <2>3. s \in Storage /\ s.once = "done" /\ s.failed = TRUE /\ s.root = store[Home(c)].root
        /\ s.bufs = store[Home(c)].bufs
    BY <2>1, Here DEF Storage
  <2>4. StoreInv(s)'
    BY <2>3, Here DEF StoreInv, IsFolder
  <2>5. ASSUME NEW r \in {"ok", "error"}
        PROVE  StoreStep(c, Ended(job[c], r), s)
    <3>1. Ended(job[c], r).pc = "idle"
      BY DEF Ended, Idle
    <3> QED BY <1>2, <2>2, <2>3, <2>4, <3>1 DEF StoreStep, HomeInv, Rooting
  <2> QED BY <2>5, Failing DEF GiveUp
<1> QED BY <1>1, <1>2

\* An operation that goes on, on its own.
LEMMA Steps ==
  ASSUME IInv, NEW c \in setup.clients, NEW n, Becomes(c, n), Stays(c, n),
         UNCHANGED <<setup, drive, uploads, store, begun>>, UNCHANGED faults \/ Fault,
         PlaceInv(n), OpInv(n), UploadInv(n), n.up = job[c].up,
         n.op = job[c].op, n.data = job[c].data, job[c].pc # "idle", n.pc # "idle",
         PhaseOf(n) = PhaseOf(job[c])
  PROVE  IInv' /\ AbstractStep
<1>1. IInv' /\ Copies' = Copies
  BY Quiet
<1> QED BY <1>1, GoesOn

---------------------------------------------------------------------------
(* The paths of an operation.                                              *)

LEMMA OpTyped ==
  ASSUME setup \in Setups, NEW o \in setup.ops
  PROVE  /\ o \in Operations /\ o.path \in Names /\ o.path # << >>
         /\ Target(o) \in Names /\ Target(o) # << >>
         /\ Front(Target(o)) \in Names /\ Last(Target(o)) \in Name /\ Folders(o) \in Names
<1>1. o \in Operations /\ (o.do = "rename" => o.to # << >>)
  BY SetupAssumption
<1>2. o.path \in Names /\ o.path # << >> /\ o.to \in Names
  BY <1>1 DEF Operations
<1>3. Target(o) \in Names /\ Target(o) # << >>
  BY <1>1, <1>2 DEF Target
<1>4. Front(Target(o)) \in Names /\ Last(Target(o)) \in Name
  BY <1>3, FrontLast
<1> QED BY <1>1, <1>2, <1>3, <1>4 DEF Folders

\* Where an operation starts to walk.
LEMMA WalkJob ==
  ASSUME IInv, NEW c \in setup.clients, job[c].op \in setup.ops,
         NEW pc \in {"ensure", "resolve", "type"}, NEW w, w = Walk(c, pc)
  PROVE  /\ w \in Job /\ w.pc = pc /\ w.at = store[Home(c)].root /\ w.walk = Walk(c, pc).walk
         /\ w.op = job[c].op /\ w.data = job[c].data /\ w.up = job[c].up
         /\ w.stored = job[c].stored /\ w.buffered = job[c].buffered
         /\ w.result = job[c].result /\ w.tok = job[c].tok
<1>1. PICK j \in Job : j = job[c]
  BY Here
<1>2. PICK r \in Nat : r = store[Home(c)].root
  BY Here DEF Storage
<1>3. PICK v \in Names : v = IF pc = "ensure" /\ j.op.do # "mkdir" THEN Front(Target(j.op))
                             ELSE j.op.path
  BY <1>1, Here, OpTyped
<1>4. w = [j EXCEPT !.pc = pc, !.at = r, !.walk = v]
  BY <1>1, <1>2, <1>3 DEF Walk, Op
<1>5. pc \in Pcs
  BY DEF Pcs
<1>6. w \in Job /\ w.pc = pc /\ w.at = r /\ w.walk = v
  BY <1>1, <1>2, <1>3, <1>4, <1>5 DEF Job
<1> QED BY <1>1, <1>2, <1>4, <1>6 DEF Job

LEMMA Walks ==
  ASSUME IInv, NEW c \in setup.clients, NEW n \in Job, n.pc \in {"ensure", "resolve", "type"},
         n.op = job[c].op, n.op \in setup.ops, n.up = job[c].up, n.tok \in 0 .. Len(drive),
         n.at = store[Home(c)].root, n.walk = Walk(c, n.pc).walk,
         n.pc = "type" => Leads(n.tok, n.op.path),
         store[Home(c)].once = "done", ~store[Home(c)].failed
  PROVE  PlaceInv(n) /\ UploadInv(n)
<1>1. IsFolder(n.at) /\ PathOf(n.at) = setup.folder /\ UploadInv(job[c])
  BY Here DEF StoreInv
<1>2. n.walk = IF n.pc = "ensure" THEN Folders(n.op) ELSE n.op.path
  <2>1. n.walk = IF n.pc = "ensure" /\ Op(c).do # "mkdir" THEN Front(Target(Op(c)))
                 ELSE Op(c).path
    BY Here DEF Walk, Job
  <2> QED BY <2>1 DEF Op, Folders
<1>3. n.op.path # << >>
  BY OpTyped, Here
<1>4. PlaceInv(n)
  BY <1>1, <1>2, <1>3 DEF PlaceInv, Full, Placing, Sending
<1>5. UploadInv(n)
  BY <1>1 DEF UploadInv
<1> QED BY <1>4, <1>5

\* Into a folder that was found.
LEMMA Enters ==
  ASSUME Typed, NEW j \in Job, IsFolder(j.at), j.walk # << >>,
         NEW t \in Entries(j.at, Head(j.walk))
  PROVE  /\ t \in DOMAIN drive /\ t \in Nat /\ t \in 0 .. Len(drive) /\ Alive(t)
         /\ Tail(j.walk) \in Names
         /\ drive[t].path = Append(PathOf(j.at), Head(j.walk)) /\ PathOf(t) = drive[t].path
         /\ PathOf(t) \o Tail(j.walk) = PathOf(j.at) \o j.walk
         /\ Len(j.walk) = 1 => drive[t].path = PathOf(j.at) \o j.walk
         /\ Len(j.walk) > 1 => Tail(j.walk) # << >>
<1>1. PathOf(j.at) \in Names /\ j.walk \in Names
  BY Tokens DEF Job
<1>2. t \in DOMAIN drive /\ Alive(t) /\ drive[t].path = Append(PathOf(j.at), Head(j.walk))
  BY DEF Entries
<1>3. t \in 1 .. Len(drive) /\ Len(drive) \in Nat
  BY <1>2, Tokens
<1>4. PathOf(t) = drive[t].path
  BY <1>3 DEF PathOf, PathIn, Top
<1>5. /\ Tail(j.walk) \in Names
      /\ Append(PathOf(j.at), Head(j.walk)) \o Tail(j.walk) = PathOf(j.at) \o j.walk
      /\ Len(j.walk) = 1 => Append(PathOf(j.at), Head(j.walk)) = PathOf(j.at) \o j.walk
  BY <1>1, OneName
<1>6. Len(j.walk) > 1 => Tail(j.walk) # << >>
  <2>1. j.walk \in Seq(Name) /\ Len(j.walk) \in Nat
    BY <1>1 DEF Names
  <2>2. Len(Tail(j.walk)) = Len(j.walk) - 1
    BY <2>1, HeadTailProperties
  <2> QED BY <2>1, <2>2
<1>7. t \in Nat /\ t \in 0 .. Len(drive)
  BY <1>3
<1> QED BY <1>2, <1>4, <1>5, <1>6, <1>7

---------------------------------------------------------------------------
(* The steps of an operation: resolveRoot.                                 *)

LEMMA UseRootStep ==
  ASSUME IInv, NEW c \in setup.clients, UseRoot(c)
  PROVE  IInv' /\ AbstractStep
<1>1. /\ job[c] \in Job /\ job[c].pc = "root" /\ OpInv(job[c]) /\ PlaceInv(job[c])
      /\ store[Home(c)] \in Storage /\ setup \in Setups
  BY Here DEF UseRoot
<1>2. CASE store[Home(c)].failed
  <2>1. End(c, "error") /\ IInv' /\ Copies' = Copies /\ Becomes(c, Ended(job[c], "error"))
    BY <1>2, EndInv DEF UseRoot
  <2> QED BY <1>1, <2>1, Stops
<1>3. CASE ~store[Home(c)].failed
  <2>1. PICK n : n = Walk(c, FirstPhase(c))
    OBVIOUS
  <2>2. job' = [job EXCEPT ![c] = n]
    BY <1>3, <2>1 DEF UseRoot
  <2>3. job[c].op \in setup.ops /\ job[c].op.do # "create" /\ job[c].op \in Operations
        /\ (job[c].buffered => job[c].op.do = "rename") /\ ~job[c].stored
    BY <1>1, OpTyped DEF OpInv
  <2>4. /\ FirstPhase(c) \in {"ensure", "resolve"}
        /\ FirstPhase(c) = "ensure" => job[c].op.do \in {"write", "rename", "mkdir"}
        /\ FirstPhase(c) = "resolve" => job[c].op.do \in {"open", "rename", "remove"}
    BY <2>3 DEF FirstPhase, Op, Operations
  <2>5. /\ n \in Job /\ n.pc = FirstPhase(c) /\ n.op = job[c].op /\ n.up = job[c].up
        /\ n.tok = job[c].tok /\ n.at = store[Home(c)].root /\ n.walk = Walk(c, n.pc).walk
        /\ n.data = job[c].data /\ n.stored = job[c].stored /\ n.buffered = job[c].buffered
        /\ n.result = job[c].result
    <3>1. PICK p \in {"ensure", "resolve", "type"} : p = FirstPhase(c)
      BY <2>4
    <3> QED BY <2>1, <2>3, <3>1, WalkJob
  <2>6. PlaceInv(n) /\ UploadInv(n)
    BY <1>1, <1>3, <2>3, <2>4, <2>5, Walks DEF UseRoot, PlaceInv
  <2>7. OpInv(n)
    BY <1>1, <2>3, <2>4, <2>5 DEF OpInv, Placing, Sending
  <2>8. PhaseOf(n) = "busy" /\ PhaseOf(job[c]) = "busy"
    BY <1>1, <2>3, <2>4, <2>5, <2>7, PhaseIs DEF Sending
  <2>9. PICK s : s = store[Home(c)]
    OBVIOUS
  <2>10. StoreStep(c, n, s)
    <3>1. StoreInv(s) /\ s \in Storage
      BY <2>9, Here
    <3>2. StoreInv(s)'
      BY <3>1 DEF UseRoot, StoreInv, IsFolder, PathOf, PathIn
    <3>3. store' = [store EXCEPT ![Home(c)] = s]
      BY <2>9, Here DEF UseRoot, Typed
    <3> QED BY <1>1, <1>3, <2>4, <2>5, <2>9, <3>1, <3>2, <3>3 DEF StoreStep, HomeInv, Rooting, UseRoot
  <2>11. IInv' /\ Copies' = Copies
    BY <2>2, <2>5, <2>6, <2>7, <2>10, StoreQuiet DEF UseRoot, Becomes
  <2> QED BY <1>1, <2>2, <2>4, <2>5, <2>7, <2>8, <2>11, GoesOn DEF Becomes
<1> QED BY <1>2, <1>3

LEMMA EnterOnceStep ==
  ASSUME IInv, NEW c \in setup.clients, EnterOnce(c)
  PROVE  IInv' /\ AbstractStep
<1>1. /\ job[c] \in Job /\ job[c].pc = "root" /\ OpInv(job[c]) /\ PlaceInv(job[c]) /\ Typed
      /\ UploadInv(job[c]) /\ StoreInv(store[Home(c)]) /\ store[Home(c)] \in Storage
      /\ store[Home(c)].once = "new" /\ setup \in Setups /\ c \in Clients /\ Home(c) \in Clients
  BY Here DEF EnterOnce
<1>2. PICK s : s = [store[Home(c)] EXCEPT !.once = IF setup.rooted THEN "done" ELSE "busy"]
  OBVIOUS
<1>3. PICK n : n = IF setup.rooted THEN job[c] ELSE [job[c] EXCEPT !.pc = "approot"]
  OBVIOUS
<1>4. store' = [store EXCEPT ![Home(c)] = s]
  BY <1>1, <1>2 DEF EnterOnce, Typed, Storage
<1>5. Becomes(c, n)
  <2>1. n \in Job
    BY <1>1, <1>3 DEF Job, Pcs
  <2>2. job' = [job EXCEPT ![c] = n]
    BY <1>1, <1>3 DEF EnterOnce, Typed
  <2> QED BY <2>1, <2>2 DEF Becomes
<1>6. /\ n.pc = IF setup.rooted THEN "root" ELSE "approot"
      /\ n.op = job[c].op /\ n.data = job[c].data /\ n.up = job[c].up /\ n.stored = job[c].stored
      /\ n.buffered = job[c].buffered /\ n.result = job[c].result /\ n.at = job[c].at
      /\ n.tok = job[c].tok /\ n.walk = job[c].walk
  BY <1>1, <1>3 DEF Job
<1>7. PlaceInv(n) /\ UploadInv(n)
  <2>1. PlaceInv(n)
    BY <1>1, <1>6 DEF PlaceInv, Placing, Sending
  <2> QED BY <1>1, <1>6, <2>1 DEF UploadInv
<1>8. OpInv(n) /\ ~n.stored
  BY <1>1, <1>6 DEF OpInv, Placing, Sending
<1>9. PhaseOf(n) = "busy" /\ PhaseOf(job[c]) = "busy"
  BY <1>1, <1>5, <1>6, <1>8, PhaseIs DEF Sending, Becomes
<1>10. StoreStep(c, n, s)
  <2>1. /\ s \in Storage /\ s.once = (IF setup.rooted THEN "done" ELSE "busy") /\ s.root = Top
        /\ s.bufs = store[Home(c)].bufs
    BY <1>1, <1>2 DEF Storage, StoreInv
  <2>2. setup.rooted => PathOf(Top) = setup.folder
    BY <1>1, SetupAssumption DEF PathOf, PathIn
  <2>3. StoreInv(s)'
    BY <1>1, <2>1, <2>2 DEF EnterOnce, StoreInv, IsFolder, PathOf, PathIn
  <2>4. HomeInv(n, s)
    BY <1>6, <2>1 DEF HomeInv, Rooting
  <2> QED BY <1>1, <1>4, <2>1, <2>3, <2>4 DEF StoreStep
<1>11. IInv' /\ Copies' = Copies
  BY <1>5, <1>6, <1>7, <1>8, <1>10, StoreQuiet DEF EnterOnce
<1> QED BY <1>1, <1>5, <1>6, <1>8, <1>9, <1>11, GoesOn

LEMMA FindAppRootStep ==
  ASSUME IInv, NEW c \in setup.clients, FindAppRoot(c)
  PROVE  IInv' /\ AbstractStep
<1>1. /\ job[c] \in Job /\ job[c].pc = "approot" /\ OpInv(job[c]) /\ PlaceInv(job[c])
      /\ UploadInv(job[c]) /\ setup.folder \in Names
  BY Here DEF FindAppRoot
<1>2. PICK n : n = [job[c] EXCEPT !.pc = "rootwalk", !.at = Top, !.walk = setup.folder]
  OBVIOUS
<1>3. /\ Becomes(c, n)
      /\ n.pc = "rootwalk" /\ n.at = Top /\ n.walk = setup.folder
      /\ n.op = job[c].op /\ n.data = job[c].data /\ n.up = job[c].up /\ n.stored = job[c].stored
      /\ n.buffered = job[c].buffered /\ n.result = job[c].result /\ n.tok = job[c].tok
  BY <1>1, <1>2, Here DEF FindAppRoot, Becomes, Job, Pcs, Top, Typed
<1>4. PlaceInv(n)
  <2>1. PathOf(Top) \o setup.folder = setup.folder
    <3>1. \A s \in Seq(Name) : << >> \o s = s
      OBVIOUS
    <3> QED BY <1>1, <3>1 DEF Names, PathOf, PathIn
  <2> QED BY <1>1, <1>3, <2>1 DEF PlaceInv, IsFolder, Placing, Sending
<1>5. OpInv(n) /\ UploadInv(n) /\ ~n.stored /\ ~job[c].stored
  BY <1>1, <1>3 DEF OpInv, UploadInv, Placing, Sending
<1>6. PhaseOf(n) = "busy" /\ PhaseOf(job[c]) = "busy"
  BY <1>1, <1>3, <1>5, PhaseIs DEF Sending, Becomes
<1> QED BY <1>1, <1>3, <1>4, <1>5, <1>6, Steps DEF FindAppRoot, Stays, Rooting

LEMMA LeaveOnceStep ==
  ASSUME IInv, NEW c \in setup.clients, LeaveOnce(c)
  PROVE  IInv' /\ AbstractStep
<1>1. /\ job[c] \in Job /\ job[c].pc = "rootwalk" /\ job[c].walk = << >> /\ Typed
      /\ OpInv(job[c]) /\ PlaceInv(job[c]) /\ UploadInv(job[c])
      /\ store[Home(c)] \in Storage /\ StoreInv(store[Home(c)])
  BY Here DEF LeaveOnce
<1>2. PICK s : s = [store[Home(c)] EXCEPT !.once = "done", !.root = job[c].at]
  OBVIOUS
<1>3. PICK n : n = [job[c] EXCEPT !.pc = "root"]
  OBVIOUS
<1>4. /\ Becomes(c, n)
      /\ n.pc = "root" /\ n.at = job[c].at /\ n.walk = job[c].walk
      /\ n.op = job[c].op /\ n.data = job[c].data /\ n.up = job[c].up /\ n.stored = job[c].stored
      /\ n.buffered = job[c].buffered /\ n.result = job[c].result /\ n.tok = job[c].tok
  BY <1>1, <1>3, Here DEF LeaveOnce, Becomes, Job, Pcs, Typed
<1>5. PlaceInv(n) /\ OpInv(n) /\ UploadInv(n) /\ ~n.stored /\ ~job[c].stored
  <2>1. PlaceInv(n)
    BY <1>1, <1>4 DEF PlaceInv, Placing, Sending
  <2> QED BY <1>1, <1>4, <2>1 DEF OpInv, UploadInv, Placing, Sending
<1>6. PhaseOf(n) = "busy" /\ PhaseOf(job[c]) = "busy"
  BY <1>1, <1>4, <1>5, PhaseIs DEF Sending, Becomes
<1>7. StoreStep(c, n, s)
  <2>1. store' = [store EXCEPT ![Home(c)] = s]
    BY <1>1, <1>2, Here DEF LeaveOnce, Typed, Storage
  <2>2. s \in Storage /\ s.once = "done" /\ s.root = job[c].at /\ s.bufs = store[Home(c)].bufs
    BY <1>1, <1>2 DEF Storage, Job
  <2>3. IsFolder(job[c].at) /\ PathOf(job[c].at) = setup.folder
    <3>1. PathOf(job[c].at) \o << >> = setup.folder /\ IsFolder(job[c].at)
      BY <1>1 DEF PlaceInv
    <3>2. PathOf(job[c].at) \in Seq(Name)
      BY <1>1, <3>1, Tokens DEF Names
    <3>3. \A t \in Seq(Name) : t \o << >> = t
      OBVIOUS
    <3> QED BY <3>1, <3>2, <3>3
  <2>4. StoreInv(s)'
    BY <1>1, <2>2, <2>3 DEF LeaveOnce, StoreInv, IsFolder, PathOf, PathIn
  <2> QED BY <1>1, <1>4, <2>1, <2>2, <2>4 DEF StoreStep, HomeInv, Rooting
<1>8. IInv' /\ Copies' = Copies
  BY <1>4, <1>5, <1>7, StoreQuiet DEF LeaveOnce
<1> QED BY <1>1, <1>4, <1>5, <1>6, <1>8, GoesOn

---------------------------------------------------------------------------
(* ensureFolder and resolvePath.                                           *)

LEMMA EnsureFolderStep ==
  ASSUME IInv, NEW c \in setup.clients, EnsureFolder(c)
  PROVE  IInv' /\ AbstractStep
<1>1. /\ job[c] \in Job /\ job[c].pc \in {"rootwalk", "ensure"} /\ job[c].walk # << >> /\ Typed
      /\ OpInv(job[c]) /\ PlaceInv(job[c]) /\ UploadInv(job[c]) /\ IsFolder(job[c].at)
  BY Here DEF EnsureFolder, PlaceInv
<1>2. ASSUME job' = [job EXCEPT ![c].pc = IF @ = "ensure" THEN "make" ELSE "rootmake"]
      PROVE  IInv' /\ AbstractStep
  <2>1. PICK n : n = [job[c] EXCEPT !.pc = IF @ = "ensure" THEN "make" ELSE "rootmake"]
    OBVIOUS
  <2>2. /\ n \in Job /\ n.pc = (IF job[c].pc = "ensure" THEN "make" ELSE "rootmake")
        /\ n.at = job[c].at /\ n.walk = job[c].walk
        /\ n.op = job[c].op /\ n.data = job[c].data /\ n.up = job[c].up /\ n.stored = job[c].stored
        /\ n.buffered = job[c].buffered /\ n.result = job[c].result /\ n.tok = job[c].tok
    BY <1>1, <2>1 DEF Job, Pcs
  <2>3. Becomes(c, n)
    BY <1>1, <1>2, <2>1, <2>2, Here DEF Becomes, Typed
  <2>4. PlaceInv(n)
    BY <1>1, <2>2 DEF PlaceInv, Placing, Sending
  <2>5. OpInv(n) /\ UploadInv(n) /\ ~n.stored /\ ~job[c].stored
    BY <1>1, <2>2 DEF OpInv, UploadInv, Placing, Sending
  <2>6. PhaseOf(n) = "busy" /\ PhaseOf(job[c]) = "busy"
    BY <1>1, <2>2, <2>5, PhaseIs DEF Sending
  <2> QED BY <1>1, <2>2, <2>3, <2>4, <2>5, <2>6, Steps DEF EnsureFolder, Stays, Rooting
<1>3. ASSUME NEW t \in Entries(job[c].at, Head(job[c].walk)), drive[t].kind = "folder",
             Enter(c, t)
      PROVE  IInv' /\ AbstractStep
  <2>1. PICK j \in Job : j = job[c]
    BY <1>1
  <2>2. /\ IsFolder(t) /\ t \in Nat /\ Tail(j.walk) \in Names
        /\ PathOf(t) \o Tail(j.walk) = PathOf(j.at) \o j.walk
    <3>1. IsFolder(j.at) /\ j.walk # << >> /\ t \in Entries(j.at, Head(j.walk))
      BY <1>1, <1>3, <2>1
    <3> QED BY <1>1, <1>3, <3>1, Enters DEF IsFolder
  <2>3. PICK n : n = [j EXCEPT !.at = t, !.walk = Tail(@)]
    OBVIOUS
  <2>4. /\ n \in Job /\ n.pc = j.pc /\ n.at = t /\ n.walk = Tail(j.walk)
        /\ n.op = j.op /\ n.data = j.data /\ n.up = j.up /\ n.stored = j.stored
        /\ n.buffered = j.buffered /\ n.result = j.result /\ n.tok = j.tok
    BY <2>1, <2>2, <2>3 DEF Job
  <2>5. Becomes(c, n)
    BY <1>1, <1>3, <2>1, <2>3, <2>4, Here DEF Becomes, Typed, Enter
  <2>6. PlaceInv(n)
    BY <1>1, <2>1, <2>2, <2>4 DEF PlaceInv, Placing, Sending
  <2>7. OpInv(n) /\ UploadInv(n) /\ ~n.stored /\ ~j.stored
    BY <1>1, <2>1, <2>4 DEF OpInv, UploadInv, Placing, Sending
  <2>8. PhaseOf(n) = "busy" /\ PhaseOf(job[c]) = "busy"
    BY <1>1, <2>1, <2>4, <2>7, PhaseIs DEF Sending
  <2> QED BY <1>1, <2>1, <2>4, <2>5, <2>6, <2>7, <2>8, Steps DEF EnsureFolder, Stays, Rooting
<1> QED BY <1>2, <1>3 DEF EnsureFolder

LEMMA EnsuredStep ==
  ASSUME IInv, NEW c \in setup.clients, Ensured(c)
  PROVE  IInv' /\ AbstractStep
<1>1. /\ job[c] \in Job /\ job[c].pc = "ensure" /\ job[c].walk = << >> /\ Typed
      /\ OpInv(job[c]) /\ PlaceInv(job[c]) /\ UploadInv(job[c])
  BY Here DEF Ensured
<1>2. CASE Op(c).do = "mkdir"
  <2>1. IInv' /\ Copies' = Copies /\ Becomes(c, Ended(job[c], "ok"))
    BY <1>2, EndInv DEF Ensured
  <2> QED BY <1>1, <1>2, <2>1, Stops DEF Op
<1>3. CASE Op(c).do # "mkdir"
  <2>1. PICK n : n = [job[c] EXCEPT !.pc = "lookup"]
    OBVIOUS
  <2>2. /\ n \in Job /\ n.pc = "lookup" /\ n.at = job[c].at /\ n.walk = job[c].walk
        /\ n.op = job[c].op /\ n.data = job[c].data /\ n.up = job[c].up /\ n.stored = job[c].stored
        /\ n.buffered = job[c].buffered /\ n.result = job[c].result /\ n.tok = job[c].tok
    BY <1>1, <2>1 DEF Job, Pcs
  <2>3. Becomes(c, n)
    BY <1>1, <1>3, <2>1, <2>2, Here DEF Becomes, Typed, Ensured
  <2>4. PathOf(n.at) = Full(Front(Target(n.op)))
    <3>1. PathOf(job[c].at) \o << >> = Full(Front(Target(n.op))) /\ IsFolder(job[c].at)
      BY <1>1, <1>3, <2>2 DEF PlaceInv, Folders, Op
    <3>2. PathOf(job[c].at) \in Seq(Name)
      BY <1>1, <3>1, Tokens DEF Names
    <3>3. \A t \in Seq(Name) : t \o << >> = t
      OBVIOUS
    <3> QED BY <2>2, <3>1, <3>2, <3>3
  <2>5. PlaceInv(n)
    BY <1>1, <2>2, <2>4 DEF PlaceInv, Placing, Sending
  <2>6. OpInv(n) /\ UploadInv(n) /\ ~n.stored /\ ~job[c].stored
    BY <1>1, <1>3, <2>2 DEF OpInv, UploadInv, Placing, Sending, Op
  <2>7. PhaseOf(n) = "busy" /\ PhaseOf(job[c]) = "busy"
    BY <1>1, <2>2, <2>6, PhaseIs DEF Sending
  <2> QED BY <1>1, <2>2, <2>3, <2>5, <2>6, <2>7, Steps DEF Ensured, Stays, Rooting
<1> QED BY <1>2, <1>3

LEMMA ResolveNameStep ==
  ASSUME IInv, NEW c \in setup.clients, ResolveName(c)
  PROVE  IInv' /\ AbstractStep
<1>1. /\ job[c] \in Job /\ job[c].pc \in {"resolve", "type"} /\ Len(job[c].walk) > 1 /\ Typed
      /\ OpInv(job[c]) /\ PlaceInv(job[c]) /\ UploadInv(job[c]) /\ IsFolder(job[c].at)
      /\ job[c].walk # << >>
  BY Here DEF ResolveName, PlaceInv
<1>2. CASE Fail(c)
  BY <1>1, <1>2, Failing DEF ResolveName
<1>3. ASSUME NEW t \in Entries(job[c].at, Head(job[c].walk)), drive[t].kind = "folder",
             Enter(c, t)
      PROVE  IInv' /\ AbstractStep
  <2>1. PICK j \in Job : j = job[c]
    BY <1>1
  <2>2. /\ IsFolder(t) /\ t \in Nat /\ Tail(j.walk) \in Names /\ Tail(j.walk) # << >>
        /\ PathOf(t) \o Tail(j.walk) = PathOf(j.at) \o j.walk
    <3>1. IsFolder(j.at) /\ j.walk # << >> /\ t \in Entries(j.at, Head(j.walk)) /\ Len(j.walk) > 1
      BY <1>1, <1>3, <2>1
    <3> QED BY <1>1, <1>3, <3>1, Enters DEF IsFolder
  <2>3. PICK n : n = [j EXCEPT !.at = t, !.walk = Tail(@)]
    OBVIOUS
  <2>4. /\ n \in Job /\ n.pc = j.pc /\ n.at = t /\ n.walk = Tail(j.walk)
        /\ n.op = j.op /\ n.data = j.data /\ n.up = j.up /\ n.stored = j.stored
        /\ n.buffered = j.buffered /\ n.result = j.result /\ n.tok = j.tok
    BY <2>1, <2>2, <2>3 DEF Job
  <2>5. Becomes(c, n)
    BY <1>1, <1>3, <2>1, <2>3, <2>4, Here DEF Becomes, Typed, Enter
  <2>6. PlaceInv(n)
    BY <1>1, <2>1, <2>2, <2>4 DEF PlaceInv, Placing, Sending
  <2>7. OpInv(n) /\ UploadInv(n)
    BY <1>1, <2>1, <2>4 DEF OpInv, UploadInv, Placing, Sending
  <2>8. PhaseOf(n) = PhaseOf(job[c])
    BY <2>1, <2>4 DEF PhaseOf
  <2> QED BY <1>1, <2>1, <2>4, <2>5, <2>6, <2>7, <2>8, Steps DEF ResolveName, Stays, Rooting
<1> QED BY <1>2, <1>3 DEF ResolveName

LEMMA ResolveLastStep ==
  ASSUME IInv, NEW c \in setup.clients, ResolveLast(c)
  PROVE  IInv' /\ AbstractStep
<1>1. /\ job[c] \in Job /\ job[c].pc \in {"resolve", "type"} /\ Len(job[c].walk) = 1 /\ Typed
      /\ OpInv(job[c]) /\ PlaceInv(job[c]) /\ UploadInv(job[c]) /\ IsFolder(job[c].at)
      /\ job[c].walk # << >>
  BY Here DEF ResolveLast, PlaceInv
<1>2. CASE Fail(c)
  BY <1>1, <1>2, Failing DEF ResolveLast
<1>3. PICK j \in Job : j = job[c]
  BY <1>1
<1>4. ASSUME NEW t \in Entries(job[c].at, Head(job[c].walk))
      PROVE  t \in Nat /\ t \in 0 .. Len(drive) /\ Leads(t, j.op.path)
  <2>1. IsFolder(j.at) /\ j.walk # << >> /\ t \in Entries(j.at, Head(j.walk)) /\ Len(j.walk) = 1
    BY <1>1, <1>3, <1>4
  <2>2. /\ t \in DOMAIN drive /\ t \in Nat /\ t \in 0 .. Len(drive)
        /\ drive[t].path = PathOf(j.at) \o j.walk
    BY <1>1, <2>1, Enters
  <2> QED BY <1>1, <1>3, <2>2 DEF PlaceInv, Leads
<1>5. ASSUME NEW t \in Entries(job[c].at, Head(job[c].walk)), job[c].pc = "type",
             job' = [job EXCEPT ![c].pc = IF drive[t].kind = "file" THEN "get" ELSE "export"]
      PROVE  IInv' /\ AbstractStep
  <2>1. PICK n : n = [j EXCEPT !.pc = IF drive[t].kind = "file" THEN "get" ELSE "export"]
    OBVIOUS
  <2>2. /\ n \in Job /\ n.pc \in {"get", "export"} /\ n.at = j.at /\ n.walk = j.walk
        /\ n.op = j.op /\ n.data = j.data /\ n.up = j.up /\ n.stored = j.stored
        /\ n.buffered = j.buffered /\ n.result = j.result /\ n.tok = j.tok
    BY <2>1 DEF Job, Pcs
  <2>3. Becomes(c, n)
    BY <1>1, <1>3, <1>5, <2>1, <2>2, Here DEF Becomes, Typed
  <2>4. PlaceInv(n)
    BY <1>1, <1>3, <1>5, <2>2 DEF PlaceInv, Placing, Sending
  <2>5. OpInv(n) /\ UploadInv(n) /\ ~n.stored /\ ~j.stored
    BY <1>1, <1>3, <1>5, <2>2 DEF OpInv, UploadInv, Placing, Sending
  <2>6. PhaseOf(n) = "busy" /\ PhaseOf(job[c]) = "busy"
    BY <1>1, <1>3, <1>5, <2>2, <2>5, PhaseIs DEF Sending
  <2> QED BY <1>1, <1>3, <1>5, <2>2, <2>3, <2>4, <2>5, <2>6, Steps DEF ResolveLast, Stays, Rooting
<1>6. ASSUME NEW t \in Entries(job[c].at, Head(job[c].walk)), job[c].pc = "resolve",
             ~(Op(c).do = "open" \/ (Op(c).do = "rename" /\ ~job[c].stored)),
             job' = [job EXCEPT ![c].pc = "delete", ![c].tok = t]
      PROVE  IInv' /\ AbstractStep
  <2>1. PICK n : n = [j EXCEPT !.pc = "delete", !.tok = t]
    OBVIOUS
  <2>2. /\ n \in Job /\ n.pc = "delete" /\ n.at = j.at /\ n.walk = j.walk
        /\ n.op = j.op /\ n.data = j.data /\ n.up = j.up /\ n.stored = j.stored
        /\ n.buffered = j.buffered /\ n.result = j.result /\ n.tok = t
    BY <1>4, <1>6, <2>1 DEF Job, Pcs
  <2>3. Becomes(c, n)
    BY <1>1, <1>3, <1>6, <2>1, <2>2, Here DEF Becomes, Typed
  <2>4. PlaceInv(n)
    BY <1>1, <1>3, <1>4, <1>6, <2>2 DEF PlaceInv, Placing, Sending
  <2>5. OpInv(n) /\ UploadInv(n)
    BY <1>1, <1>3, <1>6, <2>2 DEF OpInv, UploadInv, Placing, Sending, Op
  <2>6. PhaseOf(n) = PhaseOf(job[c])
    BY <1>1, <1>3, <1>6, <2>2, <2>5, PhaseIs DEF Sending
  <2> QED BY <1>1, <1>3, <1>6, <2>2, <2>3, <2>4, <2>5, <2>6, Steps DEF ResolveLast, Stays, Rooting
<1>7. ASSUME NEW t \in Entries(job[c].at, Head(job[c].walk)), job[c].pc = "resolve",
             Op(c).do = "open" \/ (Op(c).do = "rename" /\ ~job[c].stored),
             job' = [job EXCEPT ![c] = [Walk(c, "type") EXCEPT !.tok = t]]
      PROVE  IInv' /\ AbstractStep
  <2>1. PICK n : n = [Walk(c, "type") EXCEPT !.tok = t]
    OBVIOUS
  <2>2. ~j.stored /\ j.op.do \in {"open", "rename"} /\ j.op \in setup.ops
    BY <1>1, <1>3, <1>7 DEF OpInv, Op
  <2>3. /\ n \in Job /\ n.pc = "type" /\ n.at = store[Home(c)].root
        /\ n.walk = Walk(c, "type").walk
        /\ n.op = j.op /\ n.data = j.data /\ n.up = j.up /\ n.stored = j.stored
        /\ n.buffered = j.buffered /\ n.result = j.result /\ n.tok = t
    <3>1. PICK w : w = Walk(c, "type")
      OBVIOUS
    <3>2. /\ w \in Job /\ w.pc = "type" /\ w.at = store[Home(c)].root
          /\ w.walk = Walk(c, "type").walk
          /\ w.op = j.op /\ w.data = j.data /\ w.up = j.up /\ w.stored = j.stored
          /\ w.buffered = j.buffered /\ w.result = j.result
      <4>1. "type" \in {"ensure", "resolve", "type"} /\ job[c].op \in setup.ops
        BY <1>3, <2>2
      <4> QED BY <1>3, <3>1, <4>1, WalkJob
    <3>3. n = [w EXCEPT !.tok = t] /\ t \in Nat
      BY <1>4, <1>7, <2>1, <3>1
    <3> QED BY <3>2, <3>3 DEF Job
  <2>4. Becomes(c, n)
    BY <1>1, <1>7, <2>1, <2>3, Here DEF Becomes, Typed
  <2>5. store[Home(c)].once = "done" /\ ~store[Home(c)].failed
    BY <1>7, Here DEF HomeInv, Rooting
  <2>6. PlaceInv(n) /\ UploadInv(n)
    BY <1>3, <1>4, <1>7, <2>2, <2>3, <2>5, Walks
  <2>7. OpInv(n)
    BY <1>1, <1>3, <1>7, <2>2, <2>3 DEF OpInv, Placing, Sending
  <2>8. PhaseOf(n) = "busy" /\ PhaseOf(job[c]) = "busy"
    BY <1>1, <1>3, <1>7, <2>2, <2>3, <2>7, PhaseIs DEF Sending
  <2> QED BY <1>1, <1>3, <1>7, <2>3, <2>4, <2>6, <2>7, <2>8, Steps DEF ResolveLast, Stays, Rooting
<1> QED BY <1>1, <1>2, <1>5, <1>6, <1>7 DEF ResolveLast

---------------------------------------------------------------------------
(* Reading.                                                                *)

LEMMA PathsOf ==
  ASSUME setup \in Setups, NEW o \in setup.ops
  PROVE  o \in UNION {s.ops : s \in Setups} /\ o.path \in Paths /\ Target(o) \in Paths
BY DEF Paths

LEMMA TaskEndsStep ==
  ASSUME IInv, NEW c \in setup.clients, TaskEnds(c)
  PROVE  IInv' /\ AbstractStep
<1>1. /\ job[c] \in Job /\ Typed /\ c \in Clients
      /\ OpInv(job[c]) /\ PlaceInv(job[c]) /\ UploadInv(job[c])
  BY Here
<1>2. PICK s \in {"done", "failed", "unknown"} : job' = [job EXCEPT ![c].task = s]
  BY DEF TaskEnds
<1>3. PICK n : n = [job[c] EXCEPT !.task = s]
  OBVIOUS
<1>4. /\ n \in Job /\ n.pc = job[c].pc /\ n.at = job[c].at /\ n.walk = job[c].walk
      /\ n.op = job[c].op /\ n.data = job[c].data /\ n.up = job[c].up /\ n.stored = job[c].stored
      /\ n.buffered = job[c].buffered /\ n.result = job[c].result /\ n.tok = job[c].tok
      /\ n.block = job[c].block /\ n.seq = job[c].seq
  BY <1>1, <1>3 DEF Job
<1>5. Becomes(c, n)
  BY <1>1, <1>2, <1>3, <1>4 DEF Becomes, Typed
<1>6. PlaceInv(n)
  BY <1>1, <1>4 DEF PlaceInv
<1>7. OpInv(n) /\ UploadInv(n)
  BY <1>1, <1>4 DEF OpInv, UploadInv
<1>8. PhaseOf(n) = PhaseOf(job[c])
  BY <1>4 DEF PhaseOf
<1>9. IInv' /\ Copies' = Copies
  BY <1>4, <1>5, <1>6, <1>7, Quiet DEF TaskEnds, Stays, Rooting
<1> QED BY <1>1, <1>4, <1>5, <1>8, <1>9, Stutters

LEMMA PollStep ==
  ASSUME IInv, NEW c \in setup.clients, Poll(c)
  PROVE  IInv' /\ AbstractStep
<1>1. /\ job[c] \in Job /\ job[c].pc = "poll" /\ Typed
      /\ OpInv(job[c]) /\ PlaceInv(job[c]) /\ UploadInv(job[c])
  BY Here DEF Poll
<1>2. CASE Fail(c)
  BY <1>1, <1>2, Failing DEF Poll
<1>3. CASE job' = [job EXCEPT ![c].pc = "fetch"]
  <2>1. PICK n : n = [job[c] EXCEPT !.pc = "fetch"]
    OBVIOUS
  <2>2. /\ n \in Job /\ n.pc = "fetch" /\ n.at = job[c].at /\ n.walk = job[c].walk
        /\ n.op = job[c].op /\ n.data = job[c].data /\ n.up = job[c].up /\ n.stored = job[c].stored
        /\ n.buffered = job[c].buffered /\ n.result = job[c].result /\ n.tok = job[c].tok
    BY <1>1, <2>1 DEF Job, Pcs
  <2>3. Becomes(c, n)
    BY <1>1, <1>3, <2>1, <2>2, Here DEF Becomes, Typed
  <2>4. PlaceInv(n)
    BY <1>1, <2>2 DEF PlaceInv, Placing, Sending
  <2>5. OpInv(n) /\ UploadInv(n)
    BY <1>1, <2>2 DEF OpInv, UploadInv, Placing, Sending
  <2>6. PhaseOf(n) = "read" /\ PhaseOf(job[c]) = "read"
    BY <1>1, <2>2, <2>5, PhaseIs
  <2> QED BY <1>1, <2>2, <2>3, <2>4, <2>5, <2>6, Steps DEF Poll, Stays, Rooting
<1> QED BY <1>2, <1>3 DEF Poll

\* What comes back from a download.
LEMMA GotStep ==
  ASSUME IInv, NEW c \in setup.clients, job[c].pc \in {"get", "fetch"}, NEW d \in Data,
         d.by \in -2 .. begun, Got(c, d),
         UNCHANGED <<setup, drive, uploads, store, begun>>, UNCHANGED faults \/ Fault,
         \/ d \in Copies[job[c].op.path] \cup {Empty, ErrorPage}
         \/ job[c].pc = "fetch" /\ d = job[c].data
  PROVE  IInv' /\ AbstractStep
<1>1. /\ job[c] \in Job /\ Typed /\ OpInv(job[c]) /\ PlaceInv(job[c]) /\ UploadInv(job[c])
      /\ c \in Clients /\ setup \in Setups
  BY Here
<1>2. job[c].op \in setup.ops /\ job[c].op.do \in {"open", "rename"} /\ ~job[c].stored
      /\ job[c].result = "idle"
  BY <1>1 DEF OpInv
<1>3. PhaseOf(job[c]) \in {"busy", "read"} /\ (job[c].pc = "fetch" => PhaseOf(job[c]) = "read")
  BY <1>1, <1>2, PhaseIs DEF Sending
<1>4. ASSUME NEW n, Becomes(c, n), n.op = job[c].op, n.data = d, Copies' = Copies,
             \/ n.result = "ok" /\ PhaseOf(n) = "idle" /\ job[c].op.do = "open"
             \/ n.result = "idle" /\ PhaseOf(n) = "busy" /\ job[c].op.do = "rename"
      PROVE  AbstractStep
  <2>1. /\ Doing' = [Doing EXCEPT ![c] = Doing[c]] /\ Doing[c] = job[c].op
        /\ Held' = [Held EXCEPT ![c] = d] /\ Held[c] = job[c].data
        /\ Results' = [Results EXCEPT ![c] = n.result]
        /\ Phases' = [Phases EXCEPT ![c] = PhaseOf(n)] /\ Phases[c] = PhaseOf(job[c])
    BY <1>1, <1>4, Maps
  <2>2. Doing' = Doing
    BY <2>1 DEF Doing
  <2>3. d \in Copies[Doing[c].path] \cup {Empty, ErrorPage}
              \cup (IF Phases[c] = "read" THEN {Held[c]} ELSE {})
    BY <1>3, <2>1
  <2>4. \/ Abstract!Ends(c, "ok") /\ Doing[c].do = "open"
        \/ Abstract!Goes(c, "busy") /\ Doing[c].do = "rename"
    BY <1>4, <2>1 DEF Abstract!Ends, Abstract!Goes
  <2>5. Abstract!Read(c)
    BY <1>2, <1>3, <1>4, <2>1, <2>2, <2>3, <2>4 DEF Abstract!Read
  <2> QED BY <1>1, <2>5 DEF AbstractStep, Abstract!Next
<1>5. CASE job[c].op.do # "rename"
  <2>1. PICK n : n = [Idle EXCEPT !.op = job[c].op, !.result = "ok", !.data = d]
    OBVIOUS
  <2>2. PICK i \in Job : i = [job[c] EXCEPT !.data = d]
    BY <1>1 DEF Job
  <2>3. n = Ended(i, "ok") /\ i.op = job[c].op /\ i.data = d
    BY <1>1, <2>1, <2>2 DEF Ended, Job, Idle
  <2>4. /\ n \in Job /\ n.pc = "idle" /\ n.op = job[c].op /\ n.data = d /\ n.result = "ok"
        /\ n.at = Top /\ n.tok = Top /\ n.up = 0 /\ n.stored = FALSE /\ n.buffered = FALSE
    <3>1. "ok" \in {"ok", "error", "crash"}
      OBVIOUS
    <3> QED BY <2>2, <2>3, <3>1, EndedJob
  <2>5. PlaceInv(n) /\ OpInv(n) /\ UploadInv(n)
    BY <1>1, <2>4, EndedInv
  <2>6. Becomes(c, n)
    BY <1>5, <2>1, <2>4 DEF Becomes, Got, Op
  <2>7. IInv' /\ Copies' = Copies
    BY <2>4, <2>5, <2>6, Quiet DEF Stays
  <2>8. PhaseOf(n) = "idle"
    BY <2>4, <2>5, PhaseIs
  <2> QED BY <1>2, <1>4, <1>5, <2>4, <2>6, <2>7, <2>8
<1>6. CASE job[c].op.do = "rename"
  <2>1. PICK w : w = Walk(c, "ensure")
    OBVIOUS
  <2>2. PICK n : n = [w EXCEPT !.data = d]
    OBVIOUS
  <2>3. /\ w \in Job /\ w.pc = "ensure" /\ w.op = job[c].op /\ w.up = job[c].up
        /\ w.tok = job[c].tok /\ w.at = store[Home(c)].root /\ w.stored = job[c].stored
        /\ w.buffered = job[c].buffered /\ w.result = job[c].result
        /\ w.walk = Walk(c, "ensure").walk
    <3>1. "ensure" \in {"ensure", "resolve", "type"}
      OBVIOUS
    <3> QED BY <1>2, <2>1, <3>1, WalkJob
  <2>4. /\ n \in Job /\ n.pc = "ensure" /\ n.op = job[c].op /\ n.up = job[c].up
        /\ n.tok = job[c].tok /\ n.at = store[Home(c)].root /\ n.stored = job[c].stored
        /\ n.buffered = job[c].buffered /\ n.result = job[c].result /\ n.data = d
        /\ n.walk = Walk(c, "ensure").walk
    BY <2>2, <2>3 DEF Job
  <2>5. store[Home(c)].once = "done" /\ ~store[Home(c)].failed
    BY Here DEF HomeInv, Rooting
  <2>6. PlaceInv(n) /\ UploadInv(n)
    BY <1>1, <1>2, <2>4, <2>5, Walks DEF PlaceInv
  <2>7. OpInv(n)
    BY <1>1, <1>2, <1>6, <2>4 DEF OpInv, Placing, Sending
  <2>8. PhaseOf(n) = "busy"
    BY <1>2, <2>4, <2>7, PhaseIs DEF Sending
  <2>9. Becomes(c, n)
    BY <1>6, <2>1, <2>2, <2>4 DEF Becomes, Got, Op
  <2>10. IInv' /\ Copies' = Copies
    BY <2>4, <2>6, <2>7, <2>9, Quiet DEF Stays, Rooting
  <2> QED BY <1>2, <1>4, <1>6, <2>4, <2>8, <2>9, <2>10
<1> QED BY <1>5, <1>6

\* Nothing, an error response, or what an entry holds.
LEMMA WhatIsRead ==
  ASSUME Typed, TreeInv
  PROVE  /\ Empty \in Data /\ Empty.by \in -2 .. begun
         /\ ErrorPage \in Data /\ ErrorPage.by \in -2 .. begun
         /\ \A t, path : Leads(t, path) /\ Alive(t) /\ drive[t].kind # "folder" /\ path \in Paths
               => /\ drive[t].data \in Data /\ drive[t].data.by \in -2 .. begun
                  /\ drive[t].data \in Copies[path]
<1>1. {} = Units(0) /\ {0} = Units(1)
  BY DEF Units
<1>2. Empty \in Data /\ ErrorPage \in Data
  BY <1>1 DEF Data, Empty, ErrorPage
<1>3. begun \in Nat
  BY SetupAssumption DEF Typed
<1>4. Empty.by \in -2 .. begun /\ ErrorPage.by \in -2 .. begun
  BY <1>3 DEF Empty, ErrorPage
<1>5. ASSUME NEW t, NEW path \in Paths, Leads(t, path), Alive(t), drive[t].kind # "folder"
      PROVE  /\ drive[t].data \in Data /\ drive[t].data.by \in -2 .. begun
             /\ drive[t].data \in Copies[path]
  <2>1. t \in DOMAIN drive /\ drive[t].path = setup.folder \o path
    BY <1>5 DEF Leads, Full
  <2>2. PathOf(t) = drive[t].path
    BY <2>1, Tokens DEF PathOf, PathIn, Top
  <2>3. t \in FilesAt(path)
    BY <1>5, <2>1, <2>2 DEF FilesAt
  <2> QED BY <2>1, <2>3 DEF TreeInv, Copies
<1> QED BY <1>2, <1>4, <1>5

LEMMA DownloadStep ==
  ASSUME IInv, NEW c \in setup.clients, Download(c) \/ DownloadFails(c) \/ DownloadPage(c) \/ Fetch(c)
  PROVE  IInv' /\ AbstractStep
<1>1. /\ job[c] \in Job /\ Typed /\ TreeInv /\ OpInv(job[c]) /\ PlaceInv(job[c]) /\ setup \in Setups
  BY Here
<1>2. /\ Empty \in Data /\ Empty.by \in -2 .. begun
      /\ ErrorPage \in Data /\ ErrorPage.by \in -2 .. begun
  BY <1>1, WhatIsRead
<1>3. CASE Download(c)
  <2>1. job[c].pc = "get" /\ IsFile(job[c].tok) /\ Leads(job[c].tok, job[c].op.path)
        /\ job[c].op \in setup.ops
    BY <1>1, <1>3 DEF Download, PlaceInv, OpInv
  <2>2. PICK d : d = drive[job[c].tok].data
    OBVIOUS
  <2>3. d \in Data /\ d.by \in -2 .. begun /\ d \in Copies[job[c].op.path]
    <3>1. job[c].op.path \in Paths
      BY <1>1, <2>1, PathsOf
    <3> QED BY <1>1, <2>1, <2>2, <3>1, WhatIsRead DEF IsFile
  <2> QED BY <1>3, <2>1, <2>2, <2>3, GotStep DEF Download
<1>4. CASE DownloadFails(c)
  BY <1>2, <1>4, GotStep DEF DownloadFails
<1>5. CASE DownloadPage(c)
  BY <1>2, <1>5, GotStep DEF DownloadPage
<1>6. CASE Fetch(c)
  <2>1. job[c].data \in Data /\ job[c].data.by \in -2 .. begun
    BY <1>1 DEF Job, OpInv
  <2>2. PICK d \in Data : d = job[c].data
    BY <2>1
  <2> QED BY <1>6, <2>1, <2>2, GotStep DEF Fetch
<1> QED BY <1>3, <1>4, <1>5, <1>6

LEMMA CreateTaskStep ==
  ASSUME IInv, NEW c \in setup.clients, CreateTask(c)
  PROVE  IInv' /\ AbstractStep
<1>1. /\ job[c] \in Job /\ Typed /\ TreeInv /\ OpInv(job[c]) /\ PlaceInv(job[c])
      /\ UploadInv(job[c]) /\ setup \in Setups /\ c \in Clients
      /\ job[c].pc = "export" /\ Alive(job[c].tok) /\ drive[job[c].tok].kind = "doc"
  BY Here DEF CreateTask
<1>2. job[c].op \in setup.ops /\ job[c].op.do \in {"open", "rename"} /\ ~job[c].stored
      /\ Leads(job[c].tok, job[c].op.path) /\ job[c].op.path \in Paths
  BY <1>1, PathsOf DEF OpInv, PlaceInv
<1>3. PICK d : d = drive[job[c].tok].data
  OBVIOUS
<1>4. d \in Data /\ d.by \in -2 .. begun /\ d \in Copies[job[c].op.path]
  BY <1>1, <1>2, <1>3, WhatIsRead
<1>5. PICK n : n = [job[c] EXCEPT !.pc = "poll", !.task = "running", !.data = d]
  OBVIOUS
<1>6. /\ n \in Job /\ n.pc = "poll" /\ n.at = job[c].at /\ n.walk = job[c].walk
      /\ n.op = job[c].op /\ n.data = d /\ n.up = job[c].up /\ n.stored = job[c].stored
      /\ n.buffered = job[c].buffered /\ n.result = job[c].result /\ n.tok = job[c].tok
  BY <1>1, <1>4, <1>5 DEF Job, Pcs
<1>7. Becomes(c, n)
  BY <1>1, <1>3, <1>5, <1>6 DEF Becomes, Typed, CreateTask
<1>8. PlaceInv(n)
  BY <1>1, <1>6 DEF PlaceInv, Placing, Sending
<1>9. OpInv(n) /\ UploadInv(n)
  BY <1>1, <1>4, <1>6 DEF OpInv, UploadInv, Placing, Sending
<1>10. PhaseOf(n) = "read" /\ PhaseOf(job[c]) = "busy"
  BY <1>1, <1>2, <1>6, <1>9, PhaseIs DEF Sending
<1>11. IInv' /\ Copies' = Copies
  BY <1>1, <1>6, <1>7, <1>8, <1>9, Quiet DEF CreateTask, Stays, Rooting
<1>12. n.result = "idle"
  BY <1>1, <1>6 DEF OpInv
<1>13. /\ Doing' = [Doing EXCEPT ![c] = Doing[c]] /\ Doing[c] = job[c].op
       /\ Held' = [Held EXCEPT ![c] = d] /\ Held[c] = job[c].data
       /\ Results' = [Results EXCEPT ![c] = "idle"]
       /\ Phases' = [Phases EXCEPT ![c] = "read"] /\ Phases[c] = "busy"
  BY <1>1, <1>6, <1>7, <1>10, <1>12, Maps
<1>14. Doing' = Doing
  BY <1>13 DEF Doing
<1>15. Abstract!Read(c)
  BY <1>2, <1>4, <1>11, <1>13, <1>14 DEF Abstract!Read, Abstract!Goes
<1> QED BY <1>1, <1>11, <1>15 DEF AbstractStep, Abstract!Next

---------------------------------------------------------------------------
(* WriteFile.                                                              *)

LEMMA SendJob ==
  ASSUME IInv, NEW c \in setup.clients, job[c].pc \in {"lookup", "drop"}, NEW n, n = Send(c)
  PROVE  /\ n \in Job /\ n.pc \in {"all", "prepare"} /\ n.op = job[c].op /\ n.data = job[c].data
         /\ n.up = job[c].up /\ n.result = job[c].result
         /\ PlaceInv(n) /\ OpInv(n) /\ UploadInv(n) /\ Stays(c, n)
         /\ PhaseOf(n) = "storing" /\ PhaseOf(job[c]) = "busy"
<1>1. /\ job[c] \in Job /\ OpInv(job[c]) /\ PlaceInv(job[c]) /\ UploadInv(job[c])
  BY Here
<1>2. /\ n \in Job /\ n.pc \in {"all", "prepare"} /\ n.at = job[c].at /\ n.walk = job[c].walk
      /\ n.op = job[c].op /\ n.data = job[c].data /\ n.up = job[c].up /\ n.stored = job[c].stored
      /\ n.buffered = job[c].buffered /\ n.result = job[c].result /\ n.tok = job[c].tok
  <2>1. PICK p \in {"all", "prepare"} : n = [job[c] EXCEPT !.pc = p]
    BY DEF Send
  <2>2. p \in Pcs
    BY DEF Pcs, Sending
  <2> QED BY <1>1, <2>1, <2>2 DEF Job
<1>3. PlaceInv(n)
  BY <1>1, <1>2 DEF PlaceInv, Placing, Sending
<1>4. OpInv(n) /\ UploadInv(n) /\ ~n.stored /\ ~job[c].stored
  BY <1>1, <1>2 DEF OpInv, UploadInv, Placing, Sending
<1>5. PhaseOf(n) = "storing" /\ PhaseOf(job[c]) = "busy"
  BY <1>1, <1>2, <1>4, PhaseIs DEF Sending
<1> QED BY <1>2, <1>3, <1>4, <1>5 DEF Stays, Rooting

\* The files of the name are as they were, or one of them is gone; then it is sent.
LEMMA Replaces ==
  ASSUME IInv, NEW c \in setup.clients, job[c].pc \in {"lookup", "drop"},
         job' = [job EXCEPT ![c] = Send(c)], NEW rest,
         Abstract!AtMostOneLess(Copies[Target(Op(c))], rest),
         rest \subseteq Copies[Target(Op(c))],
         Copies' = [Copies EXCEPT ![Target(Op(c))] = rest]
  PROVE  AbstractStep
<1>1. PICK n : n = Send(c)
  OBVIOUS
<1>2. /\ n \in Job /\ n.op = job[c].op /\ n.data = job[c].data /\ n.result = job[c].result
      /\ PhaseOf(n) = "storing" /\ PhaseOf(job[c]) = "busy"
  BY <1>1, SendJob
<1>3. job[c].result = "idle" /\ job[c].op.do \in {"write", "rename"} /\ c \in Clients /\ Typed
  BY Here DEF OpInv, Placing
<1>4. /\ Doing' = [Doing EXCEPT ![c] = Doing[c]] /\ Doing[c] = job[c].op
      /\ Held' = [Held EXCEPT ![c] = Held[c]]
      /\ Results' = [Results EXCEPT ![c] = "idle"]
      /\ Phases' = [Phases EXCEPT ![c] = "storing"] /\ Phases[c] = "busy"
  <2>1. Becomes(c, n)
    BY <1>1, <1>2 DEF Becomes
  <2> QED BY <1>2, <1>3, <2>1, Maps
<1>5. Doing' = Doing
  BY <1>4 DEF Doing
<1>6. Held' = Held
  BY <1>4 DEF Held
<1>7. Abstract!Target(Doing[c]) = Target(Op(c))
  BY <1>4 DEF Abstract!Target, Target, Op
<1>8. Abstract!IsWrite(Doing[c])
  BY <1>3, <1>4 DEF Abstract!IsWrite
<1>9. Abstract!Goes(c, "storing")
  BY <1>4 DEF Abstract!Goes
<1>10. Abstract!Replace(c)
  BY <1>4, <1>5, <1>6, <1>7, <1>8, <1>9 DEF Abstract!Replace
<1> QED BY <1>3, <1>10 DEF AbstractStep, Abstract!Next

LEMMA SendsOn ==
  ASSUME IInv, NEW c \in setup.clients, job[c].pc \in {"lookup", "drop"},
         job' = [job EXCEPT ![c] = Send(c)],
         UNCHANGED <<setup, drive, uploads, store, begun>>, UNCHANGED faults \/ Fault
  PROVE  IInv' /\ AbstractStep
<1>1. PICK n : n = Send(c)
  OBVIOUS
<1>2. /\ n \in Job /\ PlaceInv(n) /\ OpInv(n) /\ UploadInv(n) /\ Stays(c, n) /\ n.up = job[c].up
  BY <1>1, SendJob
<1>3. IInv' /\ Copies' = Copies
  BY <1>1, <1>2, Quiet DEF Becomes
<1>4. Copies' = [Copies EXCEPT ![Target(Op(c))] = Copies[Target(Op(c))]]
  BY <1>3 DEF Copies
<1>5. Abstract!AtMostOneLess(Copies[Target(Op(c))], Copies[Target(Op(c))])
  BY DEF Abstract!AtMostOneLess
<1> QED BY <1>3, <1>4, <1>5, Replaces

LEMMA LookUpStep ==
  ASSUME IInv, NEW c \in setup.clients, LookUp(c)
  PROVE  IInv' /\ AbstractStep
<1>1. /\ job[c] \in Job /\ Typed /\ OpInv(job[c]) /\ PlaceInv(job[c]) /\ UploadInv(job[c])
      /\ setup \in Setups /\ job[c].pc = "lookup" /\ setup.folder \in Names
  BY Here DEF LookUp
<1>2. CASE job' = [job EXCEPT ![c] = Send(c)]
  BY <1>1, <1>2, SendsOn DEF LookUp
<1>3. ASSUME NEW t \in Entries(job[c].at, Last(Target(Op(c)))), drive[t].kind # "folder",
             job' = [job EXCEPT ![c].pc = "drop", ![c].tok = t]
      PROVE  IInv' /\ AbstractStep
  <2>1. job[c].op \in setup.ops /\ job[c].op.do \in {"write", "rename"} /\ ~job[c].stored
    BY <1>1 DEF OpInv, Placing
  <2>2. t \in DOMAIN drive /\ t \in Nat /\ t \in 0 .. Len(drive)
    BY <1>1, <1>3, Tokens DEF Entries
  <2>3. Leads(t, Target(job[c].op))
    <3>1. drive[t].path = Append(PathOf(job[c].at), Last(Target(job[c].op)))
      BY <1>3 DEF Entries, Op
    <3>2. PathOf(job[c].at) = Full(Front(Target(job[c].op)))
      BY <1>1 DEF PlaceInv, Placing
    <3>3. Target(job[c].op) \in Names /\ Target(job[c].op) # << >>
      BY <1>1, <2>1, OpTyped
    <3>4. Append(Full(Front(Target(job[c].op))), Last(Target(job[c].op))) = Full(Target(job[c].op))
      BY <1>1, <3>3, FullPaths
    <3> QED BY <2>2, <3>1, <3>2, <3>4 DEF Leads
  <2>4. PICK n : n = [job[c] EXCEPT !.pc = "drop", !.tok = t]
    OBVIOUS
  <2>5. /\ n \in Job /\ n.pc = "drop" /\ n.at = job[c].at /\ n.walk = job[c].walk
        /\ n.op = job[c].op /\ n.data = job[c].data /\ n.up = job[c].up /\ n.stored = job[c].stored
        /\ n.buffered = job[c].buffered /\ n.result = job[c].result /\ n.tok = t
    BY <1>1, <2>2, <2>4 DEF Job, Pcs
  <2>6. Becomes(c, n)
    BY <1>1, <1>3, <2>4, <2>5, Here DEF Becomes, Typed
  <2>7. PlaceInv(n)
    BY <1>1, <1>3, <2>2, <2>3, <2>5 DEF PlaceInv, Placing, Sending
  <2>8. OpInv(n) /\ UploadInv(n)
    BY <1>1, <2>5 DEF OpInv, UploadInv, Placing, Sending
  <2>9. PhaseOf(n) = "busy" /\ PhaseOf(job[c]) = "busy"
    BY <1>1, <2>1, <2>5, <2>8, PhaseIs DEF Sending
  <2> QED BY <1>1, <2>5, <2>6, <2>7, <2>8, <2>9, Steps DEF LookUp, Stays, Rooting
<1>4. \/ job' = [job EXCEPT ![c] = Send(c)]
      \/ \E t \in Entries(job[c].at, Last(Target(Op(c)))) :
            drive[t].kind # "folder" /\ job' = [job EXCEPT ![c].pc = "drop", ![c].tok = t]
  BY DEF LookUp
<1> QED BY <1>2, <1>3, <1>4

\* What becomes of a client when its upload has returned.
LEMMA UploadedJob ==
  ASSUME IInv, NEW c \in setup.clients, job[c].pc \in {"all", "finish", "find"}, Uploaded(c)
  PROVE  \E n : /\ Becomes(c, n) /\ Stays(c, n) /\ n.up \in {0, job[c].up}
                /\ n.op = job[c].op /\ n.data = job[c].data /\ n.pc \in {"idle", "resolve"}
                /\ PlaceInv(n) /\ OpInv(n) /\ UploadInv(n)
                /\ \/ n.pc = "idle" /\ n.result = "ok" /\ PhaseOf(n) = "idle"
                   \/ n.pc # "idle" /\ n.result = "idle" /\ PhaseOf(n) = "stored"
<1>1. /\ job[c] \in Job /\ Typed /\ OpInv(job[c]) /\ PlaceInv(job[c]) /\ UploadInv(job[c])
      /\ setup \in Setups
  BY Here
<1>2. job[c].op \in setup.ops /\ job[c].result = "idle" /\ job[c].data.by \in -2 .. begun
  BY <1>1 DEF OpInv
<1>3. CASE Op(c).do = "rename" /\ ~job[c].buffered
  <2>1. PICK w : w = Walk(c, "resolve")
    OBVIOUS
  <2>2. PICK n : n = [w EXCEPT !.stored = TRUE]
    OBVIOUS
  <2>3. /\ w \in Job /\ w.pc = "resolve" /\ w.at = store[Home(c)].root
        /\ w.walk = Walk(c, "resolve").walk /\ w.op = job[c].op /\ w.data = job[c].data
        /\ w.up = job[c].up /\ w.buffered = job[c].buffered /\ w.result = job[c].result
        /\ w.tok = job[c].tok
    <3>1. "resolve" \in {"ensure", "resolve", "type"}
      OBVIOUS
    <3> QED BY <1>2, <2>1, <3>1, WalkJob
  <2>4. /\ n \in Job /\ n.pc = "resolve" /\ n.at = store[Home(c)].root
        /\ n.walk = Walk(c, "resolve").walk /\ n.op = job[c].op /\ n.data = job[c].data
        /\ n.up = job[c].up /\ n.buffered = job[c].buffered /\ n.result = job[c].result
        /\ n.tok = job[c].tok /\ n.stored
    BY <2>2, <2>3 DEF Job
  <2>5. store[Home(c)].once = "done" /\ ~store[Home(c)].failed
    BY Here DEF HomeInv, Rooting
  <2>6. PlaceInv(n) /\ UploadInv(n)
    BY <1>1, <1>2, <2>4, <2>5, Walks DEF PlaceInv
  <2>7. OpInv(n)
    BY <1>1, <1>2, <1>3, <2>4 DEF OpInv, Op, Placing, Sending
  <2>8. PhaseOf(n) = "stored"
    BY <2>4, <2>7, PhaseIs
  <2>9. Becomes(c, n)
    BY <1>3, <2>1, <2>2, <2>4 DEF Becomes, Uploaded
  <2> QED BY <1>2, <2>4, <2>6, <2>7, <2>8, <2>9 DEF Stays, Rooting
<1>4. CASE ~(Op(c).do = "rename" /\ ~job[c].buffered)
  <2>1. PICK n : n = Ended(job[c], "ok")
    OBVIOUS
  <2>2. "ok" \in {"ok", "error", "crash"}
    OBVIOUS
  <2>3. /\ n \in Job /\ n.pc = "idle" /\ n.op = job[c].op /\ n.data = job[c].data /\ n.result = "ok"
        /\ n.at = Top /\ n.tok = Top /\ n.up = 0 /\ n.stored = FALSE /\ n.buffered = FALSE
    BY <1>1, <2>1, <2>2, EndedJob
  <2>4. PlaceInv(n) /\ OpInv(n) /\ UploadInv(n)
    BY <1>1, <1>2, <2>3, EndedInv
  <2>5. PhaseOf(n) = "idle"
    BY <2>3, <2>4, PhaseIs
  <2>6. Becomes(c, n)
    BY <1>4, <2>1, <2>3 DEF Becomes, Uploaded, End, Ended, Op
  <2> QED BY <2>3, <2>4, <2>5, <2>6 DEF Stays
<1> QED BY <1>3, <1>4

LEMMA FindUploadedStep ==
  ASSUME IInv, NEW c \in setup.clients, FindUploaded(c)
  PROVE  IInv' /\ AbstractStep
<1>1. job[c] \in Job /\ job[c].pc = "find" /\ OpInv(job[c]) /\ Typed /\ c \in Clients
  BY Here DEF FindUploaded
<1>2. PhaseOf(job[c]) = "stored"
  BY <1>1, PhaseIs
<1>3. CASE Fail(c)
  BY <1>1, <1>3, Failing DEF FindUploaded
<1>4. CASE Uploaded(c)
  <2>1. PICK n : /\ Becomes(c, n) /\ Stays(c, n) /\ n.up \in {0, job[c].up}
                 /\ n.op = job[c].op /\ n.data = job[c].data
                 /\ PlaceInv(n) /\ OpInv(n) /\ UploadInv(n)
                 /\ \/ n.pc = "idle" /\ n.result = "ok" /\ PhaseOf(n) = "idle"
                    \/ n.pc # "idle" /\ n.result = "idle" /\ PhaseOf(n) = "stored"
    BY <1>1, <1>4, UploadedJob
  <2>2. IInv' /\ Copies' = Copies
    BY <2>1, Quiet DEF FindUploaded
  <2>3. CASE n.pc # "idle" /\ PhaseOf(n) = "stored"
    BY <1>1, <1>2, <2>1, <2>2, <2>3, GoesOn
  <2>4. CASE n.pc = "idle" /\ n.result = "ok" /\ PhaseOf(n) = "idle"
    <3>1. /\ Doing' = [Doing EXCEPT ![c] = Doing[c]]
          /\ Held' = [Held EXCEPT ![c] = Held[c]]
          /\ Results' = [Results EXCEPT ![c] = "ok"]
          /\ Phases' = [Phases EXCEPT ![c] = "idle"] /\ Phases[c] = "stored"
      BY <1>1, <1>2, <2>1, <2>4, Maps
    <3>2. Doing' = Doing
      BY <3>1 DEF Doing
    <3>3. Held' = Held
      BY <3>1 DEF Held
    <3>4. Abstract!Stop(c)
      BY <2>2, <3>1, <3>2, <3>3 DEF Abstract!Stop, Abstract!Ends
    <3> QED BY <1>1, <2>2, <3>4 DEF AbstractStep, Abstract!Next
  <2> QED BY <2>1, <2>2, <2>3, <2>4
<1> QED BY <1>3, <1>4 DEF FindUploaded

\* An attempt is made again.
LEMMA RetryJob ==
  ASSUME IInv, NEW c \in setup.clients, job[c].pc \in Sending, Retry(c)
  PROVE  \/ Fail(c)
         \/ \E n : /\ Becomes(c, n) /\ Stays(c, n) /\ n.up = job[c].up /\ n.pc = job[c].pc
                   /\ n.op = job[c].op /\ n.data = job[c].data /\ n.seq = job[c].seq
                   /\ n.block = job[c].block
                   /\ PlaceInv(n) /\ OpInv(n) /\ UploadInv(n) /\ PhaseOf(n) = PhaseOf(job[c])
<1>1. /\ job[c] \in Job /\ Typed /\ OpInv(job[c]) /\ PlaceInv(job[c]) /\ UploadInv(job[c])
  BY Here
<1>2. SUFFICES ASSUME job[c].try + 1 < UploadAttempts
               PROVE  \E n : /\ Becomes(c, n) /\ Stays(c, n) /\ n.up = job[c].up /\ n.pc = job[c].pc
                             /\ n.op = job[c].op /\ n.data = job[c].data /\ n.seq = job[c].seq
                             /\ n.block = job[c].block
                             /\ PlaceInv(n) /\ OpInv(n) /\ UploadInv(n)
                             /\ PhaseOf(n) = PhaseOf(job[c])
  BY DEF Retry
<1>3. PICK n : n = [job[c] EXCEPT !.try = @ + 1]
  OBVIOUS
<1>4. /\ n \in Job /\ n.pc = job[c].pc /\ n.at = job[c].at /\ n.walk = job[c].walk
      /\ n.op = job[c].op /\ n.data = job[c].data /\ n.up = job[c].up /\ n.stored = job[c].stored
      /\ n.buffered = job[c].buffered /\ n.result = job[c].result /\ n.tok = job[c].tok
      /\ n.seq = job[c].seq /\ n.block = job[c].block
  <2>1. job[c].try + 1 \in 0 .. UploadAttempts - 1
    BY <1>1, <1>2 DEF Job, UploadAttempts
  <2> QED BY <1>1, <1>3, <2>1 DEF Job
<1>5. Becomes(c, n)
  BY <1>1, <1>2, <1>3, <1>4, Here DEF Becomes, Retry, Typed
<1>6. PlaceInv(n)
  BY <1>1, <1>4 DEF PlaceInv
<1>7. OpInv(n) /\ UploadInv(n)
  BY <1>1, <1>4 DEF OpInv, UploadInv
<1>8. PhaseOf(n) = PhaseOf(job[c])
  BY <1>4 DEF PhaseOf
<1>9. Stays(c, n)
  BY <1>4 DEF Stays, Rooting, Sending
<1> QED BY <1>4, <1>5, <1>6, <1>7, <1>8, <1>9

LEMMA PostFailsStep ==
  ASSUME IInv, NEW c \in setup.clients, PostFails(c)
  PROVE  IInv' /\ AbstractStep
<1>1. job[c].pc \in Sending /\ job[c].pc # "idle" /\ Fault
  BY DEF PostFails, Sending
<1>2. CASE Fail(c)
  BY <1>1, <1>2, Failing DEF PostFails
<1>3. CASE Retry(c) /\ ~Fail(c)
  <2>1. PICK n : /\ Becomes(c, n) /\ Stays(c, n) /\ n.up = job[c].up /\ n.pc = job[c].pc
                 /\ n.op = job[c].op /\ n.data = job[c].data
                 /\ PlaceInv(n) /\ OpInv(n) /\ UploadInv(n) /\ PhaseOf(n) = PhaseOf(job[c])
    BY <1>1, <1>3, RetryJob
  <2> QED BY <1>1, <2>1, Steps DEF PostFails
<1> QED BY <1>2, <1>3 DEF PostFails

---------------------------------------------------------------------------
(* Calls that fail.                                                        *)

LEMMA CallFailing ==
  ASSUME IInv, NEW c \in setup.clients, CallFailed(c), job[c].pc # "idle",
         UNCHANGED <<setup, drive, uploads, begun>>, UNCHANGED faults \/ Fault
  PROVE  IInv' /\ AbstractStep
BY SendsOn, GivingUp DEF CallFailed

LEMMA RefusedStep ==
  ASSUME IInv, NEW c \in setup.clients, Refused(c) \/ CallFails(c)
  PROVE  IInv' /\ AbstractStep
<1>1. job[c].pc # "idle"
  BY DEF Refused, CallFails, Listing, Making
<1> QED BY <1>1, CallFailing DEF Refused, CallFails

---------------------------------------------------------------------------
(* The files of a path, when the drive changes.                            *)

LEMMA PathsTyped ==
  /\ Paths \subseteq Names /\ Abstract!Paths = Paths
<1>1. ASSUME NEW s \in Setups, NEW o \in s.ops
      PROVE  o.path \in Names /\ Target(o) \in Names
  <2>1. o \in Operations
    BY SetupAssumption
  <2> QED BY <2>1 DEF Operations, Target
<1>2. Paths \subseteq Names
  BY <1>1 DEF Paths
<1>3. \A o : Abstract!Target(o) = Target(o)
  BY DEF Abstract!Target, Target
<1>4. Abstract!Paths = Paths
  BY <1>3 DEF Abstract!Paths, Paths
<1> QED BY <1>2, <1>4

LEMMA CopiesTyped ==
  ASSUME drive' \in Seq(Entry)
  PROVE  Copies' \in [Paths -> SUBSET [by : Int, units : SUBSET Nat]]
<1>1. ASSUME NEW t \in DOMAIN drive'
      PROVE  drive'[t].data \in [by : Int, units : SUBSET Nat]
  <2>1. drive'[t] \in Entry
    OBVIOUS
  <2> QED BY <2>1 DEF Entry
<1>2. \A p : FilesAt(p)' \subseteq DOMAIN drive'
  BY DEF FilesAt
<1> QED BY <1>1, <1>2 DEF Copies

LEMMA InFiles ==
  ASSUME NEW t, NEW p
  PROVE  /\ t \in FilesAt(p) <=> /\ t \in DOMAIN drive /\ Alive(t) /\ drive[t].kind # "folder"
                                 /\ PathOf(t) = Full(p)
         /\ t \in FilesAt(p)' <=> /\ t \in DOMAIN drive' /\ Alive(t)' /\ drive'[t].kind # "folder"
                                  /\ PathOf(t)' = Full(p)'
BY DEF FilesAt, Full

LEMMA AddCopies ==
  ASSUME Typed, TreeInv, NEW at, IsFolder(at), Alive(at), NEW name \in Name, NEW kind \in Kinds,
         NEW data \in Data, data.by \in -2 .. begun, begun' = begun, setup' = setup,
         Add(at, name, kind, data)
  PROVE  /\ kind = "folder" => Copies' = Copies
         /\ \A path \in Paths : kind # "folder" /\ Append(PathOf(at), name) = Full(path)
               => Copies' = [Copies EXCEPT ![path] = @ \cup {data}]
<1>1. PICK k : k = Len(drive')
  OBVIOUS
<1>2. /\ drive' \in Seq(Entry) /\ k = Len(drive) + 1
      /\ drive'[k].above = Chain(drive, at) /\ drive'[k].path = Append(PathOf(at), name)
      /\ drive'[k].kind = kind /\ drive'[k].data = data /\ drive'[k].live
      /\ \A t \in DOMAIN drive : drive'[t] = drive[t]
  BY <1>1, AddTree
<1>3. /\ Len(drive) \in Nat /\ DOMAIN drive = 1 .. Len(drive) /\ DOMAIN drive' = 1 .. k
      /\ at \in 0 .. Len(drive) /\ setup.folder \in Names
  <2>1. /\ Len(drive) \in Nat /\ DOMAIN drive = 1 .. Len(drive) /\ at \in 0 .. Len(drive)
    BY Tokens
  <2>2. DOMAIN drive' = 1 .. k
    <3>1. \A q \in Seq(Entry) : DOMAIN q = 1 .. Len(q)
      OBVIOUS
    <3> QED BY <1>1, <1>2, <3>1
  <2>3. setup.folder \in Names
    BY SetupAssumption DEF Typed
  <2> QED BY <2>1, <2>2, <2>3
<1>4. ASSUME NEW t \in DOMAIN drive
      PROVE  Chain(drive', t) = Chain(drive, t) /\ Chain(drive, t) \subseteq DOMAIN drive
             /\ PathOf(t)' = PathOf(t)
  BY <1>2, <1>3 DEF Chain, TreeInv, PathOf, PathIn, Top
<1>5. ASSUME NEW t \in DOMAIN drive
      PROVE  Alive(t)' = Alive(t)
  BY <1>2, <1>4 DEF Alive
<1>6. ASSUME NEW p, NEW t \in DOMAIN drive
      PROVE  t \in FilesAt(p)' <=> t \in FilesAt(p)
  <2>1. t \in DOMAIN drive' /\ drive'[t].kind = drive[t].kind /\ Full(p)' = Full(p)
    BY <1>2, <1>3 DEF Full
  <2> QED BY <1>4, <1>5, <2>1, InFiles
<1>7. Alive(k)'
  <2>1. Chain(drive', k) = Chain(drive, at) \cup {k}
    BY <1>2, <1>3 DEF Chain, Top
  <2>2. \A u \in Chain(drive, at) : drive'[u].live
    <3>1. CASE at = Top
      BY <3>1 DEF Chain
    <3>2. CASE at \in DOMAIN drive
      BY <1>2, <1>4, <3>2 DEF Alive
    <3> QED BY <3>1, <3>2 DEF IsFolder
  <2> QED BY <1>2, <2>1, <2>2 DEF Alive
<1>8. PathOf(k)' = Append(PathOf(at), name)
  BY <1>2, <1>3 DEF PathOf, PathIn, Top
<1>9. ASSUME NEW p
      PROVE  k \in FilesAt(p)' <=> kind # "folder" /\ Append(PathOf(at), name) = Full(p)
  <2>1. k \in DOMAIN drive' /\ Full(p)' = Full(p)
    BY <1>2, <1>3 DEF Full
  <2> QED BY <1>2, <1>7, <1>8, <2>1, InFiles
<1>10. ASSUME NEW p
      PROVE  FilesAt(p)' = FilesAt(p) \cup
                 (IF kind # "folder" /\ Append(PathOf(at), name) = Full(p) THEN {k} ELSE {})
  <2>1. FilesAt(p)' \subseteq 1 .. k /\ FilesAt(p) \subseteq DOMAIN drive
    BY <1>3 DEF FilesAt
  <2>2. \A t \in 1 .. k : t = k \/ t \in DOMAIN drive
    BY <1>2, <1>3
  <2>3. k \in 1 .. k /\ k \notin DOMAIN drive
    BY <1>2, <1>3
  <2> QED BY <1>6, <1>9, <2>1, <2>2, <2>3
<1>11. \A p : \A t \in FilesAt(p) : t \in DOMAIN drive /\ drive'[t].data = drive[t].data
  BY <1>2 DEF FilesAt
<1>12. ASSUME NEW p
       PROVE  {drive'[t].data : t \in FilesAt(p)'} = {drive[t].data : t \in FilesAt(p)} \cup
                 (IF kind # "folder" /\ Append(PathOf(at), name) = Full(p) THEN {data} ELSE {})
  BY <1>2, <1>10, <1>11
<1>13. Copies' = [p \in Paths |-> {drive'[t].data : t \in FilesAt(p)'}]
  BY DEF Copies
<1>14. ASSUME kind = "folder"
       PROVE  Copies' = Copies
  BY <1>12, <1>13, <1>14 DEF Copies
<1>15. ASSUME NEW path \in Paths, kind # "folder", Append(PathOf(at), name) = Full(path)
       PROVE  Copies' = [Copies EXCEPT ![path] = @ \cup {data}]
  <2>1. \A p \in Paths : Full(p) = Full(path) => p = path
    BY <1>3, FullPaths, PathsTyped
  <2>2. \A p \in Paths : Copies'[p] = Copies[p] \cup (IF p = path THEN {data} ELSE {})
    BY <1>12, <1>13, <1>15, <2>1 DEF Copies
  <2>3. Copies' = [p \in Paths |-> Copies'[p]] /\ Copies = [p \in Paths |-> Copies[p]]
    BY <1>13 DEF Copies
  <2> QED BY <2>2, <2>3
<1> QED BY <1>14, <1>15

\* A file goes alone, a folder with what is in it.
LEMMA DeleteCopies ==
  ASSUME Typed, TreeInv, NEW t \in DOMAIN drive, Delete(t), begun' = begun, setup' = setup,
         NEW path \in Paths, Leads(t, path)
  PROVE  /\ Abstract!TakesAway(path)
         /\ drive[t].kind # "folder" =>
               \E rest \in SUBSET Copies[path] :
                  /\ Abstract!AtMostOneLess(Copies[path], rest)
                  /\ Copies' = [Copies EXCEPT ![path] = rest]
<1>1. /\ drive' \in Seq(Entry) /\ DOMAIN drive' = DOMAIN drive /\ ~drive'[t].live /\ Grows
      /\ \A u \in DOMAIN drive : u # t => drive'[u] = drive[u]
  BY DeleteTree
<1>2. /\ Len(drive) \in Nat /\ DOMAIN drive = 1 .. Len(drive)
      /\ setup.folder \in Names /\ \A u \in DOMAIN drive : drive[u] \in Entry
  BY <1>1, Tokens, SetupAssumption DEF Typed
<1>3. ASSUME NEW u \in DOMAIN drive
      PROVE  Chain(drive', u) = Chain(drive, u) /\ Chain(drive, u) \subseteq DOMAIN drive
             /\ PathOf(u)' = PathOf(u) /\ drive'[u].kind = drive[u].kind
             /\ drive'[u].data = drive[u].data /\ PathOf(u) = drive[u].path
  <2>1. /\ drive'[u].above = drive[u].above /\ drive'[u].path = drive[u].path
        /\ drive'[u].kind = drive[u].kind /\ drive'[u].data = drive[u].data /\ u # Top
    BY <1>1, <1>2 DEF Grows, Top
  <2>2. drive[u].above \subseteq DOMAIN drive
    BY DEF TreeInv
  <2> QED BY <2>1, <2>2 DEF Chain, PathOf, PathIn
<1>4. ASSUME NEW u \in DOMAIN drive
      PROVE  Alive(u)' <=> Alive(u) /\ t \notin Chain(drive, u)
  BY <1>1, <1>3 DEF Alive
<1>5. ASSUME NEW p
      PROVE  FilesAt(p)' = {u \in FilesAt(p) : t \notin Chain(drive, u)}
  BY <1>1, <1>3, <1>4 DEF FilesAt
<1>6. \A p : \A u \in FilesAt(p) : u \in DOMAIN drive /\ drive'[u].data = drive[u].data
                                   /\ drive[u].kind # "folder" /\ drive[u].path = Full(p)
  BY <1>3 DEF FilesAt, Full
<1>7. ASSUME NEW p
      PROVE  {drive'[u].data : u \in FilesAt(p)'} =
                {drive[u].data : u \in {v \in FilesAt(p) : t \notin Chain(drive, v)}}
  BY <1>5, <1>6
<1>8. \A p \in Paths : Copies'[p] = {drive[u].data : u \in {v \in FilesAt(p) : t \notin Chain(drive, v)}}
  BY <1>7 DEF Copies
<1>9. \A p \in Paths : Copies[p] = {drive[u].data : u \in FilesAt(p)}
  BY DEF Copies
<1>10. \A p \in Paths : Copies'[p] \subseteq Copies[p]
  BY <1>8, <1>9
<1>11. drive[t].path = Full(path)
  BY DEF Leads
<1>12. ASSUME NEW p \in Paths, p # path, Copies'[p] # Copies[p]
       PROVE  drive[t].kind = "folder" /\ Abstract!IsPrefix(path, p)
  <2>1. PICK u \in FilesAt(p) : t \in Chain(drive, u)
    BY <1>8, <1>9, <1>12
  <2>2. u \in DOMAIN drive /\ drive[u].path = Full(p)
    BY <1>6
  <2>3. u # t
    BY <1>2, <1>11, <1>12, <2>2, FullPaths, PathsTyped
  <2>4. t \in drive[u].above
    BY <1>2, <2>1, <2>2, <2>3 DEF Chain, Top
  <2>5. /\ drive[t].kind = "folder" /\ Len(Full(path)) < Len(Full(p))
        /\ \A n \in 1 .. Len(Full(path)) : Full(p)[n] = Full(path)[n]
    BY <1>11, <2>2, <2>4 DEF TreeInv
  <2>6. Len(Full(path)) <= Len(Full(p))
    <3>1. Full(path) \in Seq(Name) /\ Full(p) \in Seq(Name)
      BY <1>2, FullPaths, PathsTyped DEF Names
    <3>2. Len(Full(path)) \in Nat /\ Len(Full(p)) \in Nat
      BY <3>1
    <3> QED BY <2>5, <3>2
  <2> QED BY <1>2, <2>5, <2>6, FullPrefix, PathsTyped
<1>13. \A u \in FilesAt(path) : t \in Chain(drive, u) => u = t
  <2> SUFFICES ASSUME NEW u \in FilesAt(path), t \in Chain(drive, u), u # t
               PROVE  FALSE
    OBVIOUS
  <2>1. u \in DOMAIN drive /\ drive[u].path = Full(path)
    BY <1>6
  <2>2. t \in drive[u].above
    BY <1>2, <2>1 DEF Chain, Top
  <2>3. Len(drive[t].path) < Len(drive[u].path)
    BY <2>1, <2>2 DEF TreeInv
  <2>4. Full(path) \in Seq(Name)
    BY <1>2, FullPaths, PathsTyped DEF Names
  <2>5. Len(Full(path)) \in Nat
    BY <2>4
  <2> QED BY <1>11, <2>1, <2>3, <2>5
<1>14. Copies'[path] = Copies[path] \/ Copies'[path] = Copies[path] \ {drive[t].data}
  <2>1. Copies[path] \ {drive[t].data} \subseteq Copies'[path]
    BY <1>8, <1>9, <1>13
  <2> QED BY <1>10, <2>1
<1>15. Abstract!AtMostOneLess(Copies[path], Copies'[path])
  BY <1>14 DEF Abstract!AtMostOneLess
<1>16. Copies' \in [Paths -> SUBSET [by : Int, units : SUBSET Nat]]
  BY <1>1, CopiesTyped
<1>17. Abstract!TakesAway(path)
  BY <1>10, <1>12, <1>15, <1>16, PathsTyped DEF Abstract!TakesAway
<1>18. ASSUME drive[t].kind # "folder"
       PROVE  Copies' = [Copies EXCEPT ![path] = Copies'[path]]
  <2>1. \A p \in Paths : p # path => Copies'[p] = Copies[p]
    BY <1>12, <1>18
  <2>2. Copies' = [p \in Paths |-> Copies'[p]] /\ Copies = [p \in Paths |-> Copies[p]]
    BY DEF Copies
  <2> QED BY <2>1, <2>2
<1> QED BY <1>10, <1>15, <1>17, <1>18

---------------------------------------------------------------------------
(* Steps that change the drive.                                            *)

LEMMA Counts ==
  ASSUME IInv, setup' = setup, begun' = begun, UNCHANGED faults \/ Fault
  PROVE  begun' \in begun .. setup.most /\ faults' \in 0 .. setup.faults
         /\ begun \in Nat /\ begun' \in Nat /\ begun <= begun'
<1>1. setup.most \in Nat /\ setup.faults \in Nat
  BY SetupAssumption DEF IInv, Typed
<1> QED BY <1>1 DEF IInv, Typed, Fault

\* The job of a client, in a drive that has changed.
LEMMA Kept ==
  ASSUME IInv, NEW n \in Job, PlaceInv(n), OpInv(n), UploadInv(n),
         setup' = setup, begun' = begun, drive' \in Seq(Entry), Grows
  PROVE  /\ PlaceInv(n)' /\ OpInv(n)'
         /\ uploads' = uploads => UploadInv(n)'
<1>1. Typed
  BY DEF IInv
<1>2. PlaceInv(n)'
  BY <1>1, KeepPlace
<1>3. OpInv(n)'
  BY DEF OpInv
<1>4. uploads' = uploads => UploadInv(n)'
  BY DEF UploadInv
<1> QED BY <1>2, <1>3, <1>4

\* A step that changes the drive and its client.
LEMMA Grown ==
  ASSUME IInv, NEW c \in setup.clients, NEW n, Becomes(c, n), Stays(c, n),
         PlaceInv(n)', OpInv(n), UploadInv(n), n.up \in {0, job[c].up},
         UNCHANGED <<setup, uploads, store, begun>>, UNCHANGED faults \/ Fault,
         drive' \in Seq(Entry), TreeInv', Grows
  PROVE  IInv'
<1>1. OpInv(n)' /\ UploadInv(n)'
  BY DEF OpInv, UploadInv
<1>2. begun' \in begun .. setup.most /\ faults' \in 0 .. setup.faults
      /\ begun' \in Nat /\ begun <= begun'
  BY Counts
<1>3. PICK s : StoreStep(c, n, s)
  BY <1>2, SameStore
<1>4. UploadsKept(c)
  BY SameUploads
<1> QED BY <1>1, <1>2, <1>3, <1>4, Change

\* An operation that ends when the drive has changed.
LEMMA EndGrown ==
  ASSUME IInv, NEW c \in setup.clients, NEW r \in {"ok", "error"}, End(c, r),
         UNCHANGED <<setup, uploads, store, begun>>, UNCHANGED faults \/ Fault,
         drive' \in Seq(Entry), TreeInv', Grows
  PROVE  IInv' /\ Becomes(c, Ended(job[c], r))
<1>1. job[c] \in Job /\ Typed /\ job[c].data.by \in -2 .. begun
  BY Here DEF OpInv
<1>2. PICK n : n = Ended(job[c], r)
  OBVIOUS
<1>3. r \in {"ok", "error", "crash"}
  OBVIOUS
<1>4. /\ n \in Job /\ n.pc = "idle" /\ n.at = Top /\ n.tok = Top /\ n.up = 0 /\ n.stored = FALSE
      /\ n.buffered = FALSE /\ n.data = job[c].data
  BY <1>1, <1>2, <1>3, EndedJob
<1>5. PlaceInv(n) /\ OpInv(n) /\ UploadInv(n)
  BY <1>1, <1>4, EndedInv
<1>6. Becomes(c, n)
  BY <1>2, <1>4 DEF Becomes, End, Ended, Op
<1>7. PlaceInv(n)'
  BY <1>4, <1>5, Kept
<1>8. IInv'
  BY <1>4, <1>5, <1>6, <1>7, Grown DEF Stays
<1> QED BY <1>2, <1>6, <1>8

\* A folder for the next name of the path.
LEMMA NewFolder ==
  ASSUME IInv, NEW c \in setup.clients, job[c].pc \in {"make", "rootmake"}, Alive(job[c].at),
         Add(job[c].at, Head(job[c].walk), "folder", Empty), begun' = begun, setup' = setup,
         NEW k, k = Len(drive')
  PROVE  /\ drive' \in Seq(Entry) /\ TreeInv' /\ Grows /\ Copies' = Copies
         /\ IsFolder(k)' /\ k \in Nat /\ Tail(job[c].walk) \in Names
         /\ PathOf(k)' \o Tail(job[c].walk) = PathOf(job[c].at) \o job[c].walk
<1>1. /\ job[c] \in Job /\ Typed /\ TreeInv /\ PlaceInv(job[c]) /\ IsFolder(job[c].at)
      /\ job[c].walk # << >>
  BY Here DEF PlaceInv
<1>2. PICK j \in Job : j = job[c]
  BY <1>1
<1>3. j.walk \in Names /\ PathOf(j.at) \in Names /\ Len(drive) \in Nat /\ IsFolder(j.at)
  BY <1>1, <1>2, Tokens DEF Job
<1>4. /\ Head(j.walk) \in Name /\ Tail(j.walk) \in Names
      /\ Append(PathOf(j.at), Head(j.walk)) \o Tail(j.walk) = PathOf(j.at) \o j.walk
  BY <1>1, <1>2, <1>3, OneName
<1>5. PICK h \in Name : h = Head(j.walk)
  BY <1>4
<1>6. PICK a : a = j.at /\ IsFolder(a) /\ Alive(a)
  BY <1>2, <1>3
<1>7. Empty \in Data /\ Empty.by \in -2 .. begun /\ "folder" \in Kinds
  BY <1>1, WhatIsRead DEF Kinds
<1>8. Add(a, h, "folder", Empty)
  BY <1>2, <1>5, <1>6
<1>9. /\ drive' \in Seq(Entry) /\ TreeInv' /\ Grows /\ k = Len(drive) + 1
      /\ drive'[k].path = Append(PathOf(a), h) /\ drive'[k].kind = "folder"
  BY <1>1, <1>6, <1>7, <1>8, AddTree
<1>10. Copies' = Copies
  BY <1>1, <1>6, <1>7, <1>8, AddCopies
<1>11. k \in DOMAIN drive' /\ k \in Nat /\ k # Top
  <2>1. \A q \in Seq(Entry) : DOMAIN q = 1 .. Len(q)
    OBVIOUS
  <2>2. DOMAIN drive' = 1 .. k
    BY <1>9, <2>1
  <2> QED BY <1>3, <1>9, <2>2 DEF Top
<1>12. IsFolder(k)' /\ PathOf(k)' = Append(PathOf(a), h)
  BY <1>9, <1>11 DEF IsFolder, PathOf, PathIn
<1> QED BY <1>2, <1>4, <1>5, <1>6, <1>9, <1>10, <1>11, <1>12

LEMMA CreateFolderStep ==
  ASSUME IInv, NEW c \in setup.clients, CreateFolder(c)
  PROVE  IInv' /\ AbstractStep
<1>1. PICK j \in Job : j = job[c]
  BY Here
<1>2. /\ j.pc \in {"make", "rootmake"} /\ Typed /\ OpInv(j) /\ PlaceInv(j) /\ UploadInv(j)
  BY <1>1, Here DEF CreateFolder
<1>3. PICK k : k = Len(drive')
  OBVIOUS
<1>4. /\ drive' \in Seq(Entry) /\ TreeInv' /\ Grows /\ Copies' = Copies
      /\ IsFolder(k)' /\ k \in Nat /\ Tail(j.walk) \in Names
      /\ PathOf(k)' \o Tail(j.walk) = PathOf(j.at) \o j.walk
  BY <1>1, <1>3, NewFolder DEF CreateFolder
<1>5. PICK n : n = [j EXCEPT !.pc = IF @ = "make" THEN "ensure" ELSE "rootwalk",
                             !.at = k, !.walk = Tail(@)]
  OBVIOUS
<1>6. /\ n \in Job /\ n.pc = (IF j.pc = "make" THEN "ensure" ELSE "rootwalk")
      /\ n.at = k /\ n.walk = Tail(j.walk)
      /\ n.op = j.op /\ n.data = j.data /\ n.up = j.up /\ n.stored = j.stored
      /\ n.buffered = j.buffered /\ n.result = j.result /\ n.tok = j.tok
  <2>1. PICK p \in Pcs : p = IF j.pc = "make" THEN "ensure" ELSE "rootwalk"
    BY DEF Pcs
  <2>2. PICK w \in Names : w = Tail(j.walk)
    BY <1>4
  <2>3. n = [j EXCEPT !.pc = p, !.at = k, !.walk = w]
    BY <1>5, <2>1, <2>2
  <2> QED BY <1>4, <2>1, <2>2, <2>3 DEF Job
<1>7. Becomes(c, n)
  BY <1>1, <1>2, <1>3, <1>5, <1>6, Here DEF Becomes, Typed, CreateFolder
<1>8. PlaceInv(n)'
  <2>1. PlaceInv(j)'
    BY <1>1, <1>2, <1>4, Here, KeepPlace DEF CreateFolder
  <2>2. n.pc = "rootwalk" => (PathOf(n.at) \o n.walk = setup.folder)'
    BY <1>2, <1>4, <1>6 DEF PlaceInv, CreateFolder
  <2>3. n.pc = "ensure" => (PathOf(n.at) \o n.walk = Full(Folders(n.op)))'
    BY <1>2, <1>4, <1>6 DEF PlaceInv, CreateFolder, Full
  <2>4. IsFolder(n.at)' /\ n.tok \in 0 .. Len(drive')
    BY <1>4, <1>6, <2>1 DEF PlaceInv
  <2> QED BY <1>2, <1>6, <2>2, <2>3, <2>4 DEF PlaceInv, Placing, Sending
<1>9. OpInv(n) /\ UploadInv(n) /\ ~n.stored /\ ~j.stored
  BY <1>2, <1>6 DEF OpInv, UploadInv, Placing, Sending
<1>10. PhaseOf(n) = "busy" /\ PhaseOf(j) = "busy"
  BY <1>2, <1>6, <1>9, PhaseIs DEF Sending
<1>11. Stays(c, n)
  BY <1>1, <1>2, <1>6 DEF Stays, Rooting
<1>12. IInv'
  BY <1>1, <1>4, <1>6, <1>7, <1>8, <1>9, <1>11, Grown DEF CreateFolder
<1> QED BY <1>1, <1>2, <1>4, <1>6, <1>7, <1>9, <1>10, <1>12, GoesOn

LEMMA FolderUnansweredStep ==
  ASSUME IInv, NEW c \in setup.clients, FolderUnanswered(c)
  PROVE  IInv' /\ AbstractStep
<1>1. /\ job[c] \in Job /\ job[c].pc \in {"make", "rootmake"} /\ Typed /\ ~job[c].stored
      /\ job[c].data.by \in -2 .. begun /\ Fault /\ UNCHANGED <<setup, uploads, begun>>
  BY Here DEF FolderUnanswered, OpInv
<1>2. drive' \in Seq(Entry) /\ TreeInv' /\ Grows /\ Copies' = Copies
  <2>1. PICK k : k = Len(drive')
    OBVIOUS
  <2> QED BY <1>1, <2>1, NewFolder DEF FolderUnanswered
<1>3. End(c, "error")
  BY <1>1 DEF FolderUnanswered, GiveUp, Fail
<1>4. CASE job[c].pc = "make"
  <2>1. UNCHANGED store
    BY <1>4 DEF FolderUnanswered, GiveUp
  <2>2. "error" \in {"ok", "error"}
    OBVIOUS
  <2>3. IInv' /\ Becomes(c, Ended(job[c], "error"))
    BY <1>1, <1>2, <1>3, <2>1, <2>2, EndGrown
  <2> QED BY <1>1, <1>2, <2>2, <2>3, Stops
<1>5. CASE job[c].pc = "rootmake"
  <2>1. PICK s : s = [store[Home(c)] EXCEPT !.once = "done", !.failed = TRUE]
    OBVIOUS
  <2>2. store' = [store EXCEPT ![Home(c)] = s]
    BY <1>5, <2>1, Here DEF FolderUnanswered, GiveUp, Typed, Storage
  <2>3. s \in Storage /\ s.once = "done" /\ s.failed = TRUE /\ s.root = store[Home(c)].root
        /\ s.bufs = store[Home(c)].bufs
    BY <2>1, Here DEF Storage
  <2>4. StoreInv(s)
    BY <2>3, Here DEF StoreInv, IsFolder
  <2>5. StoreInv(s)'
    BY <1>1, <1>2, <2>3, <2>4, Counts, KeepStore
  <2>6. PICK n : n = Ended(job[c], "error")
    OBVIOUS
  <2>7. "error" \in {"ok", "error", "crash"} /\ "error" \in {"ok", "error"}
    OBVIOUS
  <2>8. /\ n \in Job /\ n.pc = "idle" /\ n.at = Top /\ n.tok = Top /\ n.up = 0 /\ n.stored = FALSE
        /\ n.buffered = FALSE /\ n.data = job[c].data
    BY <1>1, <2>6, <2>7, EndedJob
  <2>9. PlaceInv(n) /\ OpInv(n) /\ UploadInv(n)
    BY <1>1, <2>8, EndedInv
  <2>10. PlaceInv(n)' /\ OpInv(n)' /\ UploadInv(n)'
    BY <1>1, <1>2, <2>8, <2>9, Kept
  <2>11. Becomes(c, n)
    BY <1>3, <2>6, <2>8 DEF Becomes, End, Ended, Op
  <2>12. StoreStep(c, n, s)
    BY <1>5, <2>2, <2>3, <2>5, <2>8 DEF StoreStep, HomeInv, Rooting
  <2>13. UploadsKept(c) /\ begun' \in begun .. setup.most /\ faults' \in 0 .. setup.faults
    BY <1>1, SameUploads, Counts
  <2>14. IInv'
    BY <1>1, <1>2, <2>8, <2>10, <2>11, <2>12, <2>13, Change
  <2> QED BY <1>1, <1>2, <2>6, <2>7, <2>11, <2>14, Stops
<1> QED BY <1>1, <1>4, <1>5

LEMMA DropStep ==
  ASSUME IInv, NEW c \in setup.clients, Drop(c)
  PROVE  IInv' /\ AbstractStep
<1>1. /\ job[c] \in Job /\ job[c].pc = "drop" /\ Typed /\ TreeInv /\ PlaceInv(job[c]) /\ OpInv(job[c])
      /\ setup \in Setups
  BY Here DEF Drop
<1>2. PICK t : t = job[c].tok
  OBVIOUS
<1>3. /\ Leads(t, Target(job[c].op)) /\ t \in DOMAIN drive /\ drive[t].kind # "folder"
      /\ job[c].op \in setup.ops /\ Delete(t) /\ Target(job[c].op) \in Paths
  BY <1>1, <1>2, PathsOf DEF PlaceInv, Leads, OpInv, Drop, Remove
<1>4. drive' \in Seq(Entry) /\ TreeInv' /\ Grows
  BY <1>1, <1>3, DeleteTree DEF Drop
<1>5. PICK rest \in SUBSET Copies[Target(job[c].op)] :
         /\ Abstract!AtMostOneLess(Copies[Target(job[c].op)], rest)
         /\ Copies' = [Copies EXCEPT ![Target(job[c].op)] = rest]
  BY <1>1, <1>3, DeleteCopies DEF Drop
<1>6. PICK n : n = Send(c)
  OBVIOUS
<1>7. /\ n \in Job /\ PlaceInv(n) /\ OpInv(n) /\ UploadInv(n) /\ Stays(c, n) /\ n.up = job[c].up
  BY <1>1, <1>6, SendJob
<1>8. Becomes(c, n)
  BY <1>6, <1>7 DEF Becomes, Drop
<1>9. PlaceInv(n)'
  BY <1>4, <1>7, Kept DEF Drop
<1>10. IInv'
  BY <1>4, <1>7, <1>8, <1>9, Grown DEF Drop
<1>11. AbstractStep
  <2>1. Op(c) = job[c].op
    BY DEF Op
  <2> QED BY <1>1, <1>5, <2>1, Replaces DEF Drop
<1> QED BY <1>10, <1>11

LEMMA RemoveByTokenStep ==
  ASSUME IInv, NEW c \in setup.clients, RemoveByToken(c)
  PROVE  IInv' /\ AbstractStep
<1>1. /\ job[c] \in Job /\ job[c].pc = "delete" /\ Typed /\ TreeInv /\ PlaceInv(job[c]) /\ OpInv(job[c])
      /\ setup \in Setups /\ c \in Clients
  BY Here DEF RemoveByToken
<1>2. PICK t : t = job[c].tok
  OBVIOUS
<1>3. /\ Leads(t, job[c].op.path) /\ t \in DOMAIN drive
      /\ job[c].op \in setup.ops /\ Delete(t) /\ job[c].op.path \in Paths
  BY <1>1, <1>2, PathsOf DEF PlaceInv, Leads, OpInv, RemoveByToken
<1>4. drive' \in Seq(Entry) /\ TreeInv' /\ Grows /\ Abstract!TakesAway(job[c].op.path)
  BY <1>1, <1>3, DeleteTree, DeleteCopies DEF RemoveByToken
<1>5. PICK r \in {"ok", "error"} : End(c, r) /\ (job[c].stored => r = "ok")
                                  /\ (UNCHANGED faults \/ Fault)
  BY DEF RemoveByToken, Fail
<1>6. IInv' /\ Becomes(c, Ended(job[c], r))
  BY <1>4, <1>5, EndGrown DEF RemoveByToken
<1>7. PICK n : n = Ended(job[c], r)
  OBVIOUS
<1>8. /\ n \in Job /\ n.pc = "idle" /\ n.at = Top /\ n.tok = Top /\ n.up = 0 /\ n.stored = FALSE
      /\ n.buffered = FALSE /\ n.data = job[c].data /\ n.op = job[c].op /\ n.result = r
  <2>1. r \in {"ok", "error", "crash"}
    OBVIOUS
  <2> QED BY <1>1, <1>7, <2>1, EndedJob
<1>9. PhaseOf(n) = "idle"
  <2>1. job[c].data.by \in -2 .. begun
    BY <1>1 DEF OpInv
  <2>2. OpInv(n)
    BY <1>1, <1>8, <2>1, EndedInv
  <2> QED BY <1>8, <2>2, PhaseIs
<1>10. /\ Doing' = [Doing EXCEPT ![c] = Doing[c]] /\ Doing[c] = job[c].op
       /\ Held' = [Held EXCEPT ![c] = Held[c]]
       /\ Results' = [Results EXCEPT ![c] = r]
       /\ Phases' = [Phases EXCEPT ![c] = "idle"] /\ Phases[c] = PhaseOf(job[c])
  BY <1>1, <1>6, <1>7, <1>8, <1>9, Maps
<1>11. Doing' = Doing
  BY <1>10 DEF Doing
<1>12. Held' = Held
  BY <1>10 DEF Held
<1>13. CASE job[c].stored
  <2>1. job[c].op.do = "rename" /\ PhaseOf(job[c]) = "stored" /\ r = "ok"
    BY <1>1, <1>5, <1>13, PhaseIs DEF OpInv
  <2>2. Abstract!Unlink(c)
    BY <1>4, <1>10, <1>11, <1>12, <2>1 DEF Abstract!Unlink, Abstract!Ends
  <2> QED BY <1>1, <1>6, <2>2 DEF AbstractStep, Abstract!Next
<1>14. CASE ~job[c].stored
  <2>1. job[c].op.do = "remove" /\ PhaseOf(job[c]) = "busy"
    BY <1>1, <1>14, PhaseIs DEF OpInv, Sending
  <2>2. Abstract!RemoveAll(c)
    BY <1>4, <1>10, <1>11, <1>12, <2>1 DEF Abstract!RemoveAll, Abstract!Ends
  <2> QED BY <1>1, <1>6, <2>2 DEF AbstractStep, Abstract!Next
<1> QED BY <1>13, <1>14

---------------------------------------------------------------------------
(* Uploads.                                                                *)

\* A file of all the data, under the name that is written.
LEMMA NewFile ==
  ASSUME IInv, NEW c \in setup.clients, job[c].pc \in {"all", "finish"}, Alive(job[c].at),
         Store(c, job[c].data.units), begun' = begun, setup' = setup
  PROVE  /\ drive' \in Seq(Entry) /\ TreeInv' /\ Grows
         /\ Copies' = [Copies EXCEPT ![Target(job[c].op)] = @ \cup {job[c].data}]
<1>1. /\ job[c] \in Job /\ Typed /\ TreeInv /\ PlaceInv(job[c]) /\ OpInv(job[c])
      /\ setup \in Setups /\ setup.folder \in Names
  BY Here
<1>2. PICK a : a = job[c].at /\ IsFolder(a) /\ Alive(a)
  BY <1>1 DEF PlaceInv
<1>3. PICK path \in Paths : path = Target(job[c].op)
  BY <1>1, PathsOf DEF OpInv
<1>4. path \in Names /\ path # << >> /\ Last(path) \in Name /\ PathOf(a) = Full(Front(path))
  BY <1>1, <1>2, <1>3, OpTyped DEF OpInv, PlaceInv, Placing, Sending
<1>5. PICK h \in Name : h = Last(path)
  BY <1>4
<1>6. Append(PathOf(a), h) = Full(path)
  BY <1>1, <1>4, <1>5, FullPaths
<1>7. PICK d \in Data : d = job[c].data
  BY <1>1 DEF Job
<1>8. d.by \in -2 .. begun
  BY <1>1, <1>7 DEF OpInv
<1>9. [d EXCEPT !.units = d.units] = d
  BY DEF Data
<1>10. Add(a, h, "file", d) /\ "file" \in Kinds
  BY <1>2, <1>3, <1>5, <1>7, <1>9 DEF Store, Op, Kinds
<1>11. drive' \in Seq(Entry) /\ TreeInv' /\ Grows
  BY <1>1, <1>2, <1>8, <1>10, AddTree
<1>12. Copies' = [Copies EXCEPT ![path] = @ \cup {d}]
  BY <1>1, <1>2, <1>6, <1>8, <1>10, AddCopies
<1> QED BY <1>3, <1>7, <1>11, <1>12

LEMMA Puts ==
  ASSUME IInv, NEW c \in setup.clients, NEW n, Becomes(c, n), job[c].pc \in Sending,
         Copies' = [Copies EXCEPT ![Target(job[c].op)] = @ \cup {job[c].data}],
         n.op = job[c].op, n.data = job[c].data,
         \/ n.result = "idle" /\ PhaseOf(n) \in {"storing", "stored"}
         \/ n.result \in {"ok", "error"} /\ PhaseOf(n) = "idle"
  PROVE  AbstractStep
<1>1. job[c] \in Job /\ OpInv(job[c]) /\ Typed /\ c \in Clients
  BY Here
<1>2. PhaseOf(job[c]) = "storing"
  <2>1. ~job[c].stored
    BY <1>1 DEF OpInv, Sending
  <2> QED BY <1>1, <2>1, PhaseIs
<1>3. /\ Doing' = [Doing EXCEPT ![c] = Doing[c]] /\ Doing[c] = job[c].op
      /\ Held' = [Held EXCEPT ![c] = Held[c]] /\ Held[c] = job[c].data
      /\ Results' = [Results EXCEPT ![c] = n.result]
      /\ Phases' = [Phases EXCEPT ![c] = PhaseOf(n)] /\ Phases[c] = "storing"
  BY <1>1, <1>2, Maps
<1>4. Doing' = Doing
  BY <1>3 DEF Doing
<1>5. Held' = Held
  BY <1>3 DEF Held
<1>6. Abstract!Target(Doing[c]) = Target(job[c].op)
  BY <1>3 DEF Abstract!Target, Target
<1>7. \/ Abstract!Goes(c, "storing") \/ Abstract!Goes(c, "stored")
      \/ Abstract!Ends(c, "ok") \/ Abstract!Ends(c, "error")
  BY <1>3 DEF Abstract!Goes, Abstract!Ends
<1>8. Abstract!Put(c)
  BY <1>3, <1>4, <1>5, <1>6, <1>7 DEF Abstract!Put
<1> QED BY <1>1, <1>8 DEF AbstractStep, Abstract!Next

\* The end of an upload that has failed.
LEMMA FailedPut ==
  ASSUME IInv, NEW c \in setup.clients, job[c].pc \in {"all", "finish"}, Fail(c),
         Copies' = [Copies EXCEPT ![Target(job[c].op)] = @ \cup {job[c].data}]
  PROVE  /\ End(c, "error") /\ AbstractStep
         /\ \E n : /\ n = Ended(job[c], "error") /\ Becomes(c, n) /\ Stays(c, n) /\ n.up = 0
                   /\ PlaceInv(n) /\ OpInv(n) /\ UploadInv(n)
<1>1. job[c] \in Job /\ OpInv(job[c]) /\ Typed /\ ~job[c].stored
  BY Here DEF OpInv
<1>2. End(c, "error")
  BY <1>1 DEF Fail
<1>3. PICK n : n = Ended(job[c], "error")
  OBVIOUS
<1>4. "error" \in {"ok", "error", "crash"} /\ job[c].data.by \in -2 .. begun
  BY <1>1 DEF OpInv
<1>5. /\ n \in Job /\ n.pc = "idle" /\ n.at = Top /\ n.tok = Top /\ n.up = 0 /\ n.stored = FALSE
      /\ n.buffered = FALSE /\ n.data = job[c].data /\ n.op = job[c].op /\ n.result = "error"
  BY <1>1, <1>3, <1>4, EndedJob
<1>6. PlaceInv(n) /\ OpInv(n) /\ UploadInv(n)
  BY <1>1, <1>4, <1>5, EndedInv
<1>7. Becomes(c, n) /\ PhaseOf(n) = "idle" /\ Stays(c, n)
  <2>1. PhaseOf(n) = "idle"
    BY <1>5, <1>6, PhaseIs
  <2> QED BY <1>2, <1>3, <1>5, <2>1 DEF Becomes, End, Ended, Op, Stays
<1>8. job[c].pc \in Sending
  BY DEF Sending
<1>9. AbstractStep
  BY <1>5, <1>7, <1>8, Puts
<1> QED BY <1>2, <1>3, <1>5, <1>6, <1>7, <1>9

\* What follows a file that has been stored, whether its client knows or not.
LEMMA Answering ==
  ASSUME IInv, NEW c \in setup.clients, job[c].pc \in {"all", "finish"},
         Copies' = [Copies EXCEPT ![Target(job[c].op)] = @ \cup {job[c].data}],
         \/ Uploaded(c) \/ Retry(c)
         \/ job[c].pc = "finish" /\ job' = [job EXCEPT ![c].pc = "find"]
  PROVE  /\ AbstractStep
         /\ \E n : /\ Becomes(c, n) /\ Stays(c, n) /\ n.up \in {0, job[c].up}
                   /\ PlaceInv(n) /\ OpInv(n) /\ UploadInv(n)
                   /\ n.pc \in {"part", "finish"} => n.pc = job[c].pc /\ n.data = job[c].data
                                                     /\ n.up = job[c].up
<1>1. /\ job[c] \in Job /\ OpInv(job[c]) /\ PlaceInv(job[c]) /\ UploadInv(job[c]) /\ Typed
      /\ job[c].pc \in Sending /\ ~job[c].stored
  BY Here DEF OpInv, Sending
<1>2. CASE Uploaded(c)
  <2>1. PICK n : /\ Becomes(c, n) /\ Stays(c, n) /\ n.up \in {0, job[c].up}
                 /\ n.op = job[c].op /\ n.data = job[c].data /\ n.pc \in {"idle", "resolve"}
                 /\ PlaceInv(n) /\ OpInv(n) /\ UploadInv(n)
                 /\ \/ n.pc = "idle" /\ n.result = "ok" /\ PhaseOf(n) = "idle"
                    \/ n.pc # "idle" /\ n.result = "idle" /\ PhaseOf(n) = "stored"
    BY <1>2, UploadedJob
  <2>2. AbstractStep
    BY <1>1, <2>1, Puts
  <2> QED BY <2>1, <2>2
<1>3. CASE Fail(c)
  <2>1. PICK n : /\ n = Ended(job[c], "error") /\ Becomes(c, n) /\ Stays(c, n) /\ n.up = 0
                 /\ PlaceInv(n) /\ OpInv(n) /\ UploadInv(n)
    BY <1>3, FailedPut
  <2>2. n.pc = "idle"
    BY <2>1 DEF Ended, Idle
  <2> QED BY <1>3, <2>1, <2>2, FailedPut
<1>4. CASE Retry(c) /\ ~Fail(c)
  <2>1. PICK n : /\ Becomes(c, n) /\ Stays(c, n) /\ n.up = job[c].up /\ n.pc = job[c].pc
                 /\ n.op = job[c].op /\ n.data = job[c].data
                 /\ PlaceInv(n) /\ OpInv(n) /\ UploadInv(n) /\ PhaseOf(n) = PhaseOf(job[c])
    BY <1>1, <1>4, RetryJob
  <2>2. n.result = "idle" /\ PhaseOf(n) = "storing"
    <3>1. n.pc # "idle"
      BY <2>1
    <3> QED BY <1>1, <2>1, <3>1, PhaseIs DEF OpInv
  <2>3. AbstractStep
    BY <1>1, <2>1, <2>2, Puts
  <2> QED BY <2>1, <2>3
<1>5. CASE job[c].pc = "finish" /\ job' = [job EXCEPT ![c].pc = "find"]
  <2>1. PICK n : n = [job[c] EXCEPT !.pc = "find"]
    OBVIOUS
  <2>2. /\ n \in Job /\ n.pc = "find" /\ n.at = job[c].at /\ n.walk = job[c].walk
        /\ n.op = job[c].op /\ n.data = job[c].data /\ n.up = job[c].up /\ n.stored = job[c].stored
        /\ n.buffered = job[c].buffered /\ n.result = job[c].result /\ n.tok = job[c].tok
    BY <1>1, <2>1 DEF Job, Pcs
  <2>3. Becomes(c, n)
    BY <1>1, <1>5, <2>1, <2>2, Here DEF Becomes, Typed
  <2>4. PlaceInv(n)
    BY <1>1, <1>5, <2>2 DEF PlaceInv, Placing, Sending
  <2>5. OpInv(n) /\ UploadInv(n)
    BY <1>1, <1>5, <2>2 DEF OpInv, UploadInv, Placing, Sending
  <2>6. PhaseOf(n) = "stored" /\ n.result = "idle"
    BY <2>2, <2>5, PhaseIs DEF OpInv
  <2>7. AbstractStep
    BY <1>1, <2>2, <2>3, <2>6, Puts
  <2> QED BY <1>5, <2>2, <2>3, <2>4, <2>5, <2>7 DEF Stays, Rooting
<1> QED BY <1>2, <1>3, <1>4, <1>5

LEMMA UploadAllStep ==
  ASSUME IInv, NEW c \in setup.clients, UploadAll(c)
  PROVE  IInv' /\ AbstractStep
<1>1. /\ job[c].pc \in {"all", "finish"} /\ Alive(job[c].at) /\ Store(c, job[c].data.units)
      /\ UNCHANGED <<setup, uploads, store, begun>> /\ (UNCHANGED faults \/ Fault)
      /\ (Uploaded(c) \/ Retry(c))
  BY DEF UploadAll, Answered
<1>2. /\ drive' \in Seq(Entry) /\ TreeInv' /\ Grows
      /\ Copies' = [Copies EXCEPT ![Target(job[c].op)] = @ \cup {job[c].data}]
  BY <1>1, NewFile
<1>3. AbstractStep
  BY <1>1, <1>2, Answering
<1>4. PICK n : /\ Becomes(c, n) /\ Stays(c, n) /\ n.up \in {0, job[c].up}
               /\ PlaceInv(n) /\ OpInv(n) /\ UploadInv(n)
  BY <1>1, <1>2, Answering
<1>5. PlaceInv(n)'
  BY <1>1, <1>2, <1>4, Kept DEF Becomes
<1>6. IInv'
  BY <1>1, <1>2, <1>4, <1>5, Grown
<1> QED BY <1>3, <1>6

LEMMA UploadFinishStep ==
  ASSUME IInv, NEW c \in setup.clients, UploadFinish(c)
  PROVE  IInv' /\ AbstractStep
<1>1. /\ job[c] \in Job /\ UploadInv(job[c]) /\ Typed
      /\ job[c].pc = "finish" /\ Alive(job[c].at) /\ Store(c, uploads[job[c].up].units)
      /\ UNCHANGED <<setup, store, begun>> /\ (UNCHANGED faults \/ Fault)
      /\ (Uploaded(c) \/ Retry(c) \/ job' = [job EXCEPT ![c].pc = "find"])
      /\ uploads' = [uploads EXCEPT ![job[c].up].finished = TRUE]
  BY Here DEF UploadFinish, Answered
<1>2. uploads[job[c].up].units = job[c].data.units /\ job[c].up \in DOMAIN uploads
  BY <1>1 DEF UploadInv
<1>3. /\ drive' \in Seq(Entry) /\ TreeInv' /\ Grows
      /\ Copies' = [Copies EXCEPT ![Target(job[c].op)] = @ \cup {job[c].data}]
  BY <1>1, <1>2, NewFile
<1>4. AbstractStep
  BY <1>1, <1>3, Answering
<1>5. PICK n : /\ Becomes(c, n) /\ Stays(c, n) /\ n.up \in {0, job[c].up}
               /\ PlaceInv(n) /\ OpInv(n) /\ UploadInv(n)
               /\ n.pc \in {"part", "finish"} => n.pc = job[c].pc /\ n.data = job[c].data
                                                 /\ n.up = job[c].up
  BY <1>1, <1>3, Answering
<1>6. PICK u \in DOMAIN uploads : u = job[c].up
  BY <1>2
<1>7. /\ uploads' \in Seq(Upload) /\ Len(uploads') = Len(uploads)
      /\ \A i \in DOMAIN uploads : i # u => uploads'[i] = uploads[i]
      /\ uploads'[u].units = uploads[u].units /\ DOMAIN uploads' = DOMAIN uploads
  <2>1. uploads \in Seq(Upload) /\ uploads[u] \in Upload /\ u \in 1 .. Len(uploads)
        /\ Len(uploads) \in Nat
    BY <1>1 DEF Typed
  <2>2. PICK x : x = [uploads[u] EXCEPT !.finished = TRUE]
    OBVIOUS
  <2>3. x \in Upload /\ x.units = uploads[u].units
    BY <2>1, <2>2 DEF Upload
  <2>4. uploads' = [uploads EXCEPT ![u] = x]
    BY <1>1, <1>6, <2>2
  <2> QED BY <2>1, <2>3, <2>4, ExceptSeq
<1>8. UploadsKept(c)
  <2>1. Len(uploads) \in Nat
    BY <1>1 DEF Typed
  <2> QED BY <1>6, <1>7, <2>1 DEF UploadsKept
<1>9. PlaceInv(n)' /\ OpInv(n)'
  BY <1>1, <1>3, <1>5, Kept DEF Becomes
<1>10. UploadInv(n)'
  BY <1>1, <1>5, <1>6, <1>7 DEF UploadInv
<1>11. begun' \in begun .. setup.most /\ faults' \in 0 .. setup.faults /\ begun' \in Nat
       /\ begun <= begun'
  BY <1>1, Counts
<1>12. PICK s : StoreStep(c, n, s)
  BY <1>1, <1>3, <1>5, <1>11, SameStore
<1>13. IInv'
  BY <1>1, <1>3, <1>5, <1>8, <1>9, <1>10, <1>11, <1>12, Change
<1> QED BY <1>4, <1>13

\* Chunks: the copies stay, the client goes on uploading or fails.
LEMMA Chunks ==
  ASSUME IInv, NEW c \in setup.clients, NEW n, Becomes(c, n), Stays(c, n),
         UNCHANGED <<setup, drive, store, begun>>, UNCHANGED faults \/ Fault,
         UploadsKept(c), PlaceInv(n), OpInv(n), UploadInv(n)',
         n.up \in {0, job[c].up} \/ n.up = Len(uploads) + 1
  PROVE  IInv' /\ Copies' = Copies
<1>1. drive' \in Seq(Entry) /\ TreeInv' /\ Grows
  BY SameDrive
<1>2. PlaceInv(n)' /\ OpInv(n)'
  <2>1. PlaceInv(n)'
    BY <1>1, Here, KeepPlace DEF Becomes
  <2>2. OpInv(n)'
    BY DEF OpInv
  <2> QED BY <2>1, <2>2
<1>3. begun' \in begun .. setup.most /\ faults' \in 0 .. setup.faults /\ begun' \in Nat
      /\ begun <= begun'
  BY Counts
<1>4. PICK s : StoreStep(c, n, s)
  BY <1>1, <1>3, SameStore
<1>5. IInv'
  BY <1>1, <1>2, <1>3, <1>4, Change
<1> QED BY <1>5, SameCopies

\* An attempt that has had its effect, and is made again or not.
LEMMA ChunkRetried ==
  ASSUME IInv, NEW c \in setup.clients, job[c].pc \in {"prepare", "part"}, Retry(c), Fault,
         UNCHANGED <<setup, drive, store, begun>>, UploadsKept(c),
         \A n \in Job : n.up = job[c].up /\ n.pc = job[c].pc /\ n.data = job[c].data
                        /\ n.seq = job[c].seq /\ n.block = job[c].block => UploadInv(n)'
  PROVE  IInv' /\ AbstractStep
<1>1. /\ job[c] \in Job /\ OpInv(job[c]) /\ Typed /\ job[c].pc \in Sending /\ job[c].pc # "idle"
      /\ ~job[c].stored
  BY Here DEF OpInv, Sending
<1>2. CASE Fail(c)
  <2>1. End(c, "error")
    BY <1>1, <1>2 DEF Fail
  <2>2. PICK n : n = Ended(job[c], "error")
    OBVIOUS
  <2>3. "error" \in {"ok", "error", "crash"} /\ job[c].data.by \in -2 .. begun
        /\ "error" \in {"ok", "error"}
    BY <1>1 DEF OpInv
  <2>4. /\ n \in Job /\ n.pc = "idle" /\ n.at = Top /\ n.tok = Top /\ n.up = 0 /\ n.stored = FALSE
        /\ n.buffered = FALSE /\ n.data = job[c].data
    BY <1>1, <2>2, <2>3, EndedJob
  <2>5. PlaceInv(n) /\ OpInv(n) /\ UploadInv(n)
    BY <1>1, <2>3, <2>4, EndedInv
  <2>6. Becomes(c, n)
    BY <2>1, <2>2, <2>4 DEF Becomes, End, Ended, Op
  <2>7. UploadInv(n)'
    <3>1. Len(uploads') \in Nat
      BY DEF UploadsKept
    <3> QED BY <2>4, <3>1 DEF UploadInv
  <2>8. IInv' /\ Copies' = Copies
    BY <2>4, <2>5, <2>6, <2>7, Chunks DEF Stays
  <2> QED BY <1>1, <2>2, <2>3, <2>6, <2>8, Stops
<1>3. CASE Retry(c) /\ ~Fail(c)
  <2>1. PICK n : /\ Becomes(c, n) /\ Stays(c, n) /\ n.up = job[c].up /\ n.pc = job[c].pc
                 /\ n.op = job[c].op /\ n.data = job[c].data /\ n.seq = job[c].seq
                 /\ n.block = job[c].block
                 /\ PlaceInv(n) /\ OpInv(n) /\ UploadInv(n) /\ PhaseOf(n) = PhaseOf(job[c])
    BY <1>1, <1>3, RetryJob
  <2>2. UploadInv(n)'
    BY <2>1 DEF Becomes
  <2>3. IInv' /\ Copies' = Copies
    BY <2>1, <2>2, Chunks
  <2> QED BY <1>1, <2>1, <2>3, GoesOn
<1> QED BY <1>2, <1>3

LEMMA UploadPrepareStep ==
  ASSUME IInv, NEW c \in setup.clients, UploadPrepare(c)
  PROVE  IInv' /\ AbstractStep
<1>1. /\ job[c] \in Job /\ job[c].pc = "prepare" /\ Typed /\ OpInv(job[c]) /\ PlaceInv(job[c])
      /\ UploadInv(job[c]) /\ setup \in Setups
      /\ UNCHANGED <<setup, drive, store, begun>>
      /\ uploads' = Append(uploads, [units |-> {}, finished |-> FALSE])
  BY Here DEF UploadPrepare
<1>2. PICK k : k = Len(uploads')
  OBVIOUS
<1>3. /\ uploads' \in Seq(Upload) /\ k = Len(uploads) + 1 /\ Len(uploads) \in Nat
      /\ uploads'[k].units = {} /\ DOMAIN uploads' = 1 .. k /\ DOMAIN uploads = 1 .. Len(uploads)
      /\ \A i \in DOMAIN uploads : uploads'[i] = uploads[i]
  <2>1. PICK x \in Upload : x = [units |-> {}, finished |-> FALSE]
    BY DEF Upload
  <2>2. uploads \in Seq(Upload) /\ uploads' = Append(uploads, x)
    BY <1>1, <2>1 DEF Typed
  <2> QED BY <1>2, <2>1, <2>2, AppendProperties
<1>4. UploadsKept(c)
  BY <1>2, <1>3 DEF UploadsKept
<1>5. CASE Fault /\ Retry(c)
  <2>1. \A n \in Job : n.up = job[c].up /\ n.pc = job[c].pc => UploadInv(n)'
    <3>1. job[c].up \in 0 .. k
      BY <1>1, <1>3 DEF UploadInv
    <3> QED BY <1>1, <1>2, <3>1 DEF UploadInv
  <2> QED BY <1>1, <1>4, <1>5, <2>1, ChunkRetried
<1>6. ASSUME NEW b \in setup.blocks, UNCHANGED faults,
             job' = [job EXCEPT ![c].pc = "part", ![c].try = 0,
                                ![c].up = Len(uploads'), ![c].seq = 0,
                                ![c].block = IF b = 0 THEN DefaultBlock ELSE b]
      PROVE  IInv' /\ AbstractStep
  <2>1. PICK s \in Nat \ {0} : s = IF b = 0 THEN DefaultBlock ELSE b
    <3>1. b \in Nat
      BY <1>1, SetupAssumption
    <3> QED BY <3>1, SizeAssumption
  <2>2. PICK n : n = [job[c] EXCEPT !.pc = "part", !.try = 0, !.up = k, !.seq = 0, !.block = s]
    OBVIOUS
  <2>3. /\ n \in Job /\ n.pc = "part" /\ n.at = job[c].at /\ n.walk = job[c].walk /\ n.seq = 0
        /\ n.op = job[c].op /\ n.data = job[c].data /\ n.up = k /\ n.stored = job[c].stored
        /\ n.buffered = job[c].buffered /\ n.result = job[c].result /\ n.tok = job[c].tok
        /\ n.block = s
    <3>1. "part" \in Pcs /\ 0 \in 0 .. UploadAttempts - 1 /\ k \in Nat
      BY <1>3 DEF Pcs, Sending, UploadAttempts
    <3> QED BY <1>1, <2>1, <2>2, <3>1 DEF Job
  <2>4. Becomes(c, n)
    BY <1>1, <1>2, <1>6, <2>1, <2>2, <2>3, Here DEF Becomes, Typed
  <2>5. PlaceInv(n)
    BY <1>1, <2>3 DEF PlaceInv, Placing, Sending
  <2>6. OpInv(n) /\ ~n.stored /\ ~job[c].stored
    BY <1>1, <2>3 DEF OpInv, Placing, Sending
  <2>7. UploadInv(n)'
    <3>1. \A u \in Nat : ~(u < n.seq * n.block)
      BY <2>1, <2>3
    <3>2. n.data.units \subseteq Nat
      BY <2>3, DataTyped DEF Job
    <3>3. n.up \in 0 .. Len(uploads') /\ n.up \in DOMAIN uploads' /\ uploads'[n.up].units = {}
      BY <1>2, <1>3, <2>3
    <3> QED BY <2>3, <3>1, <3>2, <3>3 DEF UploadInv
  <2>8. PhaseOf(n) = "storing" /\ PhaseOf(job[c]) = "storing"
    BY <1>1, <2>3, <2>6, PhaseIs DEF Sending
  <2>9. IInv' /\ Copies' = Copies
    BY <1>1, <1>3, <1>4, <1>6, <2>3, <2>4, <2>5, <2>6, <2>7, Chunks DEF Stays, Rooting
  <2> QED BY <1>1, <2>3, <2>4, <2>6, <2>8, <2>9, GoesOn
<1> QED BY <1>5, <1>6 DEF UploadPrepare, Answered

\* As many blocks as there are chunks hold all the units.
LEMMA ChunksSuffice ==
  ASSUME NEW size \in Nat, NEW block \in Nat \ {0}, NEW next \in Nat,
         next >= ChunkCount(size, block)
  PROVE  size <= next * block
<1>1. CASE size = 0
  <2>1. next * block >= 0
    BY Z3
  <2> QED BY <1>1, <2>1
<1>2. CASE size > 0
  <2> DEFINE x == size + block - 1
             q == x \div block
             r == x % block
  <2>1. x \in Nat /\ q \in Int /\ r \in 0 .. block - 1 /\ x = block * q + r
    OBVIOUS
  <2>2. q = ChunkCount(size, block)
    BY <1>2 DEF ChunkCount
  <2> HIDE DEF q, r
  <2>3. block * q > size - 1
    BY <2>1
  <2>4. next >= q /\ q \in Int
    BY <2>1, <2>2
  <2>5. block * q <= block * next
    BY <2>4
  <2>6. block * next = next * block /\ block * next \in Int /\ block * q \in Int
    BY <2>4
  <2> QED BY <2>3, <2>5, <2>6
<1> QED BY <1>1, <1>2

LEMMA UploadPartStep ==
  ASSUME IInv, NEW c \in setup.clients, UploadPart(c)
  PROVE  IInv' /\ AbstractStep
<1>1. PICK j \in Job : j = job[c]
  BY Here
<1>2. /\ j.pc = "part" /\ Typed /\ OpInv(j) /\ PlaceInv(j) /\ UploadInv(j)
      /\ UNCHANGED <<setup, drive, store, begun>> /\ ~j.stored
  BY <1>1, Here DEF UploadPart, OpInv
<1>3. PICK next \in Nat : next = j.seq + 1
  BY DEF Job
<1>4. PICK got : got = {u \in j.data.units : j.seq * j.block <= u /\ u < next * j.block}
  OBVIOUS
<1>5. PICK i \in DOMAIN uploads : i = j.up
  BY <1>2 DEF UploadInv
<1>6. uploads' = [uploads EXCEPT ![i].units = @ \cup got]
  BY <1>1, <1>3, <1>4, <1>5 DEF UploadPart
<1>7. j.data \in Data /\ j.data.units \subseteq Nat /\ j.block \in Nat \ {0} /\ j.seq \in Nat
  BY DataTyped DEF Job
<1>8. /\ uploads' \in Seq(Upload) /\ Len(uploads') = Len(uploads) /\ Len(uploads) \in Nat
      /\ \A k \in DOMAIN uploads : k # i => uploads'[k] = uploads[k]
      /\ uploads'[i].units = uploads[i].units \cup got /\ DOMAIN uploads' = DOMAIN uploads
      /\ i \in 0 .. Len(uploads')
  <2>1. uploads \in Seq(Upload) /\ uploads[i] \in Upload /\ i \in 1 .. Len(uploads)
        /\ Len(uploads) \in Nat
    BY <1>2 DEF Typed
  <2>2. PICK x : x = [uploads[i] EXCEPT !.units = @ \cup got]
    OBVIOUS
  <2>3. x \in Upload /\ x.units = uploads[i].units \cup got
    BY <1>4, <1>7, <2>1, <2>2 DEF Upload
  <2>4. uploads' = [uploads EXCEPT ![i] = x]
    BY <1>6, <2>2
  <2> QED BY <2>1, <2>3, <2>4, ExceptSeq
<1>9. UploadsKept(c)
  BY <1>1, <1>5, <1>8 DEF UploadsKept
<1>10. /\ uploads'[i].units \subseteq j.data.units
       /\ \A u \in j.data.units : u < next * j.block => u \in uploads'[i].units
  <2>1. /\ uploads[i].units \subseteq j.data.units
        /\ \A u \in j.data.units : u < j.seq * j.block => u \in uploads[i].units
    BY <1>2, <1>5 DEF UploadInv
  <2>2. ASSUME NEW u \in j.data.units, u < next * j.block
        PROVE  u < j.seq * j.block \/ u \in got
    <3>1. j.seq * j.block \in Nat /\ u \in Nat
      BY <1>7
    <3> QED BY <1>4, <2>2, <3>1
  <2> QED BY <1>4, <1>8, <2>1, <2>2
<1>11. CASE Fault /\ Retry(c)
  <2>1. \A n \in Job : n.up = job[c].up /\ n.pc = job[c].pc /\ n.data = job[c].data
                       /\ n.seq = job[c].seq /\ n.block = job[c].block => UploadInv(n)'
    <3>1. \A u \in j.data.units : u < j.seq * j.block => u \in uploads'[i].units
      BY <1>2, <1>5, <1>8 DEF UploadInv
    <3>2. PICK edge : edge = j.seq * j.block
      OBVIOUS
    <3> SUFFICES ASSUME NEW n \in Job, n.up = job[c].up, n.pc = job[c].pc, n.data = job[c].data,
                        n.seq = job[c].seq, n.block = job[c].block
                 PROVE  UploadInv(n)'
      OBVIOUS
    <3>3. n.seq * n.block = edge
      BY <1>1, <3>2, Zenon
    <3>4. n.up = i /\ n.pc = "part" /\ n.data = j.data
      BY <1>1, <1>2, <1>5
    <3>5. \A u \in n.data.units : u < edge => u \in uploads'[i].units
      BY <3>1, <3>2, <3>4
    <3>6. i \in 0 .. Len(uploads') /\ i \in DOMAIN uploads' /\ uploads'[i].units \subseteq n.data.units
      BY <1>8, <1>10, <3>4
    <3> QED BY <3>3, <3>4, <3>5, <3>6 DEF UploadInv
  <2> QED BY <1>1, <1>2, <1>9, <1>11, <2>1, ChunkRetried
<1>12. ASSUME UNCHANGED faults, NEW pc \in {"part", "finish"},
              pc = "finish" => next >= ChunkCount(Cardinality(j.data.units), j.block),
              job' = [job EXCEPT ![c].seq = next, ![c].try = 0, ![c].pc = pc]
       PROVE  IInv' /\ AbstractStep
  <2>1. PICK n : n = [j EXCEPT !.seq = next, !.try = 0, !.pc = pc]
    OBVIOUS
  <2>2. /\ n \in Job /\ n.pc = pc /\ n.at = j.at /\ n.walk = j.walk /\ n.seq = next
        /\ n.op = j.op /\ n.data = j.data /\ n.up = j.up /\ n.stored = j.stored
        /\ n.buffered = j.buffered /\ n.result = j.result /\ n.tok = j.tok
        /\ n.block = j.block
    <3>1. pc \in Pcs /\ 0 \in 0 .. UploadAttempts - 1
      BY DEF Pcs, Sending, UploadAttempts
    <3> QED BY <2>1, <3>1 DEF Job
  <2>3. Becomes(c, n)
    BY <1>1, <1>2, <1>12, <2>1, <2>2, Here DEF Becomes, Typed
  <2>4. PlaceInv(n)
    BY <1>2, <1>12, <2>2 DEF PlaceInv, Placing, Sending
  <2>5. OpInv(n)
    BY <1>2, <1>12, <2>2 DEF OpInv, Placing, Sending
  <2>6. ASSUME pc = "finish"
        PROVE  uploads'[i].units = j.data.units
    <3>1. PICK m \in Nat : j.data.units = Units(m)
      BY <1>7 DEF Data
    <3>2. Cardinality(Units(m)) = m
      <4>1. 0 \in Int /\ m - 1 \in Int
        OBVIOUS
      <4> QED BY <4>1, FS_Interval DEF Units
    <3>3. m <= next * j.block
      BY <1>7, <1>12, <2>6, <3>1, <3>2, ChunksSuffice
    <3>4. next * j.block \in Nat
      BY <1>7
    <3>5. \A u \in j.data.units : u < next * j.block
      BY <3>1, <3>3, <3>4 DEF Units
    <3> QED BY <1>10, <3>5
  <2>7. UploadInv(n)'
    BY <1>5, <1>8, <1>10, <1>12, <2>2, <2>6 DEF UploadInv
  <2>8. PhaseOf(n) = "storing" /\ PhaseOf(j) = "storing"
    BY <1>2, <1>12, <2>2, <2>5, PhaseIs DEF Sending
  <2>9. IInv' /\ Copies' = Copies
    BY <1>1, <1>2, <1>9, <1>12, <2>2, <2>3, <2>4, <2>5, <2>7, Chunks DEF Stays, Rooting
  <2> QED BY <1>1, <1>2, <1>12, <2>2, <2>3, <2>5, <2>8, <2>9, GoesOn
<1>13. ASSUME UNCHANGED faults,
              job' = [job EXCEPT ![c].seq = next, ![c].try = 0,
                         ![c].pc = IF next >= ChunkCount(Cardinality(j.data.units), j.block)
                                   THEN "finish" ELSE @]
       PROVE  IInv' /\ AbstractStep
  <2>1. PICK pc \in {"part", "finish"} :
           pc = IF next >= ChunkCount(Cardinality(j.data.units), j.block) THEN "finish" ELSE "part"
    OBVIOUS
  <2>2. job' = [job EXCEPT ![c].seq = next, ![c].try = 0, ![c].pc = pc]
    BY <1>1, <1>2, <1>13, <2>1
  <2> QED BY <1>12, <1>13, <2>1, <2>2
<1> QED BY <1>1, <1>3, <1>11, <1>13 DEF UploadPart, Answered

---------------------------------------------------------------------------
(* Create, and the operations that begin.                                  *)

LEMMA MoreBegun ==
  ASSUME IInv, drive' = drive, begun' = begun + 1
  PROVE  drive' \in Seq(Entry) /\ TreeInv' /\ Grows
<1>1. Typed /\ TreeInv /\ setup \in Setups
  BY DEF IInv, Typed
<1>2. begun \in Nat /\ drive' \in Seq(Entry) /\ Len(drive) \in Nat
  BY <1>1, SetupAssumption DEF Typed
<1>3. \A t \in DOMAIN drive : drive[t].data.by \in -2 .. begun => drive[t].data.by \in -2 .. begun'
  BY <1>2
<1>4. TreeInv'
  BY <1>1, <1>3 DEF TreeInv
<1> QED BY <1>2, <1>4 DEF Grows

LEMMA Starting ==
  ASSUME IInv, NEW c \in setup.clients, job[c].pc = "idle", begun < setup.most,
         begun' = begun + 1, UNCHANGED <<setup, drive, uploads, faults>>,
         NEW bufs \in SUBSET [path : Names, data : Data],
         \A b \in bufs : b.data.by \in -2 .. begun',
         store' = [store EXCEPT ![Home(c)].bufs = bufs],
         NEW op \in setup.ops, NEW n, Becomes(c, n), n.op = op, n.at = Top, n.tok = Top,
         n.up = 0, n.stored = FALSE, n.data.by \in -2 .. begun', n.buffered => op.do = "rename",
         \/ op.do = "create" /\ n.pc = "idle" /\ n.result = "ok"
         \/ op.do # "create" /\ n.pc = "root" /\ n.result = "idle"
  PROVE  IInv' /\ AbstractStep
<1>1. /\ Typed /\ job[c] \in Job /\ n \in Job /\ c \in Clients /\ OpInv(job[c]) /\ setup \in Setups
      /\ begun \in Nat /\ setup.most \in Nat /\ Home(c) \in Clients
  BY Here DEF Becomes
<1>2. drive' \in Seq(Entry) /\ TreeInv' /\ Grows /\ UploadsKept(c)
  BY MoreBegun, SameUploads
<1>3. begun' \in begun .. setup.most /\ faults' \in 0 .. setup.faults /\ begun <= begun'
      /\ begun' \in Nat
  BY <1>1 DEF Typed
<1>4. PlaceInv(n)'
  <2>1. 0 \in 0 .. Len(drive')
    BY <1>1, Tokens
  <2> QED BY <2>1 DEF PlaceInv, IsFolder, Top, Placing, Sending
<1>5. OpInv(n)' /\ UploadInv(n)'
  <2>1. 0 \in 0 .. Len(uploads')
    BY <1>1 DEF Typed
  <2>2. OpInv(n)'
    BY DEF OpInv, Placing, Sending
  <2>3. UploadInv(n)'
    BY <2>1 DEF UploadInv
  <2> QED BY <2>2, <2>3
<1>6. PICK z : StoreStep(c, n, z)
  <2>1. PICK r \in Storage : r = store[Home(c)] /\ StoreInv(r)
    BY Here
  <2>2. StoreInv(r)'
    BY <1>1, <1>2, <1>3, <2>1, KeepStore
  <2>3. PICK s : s = [r EXCEPT !.bufs = bufs]
    OBVIOUS
  <2>4. s \in Storage /\ s.once = r.once /\ s.root = r.root /\ s.failed = r.failed /\ s.bufs = bufs
    BY <2>3 DEF Storage
  <2>5. store' = [store EXCEPT ![Home(c)] = s]
    BY <2>1, <2>3, <1>1 DEF Typed
  <2>6. StoreInv(s)'
    BY <2>2, <2>4 DEF StoreInv, IsFolder, PathOf, PathIn
  <2>7. HomeInv(n, s)
    BY DEF HomeInv, Rooting
  <2>8. n.pc \notin Rooting
    BY DEF Rooting
  <2> QED BY <2>1, <2>4, <2>5, <2>6, <2>7, <2>8 DEF StoreStep
<1>7. IInv'
  BY <1>1, <1>2, <1>3, <1>4, <1>5, <1>6, Change
<1>8. /\ PhaseOf(job[c]) = "idle"
      /\ n.pc = "idle" => PhaseOf(n) = "idle"
      /\ n.pc = "root" => PhaseOf(n) = "busy"
  <2>1. PhaseOf(job[c]) = "idle"
    BY <1>1, PhaseIs
  <2>2. ASSUME n.pc = "idle"
        PROVE  PhaseOf(n) = "idle"
    BY <2>2 DEF PhaseOf, Sending
  <2>3. ASSUME n.pc = "root"
        PROVE  PhaseOf(n) = "busy"
    BY <2>3 DEF PhaseOf, Sending
  <2> QED BY <2>1, <2>2, <2>3
<1>9. /\ Doing' = [Doing EXCEPT ![c] = op]
      /\ Held' = [Held EXCEPT ![c] = n.data] /\ Held'[c] = n.data
      /\ Results' = [Results EXCEPT ![c] = n.result]
      /\ Phases' = [Phases EXCEPT ![c] = PhaseOf(n)] /\ Phases[c] = PhaseOf(job[c])
  BY <1>1, Maps
<1>10. op \in UNION {s.ops : s \in Setups}
  BY <1>1
<1>11. Held'[c] \in [by : Int, units : SUBSET Nat] /\ Held' = [Held EXCEPT ![c] = Held'[c]]
  <2>1. n.data \in Data
    BY <1>1 DEF Job
  <2> QED BY <1>9, <2>1, DataTyped
<1>12. IF op.do = "create" THEN Abstract!Ends(c, "ok") ELSE Abstract!Goes(c, "busy")
  <2>1. CASE op.do = "create"
    BY <1>8, <1>9, <2>1 DEF Abstract!Ends
  <2>2. CASE op.do # "create"
    BY <1>8, <1>9, <2>2 DEF Abstract!Goes
  <2> QED BY <2>1, <2>2
<1>13. Copies' = Copies
  BY SameCopies
<1>14. Abstract!Begin(c)
  BY <1>8, <1>9, <1>10, <1>11, <1>12, <1>13 DEF Abstract!Begin
<1> QED BY <1>1, <1>7, <1>14 DEF AbstractStep, Abstract!Next

LEMMA IdleJob ==
  /\ Idle \in Job /\ Idle.pc = "idle" /\ Idle.result = "idle" /\ Idle.data = Empty
  /\ Idle.at = Top /\ Idle.tok = Top /\ Idle.up = 0 /\ Idle.stored = FALSE
  /\ Idle.buffered = FALSE /\ Empty \in Data /\ Empty.by = -1
<1>1. << >> \in Names /\ "idle" \in Pcs /\ 0 \in 0 .. UploadAttempts - 1
  BY DEF Names, Pcs, UploadAttempts
<1>2. Empty \in Data /\ Empty.by = -1
  <2>1. {} = Units(0)
    BY DEF Units
  <2> QED BY <2>1 DEF Data, Empty
<1>3. NoOp \in Operations \cup {NoOp}
  OBVIOUS
<1>4. Idle \in Job
  BY <1>1, <1>2, <1>3 DEF Job, Idle, Top
<1> QED BY <1>2, <1>4 DEF Idle

LEMMA NewData ==
  ASSUME NEW b \in Nat, NEW size \in Nat
  PROVE  [by |-> b, units |-> Units(size)] \in Data /\ b \in -2 .. b
BY DEF Data

LEMMA CreateStep ==
  ASSUME IInv, NEW c \in setup.clients, Create(c)
  PROVE  IInv' /\ AbstractStep
<1>1. PICK op \in setup.ops :
         /\ op.do = "create"
         /\ store' = [store EXCEPT ![Home(c)].bufs =
                         {b \in @ : b.path # op.path} \cup
                         {[path |-> op.path, data |-> [by |-> begun', units |-> Units(op.size)]]}]
         /\ job' = [job EXCEPT ![c] = [Idle EXCEPT !.op = op, !.result = "ok"]]
  BY DEF Create
<1>2. /\ Typed /\ c \in Clients /\ Home(c) \in Clients /\ begun \in Nat /\ op \in Operations
      /\ job[c].pc = "idle" /\ begun < setup.most /\ begun' = begun + 1
      /\ UNCHANGED <<setup, drive, uploads, faults>>
  BY Here DEF Create
<1>3. PICK r \in Storage : r = store[Home(c)] /\ StoreInv(r)
  BY Here
<1>4. PICK x : x = [path |-> op.path, data |-> [by |-> begun', units |-> Units(op.size)]]
  OBVIOUS
<1>5. begun' \in Nat /\ op.path \in Names /\ op.size \in Nat
  BY <1>2 DEF Operations
<1>6. x \in [path : Names, data : Data] /\ x.data.by \in -2 .. begun'
  BY <1>4, <1>5, NewData
<1>7. PICK bufs : bufs = {b \in r.bufs : b.path # op.path} \cup {x}
  OBVIOUS
<1>8. bufs \in SUBSET [path : Names, data : Data]
  BY <1>6, <1>7 DEF Storage
<1>9. \A b \in bufs : b.data.by \in -2 .. begun'
  <2>1. ASSUME NEW b \in r.bufs
        PROVE  b.data.by \in -2 .. begun'
    <3>1. b.data.by \in -2 .. begun
      BY <1>3 DEF StoreInv
    <3> QED BY <3>1, <1>2
  <2> QED BY <2>1, <1>6, <1>7
<1>10. store' = [store EXCEPT ![Home(c)].bufs = bufs]
  BY <1>1, <1>3, <1>4, <1>7
<1>11. PICK n : n = [Idle EXCEPT !.op = op, !.result = "ok"]
  OBVIOUS
<1>12. -1 \in -2 .. begun'
  BY <1>5
<1>13. /\ n \in Job /\ n.pc = "idle" /\ n.op = op /\ n.data = Empty /\ n.buffered = FALSE
       /\ n.result = "ok" /\ n.at = Top /\ n.tok = Top /\ n.up = 0 /\ n.stored = FALSE
  BY <1>2, <1>11, IdleJob DEF Job
<1>14. n.data.by \in -2 .. begun'
  BY <1>12, <1>13, IdleJob
<1>15. Becomes(c, n)
  BY <1>1, <1>11, <1>13 DEF Becomes
<1> QED BY <1>1, <1>2, <1>8, <1>9, <1>10, <1>13, <1>14, <1>15, Starting

LEMMA BeginStep ==
  ASSUME IInv, NEW c \in setup.clients, Begin(c)
  PROVE  IInv' /\ AbstractStep
<1>1. /\ Typed /\ c \in Clients /\ Home(c) \in Clients /\ begun \in Nat
      /\ setup.ops \subseteq Operations
      /\ job[c].pc = "idle" /\ begun < setup.most /\ begun' = begun + 1 /\ begun' \in Nat
      /\ UNCHANGED <<setup, drive, uploads, faults>>
  BY Here DEF Begin
<1>2. PICK r \in Storage : r = store[Home(c)] /\ StoreInv(r)
  BY Here
<1>3. PICK op \in setup.ops :
         LET found == {b \in r.bufs : op.do = "rename" /\ b.path = op.path}
         IN  /\ op.do # "create"
             /\ store' = [store EXCEPT ![Home(c)].bufs = @ \ found]
             /\ \E data \in IF found # {} THEN {b.data : b \in found}
                            ELSE IF op.do = "write"
                            THEN {[by |-> begun', units |-> Units(op.size)]}
                            ELSE {Empty} :
                   job' = [job EXCEPT ![c] = [Idle EXCEPT !.pc = "root", !.op = op,
                                                          !.data = data,
                                                          !.buffered = found # {}]]
  BY <1>2 DEF Begin
<1>4. PICK found : found = {b \in r.bufs : op.do = "rename" /\ b.path = op.path}
  OBVIOUS
<1>5. PICK data \in IF found # {} THEN {b.data : b \in found}
                    ELSE IF op.do = "write" THEN {[by |-> begun', units |-> Units(op.size)]}
                    ELSE {Empty} :
         job' = [job EXCEPT ![c] = [Idle EXCEPT !.pc = "root", !.op = op, !.data = data,
                                                !.buffered = found # {}]]
  BY <1>3, <1>4
<1>6. op \in Operations /\ op.size \in Nat
  BY <1>1 DEF Operations
<1>7. \A b \in r.bufs : b \in [path : Names, data : Data] /\ b.data.by \in -2 .. begun'
  <2> SUFFICES ASSUME NEW b \in r.bufs
               PROVE  b \in [path : Names, data : Data] /\ b.data.by \in -2 .. begun'
    OBVIOUS
  <2>1. b.data.by \in -2 .. begun /\ b \in [path : Names, data : Data]
    BY <1>2 DEF StoreInv, Storage
  <2> QED BY <2>1, <1>1
<1>8. data \in Data /\ data.by \in -2 .. begun'
  <2>1. Empty \in Data /\ Empty.by = -1 /\ -1 \in -2 .. begun'
    BY <1>1, IdleJob
  <2>2. PICK d : d = [by |-> begun', units |-> Units(op.size)]
    OBVIOUS
  <2>3. d \in Data /\ d.by \in -2 .. begun'
    BY <1>1, <1>6, <2>2, NewData
  <2>4. \A b \in found : b.data \in Data /\ b.data.by \in -2 .. begun'
    BY <1>4, <1>7
  <2> QED BY <1>5, <2>1, <2>2, <2>3, <2>4
<1>9. PICK bufs : bufs = r.bufs \ found
  OBVIOUS
<1>10. bufs \in SUBSET [path : Names, data : Data] /\ \A b \in bufs : b.data.by \in -2 .. begun'
  BY <1>7, <1>9
<1>11. store' = [store EXCEPT ![Home(c)].bufs = bufs]
  BY <1>2, <1>3, <1>4, <1>9
<1>12. PICK buffered \in BOOLEAN : buffered = (found # {})
  OBVIOUS
<1>13. PICK n : n = [Idle EXCEPT !.pc = "root", !.op = op, !.data = data, !.buffered = found # {}]
  OBVIOUS
<1>14. "root" \in Pcs
  BY DEF Pcs
<1>15. /\ n \in Job /\ n.pc = "root" /\ n.op = op /\ n.data = data /\ n.buffered = buffered
       /\ n.result = "idle" /\ n.at = Top /\ n.tok = Top /\ n.up = 0 /\ n.stored = FALSE
  BY <1>6, <1>8, <1>12, <1>13, <1>14, IdleJob DEF Job
<1>16. Becomes(c, n)
  BY <1>5, <1>13, <1>15 DEF Becomes
<1>17. n.buffered => op.do = "rename"
  BY <1>4, <1>12, <1>15
<1> QED BY <1>1, <1>3, <1>8, <1>10, <1>11, <1>15, <1>16, <1>17, Starting

---------------------------------------------------------------------------
(* A crash, of all the goroutines of a Storage.                            *)

LEMMA CrashStep ==
  ASSUME IInv, NEW h \in setup.clients, Crash(h)
  PROVE  IInv' /\ AbstractStep
<1>1. PICK mine : mine = {c \in setup.clients : Home(c) = h}
  OBVIOUS
<1>2. /\ Fault /\ UNCHANGED <<setup, drive, uploads, begun>>
      /\ store' = [store EXCEPT ![h] = [once |-> "new", root |-> Top, failed |-> FALSE,
                                        bufs |-> {}]]
      /\ job' = [c \in Clients |-> IF c \in mine
                                   THEN [Idle EXCEPT !.op = Op(c), !.data = job[c].data,
                                                     !.result = "crash"]
                                   ELSE job[c]]
  BY <1>1 DEF Crash
<1>3. /\ Typed /\ TreeInv /\ setup \in Setups /\ setup.clients \subseteq Clients /\ h \in Clients
      /\ setup.home \in [setup.clients -> setup.clients]
      /\ setup.faults \in Nat /\ begun \in Nat
  BY Here, SetupAssumption
<1>4. mine \subseteq Clients
  BY <1>1, <1>3
<1>5. \A d \in Clients : d \notin mine => job'[d] = job[d]
  BY <1>2
<1>6. ASSUME NEW d \in mine
      PROVE  /\ job'[d] \in Job /\ job'[d].pc = "idle" /\ job'[d].op = job[d].op
             /\ job'[d].data = job[d].data /\ job'[d].result = "crash" /\ job'[d].at = Top
             /\ job'[d].tok = Top /\ job'[d].up = 0 /\ job'[d].stored = FALSE
             /\ job'[d].buffered = FALSE
  <2>1. PICK j \in Job : j = job[d]
    BY <1>3, <1>4 DEF Typed
  <2>2. job'[d] = [Idle EXCEPT !.op = j.op, !.data = j.data, !.result = "crash"]
    BY <1>2, <1>4, <2>1 DEF Op
  <2>3. j.op \in Operations \cup {NoOp} /\ j.data \in Data
    BY DEF Job
  <2> QED BY <2>1, <2>2, <2>3, IdleJob DEF Job
<1>7. Typed'
  <2>1. \A d \in Clients : job'[d] \in Job
    BY <1>3, <1>5, <1>6 DEF Typed
  <2>2. job' \in [Clients -> Job]
    BY <1>2, <2>1
  <2>3. PICK r : r = [once |-> "new", root |-> Top, failed |-> FALSE, bufs |-> {}]
    OBVIOUS
  <2>4. r \in Storage
    BY <2>3 DEF Storage, Top
  <2>5. store' \in [Clients -> Storage]
    BY <1>2, <1>3, <2>3, <2>4 DEF Typed
  <2>6. faults' \in 0 .. setup.faults
    BY <1>2, Counts
  <2> QED BY <1>2, <1>3, <2>2, <2>5, <2>6 DEF Typed
<1>8. drive' \in Seq(Entry) /\ TreeInv' /\ Grows
  BY <1>2, SameDrive
<1>9. ASSUME NEW d \in Clients
      PROVE  PlaceInv(job[d])' /\ OpInv(job[d])' /\ UploadInv(job[d])'
  <2>1. PICK n : n = job'[d]
    OBVIOUS
  <2>2. PlaceInv(job[d]) /\ OpInv(job[d]) /\ UploadInv(job[d])
    BY DEF IInv
  <2>3. PlaceInv(n) /\ OpInv(n) /\ UploadInv(n)
    <3>1. CASE d \in mine
      <4>1. n.data.by \in -2 .. begun
        BY <1>6, <2>1, <2>2, <3>1 DEF OpInv
      <4> QED BY <1>3, <1>6, <2>1, <3>1, <4>1, EndedInv
    <3>2. CASE d \notin mine
      BY <1>5, <2>1, <2>2, <3>2
    <3> QED BY <3>1, <3>2
  <2>4. PlaceInv(n)' /\ OpInv(n)' /\ UploadInv(n)'
    BY <1>2, <2>3, SameInvs
  <2>5. PlaceInv(job[d])'
    BY <2>1, <2>4 DEF PlaceInv
  <2>6. OpInv(job[d])' /\ UploadInv(job[d])'
    BY <2>1, <2>4 DEF OpInv, UploadInv
  <2> QED BY <2>5, <2>6
<1>10. ASSUME NEW g \in Clients
       PROVE  StoreInv(store[g])'
  <2>1. PICK r : r = store'[g]
    OBVIOUS
  <2>2. StoreInv(r)'
    <3>1. CASE g = h
      <4>1. r = [once |-> "new", root |-> Top, failed |-> FALSE, bufs |-> {}]
        BY <1>2, <1>3, <2>1, <3>1 DEF Typed
      <4> QED BY <4>1 DEF StoreInv, IsFolder
    <3>2. CASE g # h
      <4>1. r = store[g] /\ r \in Storage /\ StoreInv(r)
        BY <1>2, <1>3, <2>1, <3>2 DEF IInv, Typed
      <4>2. setup' = setup /\ begun' \in Nat /\ begun <= begun'
        BY <1>2, Counts
      <4> QED BY <1>3, <1>8, <4>1, <4>2, KeepStore
    <3> QED BY <3>1, <3>2
  <2> QED BY <2>1, <2>2 DEF StoreInv
<1>11. \A d \in Clients : job'[d].pc # "idle" => d \notin mine /\ job'[d] = job[d]
  BY <1>5, <1>6
<1>12. \A d \in setup'.clients : HomeInv(job'[d], store'[Home(d)'])
  <2> SUFFICES ASSUME NEW d \in setup.clients
               PROVE  HomeInv(job'[d], store'[Home(d)])
    BY <1>2 DEF Home
  <2>1. d \in Clients /\ Home(d) \in Clients /\ HomeInv(job[d], store[Home(d)])
    BY Here
  <2>2. CASE d \in mine
    BY <1>6, <2>2 DEF HomeInv, Rooting
  <2>3. CASE d \notin mine
    <3>1. Home(d) # h /\ job'[d] = job[d]
      BY <1>1, <1>5, <2>1, <2>3
    <3>2. store'[Home(d)] = store[Home(d)]
      BY <1>2, <1>3, <2>1, <3>1 DEF Typed
    <3> QED BY <2>1, <3>1, <3>2
  <2> QED BY <2>2, <2>3
<1>13. \A d, e \in setup'.clients : Home(d)' = Home(e)' /\ job'[d].pc \in Rooting
                                   /\ job'[e].pc \in Rooting => d = e
  <2> SUFFICES ASSUME NEW d \in setup.clients, NEW e \in setup.clients, Home(d) = Home(e),
                      job'[d].pc \in Rooting, job'[e].pc \in Rooting
               PROVE  d = e
    BY <1>2 DEF Home
  <2>1. job'[d] = job[d] /\ job'[e] = job[e]
    BY <1>3, <1>11 DEF Rooting
  <2> QED BY <2>1 DEF IInv
<1>14. \A d \in Clients : job'[d].pc # "idle" => d \in setup'.clients
  BY <1>2, <1>11 DEF IInv
<1>15. \A d, e \in Clients : job'[d].up = job'[e].up /\ job'[d].up # 0 => d = e
  <2>1. \A d \in Clients : job'[d].up # 0 => job'[d] = job[d]
    BY <1>5, <1>6
  <2> QED BY <2>1 DEF IInv
<1>16. IInv'
  BY <1>7, <1>8, <1>9, <1>10, <1>12, <1>13, <1>14, <1>15 DEF IInv
<1>17. \A d \in Clients : job'[d].op = job[d].op /\ job'[d].data = job[d].data
  BY <1>5, <1>6
<1>18. Doing' = Doing /\ Held' = Held
  BY <1>17 DEF Doing, Held, Op
<1>19. Results' = [d \in Clients |-> IF d \in mine THEN "crash" ELSE Results[d]]
  BY <1>5, <1>6 DEF Results
<1>20. Phases' = [d \in Clients |-> IF d \in mine THEN "idle" ELSE Phases[d]]
  <2>1. ASSUME NEW d \in mine
        PROVE  PhaseOf(job'[d]) = "idle"
    <3>1. PICK n : n = job'[d]
      OBVIOUS
    <3>2. n.pc = "idle" /\ n.stored = FALSE
      BY <1>6, <3>1
    <3>3. PhaseOf(n) = "idle"
      BY <3>2 DEF PhaseOf, Sending
    <3> QED BY <3>1, <3>3
  <2>2. \A d \in Clients : d \notin mine => PhaseOf(job'[d]) = PhaseOf(job[d])
    BY <1>5
  <2>3. Phases' = [d \in Clients |-> PhaseOf(job'[d])]
    BY DEF Phases, PhaseOf
  <2>4. \A d \in Clients : Phases[d] = PhaseOf(job[d])
    BY DEF Phases
  <2> QED BY <2>1, <2>2, <2>3, <2>4
<1>21. Abstract!Crash(mine)
  BY <1>2, <1>18, <1>19, <1>20, SameCopies DEF Abstract!Crash
<1> QED BY <1>4, <1>16, <1>21 DEF AbstractStep, Abstract!Next

---------------------------------------------------------------------------
(* The start.                                                              *)

LEMMA Least ==
  ASSUME NEW T \in SUBSET Nat, T # {}
  PROVE  \E x \in T : \A y \in T : ~(y < x)
<1>1. IsWellFoundedOn(OpToRel(<, Nat), Nat)
  BY NatLessThanWellFounded
<1>2. PICK x \in T : \A y \in T : ~(<<y, x>> \in OpToRel(<, Nat))
  BY <1>1, WFMin
<1>3. \A y \in T : y < x => <<y, x>> \in OpToRel(<, Nat)
  BY DEF OpToRel
<1> QED BY <1>2, <1>3

\* An entry has the folders above it, on its path.
Hangs(d, t) ==
    \A u \in d[t].above :
        /\ u \in DOMAIN d /\ u < t /\ d[u].kind = "folder"
        /\ Len(d[u].path) < Len(d[t].path)
        /\ \A n \in 1 .. Len(d[u].path) : d[t].path[n] = d[u].path[n]

LEMMA SeedHangs ==
  ASSUME NEW d \in Seq(Entry), \A t \in DOMAIN d : Placed(d, t), NEW t \in DOMAIN d
  PROVE  Hangs(d, t)
<1> DEFINE bad == {x \in DOMAIN d : ~Hangs(d, x)}
<1>1. Len(d) \in Nat /\ DOMAIN d = 1 .. Len(d) /\ \A x \in DOMAIN d : d[x] \in Entry
  OBVIOUS
<1> SUFFICES ASSUME bad # {}
             PROVE  FALSE
  OBVIOUS
<1>2. bad \in SUBSET Nat
  BY <1>1
<1> HIDE DEF bad
<1>3. PICK x \in bad : \A y \in bad : ~(y < x)
  BY <1>2, Least
<1>4. x \in DOMAIN d /\ ~Hangs(d, x) /\ x \in 1 .. Len(d) /\ d[x] \in Entry /\ Placed(d, x)
  BY <1>1, <1>3 DEF bad
<1>5. PICK p \in Nat : p = d[x].parent
  BY <1>4 DEF Entry
<1>6. p # Top
  BY <1>4, <1>5 DEF Placed, Chain, Hangs
<1>7. /\ p \in DOMAIN d /\ p < x /\ d[p] \in Entry /\ d[p].kind = "folder"
      /\ d[x].above = d[p].above \cup {p} /\ d[x].path = Append(d[p].path, Last(d[x].path))
  <2>1. p < x /\ d[p].kind = "folder"
    BY <1>4, <1>5, <1>6 DEF Placed
  <2>2. p \in DOMAIN d
    BY <1>1, <1>4, <1>6, <2>1 DEF Top
  <2> QED BY <1>1, <1>4, <1>5, <1>6, <2>1, <2>2 DEF Placed, Chain, PathIn
<1>8. p \notin bad
  BY <1>3, <1>7
<1>9. Hangs(d, p)
  BY <1>7, <1>8 DEF bad
<1>10. PICK s \in Seq(Name) : s = d[p].path
  BY <1>7 DEF Entry, Names
<1>11. d[x].path = Append(s, Last(d[x].path))
  BY <1>7, <1>10
<1>12. Len(s) \in Nat /\ Len(d[x].path) = Len(s) + 1 /\ \A n \in 1 .. Len(s) : d[x].path[n] = s[n]
  <2>1. d[x].path \in Seq(Name) /\ Len(s) \in Nat
    BY <1>4 DEF Entry, Names
  <2>2. \A last : /\ Len(Append(s, last)) = Len(s) + 1
                  /\ \A n \in 1 .. Len(s) : Append(s, last)[n] = s[n]
    OBVIOUS
  <2> QED BY <1>11, <2>1, <2>2
<1>13. ASSUME NEW u \in d[x].above
       PROVE  /\ u \in DOMAIN d /\ u < x /\ d[u].kind = "folder"
              /\ Len(d[u].path) < Len(d[x].path)
              /\ \A n \in 1 .. Len(d[u].path) : d[x].path[n] = d[u].path[n]
  <2>1. CASE u = p
    BY <2>1, <1>7, <1>10, <1>12
  <2>2. CASE u # p
    <3>1. /\ u \in DOMAIN d /\ u < p /\ d[u].kind = "folder" /\ Len(d[u].path) < Len(s)
          /\ \A n \in 1 .. Len(d[u].path) : s[n] = d[u].path[n]
      BY <2>2, <1>7, <1>9, <1>10, <1>13 DEF Hangs
    <3>2. d[u] \in Entry /\ u \in Nat /\ x \in Nat
      BY <3>1, <1>1, <1>4
    <3>3. Len(d[u].path) \in Nat
      <4>1. d[u].path \in Names
        BY <3>2 DEF Entry
      <4>2. \A z \in Seq(Name) : Len(z) \in Nat
        OBVIOUS
      <4> QED BY <4>1, <4>2 DEF Names
    <3> QED BY <3>1, <3>2, <3>3, <1>7, <1>12
  <2> QED BY <2>1, <2>2
<1> QED BY <1>4, <1>13 DEF Hangs

LEMMA InitStep ==
  ASSUME Init
  PROVE  IInv /\ Abstract!Init
<1>1. /\ setup \in Setups /\ IsSeed(setup.seed) /\ drive = setup.seed /\ uploads = << >>
      /\ begun = 0 /\ faults = 0 /\ setup.most \in Nat /\ setup.faults \in Nat
      /\ setup.clients \subseteq Clients /\ setup.home \in [setup.clients -> setup.clients]
  BY SetupAssumption DEF Init
<1>2. drive \in Seq(Entry) /\ Len(drive) \in Nat
  BY <1>1 DEF IsSeed
<1>3. job \in [Clients -> Job] /\ \A c \in Clients : job[c] = Idle
  BY IdleJob DEF Init
<1>4. PICK r \in Storage : r = [once |-> "new", root |-> Top, failed |-> FALSE, bufs |-> {}]
  BY DEF Storage, Top
<1>5. store \in [Clients -> Storage] /\ \A c \in Clients : store[c] = r
  BY <1>4 DEF Init
<1>6. Typed
  BY <1>1, <1>2, <1>3, <1>5 DEF Typed
<1>7. TreeInv
  <2>1. \A t \in DOMAIN drive : Placed(drive, t)
    BY <1>1 DEF IsSeed
  <2>2. \A t \in DOMAIN drive : Hangs(drive, t)
    BY <1>2, <2>1, SeedHangs
  <2>3. ASSUME NEW t \in DOMAIN drive
        PROVE  drive[t].data \in Data /\ drive[t].data.by \in -2 .. begun
    <3>1. PICK d \in [by : Int, units : SUBSET Nat] : d = drive[t].data
      BY <1>6, Tokens DEF Entry
    <3>2. /\ d.by \in -2 .. 0 /\ IsFiniteSet(d.units) /\ d.units = Units(Cardinality(d.units))
      BY <1>1, <3>1 DEF IsSeed
    <3>3. Cardinality(d.units) \in Nat
      BY <3>2, FS_CardinalityType
    <3> QED BY <1>1, <3>1, <3>2, <3>3 DEF Data
  <2> QED BY <2>1, <2>2, <2>3 DEF TreeInv, Hangs
<1>8. ASSUME NEW c \in Clients
      PROVE  /\ PlaceInv(job[c]) /\ OpInv(job[c]) /\ UploadInv(job[c]) /\ StoreInv(store[c])
             /\ job[c].pc = "idle" /\ job[c].up = 0
  <2>1. -1 \in -2 .. begun
    BY <1>1
  <2>2. PlaceInv(job[c]) /\ OpInv(job[c]) /\ UploadInv(job[c])
    BY <1>3, <1>6, <2>1, IdleJob, EndedInv
  <2>3. StoreInv(r)
    BY <1>4 DEF StoreInv, IsFolder
  <2> QED BY <1>3, <1>5, <2>2, <2>3, IdleJob
<1>9. \A c \in setup.clients : c \in Clients /\ HomeInv(job[c], store[Home(c)])
  BY <1>1, <1>8 DEF HomeInv, Rooting
<1>10. IInv
  BY <1>6, <1>7, <1>8, <1>9 DEF IInv, Rooting
<1>11. Copies \in [Paths -> SUBSET [by : Int, units : SUBSET Nat]]
  <2>1. ASSUME NEW t \in DOMAIN drive
        PROVE  drive[t].data \in [by : Int, units : SUBSET Nat]
    BY <1>6, Tokens DEF Entry
  <2>2. \A p : FilesAt(p) \subseteq DOMAIN drive
    BY DEF FilesAt
  <2> QED BY <2>1, <2>2 DEF Copies
<1>12. Results = [c \in Clients |-> "idle"]
  BY <1>3, IdleJob DEF Results
<1>13. Phases = [c \in Clients |-> "idle"]
  <2>1. PhaseOf(Idle) = "idle"
    BY IdleJob DEF PhaseOf, Sending
  <2>2. \A c \in Clients : PhaseOf(job[c]) = "idle"
    BY <1>3, <2>1
  <2> QED BY <2>2 DEF Phases
<1> QED BY <1>10, <1>11, <1>12, <1>13, PathsTyped DEF Abstract!Init

---------------------------------------------------------------------------
(* Every step.                                                             *)

LEMMA StepOf ==
  ASSUME IInv, NEW c \in setup.clients, Step(c)
  PROVE  IInv' /\ AbstractStep
BY UseRootStep, EnterOnceStep, FindAppRootStep, LeaveOnceStep, EnsureFolderStep,
   CreateFolderStep, FolderUnansweredStep, EnsuredStep, ResolveNameStep, ResolveLastStep,
   DownloadStep, CreateTaskStep, PollStep, LookUpStep, DropStep, PostFailsStep, UploadAllStep,
   UploadPrepareStep, UploadPartStep, UploadFinishStep, FindUploadedStep, RemoveByTokenStep,
   RefusedStep DEF Step

LEMMA NextStep ==
  ASSUME IInv, [Next]_vars
  PROVE  IInv' /\ AbstractStep
<1>1. ASSUME NEW c \in setup.clients, Create(c)
      PROVE  IInv' /\ AbstractStep
  BY <1>1, CreateStep
<1>2. ASSUME NEW c \in setup.clients, Begin(c)
      PROVE  IInv' /\ AbstractStep
  BY <1>2, BeginStep
<1>3. ASSUME NEW c \in setup.clients, Step(c)
      PROVE  IInv' /\ AbstractStep
  BY <1>3, StepOf
<1>4. ASSUME NEW c \in setup.clients, TaskEnds(c)
      PROVE  IInv' /\ AbstractStep
  BY <1>4, TaskEndsStep
<1>5. ASSUME NEW h \in setup.clients, Crash(h)
      PROVE  IInv' /\ AbstractStep
  BY <1>5, CrashStep
<1>6. CASE UNCHANGED vars
  <2>1. UNCHANGED <<setup, drive, uploads, store, job, begun, faults>>
    BY <1>6 DEF vars
  <2>2. Copies' = Copies
    BY <2>1, SameCopies
  <2>3. Doing' = Doing /\ Held' = Held /\ Results' = Results
    BY <2>1 DEF Doing, Held, Results, Op
  <2>4. Phases' = Phases
    BY <2>1 DEF Phases, PhaseOf
  <2>5. IInv'
    <3>1. Typed' /\ TreeInv'
      BY <2>1, SameDrive DEF IInv, Typed
    <3>2. ASSUME NEW c \in Clients
          PROVE  PlaceInv(job[c])' /\ OpInv(job[c])' /\ UploadInv(job[c])' /\ StoreInv(store[c])'
      BY <2>1 DEF IInv, PlaceInv, OpInv, UploadInv, StoreInv, IsFolder, PathOf, PathIn, Full, Leads
    <3>3. \A c : Home(c)' = Home(c)
      BY <2>1 DEF Home
    <3> QED BY <2>1, <3>1, <3>2, <3>3 DEF IInv
  <2> QED BY <2>2, <2>3, <2>4, <2>5 DEF AbstractStep, Abstract!vars
<1> QED BY <1>1, <1>2, <1>3, <1>4, <1>5, <1>6 DEF Next

LEMMA Types ==
  ASSUME IInv
  PROVE  TypeOK
<1>1. /\ Typed /\ TreeInv /\ Len(drive) \in Nat
      /\ \A t : IsFolder(t) => t \in 0 .. Len(drive)
  BY Tokens DEF IInv
<1>2. ASSUME NEW c \in Clients
      PROVE  /\ store[c].once \in {"new", "busy", "done"}
             /\ store[c].root \in 0 .. Len(drive)
             /\ job[c].at \in 0 .. Len(drive) /\ job[c].tok \in 0 .. Len(drive)
             /\ job[c].try \in 0 .. UploadAttempts - 1
             /\ job[c].up \in 0 .. Len(uploads)
             /\ job[c].result \in {"idle", "ok", "error", "crash"}
  <2>1. job[c] \in Job /\ store[c] \in Storage
    BY <1>1 DEF Typed
  <2>2. /\ IsFolder(job[c].at) /\ job[c].tok \in 0 .. Len(drive) /\ job[c].up \in 0 .. Len(uploads)
        /\ IsFolder(store[c].root)
    BY DEF IInv, PlaceInv, UploadInv, StoreInv
  <2> QED BY <1>1, <2>1, <2>2 DEF Job, Storage
<1> QED BY <1>1, <1>2 DEF TypeOK, Typed, TreeInv

(***************************************************************************)
(* What the code keeps of a drive that it shares: whatever fails and       *)
(* whoever works on it, what an operation, a Storage or an upload refers   *)
(* to is there and is what the operation has looked for.                   *)
(***************************************************************************)
THEOREM InvCorrect == Spec => []IInv
<1>1. Init => IInv
  BY InitStep
<1>2. IInv /\ [Next]_vars => IInv'
  BY NextStep
<1> QED BY <1>1, <1>2, PTL DEF Spec

(***************************************************************************)
(* The types: tokens, uploads and attempts are what the code can have, the *)
(* drive is a tree.                                                        *)
(***************************************************************************)
THEOREM TypeCorrect == Spec => []TypeOK
<1>1. IInv => TypeOK
  BY Types
<1> QED BY <1>1, InvCorrect, PTL

(***************************************************************************)
(* Lark's storage implements NamedFiles, for any drive, clients, failures  *)
(* and crashes: a write removes one file of its name at most, stores all   *)
(* of its data before it returns no error, and touches no other name.      *)
(***************************************************************************)
THEOREM Refinement == Spec => ImplementsNamedFiles
<1>1. Init => Abstract!Init
  BY InitStep
<1>2. IInv /\ [Next]_vars => [Abstract!Next]_(Abstract!vars)
  BY NextStep DEF AbstractStep
<1> QED BY <1>1, <1>2, InvCorrect, PTL DEF Spec, ImplementsNamedFiles, Abstract!Spec

=============================================================================
