---------------------------- MODULE LarkAloneProofs ----------------------------
(***************************************************************************)
(* One client alone on a drive, of any content, whose calls fail: what     *)
(* names lead to.  Each folder is made once, a name leads to no more files *)
(* than calls have failed and one, and to what was written last.           *)
(***************************************************************************)
EXTENDS LarkStorageProofs

OneFolder ==
    \A s, t \in DOMAIN drive :
        /\ s # t /\ Alive(s) /\ Alive(t)
        /\ drive[s].kind = "folder" /\ drive[t].kind = "folder"
        /\ PathOf(s) = PathOf(t)
        => Mistaken(PathOf(s))

Bounded == \A p \in Paths : Shadowed(p) \/ Cardinality(FilesAt(p)) <= 1 + faults

\* Something that is no folder is, or was, under the name.
Was(path) == \E t \in DOMAIN drive : drive[t].kind # "folder" /\ drive[t].path = Full(path)

\* What the client has stored is all that its name leads to.
Stored(j) == Shadowed(Target(j.op)) \/ {drive[t].data : t \in FilesAt(Target(j.op))} = {j.data}

Wrote(op) == op.do \in {"write", "rename"} /\ op.to # op.path

\* What the only client knows of the drive.
SoleInv(j) ==
    /\ Alive(j.at)
    /\ j.pc \in {"make", "rootmake"} =>
          \A t \in Entries(j.at, Head(j.walk)) : drive[t].kind = "folder" => Mistaken(PathOf(t))
    /\ j.pc = "drop" => Shadowed(Target(j.op)) \/ j.tok \in FilesAt(Target(j.op))
    /\ j.pc \in Sending =>
          Shadowed(Target(j.op)) \/ Cardinality(FilesAt(Target(j.op))) <= faults
    /\ j.stored => ~j.buffered
    /\ faults = 0 /\ (j.stored \/ j.pc = "find" \/ (j.result = "ok" /\ Wrote(j.op))) => Stored(j)
    /\ j.op.do = "rename" /\ ~j.buffered /\
       (j.stored \/ j.pc \in {"type", "get", "export", "poll", "fetch", "ensure", "make"} \cup Placing)
          => Was(j.op.path)

\* What holds of a client alone.
SafeInv == /\ OneFolder /\ Bounded
           /\ \A c \in setup.clients : SoleInv(job[c]) /\ Alive(store[Home(c)].root)

AloneInv == Alone => SafeInv

---------------------------------------------------------------------------
(* The drive, after a change.                                              *)

\* A path with a name more.
LEMMA Longer == \A s \in Seq(Name) : \A x : Append(s, x) # << >>
<1> SUFFICES ASSUME NEW s \in Seq(Name), NEW x
             PROVE  Append(s, x) # << >>
  OBVIOUS
<1>1. Len(Append(s, x)) = Len(s) + 1 /\ Len(s) \in Nat /\ Len(<< >>) = 0
  OBVIOUS
<1> QED BY <1>1

\* What an entry is called.
LEMMA PathIs ==
  ASSUME Typed, NEW t \in DOMAIN drive
  PROVE  PathOf(t) = drive[t].path /\ t # Top /\ drive[t].path \in Names /\ t \in Nat
BY Tokens DEF PathOf, PathIn, Top, Entry

LEMMA Files ==
  ASSUME Typed, NEW p
  PROVE  IsFiniteSet(FilesAt(p)) /\ Cardinality(FilesAt(p)) \in Nat
<1>1. FilesAt(p) \subseteq 1 .. Len(drive) /\ Len(drive) \in Nat
  BY Tokens DEF FilesAt
<1>2. IsFiniteSet(1 .. Len(drive))
  BY <1>1, FS_Interval
<1>3. IsFiniteSet(FilesAt(p))
  BY <1>1, <1>2, FS_Subset
<1> QED BY <1>3, FS_CardinalityType

\* What has been mistaken or shadowed stays so.
LEMMA Remains ==
  ASSUME Typed, Grows, setup' = setup
  PROVE  /\ \A t \in DOMAIN drive : t \in DOMAIN drive' /\ PathOf(t)' = PathOf(t)
         /\ \A p : Mistaken(p) => Mistaken(p)'
         /\ \A p : Shadowed(p) => Shadowed(p)'
         /\ \A p : Was(p) => Was(p)'
<1>1. \A t \in DOMAIN drive : /\ t \in DOMAIN drive' /\ PathOf(t)' = PathOf(t)
                              /\ drive'[t].kind = drive[t].kind /\ drive'[t].path = drive[t].path
  BY DEF Grows, PathOf, PathIn
<1>2. ASSUME NEW p, Mistaken(p)
      PROVE  Mistaken(p)'
  BY <1>1, <1>2 DEF Mistaken
<1>3. ASSUME NEW p, Shadowed(p)
      PROVE  Shadowed(p)'
  BY <1>1, <1>2, <1>3 DEF Shadowed
<1>4. ASSUME NEW p, Was(p)
      PROVE  Was(p)'
  BY <1>1, <1>4 DEF Was, Full
<1> QED BY <1>1, <1>2, <1>3, <1>4

\* A new entry: the others are as they were.
HasNew(k, at, name, kind, data) ==
    /\ Grows /\ DOMAIN drive' = DOMAIN drive \cup {k} /\ k \notin DOMAIN drive
    /\ k \in Nat \ {0}
    /\ \A t \in DOMAIN drive : drive'[t] = drive[t]
    /\ \A t \in {Top} \cup DOMAIN drive : Alive(t)' = Alive(t) /\ PathOf(t)' = PathOf(t)
    /\ Alive(k)' = Alive(at) /\ PathOf(k)' = Append(PathOf(at), name)
    /\ drive'[k].kind = kind /\ drive'[k].data = data /\ drive'[k].parent = at

LEMMA Added ==
  ASSUME Typed, TreeInv, NEW at, IsFolder(at), NEW name \in Name, NEW kind \in Kinds,
         NEW data \in Data, data.by \in -2 .. begun, begun' = begun, setup' = setup,
         Add(at, name, kind, data), NEW k, k = Len(drive')
  PROVE  HasNew(k, at, name, kind, data)
<1>1. /\ drive' \in Seq(Entry) /\ Grows /\ k = Len(drive) + 1
      /\ drive'[k].parent = at /\ drive'[k].above = Chain(drive, at)
      /\ drive'[k].path = Append(PathOf(at), name)
      /\ drive'[k].kind = kind /\ drive'[k].data = data /\ drive'[k].live
      /\ \A t \in DOMAIN drive : drive'[t] = drive[t]
  BY AddTree
<1>2. /\ Len(drive) \in Nat /\ DOMAIN drive = 1 .. Len(drive)
      /\ k \notin DOMAIN drive /\ k \in Nat \ {0} /\ DOMAIN drive' = DOMAIN drive \cup {k}
  <2>1. Len(drive) \in Nat /\ DOMAIN drive = 1 .. Len(drive)
    BY Tokens
  <2>2. DOMAIN drive' = 1 .. k
    <3>1. \A q \in Seq(Entry) : DOMAIN q = 1 .. Len(q)
      OBVIOUS
    <3> QED BY <1>1, <3>1
  <2> QED BY <1>1, <2>1, <2>2
<1>3. ASSUME NEW t \in {Top} \cup DOMAIN drive
      PROVE  /\ Alive(t)' = Alive(t) /\ PathOf(t)' = PathOf(t)
             /\ Chain(drive', t) = Chain(drive, t) /\ Chain(drive, t) \subseteq DOMAIN drive
  <2>1. Chain(drive', t) = Chain(drive, t) /\ PathOf(t)' = PathOf(t)
    BY <1>1 DEF Chain, PathOf, PathIn
  <2>2. Chain(drive, t) \subseteq DOMAIN drive
    BY DEF Chain, TreeInv
  <2> QED BY <1>1, <2>1, <2>2 DEF Alive
<1>4. at \in {Top} \cup DOMAIN drive
  BY DEF IsFolder
<1>5. Chain(drive', k) = Chain(drive, at) \cup {k} /\ PathOf(k)' = Append(PathOf(at), name)
  BY <1>1, <1>2 DEF Chain, PathOf, PathIn, Top
<1>6. Alive(k)' = Alive(at)
  <2>1. \A u \in Chain(drive, at) : drive'[u] = drive[u]
    BY <1>1, <1>3, <1>4
  <2> QED BY <1>1, <1>5, <2>1 DEF Alive
<1> QED BY <1>1, <1>2, <1>3, <1>5, <1>6 DEF HasNew

\* An entry is deleted, and with it what is in it.
LEMMA Deleted ==
  ASSUME Typed, TreeInv, NEW t \in DOMAIN drive, Delete(t), begun' = begun, setup' = setup
  PROVE  /\ Grows /\ DOMAIN drive' = DOMAIN drive
         /\ \A u \in {Top} \cup DOMAIN drive :
               /\ Alive(u)' <=> Alive(u) /\ t \notin Chain(drive, u)
               /\ PathOf(u)' = PathOf(u)
         /\ \A p : FilesAt(p)' = {u \in FilesAt(p) : t \notin Chain(drive, u)}
<1>1. /\ drive' \in Seq(Entry) /\ DOMAIN drive' = DOMAIN drive /\ ~drive'[t].live /\ Grows
      /\ \A u \in DOMAIN drive : u # t => drive'[u] = drive[u]
  BY DeleteTree
<1>2. ASSUME NEW u \in {Top} \cup DOMAIN drive
      PROVE  /\ Chain(drive', u) = Chain(drive, u) /\ Chain(drive, u) \subseteq DOMAIN drive
             /\ PathOf(u)' = PathOf(u)
  <2>1. Chain(drive', u) = Chain(drive, u) /\ PathOf(u)' = PathOf(u)
    BY <1>1 DEF Chain, PathOf, PathIn, Grows
  <2>2. Chain(drive, u) \subseteq DOMAIN drive
    BY DEF Chain, TreeInv
  <2> QED BY <2>1, <2>2
<1>3. ASSUME NEW u \in {Top} \cup DOMAIN drive
      PROVE  Alive(u)' <=> Alive(u) /\ t \notin Chain(drive, u)
  BY <1>1, <1>2 DEF Alive
<1>4. ASSUME NEW p
      PROVE  FilesAt(p)' = {u \in FilesAt(p) : t \notin Chain(drive, u)}
  <2>1. \A u \in DOMAIN drive : drive'[u].kind = drive[u].kind
    BY <1>1 DEF Grows
  <2> QED BY <1>1, <1>2, <1>3, <2>1 DEF FilesAt
<1> QED BY <1>1, <1>2, <1>3, <1>4

---------------------------------------------------------------------------
(* Folders of one name.                                                    *)

\* A mistaken path is mistaken in all that is below.
LEMMA Below ==
  ASSUME NEW p \in Names, NEW name \in Name, Mistaken(p)
  PROVE  Mistaken(Append(p, name))
<1>1. PICK t \in DOMAIN drive, n \in 1 .. Len(p) :
         drive[t].kind # "folder" /\ PathOf(t) = SubSeq(p, 1, n)
  BY DEF Mistaken
<1>2. p \in Seq(Name) /\ Append(p, name) \in Seq(Name) /\ Len(Append(p, name)) = Len(p) + 1
      /\ Len(p) \in Nat
  BY DEF Names
<1>3. n \in 1 .. Len(Append(p, name))
  BY <1>2
<1>4. SubSeq(Append(p, name), 1, n) = SubSeq(p, 1, n)
  BY <1>2
<1> QED BY <1>1, <1>3, <1>4 DEF Mistaken

\* Its own name may be what is mistaken.
LEMMA Named ==
  ASSUME Typed, NEW t \in DOMAIN drive, drive[t].kind # "folder"
  PROVE  Mistaken(PathOf(t)) \/ PathOf(t) = << >>
<1>1. PICK p \in Seq(Name) : p = PathOf(t)
  BY PathIs DEF Names
<1>2. CASE p # << >>
  <2>1. Len(p) \in 1 .. Len(p) /\ SubSeq(p, 1, Len(p)) = p
    BY <1>2
  <2> QED BY <1>1, <2>1 DEF Mistaken
<1> QED BY <1>1, <1>2

\* An entry in a folder, when no folder is there twice: it is in the one that
\* the client has come to.
LEMMA InFolder ==
  ASSUME Typed, TreeInv, OneFolder, NEW at, IsFolder(at), Alive(at), NEW name \in Name,
         NEW t \in DOMAIN drive, Alive(t), PathOf(t) = Append(PathOf(at), name)
  PROVE  t \in Entries(at, name) \/ Mistaken(PathOf(at))
<1>1. PICK p : p = drive[t].parent
  OBVIOUS
<1>2. Placed(drive, t) /\ PathOf(t) = drive[t].path
  BY PathIs DEF TreeInv
<1>3. /\ p = Top \/ p \in DOMAIN drive
      /\ p # Top => drive[p].kind = "folder"
      /\ drive[t].path = Append(PathOf(p), Last(drive[t].path))
      /\ drive[t].above = Chain(drive, p)
  BY <1>1, <1>2, ParentOf DEF Placed, PathOf
<1>4. IsFolder(p)
  BY <1>3 DEF IsFolder
<1>5. PathOf(p) \in Names /\ PathOf(at) \in Names
  BY <1>4, Tokens
<1>6. PathOf(p) = PathOf(at)
  <2>1. \A a, b \in Seq(Name) : \A x, y : Append(a, x) = Append(b, y) => a = b
    <3> SUFFICES ASSUME NEW a \in Seq(Name), NEW b \in Seq(Name), NEW x, NEW y,
                        Append(a, x) = Append(b, y)
                 PROVE  a = b
      OBVIOUS
    <3>1. Len(a) \in Nat /\ Len(b) \in Nat
      OBVIOUS
    <3>2. Len(Append(a, x)) = Len(a) + 1 /\ Len(Append(b, y)) = Len(b) + 1
      OBVIOUS
    <3>3. Len(a) = Len(b)
      BY <3>1, <3>2
    <3>4. \A n \in 1 .. Len(a) : Append(a, x)[n] = a[n] /\ Append(b, y)[n] = b[n]
      BY <3>3
    <3> QED BY <3>3, <3>4
  <2>2. PICK x : x = Last(drive[t].path)
    OBVIOUS
  <2>3. Append(PathOf(p), x) = Append(PathOf(at), name)
    BY <1>2, <1>3, <2>2
  <2>4. PathOf(p) \in Seq(Name) /\ PathOf(at) \in Seq(Name)
    BY <1>5 DEF Names
  <2> QED BY <2>1, <2>3, <2>4
<1>7. Alive(p)
  BY <1>3, PathIs DEF Alive, Chain
<1>8. CASE p = at
  BY <1>1, <1>2, <1>8 DEF Entries
<1>9. CASE p # at /\ p # Top /\ at # Top
  BY <1>3, <1>6, <1>7, <1>9 DEF OneFolder, IsFolder
<1>10. CASE p # at /\ (p = Top \/ at = Top)
  <2>1. \A u \in DOMAIN drive : PathOf(u) # << >>
    <3> SUFFICES ASSUME NEW u \in DOMAIN drive
                 PROVE  PathOf(u) # << >>
      OBVIOUS
    <3>1. PathOf(u) = drive[u].path /\ Placed(drive, u)
      BY PathIs DEF TreeInv
    <3>2. drive[u].path = Append(PathOf(drive[u].parent), Last(drive[u].path))
      BY <3>1 DEF Placed, PathOf
    <3>3. PathOf(drive[u].parent) \in Seq(Name)
      <4>1. IsFolder(drive[u].parent)
        BY <3>1, ParentOf DEF IsFolder, Placed
      <4> QED BY <4>1, Tokens DEF Names
    <3> QED BY <3>1, <3>2, <3>3, Longer
  <2>2. PathOf(Top) = << >>
    BY DEF PathOf, PathIn
  <2> QED BY <1>3, <1>6, <1>10, <2>1, <2>2 DEF IsFolder
<1> QED BY <1>8, <1>9, <1>10

\* OneFolder, after a change.
LEMMA OneFolderFile ==
  ASSUME Typed, OneFolder, setup' = setup, Grows, NEW k, DOMAIN drive' \subseteq DOMAIN drive \cup {k},
         k \in DOMAIN drive' => k \in DOMAIN drive \/ drive'[k].kind # "folder",
         \A t \in DOMAIN drive : Alive(t)' => Alive(t)
  PROVE  OneFolder'
<1> SUFFICES ASSUME NEW s \in DOMAIN drive', NEW t \in DOMAIN drive', s # t, Alive(s)', Alive(t)',
                    drive'[s].kind = "folder", drive'[t].kind = "folder", PathOf(s)' = PathOf(t)'
             PROVE  Mistaken(PathOf(s))'
  BY DEF OneFolder
<1>1. s \in DOMAIN drive /\ t \in DOMAIN drive
  OBVIOUS
<1>2. PathOf(s)' = PathOf(s) /\ PathOf(t)' = PathOf(t)
      /\ drive[s].kind = "folder" /\ drive[t].kind = "folder"
  BY <1>1, Remains DEF Grows
<1>3. PICK q : q = PathOf(s)
  OBVIOUS
<1>4. Mistaken(q)
  BY <1>1, <1>2, <1>3 DEF OneFolder
<1>5. Mistaken(q)'
  BY <1>4, Remains
<1> QED BY <1>2, <1>3, <1>5 DEF Mistaken

LEMMA OneFolderSame ==
  ASSUME OneFolder, setup' = setup, drive' = drive
  PROVE  OneFolder'
BY DEF OneFolder, Alive, Chain, PathOf, PathIn, Mistaken

\* ensureFolder makes a folder that it has not found.
LEMMA OneFolderMade ==
  ASSUME Typed, TreeInv, OneFolder, NEW at, IsFolder(at), Alive(at), NEW name \in Name,
         \A t \in Entries(at, name) : drive[t].kind = "folder" => Mistaken(PathOf(t)),
         begun \in Nat, begun' = begun, setup' = setup, Add(at, name, "folder", Empty)
  PROVE  OneFolder'
<1>1. "folder" \in Kinds /\ Empty \in Data /\ Empty.by \in -2 .. begun
  BY IdleJob DEF Kinds
<1>2. PICK k : k = Len(drive')
  OBVIOUS
<1>3. /\ Grows /\ DOMAIN drive' = DOMAIN drive \cup {k} /\ k \notin DOMAIN drive
      /\ \A t \in DOMAIN drive : drive'[t] = drive[t]
      /\ \A t \in {Top} \cup DOMAIN drive : Alive(t)' = Alive(t) /\ PathOf(t)' = PathOf(t)
      /\ PathOf(k)' = Append(PathOf(at), name)
  <2>1. HasNew(k, at, name, "folder", Empty)
    BY <1>1, <1>2, Added
  <2> QED BY <2>1 DEF HasNew
<1>4. PathOf(at) \in Names
  BY Tokens
<1>5. ASSUME NEW t \in DOMAIN drive, Alive(t), drive[t].kind = "folder", PathOf(t) = PathOf(k)'
      PROVE  Mistaken(PathOf(t))
  <2>1. t \in Entries(at, name) \/ Mistaken(PathOf(at))
    BY <1>3, <1>5, InFolder
  <2> QED BY <1>3, <1>4, <1>5, <2>1, Below
<1> SUFFICES ASSUME NEW s \in DOMAIN drive', NEW t \in DOMAIN drive', s # t, Alive(s)', Alive(t)',
                    drive'[s].kind = "folder", drive'[t].kind = "folder", PathOf(s)' = PathOf(t)'
             PROVE  Mistaken(PathOf(s))'
  BY DEF OneFolder
<1>6. PICK q : q = PathOf(s)'
  OBVIOUS
<1>7. Mistaken(q)
  <2>1. CASE s = k
    <3>1. t \in DOMAIN drive /\ Alive(t) /\ drive[t].kind = "folder" /\ PathOf(t) = q
      BY <1>3, <1>6, <2>1
    <3> QED BY <1>5, <1>6, <2>1, <3>1
  <2>2. CASE t = k
    <3>1. s \in DOMAIN drive /\ Alive(s) /\ drive[s].kind = "folder" /\ PathOf(s) = q
      BY <1>3, <1>6, <2>2
    <3> QED BY <1>5, <1>6, <2>2, <3>1
  <2>3. CASE s # k /\ t # k
    <3>1. /\ s \in DOMAIN drive /\ Alive(s) /\ drive[s].kind = "folder" /\ PathOf(s) = q
          /\ t \in DOMAIN drive /\ Alive(t) /\ drive[t].kind = "folder" /\ PathOf(t) = q
      BY <1>3, <1>6, <2>3
    <3> QED BY <3>1 DEF OneFolder
  <2> QED BY <2>1, <2>2, <2>3
<1>8. Mistaken(q)'
  BY <1>3, <1>7, Remains
<1> QED BY <1>6, <1>8 DEF Mistaken

---------------------------------------------------------------------------
(* Files of one name.                                                      *)

LEMMA BoundedSame ==
  ASSUME IInv, Bounded, setup' = setup, drive' = drive, UNCHANGED faults \/ Fault
  PROVE  Bounded'
<1>1. \A p : Shadowed(p)' = Shadowed(p)
  BY DEF Shadowed, Mistaken, PathOf, PathIn
<1>2. \A p : FilesAt(p)' = FilesAt(p)
  BY DEF FilesAt, Alive, Chain, PathOf, PathIn
<1>3. \A p : Cardinality(FilesAt(p)) \in Nat
  BY Files DEF IInv
<1>4. faults \in Nat /\ faults' \in Nat /\ faults <= faults'
  BY SetupAssumption DEF IInv, Typed, Fault
<1> QED BY <1>1, <1>2, <1>3, <1>4 DEF Bounded

LEMMA BoundedLess ==
  ASSUME IInv, Bounded, Grows, setup' = setup, UNCHANGED faults \/ Fault,
         \A p \in Paths : FilesAt(p)' \subseteq FilesAt(p)
  PROVE  Bounded'
<1>1. \A p : Shadowed(p) => Shadowed(p)'
  BY Remains DEF IInv
<1>2. faults \in Nat /\ faults' \in Nat /\ faults <= faults'
  BY SetupAssumption DEF IInv, Typed, Fault
<1>3. ASSUME NEW p \in Paths
      PROVE  /\ Cardinality(FilesAt(p)) \in Nat /\ Cardinality(FilesAt(p)') \in Nat
             /\ Cardinality(FilesAt(p)') <= Cardinality(FilesAt(p))
  <2>1. IsFiniteSet(FilesAt(p)) /\ Cardinality(FilesAt(p)) \in Nat
    BY Files DEF IInv
  <2>2. IsFiniteSet(FilesAt(p)') /\ Cardinality(FilesAt(p)') <= Cardinality(FilesAt(p))
    BY <2>1, FS_Subset
  <2> QED BY <2>1, <2>2, FS_CardinalityType
<1> QED BY <1>1, <1>2, <1>3 DEF Bounded

---------------------------------------------------------------------------
(* Steps of the client that leave the drive alone.                         *)

\* What holds of the one client.
LEMMA Sole ==
  ASSUME IInv, SafeInv, NEW c, setup.clients = {c}
  PROVE  /\ c \in setup.clients /\ job[c] \in Job /\ OpInv(job[c]) /\ PlaceInv(job[c])
         /\ OneFolder /\ Bounded /\ SoleInv(job[c]) /\ Alive(store[Home(c)].root)
         /\ Typed /\ TreeInv /\ c \in Clients /\ job \in [Clients -> Job]
         /\ faults \in Nat /\ Alive(Top)
<1>1. c \in setup.clients
  OBVIOUS
<1>2. OneFolder /\ Bounded /\ SoleInv(job[c]) /\ Alive(store[Home(c)].root)
  BY <1>1 DEF SafeInv
<1>3. Alive(Top)
  BY DEF Alive, Chain
<1> QED BY <1>1, <1>2, <1>3, Here DEF Typed

LEMMA Turn ==
  ASSUME NEW c, setup.clients = {c}, setup' = setup, OneFolder', Bounded',
         NEW n, job'[c] = n, SoleInv(n)', NEW r, store'[Home(c)].root = r, Alive(r)'
  PROVE  SafeInv'
<1>1. SoleInv(job[c])'
  BY DEF SoleInv
<1>2. Alive(store[Home(c)].root)'
  BY DEF Alive, Home
<1> QED BY <1>1, <1>2 DEF SafeInv

LEMMA Calm ==
  ASSUME IInv, UNCHANGED <<setup, drive>>, UNCHANGED faults \/ Fault
  PROVE  /\ \A n : SoleInv(n) => SoleInv(n)'
         /\ \A t : Alive(t) => Alive(t)'
<1>1. \A t : Alive(t)' = Alive(t)
  BY DEF Alive, Chain
<1>2. \A p : Mistaken(p)' = Mistaken(p) /\ Shadowed(p)' = Shadowed(p) /\ Was(p)' = Was(p)
  BY DEF Mistaken, Shadowed, Was, Full, PathOf, PathIn
<1>3. \A p : FilesAt(p)' = FilesAt(p) /\ Cardinality(FilesAt(p)) \in Nat
  BY <1>1, Files DEF IInv, FilesAt, PathOf, PathIn
<1>4. faults \in Nat /\ faults' \in Nat /\ faults <= faults'
  BY SetupAssumption DEF IInv, Typed, Fault
<1>5. \A at, name : Entries(at, name)' = Entries(at, name)
  BY <1>1 DEF Entries, PathOf, PathIn
<1>6. \A t : PathOf(t)' = PathOf(t)
  BY DEF PathOf, PathIn
<1>7. ASSUME NEW n, SoleInv(n)
      PROVE  SoleInv(n)'
  <2>1. Stored(n) => Stored(n)'
    BY <1>2, <1>3 DEF Stored
  <2>2. n.pc \in Sending =>
           (Shadowed(Target(n.op)) \/ Cardinality(FilesAt(Target(n.op))) <= faults)'
    BY <1>2, <1>3, <1>4, <1>7 DEF SoleInv
  <2>3. faults' = 0 => faults = 0
    BY <1>4
  <2>4. n.pc \in {"make", "rootmake"} =>
           (\A t \in Entries(n.at, Head(n.walk)) : drive[t].kind = "folder" => Mistaken(PathOf(t)))'
    BY <1>2, <1>5, <1>6, <1>7 DEF SoleInv
  <2>5. (n.pc = "drop" => Shadowed(Target(n.op)) \/ n.tok \in FilesAt(Target(n.op)))'
    BY <1>2, <1>3, <1>7 DEF SoleInv
  <2> QED BY <1>1, <1>2, <1>7, <2>1, <2>2, <2>3, <2>4, <2>5 DEF SoleInv
<1> QED BY <1>1, <1>7

LEMMA Quietly ==
  ASSUME IInv, SafeInv, NEW c, setup.clients = {c}, UNCHANGED <<setup, drive>>,
         UNCHANGED faults \/ Fault, NEW n, job'[c] = n, SoleInv(n),
         NEW r, store'[Home(c)].root = r, Alive(r)
  PROVE  SafeInv'
<1>1. SoleInv(n)' /\ Alive(r)'
  BY Calm
<1>2. OneFolder' /\ Bounded'
  BY Sole, OneFolderSame, BoundedSame
<1> QED BY <1>1, <1>2, Turn

\* An operation ends.
LEMMA EndSole ==
  ASSUME NEW j \in Job, NEW r \in {"ok", "error", "crash"}, NEW n, n = Ended(j, r),
         faults = 0 /\ r = "ok" /\ Wrote(j.op) => Stored(j)
  PROVE  SoleInv(n)
<1>1. /\ n.pc = "idle" /\ n.at = Top /\ n.stored = FALSE /\ n.op = j.op /\ n.data = j.data
      /\ n.result = r
  BY EndedJob
<1>2. Alive(Top)
  BY DEF Alive, Chain
<1>3. Stored(j) => Stored(n)
  BY <1>1 DEF Stored
<1> QED BY <1>1, <1>2, <1>3 DEF SoleInv, Sending, Placing

LEMMA Failed ==
  ASSUME IInv, SafeInv, NEW c, setup.clients = {c}, UNCHANGED <<setup, drive>>,
         UNCHANGED faults \/ Fault, Fail(c), store'[Home(c)].root = store[Home(c)].root
  PROVE  SafeInv'
<1>1. PICK j \in Job : j = job[c]
  BY Sole
<1>2. PICK r \in {"ok", "error", "crash"} : r = IF j.stored THEN "ok" ELSE "error"
  OBVIOUS
<1>3. PICK n : n = Ended(j, r)
  OBVIOUS
<1>4. SoleInv(n)
  BY <1>1, <1>2, <1>3, Sole, EndSole DEF SoleInv
<1>5. job'[c] = n
  BY <1>1, <1>2, <1>3, Sole DEF Fail, End, Ended, Op
<1> QED BY <1>4, <1>5, Sole, Quietly

LEMMA GivenUp ==
  ASSUME IInv, SafeInv, NEW c, setup.clients = {c}, UNCHANGED <<setup, drive>>,
         UNCHANGED faults \/ Fault, GiveUp(c)
  PROVE  SafeInv'
<1>1. Home(c) \in Clients /\ store \in [Clients -> Storage]
  BY Here, Sole DEF Typed
<1>2. store'[Home(c)].root = store[Home(c)].root
  BY <1>1 DEF GiveUp, Storage
<1> QED BY <1>2, Failed DEF GiveUp

\* An operation goes on, not to make, drop, or send.
LEMMA Onwards ==
  ASSUME IInv, SafeInv, NEW c, setup.clients = {c}, UNCHANGED <<setup, drive>>,
         UNCHANGED faults \/ Fault, store'[Home(c)].root = store[Home(c)].root,
         job[c].pc # "idle",
         NEW n, job'[c] = n, n.op = job[c].op, n.buffered = job[c].buffered,
         n.stored = job[c].stored, n.stored => n.data = job[c].data,
         n.result = job[c].result, Alive(n.at),
         n.pc \notin {"make", "rootmake", "drop", "find"} \cup Sending,
         \/ n.stored
         \/ n.pc \notin {"type", "get", "export", "poll", "fetch", "ensure"} \cup Placing
         \/ job[c].pc \in {"type", "get", "export", "poll", "fetch", "ensure", "make"} \cup Placing
         \/ Was(n.op.path) \/ n.buffered \/ n.op.do # "rename"
  PROVE  SafeInv'
<1>1. n.result = "idle"
  BY Sole DEF OpInv
<1>2. SoleInv(job[c])
  BY Sole
<1>3. n.stored => (Stored(job[c]) => Stored(n))
  BY DEF Stored
<1>4. /\ n.pc \notin {"make", "rootmake"} /\ n.pc # "drop" /\ n.pc \notin Sending /\ n.pc # "find"
      /\ ~(n.result = "ok")
  BY <1>1
<1>5. faults = 0 /\ n.stored => Stored(n)
  BY <1>2, <1>3 DEF SoleInv
<1>6. n.op.do = "rename" /\ ~n.buffered /\
      (n.stored \/ n.pc \in {"type", "get", "export", "poll", "fetch", "ensure", "make"} \cup Placing)
         => Was(n.op.path)
  BY <1>2, <1>4 DEF SoleInv
<1>7. SoleInv(n)
  BY <1>2, <1>4, <1>5, <1>6 DEF SoleInv
<1> QED BY <1>7, Sole, Quietly

\* What SoleInv looks at.
LEMMA Alike ==
  ASSUME NEW j, NEW n, SoleInv(j), n.pc = j.pc, n.at = j.at, n.walk = j.walk, n.tok = j.tok,
         n.op = j.op, n.data = j.data, n.buffered = j.buffered, n.stored = j.stored,
         n.result = j.result
  PROVE  SoleInv(n)
<1>1. Stored(j) => Stored(n)
  BY DEF Stored
<1> QED BY <1>1 DEF SoleInv

---------------------------------------------------------------------------
(* resolveRoot, ensureFolder and resolvePath.                              *)

LEMMA UseRootSole ==
  ASSUME IInv, SafeInv, NEW c, setup.clients = {c}, UseRoot(c)
  PROVE  SafeInv'
<1>1. PICK j \in Job : j = job[c]
  BY Sole
<1>2. /\ j.pc = "root" /\ OpInv(j) /\ ~j.stored /\ c \in setup.clients /\ setup \in Setups
      /\ Alive(store[Home(c)].root) /\ j.op \in setup.ops /\ j.result = "idle"
      /\ j.op.do # "create" /\ j.op.do \in {"create", "write", "rename", "remove", "open", "mkdir"}
  <2>1. j.pc = "root" /\ OpInv(j) /\ c \in setup.clients /\ Alive(store[Home(c)].root)
    BY <1>1, Sole DEF UseRoot
  <2>2. j.op \in setup.ops /\ setup \in Setups
    BY <2>1, Here DEF OpInv
  <2> QED BY <2>1, <2>2, OpTyped DEF OpInv, Operations
<1>3. CASE store[Home(c)].failed
  <2>1. Fail(c)
    BY <1>1, <1>2, <1>3 DEF UseRoot, Fail
  <2> QED BY <2>1, Failed DEF UseRoot
<1>4. CASE ~store[Home(c)].failed
  <2>1. PICK p \in {"ensure", "resolve"} : p = FirstPhase(c)
    BY DEF FirstPhase
  <2>2. PICK n : n = Walk(c, p)
    OBVIOUS
  <2>3. /\ n.pc = p /\ n.at = store[Home(c)].root /\ n.op = j.op /\ n.data = j.data
        /\ n.stored = j.stored /\ n.buffered = j.buffered /\ n.result = j.result
    <3>1. p \in {"ensure", "resolve", "type"} /\ job[c].op \in setup.ops
      BY <1>1, <1>2
    <3> QED BY <1>1, <1>2, <2>2, <3>1, WalkJob
  <2>4. job'[c] = n
    BY <1>4, <2>1, <2>2, Sole DEF UseRoot
  <2>5. p = "ensure" => j.buffered \/ j.op.do # "rename"
    BY <1>1, <2>1 DEF FirstPhase, Op
  <2> QED BY <1>1, <1>2, <2>3, <2>4, <2>5, Onwards DEF UseRoot, Placing, Sending
<1> QED BY <1>3, <1>4

LEMMA EnterOnceSole ==
  ASSUME IInv, SafeInv, NEW c, setup.clients = {c}, EnterOnce(c)
  PROVE  SafeInv'
<1>1. PICK j \in Job : j = job[c]
  BY Sole
<1>2. PICK n : n = IF setup.rooted THEN j ELSE [j EXCEPT !.pc = "approot"]
  OBVIOUS
<1>3. /\ n.pc \in {"root", "approot"} /\ n.at = j.at /\ n.op = j.op /\ n.data = j.data
      /\ n.stored = j.stored /\ n.buffered = j.buffered /\ n.result = j.result
  BY <1>1, <1>2 DEF Job, EnterOnce
<1>4. job'[c] = n
  BY <1>1, <1>2, Sole DEF EnterOnce
<1>5. store'[Home(c)].root = store[Home(c)].root
  BY Sole, Here DEF EnterOnce, Typed, Storage
<1>6. Alive(n.at) /\ ~n.stored /\ job[c].pc = "root"
  BY <1>1, <1>3, Sole DEF SoleInv, OpInv, EnterOnce
<1> QED BY <1>1, <1>3, <1>4, <1>5, <1>6, Onwards DEF EnterOnce, Placing, Sending

LEMMA FindAppRootSole ==
  ASSUME IInv, SafeInv, NEW c, setup.clients = {c}, FindAppRoot(c)
  PROVE  SafeInv'
<1>1. PICK j \in Job : j = job[c]
  BY Sole
<1>2. PICK n : n = [j EXCEPT !.pc = "rootwalk", !.at = Top, !.walk = setup.folder]
  OBVIOUS
<1>3. /\ n.pc = "rootwalk" /\ n.at = Top /\ n.op = j.op /\ n.data = j.data
      /\ n.stored = j.stored /\ n.buffered = j.buffered /\ n.result = j.result
  BY <1>1, <1>2 DEF Job
<1>4. job'[c] = n
  BY <1>1, <1>2, Sole DEF FindAppRoot
<1>5. Alive(n.at) /\ ~n.stored /\ job[c].pc = "approot"
  BY <1>1, <1>3, Sole DEF OpInv, FindAppRoot
<1> QED BY <1>1, <1>3, <1>4, <1>5, Onwards DEF FindAppRoot, Placing, Sending

LEMMA LeaveOnceSole ==
  ASSUME IInv, SafeInv, NEW c, setup.clients = {c}, LeaveOnce(c)
  PROVE  SafeInv'
<1>1. PICK j \in Job : j = job[c]
  BY Sole
<1>2. PICK n : n = [j EXCEPT !.pc = "root"]
  OBVIOUS
<1>3. /\ n.pc = "root" /\ n.at = j.at /\ n.op = j.op /\ n.data = j.data
      /\ n.stored = j.stored /\ n.buffered = j.buffered /\ n.result = j.result
  BY <1>1, <1>2 DEF Job
<1>4. job'[c] = n
  BY <1>1, <1>2, Sole DEF LeaveOnce
<1>5. store'[Home(c)].root = j.at
  BY <1>1, Sole, Here DEF LeaveOnce, Typed, Storage
<1>6. Alive(j.at) /\ ~j.stored /\ j.result = "idle"
  BY <1>1, Sole DEF SoleInv, OpInv, LeaveOnce
<1>7. SoleInv(n)
  BY <1>3, <1>6 DEF SoleInv, Placing, Sending
<1> QED BY <1>4, <1>5, <1>6, <1>7, Quietly DEF LeaveOnce

LEMMA EnsureFolderSole ==
  ASSUME IInv, SafeInv, NEW c, setup.clients = {c}, EnsureFolder(c)
  PROVE  SafeInv'
<1>1. PICK j \in Job : j = job[c]
  BY Sole
<1>2. /\ j.pc \in {"rootwalk", "ensure"} /\ ~j.stored /\ j.result = "idle" /\ SoleInv(j)
      /\ IsFolder(j.at) /\ j.walk # << >> /\ c \in setup.clients /\ Typed /\ Alive(j.at)
  BY <1>1, Sole DEF EnsureFolder, OpInv, PlaceInv, SoleInv
<1>3. PICK name : name = Head(j.walk)
  OBVIOUS
<1>4. name \in Name /\ PathOf(j.at) \in Names
  <2>1. PathOf(j.at) \in Names /\ j.walk \in Names
    BY <1>2, Tokens DEF Job
  <2> QED BY <1>2, <1>3, <2>1, OneName
<1>5. ASSUME job' = [job EXCEPT ![c].pc = IF @ = "ensure" THEN "make" ELSE "rootmake"],
             \A t \in Entries(j.at, name) : drive[t].kind = "folder" => Mistaken(PathOf(t))
      PROVE  SafeInv'
  <2>1. PICK n : n = [j EXCEPT !.pc = IF @ = "ensure" THEN "make" ELSE "rootmake"]
    OBVIOUS
  <2>2. /\ n.pc = (IF j.pc = "ensure" THEN "make" ELSE "rootmake")
        /\ n.at = j.at /\ n.op = j.op /\ n.data = j.data /\ n.walk = j.walk
        /\ n.stored = j.stored /\ n.buffered = j.buffered /\ n.result = j.result
    BY <2>1 DEF Job
  <2>3. job'[c] = n
    BY <1>1, <1>5, <2>1, Sole
  <2>4. n.op.do = "rename" /\ ~n.buffered /\ n.pc = "make" => Was(n.op.path)
    BY <1>2, <2>2 DEF SoleInv
  <2>5. SoleInv(n)
    <3>1. \A t \in Entries(n.at, Head(n.walk)) : drive[t].kind = "folder" => Mistaken(PathOf(t))
      BY <1>3, <1>5, <2>2
    <3> QED BY <1>2, <2>2, <2>4, <3>1 DEF SoleInv, Placing, Sending
  <2> QED BY <2>3, <2>5, Sole, Quietly DEF EnsureFolder
<1>6. ASSUME NEW t \in Entries(j.at, name), drive[t].kind # "folder",
             NEW u \in Entries(j.at, name)
      PROVE  Mistaken(PathOf(u))
  <2>1. /\ t \in DOMAIN drive /\ u \in DOMAIN drive
        /\ drive[t].path = Append(PathOf(j.at), name) /\ drive[u].path = Append(PathOf(j.at), name)
    BY DEF Entries
  <2>2. PathOf(t) = Append(PathOf(j.at), name) /\ PathOf(u) = Append(PathOf(j.at), name)
    BY <1>2, <2>1, PathIs
  <2>3. PathOf(t) # << >>
    BY <1>4, <2>2, Longer DEF Names
  <2> QED BY <1>2, <1>6, <2>1, <2>2, <2>3, Named
<1>7. ASSUME NEW t \in Entries(j.at, name), drive[t].kind = "folder", Enter(c, t)
      PROVE  SafeInv'
  <2>1. PICK n : n = [j EXCEPT !.at = t, !.walk = Tail(@)]
    OBVIOUS
  <2>2. /\ n.pc = j.pc /\ n.at = t /\ n.op = j.op /\ n.data = j.data
        /\ n.stored = j.stored /\ n.buffered = j.buffered /\ n.result = j.result
    BY <2>1 DEF Job
  <2>3. job'[c] = n
    BY <1>1, <1>7, <2>1, Sole DEF Enter
  <2>4. Alive(n.at)
    BY <1>7, <2>2 DEF Entries
  <2> QED BY <1>1, <1>2, <2>2, <2>3, <2>4, Onwards DEF EnsureFolder, Placing, Sending
<1>8. CASE Entries(j.at, name) = {}
  BY <1>1, <1>3, <1>5, <1>8 DEF EnsureFolder
<1>9. CASE Entries(j.at, name) # {}
  <2>1. PICK t \in Entries(j.at, name) :
           IF drive[t].kind = "folder" THEN Enter(c, t)
           ELSE job' = [job EXCEPT ![c].pc = IF @ = "ensure" THEN "make" ELSE "rootmake"]
    BY <1>1, <1>3, <1>9 DEF EnsureFolder
  <2> QED BY <1>5, <1>6, <1>7, <2>1
<1> QED BY <1>8, <1>9

LEMMA EnsuredSole ==
  ASSUME IInv, SafeInv, NEW c, setup.clients = {c}, Ensured(c)
  PROVE  SafeInv'
<1>1. PICK j \in Job : j = job[c]
  BY Sole
<1>2. /\ j.pc = "ensure" /\ ~j.stored /\ j.result = "idle" /\ Alive(j.at)
  BY <1>1, Sole DEF Ensured, OpInv, SoleInv
<1>3. CASE j.op.do = "mkdir"
  <2>1. PICK n : n = Ended(j, "ok")
    OBVIOUS
  <2>2. SoleInv(n)
    <3>1. "ok" \in {"ok", "error", "crash"} /\ ~Wrote(j.op)
      BY <1>3 DEF Wrote
    <3> QED BY <2>1, <3>1, EndSole
  <2>3. job'[c] = n
    BY <1>1, <1>3, <2>1, Sole DEF Ensured, End, Ended, Op
  <2> QED BY <2>2, <2>3, Sole, Quietly DEF Ensured
<1>4. CASE j.op.do # "mkdir"
  <2>1. PICK n : n = [j EXCEPT !.pc = "lookup"]
    OBVIOUS
  <2>2. /\ n.pc = "lookup" /\ n.at = j.at /\ n.op = j.op /\ n.data = j.data
        /\ n.stored = j.stored /\ n.buffered = j.buffered /\ n.result = j.result
    BY <2>1 DEF Job
  <2>3. job'[c] = n
    BY <1>1, <1>4, <2>1, Sole DEF Ensured, Op
  <2> QED BY <1>1, <1>2, <2>2, <2>3, Onwards DEF Ensured, Placing, Sending
<1> QED BY <1>3, <1>4

LEMMA ResolveNameSole ==
  ASSUME IInv, SafeInv, NEW c, setup.clients = {c}, ResolveName(c)
  PROVE  SafeInv'
<1>1. PICK j \in Job : j = job[c]
  BY Sole
<1>2. j.pc \in {"resolve", "type"}
  BY <1>1 DEF ResolveName
<1>3. CASE Fail(c)
  BY <1>3, Failed DEF ResolveName
<1>4. ASSUME NEW t \in Entries(job[c].at, Head(job[c].walk)), Enter(c, t)
      PROVE  SafeInv'
  <2>1. PICK n : n = [j EXCEPT !.at = t, !.walk = Tail(@)]
    OBVIOUS
  <2>2. /\ n.pc = j.pc /\ n.at = t /\ n.op = j.op /\ n.data = j.data
        /\ n.stored = j.stored /\ n.buffered = j.buffered /\ n.result = j.result
    BY <2>1 DEF Job
  <2>3. job'[c] = n
    BY <1>1, <1>4, <2>1, Sole DEF Enter
  <2>4. Alive(n.at)
    BY <1>4, <2>2 DEF Entries
  <2> QED BY <1>1, <1>2, <2>2, <2>3, <2>4, Onwards DEF ResolveName, Placing, Sending
<1> QED BY <1>3, <1>4 DEF ResolveName

LEMMA ResolveLastSole ==
  ASSUME IInv, SafeInv, NEW c, setup.clients = {c}, ResolveLast(c)
  PROVE  SafeInv'
<1>1. PICK j \in Job : j = job[c]
  BY Sole
<1>2. /\ j.pc \in {"resolve", "type"} /\ Len(j.walk) = 1 /\ Alive(j.at) /\ Typed /\ PlaceInv(j)
      /\ IsFolder(j.at) /\ j.walk # << >> /\ c \in setup.clients
      /\ OpInv(j) /\ Alive(store[Home(c)].root)
  BY <1>1, Sole DEF ResolveLast, SoleInv, PlaceInv
<1>3. CASE Fail(c)
  BY <1>3, Failed DEF ResolveLast
<1>4. ASSUME NEW t \in Entries(j.at, Head(j.walk)), j.pc = "type",
             job' = [job EXCEPT ![c].pc = IF drive[t].kind = "file" THEN "get" ELSE "export"]
      PROVE  SafeInv'
  <2>1. PICK n : n = [j EXCEPT !.pc = IF drive[t].kind = "file" THEN "get" ELSE "export"]
    OBVIOUS
  <2>2. /\ n.pc \in {"get", "export"} /\ n.at = j.at /\ n.op = j.op /\ n.data = j.data
        /\ n.stored = j.stored /\ n.buffered = j.buffered /\ n.result = j.result
    BY <2>1 DEF Job
  <2>3. job'[c] = n
    BY <1>1, <1>4, <2>1, Sole
  <2> QED BY <1>1, <1>2, <1>4, <2>2, <2>3, Onwards DEF ResolveLast, Placing, Sending
<1>5. ASSUME NEW t \in Entries(j.at, Head(j.walk)),
             job' = [job EXCEPT ![c].pc = "delete", ![c].tok = t]
      PROVE  SafeInv'
  <2>1. PICK n : n = [j EXCEPT !.pc = "delete", !.tok = t]
    OBVIOUS
  <2>2. /\ n.pc = "delete" /\ n.at = j.at /\ n.op = j.op /\ n.data = j.data
        /\ n.stored = j.stored /\ n.buffered = j.buffered /\ n.result = j.result
    BY <2>1 DEF Job
  <2>3. job'[c] = n
    BY <1>1, <1>5, <2>1, Sole
  <2> QED BY <1>1, <1>2, <2>2, <2>3, Onwards DEF ResolveLast, Placing, Sending
<1>6. ASSUME NEW t \in Entries(j.at, Head(j.walk)), j.pc = "resolve", drive[t].kind # "folder",
             job' = [job EXCEPT ![c] = [Walk(c, "type") EXCEPT !.tok = t]]
      PROVE  SafeInv'
  <2>1. PICK w : w = Walk(c, "type")
    OBVIOUS
  <2>2. PICK n : n = [w EXCEPT !.tok = t]
    OBVIOUS
  <2>3. j.op \in setup.ops
    BY <1>2, <1>6 DEF OpInv
  <2>4. /\ w \in Job /\ w.pc = "type" /\ w.at = store[Home(c)].root /\ w.op = j.op
        /\ w.data = j.data /\ w.stored = j.stored /\ w.buffered = j.buffered
        /\ w.result = j.result
    <3>1. "type" \in {"ensure", "resolve", "type"} /\ job[c].op \in setup.ops
      BY <1>1, <2>3
    <3> QED BY <1>1, <1>2, <2>1, <3>1, WalkJob
  <2>5. /\ n.pc = "type" /\ n.at = store[Home(c)].root /\ n.op = j.op
        /\ n.data = j.data /\ n.stored = j.stored /\ n.buffered = j.buffered
        /\ n.result = j.result
    BY <2>2, <2>4 DEF Job
  <2>6. Was(j.op.path)
    <3>1. t \in DOMAIN drive /\ drive[t].path = PathOf(j.at) \o j.walk
      BY <1>2, <1>6, Enters
    <3> QED BY <1>2, <1>6, <3>1 DEF PlaceInv, Was
  <2>7. job'[c] = n
    BY <1>6, <2>1, <2>2, Sole
  <2> QED BY <1>1, <1>2, <1>6, <2>5, <2>6, <2>7, Onwards DEF ResolveLast, Placing, Sending
<1> QED BY <1>1, <1>2, <1>3, <1>4, <1>5, <1>6 DEF ResolveLast

---------------------------------------------------------------------------
(* Reading.                                                                *)

LEMMA GotSole ==
  ASSUME IInv, SafeInv, NEW c, setup.clients = {c}, NEW d, Got(c, d),
         job[c].pc \in {"get", "fetch"},
         UNCHANGED <<setup, drive, store>>, UNCHANGED faults \/ Fault
  PROVE  SafeInv'
<1>1. PICK j \in Job : j = job[c]
  BY Sole
<1>2. /\ ~j.stored /\ j.op.do \in {"open", "rename"} /\ j.op \in setup.ops
      /\ Alive(store[Home(c)].root) /\ c \in setup.clients /\ j.pc \in {"get", "fetch"}
  BY <1>1, Sole DEF OpInv
<1>3. CASE j.op.do = "rename"
  <2>1. PICK w : w = Walk(c, "ensure")
    OBVIOUS
  <2>2. PICK n : n = [w EXCEPT !.data = d]
    OBVIOUS
  <2>3. /\ w \in Job /\ w.pc = "ensure" /\ w.at = store[Home(c)].root /\ w.op = j.op
        /\ w.stored = j.stored /\ w.buffered = j.buffered /\ w.result = j.result
    <3>1. "ensure" \in {"ensure", "resolve", "type"} /\ job[c].op \in setup.ops
      BY <1>1, <1>2
    <3> QED BY <1>1, <1>2, <2>1, <3>1, WalkJob
  <2>4. /\ n.pc = "ensure" /\ n.at = store[Home(c)].root /\ n.op = j.op
        /\ n.stored = j.stored /\ n.buffered = j.buffered /\ n.result = j.result
    BY <2>2, <2>3 DEF Job
  <2>5. job'[c] = n
    BY <1>1, <1>3, <2>1, <2>2, Sole DEF Got, Op
  <2> QED BY <1>1, <1>2, <2>4, <2>5, Onwards DEF Sending
<1>4. CASE j.op.do # "rename"
  <2>1. PICK n : n = [Idle EXCEPT !.op = j.op, !.result = "ok", !.data = d]
    OBVIOUS
  <2>2. n.pc = "idle" /\ n.at = Top /\ n.op = j.op /\ n.stored = FALSE /\ n.result = "ok"
    BY <2>1, IdleJob DEF Job
  <2>3. job'[c] = n
    BY <1>1, <1>4, <2>1, Sole DEF Got, Op
  <2>4. SoleInv(n)
    BY <1>2, <1>4, <2>2, Sole DEF SoleInv, Placing, Sending, Wrote
  <2> QED BY <2>3, <2>4, Sole, Quietly
<1> QED BY <1>3, <1>4

LEMMA DownloadSole ==
  ASSUME IInv, SafeInv, NEW c, setup.clients = {c},
         Download(c) \/ DownloadFails(c) \/ DownloadPage(c) \/ Fetch(c)
  PROVE  SafeInv'
<1>1. CASE Download(c)
  BY <1>1, GotSole DEF Download
<1>2. CASE DownloadFails(c)
  BY <1>2, GotSole DEF DownloadFails
<1>3. CASE DownloadPage(c)
  BY <1>3, GotSole DEF DownloadPage
<1>4. CASE Fetch(c)
  BY <1>4, GotSole DEF Fetch
<1> QED BY <1>1, <1>2, <1>3, <1>4

LEMMA CreateTaskSole ==
  ASSUME IInv, SafeInv, NEW c, setup.clients = {c}, CreateTask(c)
  PROVE  SafeInv'
<1>1. PICK j \in Job : j = job[c]
  BY Sole
<1>2. j.pc = "export" /\ Alive(j.at) /\ ~j.stored
  BY <1>1, Sole DEF CreateTask, SoleInv, OpInv
<1>3. PICK d : d = drive[job[c].tok].data
  OBVIOUS
<1>4. PICK n : n = [j EXCEPT !.pc = "poll", !.task = "running", !.data = d]
  OBVIOUS
<1>5. /\ n.pc = "poll" /\ n.at = j.at /\ n.op = j.op
      /\ n.stored = j.stored /\ n.buffered = j.buffered /\ n.result = j.result
  BY <1>4 DEF Job
<1>6. job'[c] = n
  BY <1>1, <1>3, <1>4, Sole DEF CreateTask
<1> QED BY <1>1, <1>2, <1>5, <1>6, Onwards DEF CreateTask, Placing, Sending

LEMMA TaskEndsSole ==
  ASSUME IInv, SafeInv, NEW c, setup.clients = {c}, TaskEnds(c)
  PROVE  SafeInv'
<1>1. PICK j \in Job : j = job[c]
  BY Sole
<1>2. PICK s : job' = [job EXCEPT ![c].task = s]
  BY DEF TaskEnds
<1>3. PICK n : n = [j EXCEPT !.task = s]
  OBVIOUS
<1>4. /\ n.pc = j.pc /\ n.at = j.at /\ n.op = j.op /\ n.walk = j.walk /\ n.tok = j.tok
      /\ n.data = j.data
      /\ n.stored = j.stored /\ n.buffered = j.buffered /\ n.result = j.result
  BY <1>3 DEF Job
<1>5. job'[c] = n
  BY <1>1, <1>2, <1>3, Sole
<1>6. SoleInv(n)
  BY <1>1, <1>4, Sole, Alike
<1> QED BY <1>5, <1>6, Sole, Quietly DEF TaskEnds

LEMMA PollSole ==
  ASSUME IInv, SafeInv, NEW c, setup.clients = {c}, Poll(c)
  PROVE  SafeInv'
<1>1. PICK j \in Job : j = job[c]
  BY Sole
<1>2. j.pc = "poll" /\ Alive(j.at)
  BY <1>1, Sole DEF Poll, SoleInv
<1>3. CASE Fail(c)
  BY <1>3, Failed DEF Poll
<1>4. CASE job' = [job EXCEPT ![c].pc = "fetch"]
  <2>1. PICK n : n = [j EXCEPT !.pc = "fetch"]
    OBVIOUS
  <2>2. /\ n.pc = "fetch" /\ n.at = j.at /\ n.op = j.op /\ n.data = j.data
        /\ n.stored = j.stored /\ n.buffered = j.buffered /\ n.result = j.result
    BY <2>1 DEF Job
  <2>3. job'[c] = n
    BY <1>1, <1>4, <2>1, Sole
  <2> QED BY <1>1, <1>2, <2>2, <2>3, Onwards DEF Poll, Placing, Sending
<1> QED BY <1>3, <1>4 DEF Poll

---------------------------------------------------------------------------
(* Writing, up to the upload.                                              *)

\* Where the file is, and the folder it is in.
LEMMA TargetIs ==
  ASSUME IInv, SafeInv, NEW c, setup.clients = {c}, job[c].pc \in Placing,
         NEW p, p = Target(job[c].op)
  PROVE  /\ p \in Names /\ p # << >> /\ p \in Paths /\ Last(p) \in Name
         /\ PathOf(job[c].at) = Full(Front(p)) /\ PathOf(job[c].at) = Front(Full(p))
         /\ Append(PathOf(job[c].at), Last(p)) = Full(p) /\ PathOf(job[c].at) \in Names
<1>1. /\ c \in setup.clients /\ OpInv(job[c]) /\ PlaceInv(job[c]) /\ setup \in Setups
      /\ setup.folder \in Names /\ job[c].op \in setup.ops /\ Typed
  BY Sole, Here DEF OpInv, Placing, Sending
<1>2. p \in Names /\ p # << >> /\ p \in Paths /\ Front(p) \in Names /\ Last(p) \in Name
  BY <1>1, OpTyped, PathsOf
<1>3. PathOf(job[c].at) = Full(Front(p)) /\ PathOf(job[c].at) \in Names
  BY <1>1, Tokens DEF PlaceInv
<1>4. Append(Full(Front(p)), Last(p)) = Full(p)
  BY <1>1, <1>2, FullPaths
<1>5. \A s \in Seq(Name) : \A x \in Name : Front(Append(s, x)) = s
  BY DEF Front
<1> QED BY <1>1, <1>2, <1>3, <1>4, <1>5 DEF Names

\* A name is shadowed, or what is below a mistaken folder.
LEMMA Shadows ==
  ASSUME NEW p, Mistaken(Front(Full(p)))
         \/ \E t \in DOMAIN drive : drive[t].kind # "file" /\ PathOf(t) = Full(p)
  PROVE  Shadowed(p)
BY DEF Shadowed, Full

\* What the listing of its folder shows is all that has the name.
LEMMA Listed ==
  ASSUME IInv, SafeInv, NEW c, setup.clients = {c}, job[c].pc \in Placing, Alive(job[c].at),
         NEW p, p = Target(job[c].op)
  PROVE  /\ \A t \in Entries(job[c].at, Last(p)) :
               t \in DOMAIN drive /\ Alive(t) /\ PathOf(t) = Full(p)
         /\ FilesAt(p) \subseteq Entries(job[c].at, Last(p)) \/ Shadowed(p)
<1>1. /\ Last(p) \in Name /\ Append(PathOf(job[c].at), Last(p)) = Full(p)
      /\ PathOf(job[c].at) = Front(Full(p))
  BY TargetIs
<1>2. Typed /\ TreeInv /\ OneFolder /\ IsFolder(job[c].at)
  BY Sole DEF PlaceInv
<1>3. ASSUME NEW t \in Entries(job[c].at, Last(p))
      PROVE  t \in DOMAIN drive /\ Alive(t) /\ PathOf(t) = Full(p)
  BY <1>1, <1>2, PathIs DEF Entries
<1>4. ASSUME NEW t \in FilesAt(p)
      PROVE  t \in Entries(job[c].at, Last(p)) \/ Mistaken(Front(Full(p)))
  <2>1. t \in DOMAIN drive /\ Alive(t) /\ PathOf(t) = Full(p)
    BY InFiles
  <2> QED BY <1>1, <1>2, <2>1, InFolder
<1> QED BY <1>3, <1>4, Shadows

\* The data is sent.
LEMMA SentSole ==
  ASSUME IInv, SafeInv, NEW c, setup.clients = {c}, job[c].pc \in {"lookup", "drop"},
         NEW n, n = Send(c)
  PROVE  /\ Shadowed(Target(n.op)) \/ Cardinality(FilesAt(Target(n.op))) <= faults => SoleInv(n)
         /\ n.op = job[c].op /\ n.data = job[c].data /\ n.pc \in {"all", "prepare"}
         /\ n.at = job[c].at /\ n.result = "idle" /\ ~n.stored /\ n.walk = job[c].walk
         /\ n.op.do = "rename" /\ ~n.buffered => Was(n.op.path)
<1>1. PICK j \in Job : j = job[c]
  BY Sole
<1>2. /\ ~j.stored /\ j.result = "idle" /\ Alive(j.at) /\ j.pc \in {"lookup", "drop"}
      /\ SoleInv(j) /\ (j.op.do = "rename" /\ ~j.buffered => Was(j.op.path))
  BY <1>1, Sole DEF OpInv, SoleInv, Placing
<1>3. /\ n.op = j.op /\ n.data = j.data /\ n.pc \in {"all", "prepare"} /\ n.at = j.at
      /\ n.stored = j.stored /\ n.buffered = j.buffered /\ n.result = j.result
      /\ n.walk = j.walk
  BY <1>1 DEF Job, Send
<1>4. ASSUME Shadowed(Target(n.op)) \/ Cardinality(FilesAt(Target(n.op))) <= faults
      PROVE  SoleInv(n)
  BY <1>2, <1>3, <1>4 DEF SoleInv
<1> QED BY <1>1, <1>2, <1>3, <1>4

LEMMA LookUpSole ==
  ASSUME IInv, SafeInv, NEW c, setup.clients = {c}, LookUp(c)
  PROVE  SafeInv'
<1>1. PICK j \in Job : j = job[c]
  BY Sole
<1>2. PICK p : p = Target(j.op)
  OBVIOUS
<1>3. PICK found : found = Entries(j.at, Last(p))
  OBVIOUS
<1>4. /\ \A t \in found : t \in DOMAIN drive /\ Alive(t) /\ PathOf(t) = Full(p)
      /\ FilesAt(p) \subseteq found \/ Shadowed(p)
  <2>1. job[c].pc \in Placing /\ Alive(job[c].at)
    BY DEF LookUp, Placing
  <2> QED BY <1>1, <1>2, <1>3, <2>1, Listed
<1>5. /\ j.pc = "lookup" /\ faults \in Nat /\ Alive(j.at) /\ ~j.stored /\ j.result = "idle"
      /\ SoleInv(j)
  BY <1>1, Sole DEF LookUp, OpInv, Placing
<1>6. ASSUME job' = [job EXCEPT ![c] = Send(c)],
             found = {} \/ \E t \in found : drive[t].kind = "folder"
      PROVE  SafeInv'
  <2>1. PICK n : n = Send(c)
    OBVIOUS
  <2>2. Shadowed(p) \/ Cardinality(FilesAt(p)) <= faults
    <3>1. CASE found = {}
      <4>1. FilesAt(p) = {} \/ Shadowed(p)
        BY <1>4, <3>1
      <4> QED BY <1>5, <4>1, FS_EmptySet
    <3>2. CASE \E t \in found : drive[t].kind = "folder"
      BY <1>4, <3>2, Shadows
    <3> QED BY <1>6, <3>1, <3>2
  <2>3. SoleInv(n)
    BY <1>1, <1>2, <1>5, <2>1, <2>2, SentSole
  <2>4. job'[c] = n
    BY <1>6, <2>1, Sole
  <2> QED BY <2>3, <2>4, Sole, Quietly DEF LookUp
<1>7. ASSUME NEW t \in found, drive[t].kind # "folder",
             job' = [job EXCEPT ![c].pc = "drop", ![c].tok = t]
      PROVE  SafeInv'
  <2>1. PICK n : n = [j EXCEPT !.pc = "drop", !.tok = t]
    OBVIOUS
  <2>2. /\ n.pc = "drop" /\ n.at = j.at /\ n.op = j.op /\ n.data = j.data /\ n.tok = t
        /\ n.stored = j.stored /\ n.buffered = j.buffered /\ n.result = j.result
    BY <2>1 DEF Job
  <2>3. t \in FilesAt(p)
    BY <1>4, <1>7, InFiles
  <2>4. n.op.do = "rename" /\ ~n.buffered => Was(n.op.path)
    BY <1>5, <2>2 DEF SoleInv, Placing
  <2>5. SoleInv(n)
    BY <1>2, <1>5, <2>2, <2>3, <2>4 DEF SoleInv, Sending
  <2>6. job'[c] = n
    BY <1>1, <1>7, <2>1, Sole
  <2> QED BY <2>5, <2>6, Sole, Quietly DEF LookUp
<1>8. \/ found = {} /\ job' = [job EXCEPT ![c] = Send(c)]
      \/ \E t \in found :
            \/ drive[t].kind = "folder" /\ job' = [job EXCEPT ![c] = Send(c)]
            \/ drive[t].kind # "folder" /\ job' = [job EXCEPT ![c].pc = "drop", ![c].tok = t]
  <2>1. found = Entries(job[c].at, Last(Target(Op(c))))
    BY <1>1, <1>2, <1>3 DEF Op
  <2>2. \/ Entries(job[c].at, Last(Target(Op(c)))) = {} /\ job' = [job EXCEPT ![c] = Send(c)]
        \/ \E t \in Entries(job[c].at, Last(Target(Op(c)))) :
              \/ drive[t].kind = "folder" /\ job' = [job EXCEPT ![c] = Send(c)]
              \/ drive[t].kind # "folder" /\ job' = [job EXCEPT ![c].pc = "drop", ![c].tok = t]
    BY DEF LookUp
  <2> QED BY <2>1, <2>2
<1> QED BY <1>6, <1>7, <1>8

---------------------------------------------------------------------------
(* Uploading, without an effect on the drive.                              *)

LEMMA RetryShape ==
  ASSUME IInv, SafeInv, NEW c, setup.clients = {c}, Retry(c), NEW j, j = job[c],
         NEW n, n = job'[c]
  PROVE  \/ Fail(c)
         \/ /\ n.pc = j.pc /\ n.at = j.at /\ n.walk = j.walk
            /\ n.tok = j.tok /\ n.op = j.op /\ n.data = j.data /\ n.buffered = j.buffered
            /\ n.stored = j.stored /\ n.result = j.result
<1>1. j \in Job /\ job \in [Clients -> Job] /\ c \in Clients
  BY Sole
<1>2. CASE Fail(c)
  BY <1>2
<1>3. CASE job' = [job EXCEPT ![c].try = @ + 1]
  <2>1. n = [j EXCEPT !.try = @ + 1]
    BY <1>1, <1>3
  <2>2. /\ n.pc = j.pc /\ n.at = j.at /\ n.walk = j.walk
        /\ n.tok = j.tok /\ n.op = j.op /\ n.data = j.data /\ n.buffered = j.buffered
        /\ n.stored = j.stored /\ n.result = j.result
    BY <1>1, <2>1 DEF Job
  <2> QED BY <2>2
<1> QED BY <1>2, <1>3 DEF Retry

LEMMA RetrySole ==
  ASSUME IInv, SafeInv, NEW c, setup.clients = {c}, Retry(c),
         UNCHANGED <<setup, drive, store>>, UNCHANGED faults \/ Fault
  PROVE  SafeInv'
<1>1. PICK j \in Job : j = job[c]
  BY Sole
<1> PICK n : n = job'[c]
  OBVIOUS
<1>2. CASE Fail(c)
  BY <1>2, Failed
<1>3. ASSUME n.pc = j.pc, n.at = j.at, n.walk = j.walk,
             n.tok = j.tok, n.op = j.op, n.data = j.data, n.buffered = j.buffered,
             n.stored = j.stored, n.result = j.result
      PROVE  SafeInv'
  <2>1. SoleInv(n)
    BY <1>1, <1>3, Sole, Alike
  <2> QED BY <1>3, <2>1, Sole, Quietly
<1> QED BY <1>1, <1>2, <1>3, RetryShape

LEMMA PostFailsSole ==
  ASSUME IInv, SafeInv, NEW c, setup.clients = {c}, PostFails(c)
  PROVE  SafeInv'
<1>1. CASE Retry(c)
  BY <1>1, RetrySole DEF PostFails
<1>2. CASE Fail(c)
  BY <1>2, Failed DEF PostFails
<1> QED BY <1>1, <1>2 DEF PostFails

\* The upload goes on.
LEMMA SendingOn ==
  ASSUME IInv, SafeInv, NEW c, setup.clients = {c}, job[c].pc \in Sending,
         UNCHANGED <<setup, drive, store>>, UNCHANGED faults \/ Fault,
         NEW n, job'[c] = n, n.pc \in Sending, n.at = job[c].at, n.op = job[c].op,
         n.buffered = job[c].buffered, n.stored = job[c].stored, n.result = job[c].result
  PROVE  SafeInv'
<1>1. /\ SoleInv(job[c]) /\ ~n.stored /\ n.result = "idle"
      /\ n.pc \notin {"make", "rootmake", "drop", "find"}
  BY Sole DEF OpInv, Sending
<1>2. n.op.do = "rename" /\ ~n.buffered => Was(n.op.path)
  BY <1>1 DEF SoleInv, Placing
<1>3. SoleInv(n)
  BY <1>1, <1>2 DEF SoleInv
<1> QED BY <1>3, Sole, Quietly

LEMMA UploadPrepareSole ==
  ASSUME IInv, SafeInv, NEW c, setup.clients = {c}, UploadPrepare(c)
  PROVE  SafeInv'
<1>1. PICK j \in Job : j = job[c]
  BY Sole
<1>2. CASE Retry(c) /\ Fault
  BY <1>2, RetrySole DEF UploadPrepare
<1>3. ASSUME NEW b, UNCHANGED faults,
             job' = [job EXCEPT ![c].pc = "part", ![c].try = 0,
                                ![c].up = Len(uploads'), ![c].seq = 0,
                                ![c].block = IF b = 0 THEN DefaultBlock ELSE b]
      PROVE  SafeInv'
  <2>1. PICK u : u = Len(uploads')
    OBVIOUS
  <2>2. PICK n : n = [j EXCEPT !.pc = "part", !.try = 0, !.up = u, !.seq = 0,
                               !.block = IF b = 0 THEN DefaultBlock ELSE b]
    OBVIOUS
  <2>3. /\ n.pc = "part" /\ n.at = j.at /\ n.op = j.op
        /\ n.stored = j.stored /\ n.buffered = j.buffered /\ n.result = j.result
    BY <2>2 DEF Job
  <2>4. job'[c] = n
    BY <1>1, <1>3, <2>1, <2>2, Sole
  <2>5. job[c].pc \in Sending /\ n.pc \in Sending /\ UNCHANGED <<setup, drive, store>>
    BY <2>3 DEF UploadPrepare, Sending
  <2> QED BY <1>1, <1>3, <2>3, <2>4, <2>5, SendingOn
<1> QED BY <1>2, <1>3 DEF UploadPrepare, Answered

LEMMA UploadPartSole ==
  ASSUME IInv, SafeInv, NEW c, setup.clients = {c}, UploadPart(c)
  PROVE  SafeInv'
<1>1. PICK j \in Job : j = job[c]
  BY Sole
<1>2. CASE Retry(c) /\ Fault
  BY <1>2, RetrySole DEF UploadPart
<1>3. ASSUME NEW next, NEW last, UNCHANGED faults,
             job' = [job EXCEPT ![c].seq = next, ![c].try = 0,
                                ![c].pc = IF last THEN "finish" ELSE @]
      PROVE  SafeInv'
  <2>1. PICK n : n = [j EXCEPT !.seq = next, !.try = 0, !.pc = IF last THEN "finish" ELSE @]
    OBVIOUS
  <2>2. /\ n.pc \in {"finish", j.pc} /\ n.at = j.at /\ n.op = j.op
        /\ n.stored = j.stored /\ n.buffered = j.buffered /\ n.result = j.result
    BY <2>1 DEF Job
  <2>3. job'[c] = n
    BY <1>1, <1>3, <2>1, Sole
  <2>4. job[c].pc \in Sending /\ n.pc \in Sending /\ UNCHANGED <<setup, drive, store>>
    BY <1>1, <2>2 DEF UploadPart, Sending
  <2> QED BY <1>1, <1>3, <2>2, <2>3, <2>4, SendingOn
<1> QED BY <1>2, <1>3 DEF UploadPart, Answered

\* An upload has returned: a client goes on to remove the old name, or ends.
Returned(c, n) ==
    /\ n.op = job[c].op /\ n.data = job[c].data
    /\ \/ n.pc = "idle" /\ n.at = Top /\ n.stored = FALSE
       \/ /\ n.pc = "resolve" /\ n.at = store[Home(c)].root /\ n.result = "idle"
          /\ n.op.do = "rename" /\ ~job[c].buffered /\ ~n.buffered

LEMMA UploadedShape ==
  ASSUME IInv, SafeInv, NEW c, setup.clients = {c}, Uploaded(c),
         job[c].pc \in {"all", "finish", "find"}
  PROVE  Returned(c, job'[c])
<1> PICK j : j = job[c]
  OBVIOUS
<1> PICK n : n = job'[c]
  OBVIOUS
<1>1. /\ j \in Job /\ job \in [Clients -> Job] /\ c \in Clients /\ c \in setup.clients
      /\ j.op \in setup.ops /\ j.result = "idle"
  BY Sole DEF OpInv
<1>2. CASE j.op.do = "rename" /\ ~j.buffered
  <2>1. PICK w : w = Walk(c, "resolve")
    OBVIOUS
  <2>2. n = [w EXCEPT !.stored = TRUE]
    BY <1>1, <1>2, <2>1 DEF Uploaded, Op
  <2>3. /\ w \in Job /\ w.pc = "resolve" /\ w.at = store[Home(c)].root
        /\ w.op = j.op /\ w.data = j.data /\ w.result = j.result /\ w.buffered = j.buffered
    <3>1. "resolve" \in {"ensure", "resolve", "type"} /\ job[c].op \in setup.ops
      BY <1>1
    <3> QED BY <1>1, <2>1, <3>1, WalkJob
  <2>4. /\ n.pc = "resolve" /\ n.at = store[Home(c)].root
        /\ n.op = j.op /\ n.data = j.data /\ n.result = j.result /\ n.buffered = j.buffered
    BY <2>2, <2>3 DEF Job
  <2> QED BY <1>1, <1>2, <2>4 DEF Returned
<1>3. CASE ~(j.op.do = "rename" /\ ~j.buffered)
  <2>1. PICK e : e = Ended(j, "ok")
    OBVIOUS
  <2>2. e.pc = "idle" /\ e.op = j.op /\ e.data = j.data /\ e.at = Top /\ e.stored = FALSE
    <3>1. "ok" \in {"ok", "error", "crash"}
      OBVIOUS
    <3> QED BY <1>1, <2>1, <3>1, EndedJob
  <2>3. n = e
    BY <1>1, <1>3, <2>1 DEF Uploaded, End, Ended, Op
  <2> QED BY <2>2, <2>3 DEF Returned
<1> QED BY <1>2, <1>3

LEMMA FindUploadedSole ==
  ASSUME IInv, SafeInv, NEW c, setup.clients = {c}, FindUploaded(c)
  PROVE  SafeInv'
<1>1. PICK j \in Job : j = job[c]
  BY Sole
<1>2. /\ j.pc = "find" /\ SoleInv(j) /\ Alive(Top) /\ Alive(store[Home(c)].root)
  BY <1>1, Sole DEF FindUploaded
<1>3. CASE Fail(c)
  BY <1>3, Failed DEF FindUploaded
<1>4. CASE Uploaded(c)
  <2> PICK n : n = job'[c]
    OBVIOUS
  <2>1. /\ job'[c] = n /\ n.op = j.op /\ n.data = j.data
        /\ \/ n.pc = "idle" /\ n.at = Top /\ n.stored = FALSE
           \/ /\ n.pc = "resolve" /\ n.at = store[Home(c)].root /\ n.result = "idle"
              /\ j.op.do = "rename" /\ ~j.buffered /\ ~n.buffered
    <3>1. Returned(c, job'[c])
      BY <1>1, <1>2, <1>4, UploadedShape
    <3> QED BY <1>1, <3>1 DEF Returned
  <2>2. faults = 0 => Stored(n)
    BY <1>2, <2>1 DEF SoleInv, Stored
  <2>3. j.op.do = "rename" /\ ~j.buffered => Was(n.op.path)
    BY <1>2, <2>1 DEF SoleInv, Placing
  <2>4. SoleInv(n)
    BY <1>2, <2>1, <2>2, <2>3 DEF SoleInv, Sending, Placing
  <2> QED BY <2>1, <2>4, Sole, Quietly DEF FindUploaded
<1> QED BY <1>3, <1>4 DEF FindUploaded

---------------------------------------------------------------------------
(* Calls that are refused or fail; operations begin, and end in a crash.   *)

LEMMA RefusedSole ==
  ASSUME IInv, SafeInv, NEW c, setup.clients = {c}, Refused(c)
  PROVE  SafeInv'
<1>1. PICK j \in Job : j = job[c]
  BY Sole
<1>2. SoleInv(j) /\ OpInv(j) /\ c \in setup.clients
  BY <1>1, Sole
<1>3. CASE j.pc \in {"lookup", "drop"}
  <2>1. j.pc = "drop" /\ ~CanDelete(j.tok, "file")
    BY <1>1, <1>2, <1>3 DEF Refused, SoleInv, Listing, Making
  <2>2. Shadowed(Target(j.op))
    <3>1. CASE j.tok \in FilesAt(Target(j.op))
      <4>1. /\ j.tok \in DOMAIN drive /\ Alive(j.tok) /\ PathOf(j.tok) = Full(Target(j.op))
        BY <3>1, InFiles
      <4> QED BY <2>1, <4>1, Shadows DEF CanDelete
    <3> QED BY <1>2, <2>1, <3>1 DEF SoleInv
  <2>3. PICK n : n = Send(c)
    OBVIOUS
  <2>4. n.op = j.op
    BY <1>1, <1>3, <2>3, SentSole
  <2>5. SoleInv(n)
    BY <1>1, <1>3, <2>2, <2>3, <2>4, SentSole
  <2>6. job'[c] = n /\ store' = store
    BY <1>1, <1>3, <2>3, Sole DEF Refused, CallFailed
  <2> QED BY <2>5, <2>6, Sole, Quietly DEF Refused
<1>4. CASE j.pc \notin {"lookup", "drop"}
  BY <1>1, <1>4, GivenUp DEF Refused, CallFailed
<1> QED BY <1>3, <1>4

LEMMA CallFailsSole ==
  ASSUME IInv, SafeInv, NEW c, setup.clients = {c}, CallFails(c)
  PROVE  SafeInv'
<1>1. PICK j \in Job : j = job[c]
  BY Sole
<1>2. /\ SoleInv(j) /\ c \in setup.clients /\ Bounded /\ OneFolder /\ faults \in Nat
      /\ Alive(store[Home(c)].root) /\ Alive(j.at)
  BY <1>1, Sole DEF SoleInv
<1>3. CASE j.pc \in {"lookup", "drop"}
  <2>1. PICK n : n = Send(c)
    OBVIOUS
  <2>2. /\ n.op = j.op /\ n.data = j.data /\ n.pc \in {"all", "prepare"}
        /\ n.at = j.at /\ n.result = "idle" /\ ~n.stored
        /\ n.op.do = "rename" /\ ~n.buffered => Was(n.op.path)
    BY <1>1, <1>3, <2>1, SentSole
  <2>3. Target(j.op) \in Paths
    BY <1>1, <1>3, TargetIs DEF Placing
  <2>4. faults' = faults + 1 /\ UNCHANGED <<setup, drive>> /\ job'[c] = n /\ store' = store
    BY <1>1, <1>3, <2>1, Sole DEF CallFails, Fault, CallFailed
  <2>5. /\ FilesAt(Target(n.op))' = FilesAt(Target(n.op)) /\ Was(n.op.path)' = Was(n.op.path)
        /\ Shadowed(Target(n.op))' = Shadowed(Target(n.op)) /\ Alive(j.at)' = Alive(j.at)
    BY <2>4 DEF FilesAt, Was, Full, Shadowed, Mistaken, Alive, Chain, PathOf, PathIn
  <2>6. (Shadowed(Target(n.op)) \/ Cardinality(FilesAt(Target(n.op))) <= faults)'
    BY <1>2, <2>2, <2>3, <2>4, <2>5 DEF Bounded
  <2>7. SoleInv(n)'
    BY <1>2, <2>2, <2>4, <2>5, <2>6 DEF SoleInv
  <2>8. OneFolder' /\ Bounded' /\ Alive(store[Home(c)].root)'
    <3>1. OneFolder'
      BY <1>2, <2>4, OneFolderSame
    <3>2. Bounded'
      BY <1>2, <2>4, BoundedSame DEF CallFails
    <3>3. Alive(store[Home(c)].root)'
      BY <1>2, <2>4 DEF Alive, Chain, Home
    <3> QED BY <3>1, <3>2, <3>3
  <2> QED BY <2>4, <2>7, <2>8, Turn DEF Home
<1>4. CASE j.pc \notin {"lookup", "drop"}
  BY <1>1, <1>4, GivenUp DEF CallFails, CallFailed
<1> QED BY <1>3, <1>4

LEMMA BeginSole ==
  ASSUME IInv, SafeInv, NEW c, setup.clients = {c}, Create(c) \/ Begin(c)
  PROVE  SafeInv'
<1>1. /\ job \in [Clients -> Job] /\ c \in Clients /\ Home(c) \in Clients
      /\ store \in [Clients -> Storage] /\ Alive(Top) /\ Alive(store[Home(c)].root)
  BY Sole, Here DEF Typed
<1>2. PICK n : /\ job'[c] = n /\ n.at = Top /\ n.stored = FALSE
               /\ \/ n.pc = "root" /\ n.result = "idle"
                  \/ n.pc = "idle" /\ n.op.do = "create"
  <2>1. CASE Create(c)
    <3>1. PICK op \in setup.ops :
             op.do = "create" /\ job' = [job EXCEPT ![c] = [Idle EXCEPT !.op = op, !.result = "ok"]]
      BY <2>1 DEF Create
    <3>2. PICK n : n = [Idle EXCEPT !.op = op, !.result = "ok"]
      OBVIOUS
    <3>3. n.at = Top /\ n.stored = FALSE /\ n.pc = "idle" /\ n.op = op
      BY <3>2, IdleJob DEF Job
    <3> QED BY <1>1, <3>1, <3>2, <3>3
  <2>2. CASE Begin(c)
    <3>1. PICK op \in setup.ops :
             LET found == {b \in store[Home(c)].bufs : op.do = "rename" /\ b.path = op.path}
             IN  \E data \in IF found # {} THEN {b.data : b \in found}
                             ELSE IF op.do = "write"
                             THEN {[by |-> begun', units |-> Units(op.size)]}
                             ELSE {Empty} :
                    job' = [job EXCEPT ![c] = [Idle EXCEPT !.pc = "root", !.op = op,
                                                           !.data = data,
                                                           !.buffered = found # {}]]
      BY <2>2 DEF Begin
    <3> PICK b : b = ({x \in store[Home(c)].bufs : op.do = "rename" /\ x.path = op.path} # {})
      OBVIOUS
    <3>2. PICK data : job' = [job EXCEPT ![c] = [Idle EXCEPT !.pc = "root", !.op = op,
                                                             !.data = data, !.buffered = b]]
      BY <3>1
    <3>3. PICK n : n = [Idle EXCEPT !.pc = "root", !.op = op, !.data = data, !.buffered = b]
      OBVIOUS
    <3>4. n.at = Top /\ n.stored = FALSE /\ n.pc = "root" /\ n.result = "idle"
      BY <3>3, IdleJob DEF Job
    <3> QED BY <1>1, <3>2, <3>3, <3>4
  <2> QED BY <2>1, <2>2
<1>3. store'[Home(c)].root = store[Home(c)].root
  <2>1. PICK bufs : store' = [store EXCEPT ![Home(c)].bufs = bufs]
    <3>1. CASE Create(c)
      BY <3>1 DEF Create
    <3>2. CASE Begin(c)
      BY <3>2 DEF Begin
    <3> QED BY <3>1, <3>2
  <2> QED BY <1>1, <2>1 DEF Storage
<1>4. SoleInv(n)
  BY <1>1, <1>2 DEF SoleInv, Sending, Placing, Wrote
<1> QED BY <1>1, <1>2, <1>3, <1>4, Quietly DEF Create, Begin

LEMMA CrashSole ==
  ASSUME IInv, SafeInv, NEW c, setup.clients = {c}, Crash(c)
  PROVE  SafeInv'
<1>1. PICK j \in Job : j = job[c]
  BY Sole
<1>2. c \in Clients /\ Alive(Top) /\ setup \in Setups /\ c \in setup.clients
  BY Sole DEF Typed
<1>3. Home(c) = c
  BY <1>2, SetupAssumption DEF Home
<1>4. PICK n : n = Ended(j, "crash")
  OBVIOUS
<1>5. job'[c] = n
  BY <1>1, <1>2, <1>3, <1>4 DEF Crash, Ended, Op
<1>6. SoleInv(n)
  <2>1. "crash" \in {"ok", "error", "crash"} /\ "crash" # "ok"
    OBVIOUS
  <2> QED BY <1>4, <2>1, EndSole
<1>7. store'[Home(c)].root = Top
  BY <1>2, <1>3, Here DEF Crash, Typed
<1> QED BY <1>2, <1>5, <1>6, <1>7, Quietly DEF Crash

---------------------------------------------------------------------------
(* Folders are made, files are deleted and uploaded.                       *)

\* A folder is made that is not there.
LEMMA MadeFolder ==
  ASSUME IInv, SafeInv, NEW c, setup.clients = {c}, job[c].pc \in {"make", "rootmake"},
         Alive(job[c].at), Add(job[c].at, Head(job[c].walk), "folder", Empty),
         begun' = begun, setup' = setup, UNCHANGED faults \/ Fault, NEW k, k = Len(drive')
  PROVE  /\ Grows /\ OneFolder' /\ Bounded' /\ Alive(k)'
         /\ \A t \in {Top} \cup DOMAIN drive : Alive(t) => Alive(t)'
<1>1. PICK j \in Job : j = job[c]
  BY Sole
<1>2. /\ IsFolder(j.at) /\ Alive(j.at) /\ j.walk # << >> /\ SoleInv(j) /\ Typed /\ TreeInv
      /\ OneFolder /\ Bounded /\ c \in setup.clients /\ j.pc \in {"make", "rootmake"}
  BY <1>1, Sole DEF PlaceInv
<1>3. begun \in Nat
  BY <1>2, Here
<1>4. PICK at, name : at = j.at /\ name = Head(j.walk)
  OBVIOUS
<1>5. IsFolder(at) /\ Alive(at) /\ name \in Name
  <2>1. PathOf(j.at) \in Names /\ j.walk \in Names
    BY <1>2, Tokens DEF Job
  <2> QED BY <1>2, <1>4, <2>1, OneName
<1>6. "folder" \in Kinds /\ Empty \in Data /\ Empty.by \in -2 .. begun
  BY <1>3, IdleJob DEF Kinds
<1>7. Add(at, name, "folder", Empty)
  BY <1>1, <1>4
<1>8. /\ Grows /\ DOMAIN drive' = DOMAIN drive \cup {k} /\ k \notin DOMAIN drive
      /\ \A t \in DOMAIN drive : drive'[t] = drive[t]
      /\ \A t \in {Top} \cup DOMAIN drive : Alive(t)' = Alive(t) /\ PathOf(t)' = PathOf(t)
      /\ Alive(k)' = Alive(at) /\ drive'[k].kind = "folder"
  <2>1. HasNew(k, at, name, "folder", Empty)
    BY <1>2, <1>5, <1>6, <1>7, Added
  <2> QED BY <2>1 DEF HasNew
<1>9. OneFolder'
  <2>1. \A t \in Entries(at, name) : drive[t].kind = "folder" => Mistaken(PathOf(t))
    BY <1>2, <1>4 DEF SoleInv
  <2> QED BY <1>2, <1>3, <1>5, <1>7, <2>1, OneFolderMade
<1>10. Bounded'
  <2>1. ASSUME NEW p \in Paths, NEW t \in FilesAt(p)'
        PROVE  t \in FilesAt(p)
    <3>1. /\ t \in DOMAIN drive' /\ Alive(t)' /\ drive'[t].kind # "folder"
          /\ PathOf(t)' = Full(p)'
      BY <2>1, InFiles
    <3>2. t \in DOMAIN drive /\ Alive(t) /\ drive[t].kind # "folder" /\ PathOf(t) = Full(p)
      BY <1>8, <3>1 DEF Full
    <3> QED BY <3>2, InFiles
  <2> QED BY <1>2, <1>8, <2>1, BoundedLess
<1> QED BY <1>5, <1>8, <1>9, <1>10

\* Where a Storage's root folder is.
LEMMA RootIs ==
  ASSUME IInv, SafeInv, NEW c, setup.clients = {c}, NEW r, r = store[Home(c)].root
  PROVE  IsFolder(r) /\ Alive(r) /\ r \in {Top} \cup DOMAIN drive
BY Sole, Here DEF StoreInv, IsFolder

LEMMA CreateFolderSole ==
  ASSUME IInv, SafeInv, NEW c, setup.clients = {c}, CreateFolder(c)
  PROVE  SafeInv'
<1>1. PICK j \in Job : j = job[c]
  BY Sole
<1>2. PICK k : k = Len(drive')
  OBVIOUS
<1>3. PICK r : r = store[Home(c)].root
  OBVIOUS
<1>4. /\ Grows /\ OneFolder' /\ Bounded' /\ Alive(k)'
      /\ \A t \in {Top} \cup DOMAIN drive : Alive(t) => Alive(t)'
  BY <1>2, MadeFolder DEF CreateFolder
<1>5. j.pc \in {"make", "rootmake"} /\ ~j.stored /\ j.result = "idle" /\ SoleInv(j) /\ Typed
  BY <1>1, Sole DEF CreateFolder, OpInv
<1>6. PICK n : n = [j EXCEPT !.pc = IF @ = "make" THEN "ensure" ELSE "rootwalk",
                             !.at = k, !.walk = Tail(@)]
  OBVIOUS
<1>7. /\ n.pc = (IF j.pc = "make" THEN "ensure" ELSE "rootwalk") /\ n.at = k
      /\ n.op = j.op /\ n.stored = j.stored /\ n.buffered = j.buffered /\ n.result = j.result
  BY <1>6 DEF Job
<1>8. job'[c] = n
  BY <1>1, <1>2, <1>6, Sole DEF CreateFolder
<1>9. n.op.do = "rename" /\ ~n.buffered /\ n.pc = "ensure" => Was(n.op.path)'
  <2>1. n.op.do = "rename" /\ ~n.buffered /\ n.pc = "ensure" => Was(n.op.path)
    BY <1>5, <1>7 DEF SoleInv
  <2> QED BY <1>4, <1>5, <2>1, Remains DEF CreateFolder
<1>10. SoleInv(n)'
  BY <1>4, <1>5, <1>7, <1>9 DEF SoleInv, Sending, Placing
<1>11. Alive(r)' /\ store'[Home(c)].root = r
  BY <1>3, <1>4, RootIs DEF CreateFolder
<1> QED BY <1>4, <1>8, <1>10, <1>11, Turn DEF CreateFolder

\* An operation that has failed knows nothing of the drive.
LEMMA Forgets ==
  ASSUME NEW n, n.pc = "idle", n.at = Top, n.stored = FALSE, n.result \in {"error", "crash"}
  PROVE  SoleInv(n)'
BY DEF SoleInv, Alive, Chain, Sending, Placing

LEMMA FolderUnansweredSole ==
  ASSUME IInv, SafeInv, NEW c, setup.clients = {c}, FolderUnanswered(c)
  PROVE  SafeInv'
<1>1. PICK j \in Job : j = job[c]
  BY Sole
<1>2. PICK k : k = Len(drive')
  OBVIOUS
<1>3. PICK r : r = store[Home(c)].root
  OBVIOUS
<1>4. /\ Grows /\ OneFolder' /\ Bounded' /\ Alive(k)'
      /\ \A t \in {Top} \cup DOMAIN drive : Alive(t) => Alive(t)'
  BY <1>2, MadeFolder DEF FolderUnanswered
<1>5. ~j.stored
  BY <1>1, Sole DEF FolderUnanswered, OpInv
<1>6. PICK n : n = Ended(j, "error")
  OBVIOUS
<1>7. n.pc = "idle" /\ n.at = Top /\ n.stored = FALSE /\ n.result = "error"
  <2>1. "error" \in {"ok", "error", "crash"}
    OBVIOUS
  <2> QED BY <1>6, <2>1, EndedJob
<1>8. job'[c] = n
  BY <1>1, <1>5, <1>6, Sole DEF FolderUnanswered, GiveUp, Fail, End, Ended, Op
<1>9. SoleInv(n)'
  BY <1>7, Forgets
<1>10. Alive(r)'
  BY <1>3, <1>4, RootIs
<1>11. store'[Home(c)].root = r
  BY <1>3, Sole, Here DEF FolderUnanswered, GiveUp, Typed, Storage
<1> QED BY <1>4, <1>8, <1>9, <1>10, <1>11, Turn DEF FolderUnanswered

\* A delete leaves what is not in the entry.
LEMMA Lost ==
  ASSUME IInv, SafeInv, NEW c, setup.clients = {c}, NEW t \in DOMAIN drive, Delete(t),
         begun' = begun, setup' = setup, UNCHANGED faults \/ Fault
  PROVE  /\ Grows /\ OneFolder' /\ Bounded'
         /\ \A u \in {Top} \cup DOMAIN drive : Alive(u) /\ t \notin Chain(drive, u) => Alive(u)'
         /\ \A p : FilesAt(p)' = {u \in FilesAt(p) : t \notin Chain(drive, u)}
<1>1. Typed /\ TreeInv /\ OneFolder /\ Bounded
  BY Sole
<1>2. /\ Grows /\ DOMAIN drive' = DOMAIN drive
      /\ \A u \in {Top} \cup DOMAIN drive :
            /\ Alive(u)' <=> Alive(u) /\ t \notin Chain(drive, u)
            /\ PathOf(u)' = PathOf(u)
      /\ \A p : FilesAt(p)' = {u \in FilesAt(p) : t \notin Chain(drive, u)}
  BY <1>1, Deleted
<1>3. OneFolder'
  <2>1. DOMAIN drive' \subseteq DOMAIN drive \cup {t} /\ \A u \in DOMAIN drive : Alive(u)' => Alive(u)
    BY <1>2
  <2> QED BY <1>1, <1>2, <2>1, OneFolderFile
<1>4. Bounded'
  BY <1>1, <1>2, BoundedLess
<1> QED BY <1>2, <1>3, <1>4

LEMMA DropSole ==
  ASSUME IInv, SafeInv, NEW c, setup.clients = {c}, Drop(c)
  PROVE  SafeInv'
<1>1. PICK j \in Job : j = job[c]
  BY Sole
<1>2. PICK t : t = j.tok
  OBVIOUS
<1>3. PICK p : p = Target(j.op)
  OBVIOUS
<1>4. PICK r : r = store[Home(c)].root
  OBVIOUS
<1>5. /\ j.pc = "drop" /\ SoleInv(j) /\ Alive(j.at) /\ Typed /\ TreeInv /\ Bounded
      /\ IsFolder(j.at) /\ j.result = "idle" /\ c \in setup.clients /\ faults \in Nat
      /\ t \in DOMAIN drive /\ drive[t].kind # "folder"
  BY <1>1, <1>2, Sole DEF Drop, SoleInv, PlaceInv, Leads, OpInv
<1>6. /\ Grows /\ OneFolder' /\ Bounded'
      /\ \A u \in {Top} \cup DOMAIN drive : Alive(u) /\ t \notin Chain(drive, u) => Alive(u)'
      /\ \A q : FilesAt(q)' = {u \in FilesAt(q) : t \notin Chain(drive, u)}
  BY <1>1, <1>2, <1>5, Lost DEF Drop, Remove
<1>7. \A u \in {Top} \cup DOMAIN drive : u # t => t \notin Chain(drive, u)
  BY <1>5 DEF TreeInv, Chain
<1>8. t \in Chain(drive, t)
  BY <1>5, PathIs DEF Chain
<1>9. \A u : IsFolder(u) /\ Alive(u) => Alive(u)'
  BY <1>5, <1>6, <1>7, PathIs DEF IsFolder
<1>10. PICK n : n = Send(c)
  OBVIOUS
<1>11. /\ n.op = j.op /\ n.data = j.data /\ n.pc \in {"all", "prepare"}
       /\ n.at = j.at /\ n.result = "idle" /\ ~n.stored
       /\ n.op.do = "rename" /\ ~n.buffered => Was(n.op.path)
  BY <1>1, <1>5, <1>10, SentSole
<1>12. Shadowed(p)' \/ Cardinality(FilesAt(p))' <= faults'
  <2>1. CASE Shadowed(p)
    BY <1>5, <1>6, <2>1, Remains DEF Drop
  <2>2. CASE ~Shadowed(p)
    <3>1. t \in FilesAt(p)
      BY <1>2, <1>3, <1>5, <2>2 DEF SoleInv
    <3>2. FilesAt(p)' = FilesAt(p) \ {t}
      <4>1. FilesAt(p) \subseteq DOMAIN drive
        BY DEF FilesAt
      <4> QED BY <1>6, <1>7, <1>8, <4>1
    <3>3. p \in Paths
      BY <1>1, <1>3, <1>5, TargetIs DEF Placing
    <3>4. Cardinality(FilesAt(p)) <= 1 + faults /\ Cardinality(FilesAt(p)) \in Nat
          /\ IsFiniteSet(FilesAt(p))
      BY <1>5, <2>2, <3>3, Files DEF Bounded
    <3>5. Cardinality(FilesAt(p)') = Cardinality(FilesAt(p)) - 1
      BY <3>1, <3>2, <3>4, FS_RemoveElement
    <3>6. faults' \in {faults, faults + 1}
      BY DEF Drop, Fault
    <3> QED BY <1>5, <3>4, <3>5, <3>6
  <2> QED BY <2>1, <2>2
<1>13. SoleInv(n)'
  <2>1. Alive(n.at)'
    BY <1>5, <1>9, <1>11
  <2>2. n.op.do = "rename" /\ ~n.buffered => Was(n.op.path)'
    BY <1>5, <1>6, <1>11, Remains DEF Drop
  <2>3. (Shadowed(Target(n.op)) \/ Cardinality(FilesAt(Target(n.op))) <= faults)'
    BY <1>3, <1>11, <1>12
  <2> QED BY <1>11, <2>1, <2>2, <2>3 DEF SoleInv
<1>14. job'[c] = n /\ store'[Home(c)].root = r /\ Alive(r)'
  BY <1>4, <1>9, <1>10, Sole, RootIs DEF Drop
<1> QED BY <1>6, <1>13, <1>14, Turn DEF Drop

\* A file is stored under its name, and nothing under another one.
PutsFile(c, p, k) ==
    /\ Grows /\ k \notin FilesAt(p) /\ drive'[k].data = job[c].data
    /\ \A t \in {Top} \cup DOMAIN drive : Alive(t) => Alive(t)'
    /\ \A t \in DOMAIN drive : drive'[t] = drive[t]
    /\ FilesAt(p)' = FilesAt(p) \cup {k}
    /\ \A q \in Paths : q # p => FilesAt(q)' = FilesAt(q)

LEMMA PutFile ==
  ASSUME IInv, SafeInv, NEW c, setup.clients = {c}, job[c].pc \in {"all", "finish"},
         Alive(job[c].at), Store(c, job[c].data.units), begun' = begun, setup' = setup,
         NEW p, p = Target(job[c].op), NEW k, k = Len(drive')
  PROVE  PutsFile(c, p, k) /\ OneFolder'
<1>1. /\ job[c] \in Job /\ Typed /\ TreeInv /\ PlaceInv(job[c]) /\ OpInv(job[c])
      /\ setup \in Setups /\ setup.folder \in Names /\ OneFolder /\ c \in setup.clients
  BY Sole, Here
<1>2. PICK a : a = job[c].at /\ IsFolder(a) /\ Alive(a)
  BY <1>1 DEF PlaceInv
<1>3. p \in Names /\ Last(p) \in Name /\ Append(PathOf(a), Last(p)) = Full(p)
  BY <1>2, TargetIs DEF Placing, Sending
<1>4. PICK h \in Name : h = Last(p)
  BY <1>3
<1>5. PICK d \in Data : d = job[c].data
  BY <1>1 DEF Job
<1>6. d.by \in -2 .. begun
  BY <1>1, <1>5 DEF OpInv
<1>7. [d EXCEPT !.units = d.units] = d
  BY DEF Data
<1>8. Add(a, h, "file", d) /\ "file" \in Kinds
  BY <1>2, <1>4, <1>5, <1>7 DEF Store, Op, Kinds
<1>9. HasNew(k, a, h, "file", d)
  BY <1>1, <1>2, <1>6, <1>8, Added
<1>10. /\ Grows /\ DOMAIN drive' = DOMAIN drive \cup {k} /\ k \notin DOMAIN drive
       /\ \A t \in DOMAIN drive : drive'[t] = drive[t]
       /\ \A t \in {Top} \cup DOMAIN drive : Alive(t)' = Alive(t) /\ PathOf(t)' = PathOf(t)
       /\ Alive(k)' = Alive(a) /\ PathOf(k)' = Append(PathOf(a), h)
       /\ drive'[k].kind = "file" /\ drive'[k].data = d
  BY <1>9 DEF HasNew
<1>11. PathOf(k)' = Full(p) /\ Alive(k)'
  BY <1>2, <1>3, <1>4, <1>10
<1>12. ASSUME NEW q, NEW t
       PROVE  t \in FilesAt(q)' <=> t \in FilesAt(q) \/ (t = k /\ Full(p) = Full(q))
  <2>1. Full(q)' = Full(q)
    BY DEF Full
  <2>2. CASE t = k
    BY <1>10, <1>11, <2>1, <2>2, InFiles
  <2>3. CASE t # k
    BY <1>10, <2>1, <2>3, InFiles
  <2> QED BY <2>2, <2>3
<1>13. FilesAt(p)' = FilesAt(p) \cup {k} /\ k \notin FilesAt(p)
  <2>1. k \notin FilesAt(p)
    BY <1>10, InFiles
  <2> QED BY <1>12, <2>1
<1>14. ASSUME NEW q \in Paths, q # p
       PROVE  FilesAt(q)' = FilesAt(q)
  <2>1. Full(p) # Full(q)
    BY <1>1, <1>3, <1>14, PathsTyped, FullPaths
  <2> QED BY <1>12, <2>1
<1>15. OneFolder'
  <2>1. /\ DOMAIN drive' \subseteq DOMAIN drive \cup {k}
        /\ k \in DOMAIN drive' => k \in DOMAIN drive \/ drive'[k].kind # "folder"
        /\ \A t \in DOMAIN drive : Alive(t)' => Alive(t)
    BY <1>10
  <2> QED BY <1>1, <1>10, <2>1, OneFolderFile
<1> QED BY <1>5, <1>10, <1>13, <1>14, <1>15 DEF PutsFile

\* What there is of the name then, and what the client may know of it.
LEMMA PutKnown ==
  ASSUME IInv, SafeInv, NEW c, setup.clients = {c}, job[c].pc \in {"all", "finish"},
         setup' = setup, NEW p, p = Target(job[c].op), NEW k, PutsFile(c, p, k)
  PROVE  /\ Shadowed(p)' \/ Cardinality(FilesAt(p)') <= 1 + faults
         /\ faults = 0 => Shadowed(p)' \/ {drive[t].data : t \in FilesAt(p)}' = {job[c].data}
         /\ Shadowed(p) => Shadowed(p)'
<1>1. Typed /\ SoleInv(job[c]) /\ faults \in Nat
  BY Sole
<1>2. /\ Grows /\ k \notin FilesAt(p) /\ drive'[k].data = job[c].data
      /\ FilesAt(p)' = FilesAt(p) \cup {k}
  BY DEF PutsFile
<1>3. Shadowed(p) => Shadowed(p)'
  BY <1>1, <1>2, Remains
<1>4. ASSUME ~Shadowed(p)
      PROVE  Cardinality(FilesAt(p)) <= faults
  BY <1>1, <1>4 DEF SoleInv, Sending
<1>5. IsFiniteSet(FilesAt(p)) /\ Cardinality(FilesAt(p)) \in Nat
  BY <1>1, Files
<1>6. Cardinality(FilesAt(p)') = Cardinality(FilesAt(p)) + 1
  BY <1>2, <1>5, FS_AddElement
<1>7. ASSUME ~Shadowed(p), faults = 0
      PROVE  {drive[t].data : t \in FilesAt(p)}' = {job[c].data}
  <2>1. Cardinality(FilesAt(p)) = 0
    BY <1>4, <1>5, <1>7
  <2>2. FilesAt(p) = {}
    BY <1>5, <2>1, FS_EmptySet
  <2>3. FilesAt(p)' = {k}
    BY <1>2, <2>2
  <2> QED BY <1>2, <2>3
<1> QED BY <1>1, <1>3, <1>4, <1>5, <1>6, <1>7

LEMMA PutBounded ==
  ASSUME IInv, SafeInv, NEW c, setup.clients = {c}, job[c].pc \in {"all", "finish"},
         setup' = setup, UNCHANGED faults \/ Fault,
         NEW p, p = Target(job[c].op), NEW k, PutsFile(c, p, k)
  PROVE  Bounded'
<1>1. Typed /\ Bounded /\ faults \in Nat /\ Grows
  BY Sole DEF PutsFile
<1>2. faults' \in {faults, faults + 1}
  BY DEF Fault
<1>3. \A q : Shadowed(q) => Shadowed(q)'
  BY <1>1, Remains
<1>4. ASSUME NEW q \in Paths
      PROVE  Shadowed(q)' \/ Cardinality(FilesAt(q)') <= 1 + faults
  <2>1. CASE q = p
    BY <2>1, PutKnown
  <2>2. CASE q # p
    BY <1>1, <1>3, <2>2 DEF PutsFile, Bounded
  <2> QED BY <2>1, <2>2
<1>5. ASSUME NEW q \in Paths
      PROVE  Shadowed(q)' \/ Cardinality(FilesAt(q)') \in Nat
  <2>1. IsFiniteSet(FilesAt(q)') /\ Cardinality(FilesAt(q)') \in Nat
    <3>1. IsFiniteSet(FilesAt(q)) /\ IsFiniteSet(FilesAt(p))
      BY <1>1, Files
    <3>2. FilesAt(q)' = FilesAt(q) \/ FilesAt(q)' = FilesAt(p) \cup {k}
      BY DEF PutsFile
    <3>3. IsFiniteSet(FilesAt(p) \cup {k})
      BY <3>1, FS_AddElement
    <3>4. IsFiniteSet(FilesAt(q)')
      BY <3>1, <3>2, <3>3
    <3> QED BY <3>4, FS_CardinalityType
  <2> QED BY <2>1
<1> QED BY <1>1, <1>2, <1>4, <1>5 DEF Bounded

\* What its client makes of the answer.
LEMMA PutSole ==
  ASSUME IInv, SafeInv, NEW c, setup.clients = {c}, job[c].pc \in {"all", "finish"},
         Alive(job[c].at), Store(c, job[c].data.units), UNCHANGED <<setup, store, begun>>,
         \/ UNCHANGED faults /\ (Uploaded(c) \/ job' = [job EXCEPT ![c].pc = "find"])
         \/ Fault /\ Retry(c)
  PROVE  SafeInv'
<1>1. PICK j \in Job : j = job[c]
  BY Sole
<1>2. PICK p, k : p = Target(j.op) /\ k = Len(drive')
  OBVIOUS
<1>3. PutsFile(c, p, k) /\ OneFolder'
  BY <1>1, <1>2, PutFile
<1>4. Bounded'
  BY <1>1, <1>2, <1>3, PutBounded
<1>5. PICK r : r = store[Home(c)].root
  OBVIOUS
<1>6. PICK n : n = job'[c]
  OBVIOUS
<1>7. /\ j.pc \in {"all", "finish"} /\ SoleInv(j) /\ Alive(j.at) /\ IsFolder(j.at)
      /\ ~j.stored /\ j.result = "idle" /\ faults \in Nat /\ Typed
      /\ j.op.do = "rename" /\ ~j.buffered => Was(j.op.path)
  BY <1>1, Sole DEF PlaceInv, OpInv, SoleInv, Placing, Sending
<1>8. Alive(r)' /\ Alive(j.at)' /\ Alive(Top)'
  <2>1. j.at \in {Top} \cup DOMAIN drive /\ r \in {Top} \cup DOMAIN drive /\ Alive(r)
    BY <1>5, <1>7, RootIs DEF IsFolder
  <2>2. Alive(Top)'
    BY DEF Alive, Chain
  <2> QED BY <1>3, <1>7, <2>1, <2>2 DEF PutsFile
<1>9. j.op.do = "rename" /\ ~j.buffered => Was(j.op.path)'
  BY <1>3, <1>7, Remains DEF PutsFile
<1>10. /\ Shadowed(p)' \/ Cardinality(FilesAt(p)') <= 1 + faults
       /\ faults = 0 => Shadowed(p)' \/ {drive[t].data : t \in FilesAt(p)}' = {j.data}
  BY <1>1, <1>2, <1>3, PutKnown
<1>11. ASSUME n.op = j.op, n.data = j.data, faults' = faults
       PROVE  (faults = 0 => Stored(n))'
  BY <1>2, <1>10, <1>11 DEF Stored
<1>12. CASE UNCHANGED faults /\ Uploaded(c)
  <2>1. /\ n.op = j.op /\ n.data = j.data
        /\ \/ n.pc = "idle" /\ n.at = Top /\ n.stored = FALSE
           \/ /\ n.pc = "resolve" /\ n.at = r /\ n.result = "idle"
              /\ n.op.do = "rename" /\ ~j.buffered /\ ~n.buffered
    <3>1. Returned(c, job'[c])
      BY <1>12, UploadedShape
    <3> QED BY <1>1, <1>5, <1>6, <3>1 DEF Returned
  <2>2. (faults = 0 => Stored(n))'
    BY <1>11, <1>12, <2>1
  <2>3. SoleInv(n)'
    BY <1>8, <1>9, <2>1, <2>2 DEF SoleInv, Sending, Placing
  <2> QED BY <1>3, <1>4, <1>5, <1>6, <1>8, <2>3, Turn DEF Home
<1>13. CASE UNCHANGED faults /\ job' = [job EXCEPT ![c].pc = "find"]
  <2>1. n = [j EXCEPT !.pc = "find"]
    BY <1>1, <1>6, <1>13, Sole
  <2>2. /\ n.pc = "find" /\ n.at = j.at /\ n.op = j.op /\ n.data = j.data
        /\ n.stored = j.stored /\ n.buffered = j.buffered /\ n.result = j.result
    BY <2>1 DEF Job
  <2>3. (faults = 0 => Stored(n))'
    BY <1>11, <1>13, <2>2
  <2>4. SoleInv(n)'
    BY <1>7, <1>8, <1>9, <2>2, <2>3 DEF SoleInv, Sending
  <2> QED BY <1>3, <1>4, <1>5, <1>6, <1>8, <2>4, Turn DEF Home
<1>14. CASE Fault /\ Fail(c)
  <2>1. PICK e : e = Ended(j, "error")
    OBVIOUS
  <2>2. e.pc = "idle" /\ e.at = Top /\ e.stored = FALSE /\ e.result = "error"
    <3>1. "error" \in {"ok", "error", "crash"}
      OBVIOUS
    <3> QED BY <2>1, <3>1, EndedJob
  <2>3. n = e
    BY <1>1, <1>6, <1>7, <1>14, <2>1, Sole DEF Fail, End, Ended, Op
  <2>4. SoleInv(n)'
    BY <2>2, <2>3, Forgets
  <2> QED BY <1>3, <1>4, <1>5, <1>6, <1>8, <2>4, Turn DEF Home
<1>15. CASE Fault /\ Retry(c) /\ ~Fail(c)
  <2>1. /\ n.pc = j.pc /\ n.at = j.at /\ n.op = j.op /\ n.data = j.data
        /\ n.buffered = j.buffered /\ n.stored = j.stored /\ n.result = j.result
    BY <1>1, <1>6, <1>15, RetryShape
  <2>2. faults' = faults + 1
    BY <1>15 DEF Fault
  <2>3. (Shadowed(Target(n.op)) \/ Cardinality(FilesAt(Target(n.op))) <= faults)'
    BY <1>2, <1>7, <1>10, <2>1, <2>2
  <2>4. SoleInv(n)'
    BY <1>7, <1>8, <1>9, <2>1, <2>2, <2>3 DEF SoleInv
  <2> QED BY <1>3, <1>4, <1>5, <1>6, <1>8, <2>4, Turn DEF Home
<1> QED BY <1>12, <1>13, <1>14, <1>15

LEMMA UploadAllSole ==
  ASSUME IInv, SafeInv, NEW c, setup.clients = {c}, UploadAll(c)
  PROVE  SafeInv'
BY PutSole DEF UploadAll, Answered

LEMMA UploadFinishSole ==
  ASSUME IInv, SafeInv, NEW c, setup.clients = {c}, UploadFinish(c)
  PROVE  SafeInv'
<1>1. uploads[job[c].up].units = job[c].data.units
  <2>1. c \in setup.clients
    OBVIOUS
  <2> QED BY <2>1, Here DEF UploadFinish, UploadInv
<1> QED BY <1>1, PutSole DEF UploadFinish, Answered

---------------------------------------------------------------------------
(* What Remove and Rename delete.                                          *)

\* Rename removes what it finds under the old name.  Nothing of the new name is
\* in it: the old name was read as a file, so the new one is not below it,
\* unless it is shadowed.
LEMMA Spared ==
  ASSUME IInv, SafeInv, NEW c, setup.clients = {c}, job[c].pc = "delete", job[c].stored,
         NEW j, j = job[c], Wrote(j.op), ~Shadowed(Target(j.op)),
         NEW u \in FilesAt(Target(j.op))
  PROVE  j.tok \notin Chain(drive, u)
<1>1. /\ SoleInv(j) /\ OpInv(j) /\ PlaceInv(j) /\ Typed /\ TreeInv /\ c \in setup.clients
      /\ setup \in Setups /\ setup.folder \in Names /\ j.op \in setup.ops /\ j.op.do = "rename"
      /\ j.pc = "delete"
  BY Sole, Here DEF OpInv
<1>2. PICK p : p = Target(j.op)
  OBVIOUS
<1>3. PICK t : t = j.tok
  OBVIOUS
<1>4. /\ p \in Names /\ p # << >> /\ p = j.op.to /\ j.op.path \in Names /\ j.op.path # << >>
      /\ j.op.path # p
  BY <1>1, <1>2, OpTyped DEF Target, Wrote
<1>5. /\ u \in DOMAIN drive /\ drive[u].path = Full(p) /\ u # Top
  BY <1>1, <1>2, InFiles, PathIs
<1>6. t \in DOMAIN drive /\ drive[t].path = Full(j.op.path)
  BY <1>1, <1>3 DEF PlaceInv, Leads
<1>7. SUFFICES ASSUME t \in Chain(drive, u)
               PROVE  FALSE
  BY <1>3
<1>8. CASE t = u
  BY <1>1, <1>4, <1>5, <1>6, <1>8, FullPaths
<1>9. CASE t # u
  <2>1. PICK f \in Seq(Name) : f = Full(p)
    BY <1>1, <1>4, FullPaths DEF Names
  <2>2. PICK o \in Seq(Name) : o = Full(j.op.path)
    BY <1>1, <1>4, FullPaths DEF Names
  <2>3. /\ Len(o) < Len(f) /\ \A i \in 1 .. Len(o) : f[i] = o[i]
    BY <1>1, <1>5, <1>6, <1>7, <1>9, <2>1, <2>2 DEF Chain, TreeInv
  <2>4. Len(o) \in Nat \ {0}
    <3>1. Len(o) = Len(setup.folder) + Len(j.op.path)
      BY <1>1, <1>4, <2>2, FullPaths
    <3>2. PICK a \in Nat, b \in Nat \ {0} : a = Len(setup.folder) /\ b = Len(j.op.path)
      BY <1>1, <1>4, EmptySeq DEF Names
    <3>3. Len(o) = a + b
      BY <3>1, <3>2
    <3> QED BY <3>3
  <2>5. PICK g \in Seq(Name) : /\ g = Front(f) /\ Len(g) = Len(f) - 1
                               /\ \A i \in 1 .. Len(f) - 1 : g[i] = f[i]
    <3>1. f # << >>
      BY <2>3, <2>4
    <3> QED BY <2>1, <3>1, FrontLast DEF Names
  <2>6. Len(o) \in 1 .. Len(g) /\ SubSeq(g, 1, Len(o)) = o
    <3>1. Len(o) \in 1 .. Len(g) /\ \A i \in 1 .. Len(o) : g[i] = o[i]
      BY <2>3, <2>4, <2>5
    <3>2. /\ SubSeq(g, 1, Len(o)) \in Seq(Name) /\ Len(SubSeq(g, 1, Len(o))) = Len(o)
          /\ \A i \in 1 .. Len(o) : SubSeq(g, 1, Len(o))[i] = g[i]
      BY <3>1
    <3> QED BY <3>1, <3>2, SeqEqual
  <2>7. PICK x \in DOMAIN drive : drive[x].kind # "folder" /\ drive[x].path = o
    <3>1. Was(j.op.path)
      BY <1>1 DEF SoleInv
    <3> QED BY <2>2, <3>1 DEF Was
  <2>8. Mistaken(g)
    BY <1>1, <2>6, <2>7, PathIs DEF Mistaken
  <2>9. Shadowed(p)
    BY <2>1, <2>5, <2>8, Shadows
  <2> QED BY <1>2, <2>9
<1> QED BY <1>8, <1>9

LEMMA RemoveByTokenSole ==
  ASSUME IInv, SafeInv, NEW c, setup.clients = {c}, RemoveByToken(c)
  PROVE  SafeInv'
<1>1. PICK j \in Job : j = job[c]
  BY Sole
<1>2. PICK t : t = j.tok
  OBVIOUS
<1>3. PICK p : p = Target(j.op)
  OBVIOUS
<1>4. PICK r : r = store[Home(c)].root
  OBVIOUS
<1>5. /\ j.pc = "delete" /\ SoleInv(j) /\ Typed /\ TreeInv /\ c \in setup.clients /\ OpInv(j)
      /\ t \in DOMAIN drive /\ drive[t].path = Full(j.op.path) /\ faults \in Nat
  BY <1>1, <1>2, Sole DEF RemoveByToken, PlaceInv, Leads
<1>6. /\ Grows /\ OneFolder' /\ Bounded'
      /\ \A u \in {Top} \cup DOMAIN drive : Alive(u) /\ t \notin Chain(drive, u) => Alive(u)'
      /\ \A q : FilesAt(q)' = {u \in FilesAt(q) : t \notin Chain(drive, u)}
  <2>1. Delete(t) /\ begun' = begun /\ setup' = setup /\ (UNCHANGED faults \/ Fault)
    BY <1>1, <1>2 DEF RemoveByToken
  <2> QED BY <1>5, <2>1, Lost
<1>7. t \notin Chain(drive, r) /\ r \in {Top} \cup DOMAIN drive /\ Alive(r)
  <2>1. /\ IsFolder(r) /\ Alive(r) /\ r \in {Top} \cup DOMAIN drive
        /\ setup \in Setups /\ setup.folder \in Names /\ j.op \in setup.ops
        /\ PathOf(r) = setup.folder
    BY <1>1, <1>4, <1>5, RootIs, Here DEF OpInv, HomeInv, Rooting, StoreInv
  <2>2. Len(drive[t].path) > Len(setup.folder)
    <3>1. j.op.path \in Names /\ j.op.path # << >>
      BY <2>1, OpTyped
    <3>2. Len(Full(j.op.path)) = Len(setup.folder) + Len(j.op.path)
      BY <2>1, <3>1, FullPaths
    <3>3. PICK a \in Nat, b \in Nat \ {0} : a = Len(setup.folder) /\ b = Len(j.op.path)
      BY <2>1, <3>1, EmptySeq DEF Names
    <3>4. Len(drive[t].path) = a + b
      BY <1>5, <3>2, <3>3
    <3>5. \A x \in Nat, y \in Nat \ {0} : x + y > x
      OBVIOUS
    <3>6. a + b > a
      BY <3>5
    <3>7. Len(drive[t].path) = a + b /\ Len(setup.folder) = a
      BY <3>3, <3>4
    <3> QED BY ONLY <3>6, <3>7
  <2>3. CASE r = Top
    BY <2>1, <2>3 DEF Chain
  <2>4. CASE r # Top
    <3>1. r \in DOMAIN drive /\ drive[r].path = setup.folder
      BY <1>5, <2>1, <2>4, PathIs
    <3>2. t # r
      BY <2>1, <2>2, <3>1 DEF Names
    <3>3. t \notin drive[r].above
      BY <1>5, <2>1, <2>2, <3>1 DEF TreeInv, Names
    <3> QED BY <2>1, <2>4, <3>2, <3>3 DEF Chain
  <2> QED BY <2>1, <2>3, <2>4
<1>8. PICK res \in {"ok", "error", "crash"} : End(c, res)
  BY DEF RemoveByToken, Fail
<1>9. PICK n : n = Ended(j, res)
  OBVIOUS
<1>10. n.pc = "idle" /\ n.op = j.op /\ n.data = j.data /\ n.at = Top /\ n.stored = FALSE
  BY <1>9, EndedJob
<1>11. ASSUME faults' = 0, Wrote(j.op)
       PROVE  Stored(n)'
  <2>1. faults = 0 /\ j.stored
    BY <1>5, <1>11 DEF RemoveByToken, Fault, OpInv, Wrote
  <2>2. CASE Shadowed(p)
    BY <1>3, <1>5, <1>6, <1>10, <2>2, Remains DEF Stored, RemoveByToken
  <2>3. CASE ~Shadowed(p)
    <3>1. {drive[u].data : u \in FilesAt(p)} = {j.data}
      BY <1>3, <1>5, <2>1, <2>3 DEF SoleInv, Stored
    <3>2. FilesAt(p)' = FilesAt(p)
      BY <1>1, <1>2, <1>3, <1>5, <1>6, <1>11, <2>1, <2>3, Spared
    <3>3. \A u \in FilesAt(p) : drive'[u].data = drive[u].data
      BY <1>6, InFiles DEF Grows
    <3>4. {drive[u].data : u \in FilesAt(p)}' = {j.data}
      BY <3>1, <3>2, <3>3
    <3> QED BY <1>3, <1>10, <3>4 DEF Stored
  <2> QED BY <2>2, <2>3
<1>12. SoleInv(n)'
  <2>1. Alive(Top)'
    BY DEF Alive, Chain
  <2> QED BY <1>10, <1>11, <2>1 DEF SoleInv, Sending, Placing
<1>13. job'[c] = n
  BY <1>1, <1>8, <1>9, Sole DEF End, Ended, Op
<1>14. store'[Home(c)].root = r /\ Alive(r)' /\ setup' = setup
  BY <1>4, <1>6, <1>7 DEF RemoveByToken
<1> QED BY <1>6, <1>12, <1>13, <1>14, Turn

---------------------------------------------------------------------------
(* Every step.                                                             *)

LEMMA InitSole ==
  ASSUME Init
  PROVE  AloneInv
<1>1. IInv
  BY InitStep
<1>2. /\ IsSeed(setup.seed) /\ drive = setup.seed /\ faults = 0
      /\ setup.clients \subseteq Clients /\ setup.home \in [setup.clients -> setup.clients]
      /\ \A c \in Clients : job[c] = Idle /\ store[c].root = Top
  BY SetupAssumption DEF Init
<1>3. \A t, u \in DOMAIN drive : drive[t].path = drive[u].path => t = u
  BY <1>2 DEF IsSeed
<1>4. Typed
  BY <1>1 DEF IInv
<1>5. OneFolder
  BY <1>3, <1>4, PathIs DEF OneFolder
<1>6. Bounded
  <2>1. ASSUME NEW p
        PROVE  Cardinality(FilesAt(p)) <= 1
    <3>1. \A t, u \in FilesAt(p) : t = u
      BY <1>3, <1>4, PathIs DEF FilesAt
    <3>2. CASE FilesAt(p) = {}
      BY <3>2, FS_EmptySet
    <3>3. CASE FilesAt(p) # {}
      <4>1. PICK t : t \in FilesAt(p)
        BY <3>3
      <4>2. FilesAt(p) = {t}
        BY <3>1, <4>1
      <4> QED BY <4>2, FS_Singleton
    <3> QED BY <3>2, <3>3
  <2>2. Cardinality({}) = 0
    BY FS_EmptySet
  <2> QED BY <1>2, <2>1 DEF Bounded
<1>7. Alive(Top)
  BY DEF Alive, Chain
<1>8. SoleInv(Idle)
  <2>1. /\ Idle.pc = "idle" /\ Idle.at = Top /\ Idle.stored = FALSE /\ Idle.result = "idle"
    BY IdleJob
  <2> QED BY <1>7, <2>1 DEF SoleInv, Sending, Placing
<1>9. \A c \in setup.clients : SoleInv(job[c]) /\ Alive(store[Home(c)].root)
  BY <1>2, <1>7, <1>8 DEF Home
<1> QED BY <1>5, <1>6, <1>9 DEF AloneInv, SafeInv

LEMMA StepSole ==
  ASSUME IInv, SafeInv, NEW c, setup.clients = {c}, Step(c)
  PROVE  SafeInv'
BY UseRootSole, EnterOnceSole, FindAppRootSole, LeaveOnceSole, EnsureFolderSole,
   CreateFolderSole, FolderUnansweredSole, EnsuredSole, ResolveNameSole, ResolveLastSole,
   DownloadSole, CreateTaskSole, PollSole, LookUpSole, DropSole, PostFailsSole, UploadAllSole,
   UploadPrepareSole, UploadPartSole, UploadFinishSole, FindUploadedSole, RemoveByTokenSole,
   RefusedSole, CallFailsSole DEF Step

LEMMA SetupStays ==
  ASSUME [Next]_vars
  PROVE  setup' = setup
<1>1. ASSUME NEW c \in setup.clients, Create(c) \/ Begin(c) \/ TaskEnds(c)
      PROVE  setup' = setup
  BY <1>1 DEF Create, Begin, TaskEnds
<1>2. ASSUME NEW c \in setup.clients, Step(c)
      PROVE  setup' = setup
  BY <1>2 DEF Step, UseRoot, EnterOnce, FindAppRoot, LeaveOnce, EnsureFolder, CreateFolder,
              FolderUnanswered, Ensured, ResolveName, ResolveLast, Download, DownloadFails,
              DownloadPage, CreateTask, Poll, Fetch, LookUp, Drop, PostFails, UploadAll,
              UploadPrepare, UploadPart, UploadFinish, FindUploaded, RemoveByToken, Refused,
              CallFails
<1>3. ASSUME NEW h \in setup.clients, Crash(h)
      PROVE  setup' = setup
  BY <1>3 DEF Crash
<1>4. CASE UNCHANGED vars
  BY <1>4 DEF vars
<1> QED BY <1>1, <1>2, <1>3, <1>4 DEF Next

LEMMA NextSole ==
  ASSUME IInv, AloneInv, [Next]_vars
  PROVE  AloneInv'
<1> SUFFICES ASSUME Alone'
             PROVE  SafeInv'
  BY DEF AloneInv
<1>1. PICK c \in setup.clients : setup.clients = {c}
  BY SetupStays DEF Alone
<1>2. SafeInv
  BY <1>1 DEF AloneInv, Alone
<1>3. CASE Create(c) \/ Begin(c)
  BY <1>1, <1>2, <1>3, BeginSole
<1>4. CASE Step(c)
  BY <1>1, <1>2, <1>4, StepSole
<1>5. CASE TaskEnds(c)
  BY <1>1, <1>2, <1>5, TaskEndsSole
<1>6. CASE Crash(c)
  BY <1>1, <1>2, <1>6, CrashSole
<1>7. CASE UNCHANGED vars
  <2>1. UNCHANGED <<setup, drive>> /\ UNCHANGED faults /\ UNCHANGED <<store, job>>
    BY <1>7 DEF vars
  <2>2. PICK n, r : n = job[c] /\ r = store[Home(c)].root
    OBVIOUS
  <2>3. SoleInv(n) /\ Alive(r)
    BY <1>1, <1>2, <2>2 DEF SafeInv
  <2>4. job'[c] = n /\ store'[Home(c)].root = r
    BY <2>1, <2>2
  <2> QED BY <1>1, <1>2, <2>1, <2>3, <2>4, Quietly
<1> QED BY <1>1, <1>3, <1>4, <1>5, <1>6, <1>7 DEF Next

(***************************************************************************)
(* What a client that is alone knows between two calls: the folders it is  *)
(* in are alive and the only ones of their names, and from the look-up of  *)
(* the old file to the end of its upload it knows how many files the name  *)
(* leads to.  With another client at work none of this holds.              *)
(***************************************************************************)
THEOREM AloneCorrect == Spec => []AloneInv
<1>1. Init => AloneInv
  BY InitSole
<1>2. IInv /\ AloneInv /\ [Next]_vars => AloneInv'
  BY NextSole
<1> QED BY <1>1, <1>2, InvCorrect, PTL DEF Spec

(***************************************************************************)
(* A client that is alone on a drive never makes a second folder of the    *)
(* same name, whatever is on the drive to begin with, whichever calls fail *)
(* and wherever it crashes, unless an entry that is no folder has had the  *)
(* name, or that of a folder above: ensureFolder looks up and then makes.  *)
(***************************************************************************)
THEOREM FoldersAreUniqueCorrect == Spec => []FoldersAreUnique
<1>1. AloneInv => FoldersAreUnique
  BY DEF AloneInv, SafeInv, OneFolder, FoldersAreUnique
<1> QED BY <1>1, AloneCorrect, PTL

(***************************************************************************)
(* Each failed call leaves one duplicate of a file at most, because        *)
(* WriteFile removes the file of the name before it uploads: an upload     *)
(* whose answer is lost is made again, and a removal that fails is not.    *)
(***************************************************************************)
THEOREM CopiesBoundedCorrect == Spec => []CopiesBounded
<1>1. AloneInv => CopiesBounded
  BY DEF AloneInv, SafeInv, Bounded, CopiesBounded
<1> QED BY <1>1, AloneCorrect, PTL

(***************************************************************************)
(* When no call has failed, the name that WriteFile or Rename has written  *)
(* leads to what it has written last, whole, and to nothing else.          *)
(***************************************************************************)
THEOREM WrittenIsReadCorrect == Spec => []WrittenIsRead
<1>1. AloneInv => WrittenIsRead
  BY DEF AloneInv, SafeInv, SoleInv, Wrote, Stored, WrittenIsRead, Op
<1> QED BY <1>1, AloneCorrect, PTL

=============================================================================
