------------------------------ MODULE VfsProofs ------------------------------
(***************************************************************************)
(* Theorems about Vfs, for any names and any numbers of inodes and         *)
(* descriptors.                                                            *)
(***************************************************************************)
EXTENDS Vfs, TLAPS, FiniteSetTheorems, WellFoundedInduction

-----------------------------------------------------------------------------
(* The inductive invariant.                                                  *)

Dots == {".", ".."}
AllName == Name \cup {".", "..", "hello"}
Entries == UNION {[S -> Node] : S \in SUBSET AllName}

TypedFs(v) ==
  v \in [kind : [Node -> {"free", "reg", "dir"}], ents : [Node -> Entries],
         nlink : [Node -> Nat], size : [Node -> 0 .. MaxSize]]

\* The places where entries E name node n.
Places(E, n) ==
  {x \in Node \X AllName : x[2] \in DOMAIN E[x[1]] /\ E[x[1]][x[2]] = n}

\* Only directories have entries, which lead to files of the same device that are
\* not free; the entry "." of a directory leads to itself.
Tree(K, E) ==
  /\ \A d \in Node : K[d] # "dir" => DOMAIN E[d] = {}
  /\ \A d \in Node : \A m \in DOMAIN E[d] : E[d][m][1] = d[1] /\ K[E[d][m]] # "free"
  /\ \A d \in Node : K[d] = "dir" => "." \in DOMAIN E[d] /\ E[d]["."] = d

\* The entry ".." leads from a directory to the one that names it, which on the
\* ext2 volume is only one, under one name; a directory of the RamFS that was
\* renamed (mv) may keep another.
Upward(K, E, mv) ==
  \A d \in Node : \A m \in DOMAIN E[d] \ Dots :
    K[E[d][m]] = "dir" /\ E[d][m] \notin mv
      => ".." \in DOMAIN E[E[d][m]] /\ E[E[d][m]][".."] = d
Once(K, E) ==
  \A d \in Node : \A m1, m2 \in DOMAIN E[d] \ Dots :
    d[1] = Disk /\ E[d][m1] = E[d][m2] /\ K[E[d][m1]] = "dir" => m1 = m2
Downward(K, E) ==
  \A c \in Node :
    c[1] = Disk /\ ".." \in DOMAIN E[c]
      => E[c][".."] = c \/ \E m \in DOMAIN E[E[c][".."]] \ Dots : E[E[c][".."]][m] = c

\* Nothing is put into the directory that the RamFS covers, and its root is only
\* named when it was renamed.
Covered(K, E, mv) ==
  /\ DOMAIN E[TmpDir] \subseteq Dots
  /\ K[RamRoot] = "dir"
  /\ \A d \in Node : \A m \in DOMAIN E[d] \ Dots : E[d][m] = RamRoot => RamRoot \in mv

\* st_nlink counts the entries, exactly on the ext2 volume.
Counted(E, L) ==
  \A n \in Node : /\ L[n] >= Cardinality(Places(E, n))
                  /\ n[1] = Disk => L[n] = Cardinality(Places(E, n))

Sound(v, mv) ==
  /\ TypedFs(v)
  /\ Tree(v.kind, v.ents)
  /\ Upward(v.kind, v.ents, mv) /\ Once(v.kind, v.ents) /\ Downward(v.kind, v.ents)
  /\ Covered(v.kind, v.ents, mv)
  /\ Counted(v.ents, v.nlink)

\* A descriptor that is not lost is inside a regular file; only files of the ext2
\* volume are lost.  The working directory may be gone or no directory any more.
FilesOpen ==
  /\ fds \in [Fd -> [type : {"empty", "file", "null"}, node : Node \cup {Null},
                     addr : 0 .. 2 * MaxSize]]
  /\ lost \subseteq Fd
  /\ \A k \in Fd : fds[k].type = "file" => fds[k].node \in Node
  /\ \A k \in Fd \ lost : fds[k].type = "file" =>
        fs.kind[fds[k].node] = "reg" /\ fds[k].addr <= fs.size[fds[k].node]
  /\ \A k \in lost : fds[k].type = "file" /\ fds[k].node[1] = Disk
  /\ wd \in (Node \ {TmpDir}) \cup {Null}

IInv == /\ Sound(fs, moved) /\ moved \subseteq {Ram} \X Ino
        /\ FilesOpen
        /\ halted # "readaddr"

-----------------------------------------------------------------------------
(* Paths.                                                                    *)

\* One step of resolvePath.
Step(v, cur, name) == IF IsDir(v, cur) THEN Lookup(v, cur, name) ELSE Null

LEMMA WalkNone == ASSUME NEW v, NEW d PROVE Walk(v, d, <<>>) = d
<1>1. DOMAIN <<>> = {}
  OBVIOUS
<1>2. Walk(v, d, <<>>) =
        LET iter[s \in SUBSET {}] ==
              IF s = {} THEN d
              ELSE LET x == Max(s) IN Step(v, iter[s \ {x}], <<>>[x])
        IN  iter[{}]
  BY <1>1 DEF Walk, FoldLeft, MapThenFoldSet, Step
<1>3. QED BY <1>2

LEMMA WalkOne ==
  ASSUME NEW v, NEW d, NEW name
  PROVE  Walk(v, d, <<name>>) = Step(v, d, name)
<1> DEFINE body(f) == [s \in SUBSET {1} |-> IF s = {} THEN d ELSE Step(v, f[s \ {Max(s)}], <<name>>[Max(s)])]
           g == [s \in SUBSET {1} |-> IF s = {} THEN d ELSE Step(v, d, name)]
           iter == CHOOSE f : f = body(f)
<1>1. DOMAIN <<name>> = {1} /\ <<name>>[1] = name
  OBVIOUS
<1>2. Walk(v, d, <<name>>) = iter[{1}]
  BY <1>1 DEF Walk, FoldLeft, MapThenFoldSet, Step
<1>3. Max({1}) = 1
  BY DEF Max
<1>4. g = body(g)
  BY <1>1, <1>3
<1>5. iter = body(iter)
  BY <1>4
<1>6. iter[{}] = d
  BY <1>5
<1> HIDE DEF iter
<1>7. iter[{1}] = Step(v, iter[{}], name)
  <2>1. {1} \ {Max({1})} = {}
    BY <1>3
  <2>2. body(iter)[{1}] = Step(v, iter[{1} \ {Max({1})}], <<name>>[Max({1})])
    OBVIOUS
  <2>3. QED BY <1>5, <2>1, <2>2, <1>3, <1>1
<1>8. QED BY <1>2, <1>6, <1>7

\* What a path leads to, if it is a directory: not one that is covered.
LEMMA NodeFacts ==
  /\ Disk = 0 /\ Ram = 1 /\ DiskRoot \in Node /\ RamRoot \in Node /\ TmpDir \in Node
  /\ RamRoot # TmpDir /\ DiskRoot # TmpDir /\ DiskRoot # RamRoot
  /\ RamRoot[1] = Ram /\ TmpDir[1] = Disk /\ DiskRoot[1] = Disk
  /\ Null \notin Node
  /\ \A n \in Node : n[1] \in {Disk, Ram} /\ n[2] \in Ino /\ n = <<n[1], n[2]>>
<1>1. 0 \in Ino /\ 1 \in Ino
  BY VfsAssumption DEF Ino
<1>2. QED BY <1>1 DEF Disk, Ram, DiskRoot, RamRoot, TmpDir, Node, Null

LEMMA EntriesFacts ==
  ASSUME NEW E \in [Node -> Entries], NEW d \in Node
  PROVE  /\ DOMAIN E[d] \subseteq AllName
         /\ E[d] = [m \in DOMAIN E[d] |-> E[d][m]]
         /\ \A m \in DOMAIN E[d] : E[d][m] \in Node
<1>1. PICK S \in SUBSET AllName : E[d] \in [S -> Node]
  BY DEF Entries
<1>2. QED BY <1>1

LEMMA MountFacts ==
  ASSUME NEW n \in Node
  PROVE  /\ toMounted(n) = IF n = TmpDir THEN RamRoot ELSE n
         /\ fromMounted(n) = IF n = RamRoot THEN TmpDir ELSE n
         /\ toMounted(Null) = Null
<1>1. TmpDir # Null
  BY NodeFacts
<1>2. QED BY <1>1 DEF toMounted, fromMounted, mountedDirs, reverseMountedDirs

LEMMA FieldsTyped ==
  ASSUME NEW v, TypedFs(v)
  PROVE  /\ v.kind \in [Node -> {"free", "reg", "dir"}] /\ v.ents \in [Node -> Entries]
         /\ v.nlink \in [Node -> Nat] /\ v.size \in [Node -> 0 .. MaxSize]
BY DEF TypedFs

LEMMA LookupLeads ==
  ASSUME NEW v, NEW mv, Sound(v, mv), NEW d \in Node, NEW name
  PROVE  \/ Lookup(v, d, name) = Null
         \/ Lookup(v, d, name) \in Node \ {TmpDir} /\ v.kind[Lookup(v, d, name)] # "free"
<1> DEFINE x == IF name = ".." THEN fromMounted(d) ELSE d
<1>1. x \in Node
  BY MountFacts, NodeFacts
<1> HIDE DEF x
<1>2. CASE name \notin DOMAIN v.ents[x]
  <2>1. Child(v, x, name) = Null
    BY <1>2 DEF Child
  <2>2. QED BY <2>1, MountFacts DEF Lookup, x
<1>3. CASE name \in DOMAIN v.ents[x]
  <2>1. /\ v.ents[x][name] \in Node /\ v.kind[v.ents[x][name]] # "free"
        /\ v.kind[RamRoot] = "dir"
    <3>1. v.ents \in [Node -> Entries]
      BY FieldsTyped DEF Sound
    <3>2. v.ents[x][name] \in Node
      BY <1>1, <1>3, <3>1, EntriesFacts
    <3>3. QED BY <1>1, <1>3, <3>2 DEF Sound, Tree, Covered
  <2>2. Lookup(v, d, name) = toMounted(v.ents[x][name])
    BY <1>3 DEF Lookup, Child, x
  <2>3. QED BY <2>1, <2>2, MountFacts, NodeFacts
<1>4. QED BY <1>2, <1>3

\* A name that leads nowhere is not in the directory, and one that leads somewhere is.
LEMMA LookupNamed ==
  ASSUME NEW v, NEW mv, Sound(v, mv), NEW d \in Node, NEW name \in Name
  PROVE  /\ Lookup(v, d, name) = Null <=> name \notin DOMAIN v.ents[d]
         /\ name \in DOMAIN v.ents[d] =>
               /\ v.ents[d][name] \in Node
               /\ Lookup(v, d, name) = IF v.ents[d][name] = TmpDir THEN RamRoot
                                       ELSE v.ents[d][name]
<1>1. name \notin Dots /\ name # ".."
  BY VfsAssumption DEF Dots
<1>2. Lookup(v, d, name) = toMounted(Child(v, d, name))
  BY <1>1 DEF Lookup
<1>3. name \in DOMAIN v.ents[d] => v.ents[d][name] \in Node
  BY FieldsTyped, EntriesFacts DEF Sound
<1>4. QED BY <1>2, <1>3, MountFacts, NodeFacts DEF Child

LEMMA ResolveLeads ==
  ASSUME Sound(fs, moved), wd \in (Node \ {TmpDir}) \cup {Null}, NEW p \in Path
  PROVE  Resolve(p) \in (Node \ {TmpDir}) \cup {Null}
<1> DEFINE d == IF p.abs THEN DiskRoot ELSE wd
<1>1. d \in (Node \ {TmpDir}) \cup {Null}
  BY NodeFacts
<1>2. Resolve(p) = Walk(fs, d, p.dirs)
  BY DEF Resolve
<1> HIDE DEF d
<1>3. p.dirs = <<>> \/ \E name : p.dirs = <<name>>
  BY DEF Path
<1>4. CASE p.dirs = <<>>
  BY <1>1, <1>2, <1>4, WalkNone
<1>5. ASSUME NEW name, p.dirs = <<name>>
      PROVE  Resolve(p) \in (Node \ {TmpDir}) \cup {Null}
  <2>1. Resolve(p) = Step(fs, d, name)
    BY <1>2, <1>5, WalkOne
  <2>2. QED BY <1>1, <2>1, LookupLeads DEF Step, IsDir
<1>6. QED BY <1>3, <1>4, <1>5

\* The directories of the calls, and the file of a whole path.
LEMMA ParentLeads ==
  ASSUME Sound(fs, moved), wd \in (Node \ {TmpDir}) \cup {Null}, NEW p \in Path
  PROVE  Parent(p) \in (Node \ {TmpDir}) \cup {Null}
BY ResolveLeads DEF Parent

LEMMA WholeLeads ==
  ASSUME Sound(fs, moved), wd \in (Node \ {TmpDir}) \cup {Null}, NEW p \in Path, NEW name,
         Whole(p, name) # Null
  PROVE  Whole(p, name) \in Node \ {TmpDir} /\ fs.kind[Whole(p, name)] # "free"
<1>1. IsDir(fs, Resolve(p)) /\ Whole(p, name) = Lookup(fs, Resolve(p), name)
  BY DEF Whole
<1>2. Resolve(p) \in Node
  BY <1>1, ResolveLeads DEF IsDir
<1>3. QED BY <1>1, <1>2, LookupLeads

-----------------------------------------------------------------------------
(* Entries that are put and taken.                                           *)

Put(E, d, m, n) ==
  [E EXCEPT ![d] = [x \in DOMAIN @ \cup {m} |-> IF x = m THEN n ELSE @[x]]]
Taken(E, d, m) == [E EXCEPT ![d] = [x \in DOMAIN @ \ {m} |-> @[x]]]
One(k, n) == IF k = n THEN 1 ELSE 0

LEMMA PlacesFinite ==
  ASSUME NEW E, NEW n
  PROVE  IsFiniteSet(Places(E, n)) /\ Cardinality(Places(E, n)) \in Nat
<1>1. IsFiniteSet({Disk, Ram}) /\ IsFiniteSet({".", "..", "hello"})
  <2>1. IsFiniteSet({}) 
    BY FS_EmptySet
  <2>2. IsFiniteSet({Disk}) /\ IsFiniteSet({"."})
    BY <2>1, FS_Singleton
  <2>3. IsFiniteSet({Disk} \cup {Ram}) /\ IsFiniteSet({"."} \cup {".."})
    BY <2>2, FS_AddElement
  <2>4. IsFiniteSet(({"."} \cup {".."}) \cup {"hello"})
    BY <2>3, FS_AddElement
  <2>5. {Disk} \cup {Ram} = {Disk, Ram} /\ ({"."} \cup {".."}) \cup {"hello"} = {".", "..", "hello"}
    OBVIOUS
  <2>6. QED BY <2>3, <2>4, <2>5
<1>2. IsFiniteSet(Ino)
  BY FS_Interval, VfsAssumption DEF Ino
<1>3. IsFiniteSet(Node)
  BY <1>1, <1>2, FS_Product DEF Node
<1>4. IsFiniteSet(AllName)
  BY <1>1, VfsAssumption, FS_Union DEF AllName
<1>5. IsFiniteSet(Node \X AllName)
  BY <1>3, <1>4, FS_Product
<1>6. Places(E, n) \subseteq Node \X AllName
  BY DEF Places
<1>7. QED BY <1>5, <1>6, FS_Subset, FS_CardinalityType

LEMMA PutIs ==
  ASSUME NEW E \in [Node -> Entries], NEW d \in Node, NEW m \in AllName, NEW n \in Node
  PROVE  /\ Put(E, d, m, n) \in [Node -> Entries]
         /\ \A c \in Node \ {d} : Put(E, d, m, n)[c] = E[c]
         /\ DOMAIN Put(E, d, m, n)[d] = DOMAIN E[d] \cup {m}
         /\ Put(E, d, m, n)[d][m] = n
         /\ \A x \in DOMAIN E[d] \ {m} : Put(E, d, m, n)[d][x] = E[d][x]
<1> DEFINE f == [x \in DOMAIN E[d] \cup {m} |-> IF x = m THEN n ELSE E[d][x]]
<1>1. DOMAIN E[d] \subseteq AllName /\ \A x \in DOMAIN E[d] : E[d][x] \in Node
  BY EntriesFacts
<1>2. f \in [DOMAIN E[d] \cup {m} -> Node] /\ DOMAIN E[d] \cup {m} \in SUBSET AllName
  BY <1>1
<1>3. f \in Entries
  BY <1>2 DEF Entries
<1>4. Put(E, d, m, n) = [E EXCEPT ![d] = f]
  BY DEF Put
<1>5. Put(E, d, m, n)[d] = f
  BY <1>4
<1>6. /\ DOMAIN f = DOMAIN E[d] \cup {m} /\ f[m] = n
      /\ \A x \in DOMAIN E[d] \ {m} : f[x] = E[d][x]
  OBVIOUS
<1> HIDE DEF f
<1>7. Put(E, d, m, n) \in [Node -> Entries] /\ \A c \in Node \ {d} : Put(E, d, m, n)[c] = E[c]
  BY <1>3, <1>4
<1>8. QED BY <1>5, <1>6, <1>7

LEMMA TakenIs ==
  ASSUME NEW E \in [Node -> Entries], NEW d \in Node, NEW m
  PROVE  /\ Taken(E, d, m) \in [Node -> Entries]
         /\ \A c \in Node \ {d} : Taken(E, d, m)[c] = E[c]
         /\ DOMAIN Taken(E, d, m)[d] = DOMAIN E[d] \ {m}
         /\ \A x \in DOMAIN E[d] \ {m} : Taken(E, d, m)[d][x] = E[d][x]
<1> DEFINE f == [x \in DOMAIN E[d] \ {m} |-> E[d][x]]
<1>1. DOMAIN E[d] \subseteq AllName /\ \A x \in DOMAIN E[d] : E[d][x] \in Node
  BY EntriesFacts
<1>2. f \in [DOMAIN E[d] \ {m} -> Node] /\ DOMAIN E[d] \ {m} \in SUBSET AllName
  BY <1>1
<1>3. f \in Entries
  BY <1>2 DEF Entries
<1>4. Taken(E, d, m) = [E EXCEPT ![d] = f]
  BY DEF Taken
<1>5. Taken(E, d, m)[d] = f
  BY <1>4
<1>6. DOMAIN f = DOMAIN E[d] \ {m} /\ \A x \in DOMAIN E[d] \ {m} : f[x] = E[d][x]
  OBVIOUS
<1> HIDE DEF f
<1>7. Taken(E, d, m) \in [Node -> Entries] /\ \A c \in Node \ {d} : Taken(E, d, m)[c] = E[c]
  BY <1>3, <1>4
<1>8. QED BY <1>5, <1>6, <1>7

\* An entry that is put adds one to what it leads to.
LEMMA PutCounts ==
  ASSUME NEW E \in [Node -> Entries], NEW d \in Node, NEW m \in AllName, NEW n \in Node,
         m \notin DOMAIN E[d]
  PROVE  \A k \in Node : Cardinality(Places(Put(E, d, m, n), k))
                            = Cardinality(Places(E, k)) + One(k, n)
<1> DEFINE F == Put(E, d, m, n)
<1> TAKE k \in Node
<1>1. /\ \A c \in Node \ {d} : F[c] = E[c]
      /\ DOMAIN F[d] = DOMAIN E[d] \cup {m} /\ F[d][m] = n
      /\ \A x \in DOMAIN E[d] \ {m} : F[d][x] = E[d][x]
  BY PutIs
<1> HIDE DEF F
<1>2. Places(F, k) = IF k = n THEN Places(E, k) \cup {<<d, m>>} ELSE Places(E, k)
  <2>1. \A x \in Node \X AllName : x \in Places(F, k) <=> x \in Places(E, k) \/ (k = n /\ x = <<d, m>>)
    <3> TAKE x \in Node \X AllName
    <3>1. x = <<x[1], x[2]>> /\ x[1] \in Node /\ x[2] \in AllName
      OBVIOUS
    <3>2. CASE x[1] # d
      BY <1>1, <3>1, <3>2 DEF Places
    <3>3. CASE x[1] = d /\ x[2] # m
      BY <1>1, <3>1, <3>3 DEF Places
    <3>4. CASE x[1] = d /\ x[2] = m
      BY <1>1, <3>1, <3>4 DEF Places
    <3>5. QED BY <3>2, <3>3, <3>4
  <2>2. /\ Places(F, k) \subseteq Node \X AllName /\ Places(E, k) \subseteq Node \X AllName
        /\ <<d, m>> \in Node \X AllName
    BY DEF Places
  <2>3. QED BY <2>1, <2>2
<1>3. <<d, m>> \notin Places(E, k)
  BY DEF Places
<1>4. IsFiniteSet(Places(E, k)) /\ Cardinality(Places(E, k)) \in Nat
  BY PlacesFinite
<1>5. CASE k = n
  BY <1>2, <1>3, <1>4, <1>5, FS_AddElement DEF One, F
<1>6. CASE k # n
  BY <1>2, <1>4, <1>6 DEF One, F
<1>7. QED BY <1>5, <1>6

LEMMA TakenCounts ==
  ASSUME NEW E \in [Node -> Entries], NEW d \in Node, NEW m \in DOMAIN E[d]
  PROVE  \A k \in Node : Cardinality(Places(Taken(E, d, m), k))
                            = Cardinality(Places(E, k)) - One(k, E[d][m])
<1> DEFINE F == Taken(E, d, m)
<1> TAKE k \in Node
<1>1. /\ \A c \in Node \ {d} : F[c] = E[c]
      /\ DOMAIN F[d] = DOMAIN E[d] \ {m}
      /\ \A x \in DOMAIN E[d] \ {m} : F[d][x] = E[d][x]
  BY TakenIs
<1>a. m \in AllName
  BY EntriesFacts
<1> HIDE DEF F
<1>2. Places(F, k) = IF k = E[d][m] THEN Places(E, k) \ {<<d, m>>} ELSE Places(E, k)
  <2>1. \A x \in Node \X AllName :
           x \in Places(F, k) <=> x \in Places(E, k) /\ ~(k = E[d][m] /\ x = <<d, m>>)
    <3> TAKE x \in Node \X AllName
    <3>1. x = <<x[1], x[2]>> /\ x[1] \in Node /\ x[2] \in AllName
      OBVIOUS
    <3>2. CASE x[1] # d
      BY <1>1, <3>1, <3>2 DEF Places
    <3>3. CASE x[1] = d /\ x[2] # m
      BY <1>1, <3>1, <3>3 DEF Places
    <3>4. CASE x[1] = d /\ x[2] = m
      BY <1>1, <3>1, <3>4 DEF Places
    <3>5. QED BY <3>2, <3>3, <3>4
  <2>2. Places(F, k) \subseteq Node \X AllName /\ Places(E, k) \subseteq Node \X AllName
    BY DEF Places
  <2>3. QED BY <2>1, <2>2
<1>3. k = E[d][m] => <<d, m>> \in Places(E, k)
  BY <1>a DEF Places
<1>4. IsFiniteSet(Places(E, k)) /\ Cardinality(Places(E, k)) \in Nat
  BY PlacesFinite
<1>5. CASE k = E[d][m]
  BY <1>2, <1>3, <1>4, <1>5, FS_RemoveElement DEF One, F
<1>6. CASE k # E[d][m]
  BY <1>2, <1>4, <1>6 DEF One, F
<1>7. QED BY <1>5, <1>6

-----------------------------------------------------------------------------
(* What the operations of the file systems do to the fields.                 *)

LEMMA EmptyEntries ==
  /\ <<>> \in Entries /\ DOMAIN <<>> = {}
  /\ \A f \in Entries : DOMAIN f = {} => f = <<>>
<1>1. <<>> = [x \in {} |-> DiskRoot] /\ DOMAIN <<>> = {}
  OBVIOUS
<1>2. <<>> \in [{} -> Node]
  BY <1>1
<1>3. \A f \in Entries : DOMAIN f = {} => f = <<>>
  <2> TAKE f \in Entries
  <2>1. PICK S \in SUBSET AllName : f \in [S -> Node]
    BY DEF Entries
  <2>2. HAVE DOMAIN f = {}
  <2>3. f = [x \in {} |-> f[x]]
    BY <2>1, <2>2
  <2>4. QED BY <2>3, <1>1
<1>4. QED BY <1>1, <1>2, <1>3 DEF Entries

LEMMA LinkIs ==
  ASSUME NEW v, TypedFs(v), NEW n \in Node
  PROVE  /\ TypedFs(Link(v, n))
         /\ Link(v, n).kind = v.kind /\ Link(v, n).ents = v.ents /\ Link(v, n).size = v.size
         /\ \A k \in Node : Link(v, n).nlink[k] = v.nlink[k] + One(k, n)
BY DEF TypedFs, Link, One

LEMMA WithEntryIs ==
  ASSUME NEW v, TypedFs(v), NEW d \in Node, NEW m \in AllName, NEW n \in Node
  PROVE  LET w == WithEntry(v, d, m, n)
         IN  /\ TypedFs(w)
             /\ w.kind = v.kind /\ w.nlink = v.nlink /\ w.size = v.size
             /\ w.ents = Put(v.ents, d, m, n)
<1>1. v.ents \in [Node -> Entries]
  BY FieldsTyped
<1>2. WithEntry(v, d, m, n) = [v EXCEPT !.ents = Put(v.ents, d, m, n)]
  BY <1>1 DEF WithEntry, Put, TypedFs
<1>3. Put(v.ents, d, m, n) \in [Node -> Entries]
  BY <1>1, PutIs
<1>4. QED BY <1>2, <1>3 DEF TypedFs

LEMMA WithoutEntryIs ==
  ASSUME NEW v, TypedFs(v), NEW d \in Node, NEW m
  PROVE  LET w == WithoutEntry(v, d, m)
         IN  /\ TypedFs(w)
             /\ w.kind = v.kind /\ w.nlink = v.nlink /\ w.size = v.size
             /\ w.ents = Taken(v.ents, d, m)
<1>1. v.ents \in [Node -> Entries]
  BY FieldsTyped
<1>2. WithoutEntry(v, d, m) = [v EXCEPT !.ents = Taken(v.ents, d, m)]
  BY <1>1 DEF WithoutEntry, Taken, TypedFs
<1>3. Taken(v.ents, d, m) \in [Node -> Entries]
  BY <1>1, TakenIs
<1>4. QED BY <1>2, <1>3 DEF TypedFs

\* A file with links left.
LEMMA UnlinkIs ==
  ASSUME NEW v, TypedFs(v), NEW n \in Node, v.nlink[n] > 1
  PROVE  LET w == Unlink(v, n)
         IN  /\ TypedFs(w)
             /\ w.kind = v.kind /\ w.ents = v.ents /\ w.size = v.size
             /\ \A k \in Node : w.nlink[k] = v.nlink[k] - One(k, n)
<1>1. Unlink(v, n) = [v EXCEPT !.nlink[n] = @ - 1]
  BY DEF Unlink
<1>2. v.nlink[n] - 1 \in Nat
  BY DEF TypedFs
<1>3. QED BY <1>1, <1>2 DEF TypedFs, One

\* A file without links and entries.
LEMMA FreedIs ==
  ASSUME NEW v, TypedFs(v), NEW n \in Node, v.nlink[n] = 1, DOMAIN v.ents[n] = {}
  PROVE  /\ TypedFs(Unlink(v, n))
         /\ Unlink(v, n).ents = v.ents
         /\ \A k \in Node : /\ Unlink(v, n).kind[k] = IF k = n THEN "free" ELSE v.kind[k]
                            /\ k # n => Unlink(v, n).size[k] = v.size[k]
                            /\ Unlink(v, n).nlink[k] = v.nlink[k] - One(k, n)
<1>1. v.ents \in [Node -> Entries] /\ v.ents[n] = <<>>
  BY FieldsTyped, EmptyEntries
<1>2. [v.ents EXCEPT ![n] = <<>>] = v.ents
  BY <1>1
<1>3. Unlink(v, n) = [v EXCEPT !.nlink[n] = 0, !.kind[n] = "free", !.size[n] = 0, !.ents[n] = <<>>]
  BY DEF Unlink
<1>4. /\ Unlink(v, n).kind = [v.kind EXCEPT ![n] = "free"]
      /\ Unlink(v, n).nlink = [v.nlink EXCEPT ![n] = 0]
      /\ Unlink(v, n).size = [v.size EXCEPT ![n] = 0]
      /\ Unlink(v, n).ents = [v.ents EXCEPT ![n] = <<>>]
  BY <1>3 DEF TypedFs
<1>5. TypedFs(Unlink(v, n))
  <2>1. 0 \in 0 .. MaxSize
    BY VfsAssumption
  <2>2. <<>> \in Entries
    BY EmptyEntries
  <2>3. /\ [v.kind EXCEPT ![n] = "free"] \in [Node -> {"free", "reg", "dir"}]
        /\ [v.nlink EXCEPT ![n] = 0] \in [Node -> Nat]
        /\ [v.size EXCEPT ![n] = 0] \in [Node -> 0 .. MaxSize]
        /\ [v.ents EXCEPT ![n] = <<>>] \in [Node -> Entries]
    BY <2>1, <2>2, FieldsTyped
  <2>4. Unlink(v, n) = [v EXCEPT !.kind = [v.kind EXCEPT ![n] = "free"],
                                 !.nlink = [v.nlink EXCEPT ![n] = 0],
                                 !.size = [v.size EXCEPT ![n] = 0],
                                 !.ents = [v.ents EXCEPT ![n] = <<>>]]
    BY <1>3 DEF TypedFs
  <2>5. QED BY <2>3, <2>4 DEF TypedFs
<1>6. \A k \in Node : Unlink(v, n).nlink[k] = v.nlink[k] - One(k, n)
  BY <1>4, FieldsTyped DEF One
<1>7. QED BY <1>2, <1>4, <1>5, <1>6, FieldsTyped


-----------------------------------------------------------------------------
(* The shape of the tree, when entries are put and taken.                    *)

Tidy(K, E, mv) ==
  Tree(K, E) /\ Upward(K, E, mv) /\ Once(K, E) /\ Downward(K, E) /\ Covered(K, E, mv)

\* F is E with the entry m of d, or without it.
IsPut(E, F, d, m, n) ==
  \A c \in Node : \A x :
    /\ x \in DOMAIN F[c] <=> x \in DOMAIN E[c] \/ (c = d /\ x = m)
    /\ x \in DOMAIN F[c] => F[c][x] = IF c = d /\ x = m THEN n ELSE E[c][x]
IsTaken(E, F, d, m) ==
  \A c \in Node : \A x :
    /\ x \in DOMAIN F[c] <=> x \in DOMAIN E[c] /\ ~(c = d /\ x = m)
    /\ x \in DOMAIN F[c] => F[c][x] = E[c][x]

LEMMA PutAt ==
  ASSUME NEW E \in [Node -> Entries], NEW d \in Node, NEW m \in AllName, NEW n \in Node
  PROVE  IsPut(E, Put(E, d, m, n), d, m, n)
<1> DEFINE F == Put(E, d, m, n)
<1>1. /\ \A c \in Node \ {d} : F[c] = E[c]
      /\ DOMAIN F[d] = DOMAIN E[d] \cup {m} /\ F[d][m] = n
      /\ \A x \in DOMAIN E[d] \ {m} : F[d][x] = E[d][x]
  BY PutIs
<1> HIDE DEF F
<1>2. IsPut(E, F, d, m, n)
  BY <1>1 DEF IsPut
<1>3. QED BY <1>2 DEF F

LEMMA TakenAt ==
  ASSUME NEW E \in [Node -> Entries], NEW d \in Node, NEW m
  PROVE  IsTaken(E, Taken(E, d, m), d, m)
<1> DEFINE F == Taken(E, d, m)
<1>1. /\ \A c \in Node \ {d} : F[c] = E[c]
      /\ DOMAIN F[d] = DOMAIN E[d] \ {m}
      /\ \A x \in DOMAIN E[d] \ {m} : F[d][x] = E[d][x]
  BY TakenIs
<1> HIDE DEF F
<1>2. IsTaken(E, F, d, m)
  BY <1>1 DEF IsTaken
<1>3. QED BY <1>2 DEF F

LEMMA Leads ==
  ASSUME NEW E \in [Node -> Entries]
  PROVE  \A c \in Node : \A x \in DOMAIN E[c] : E[c][x] \in Node /\ x \in AllName
BY EntriesFacts

\* A name for a file, or for a directory of the RamFS that was renamed.
LEMMA PutFileTidy ==
  ASSUME NEW K, NEW E \in [Node -> Entries], NEW F, NEW mv, Tidy(K, E, mv),
         NEW d \in Node, NEW m, NEW n \in Node, IsPut(E, F, d, m, n),
         K[d] = "dir", d # TmpDir, m \notin Dots, m \notin DOMAIN E[d],
         n[1] = d[1], K[n] # "free", K[n] = "dir" => n[1] = Ram /\ n \in mv
  PROVE  Tidy(K, F, mv)
<1>1. \A c \in Node : \A x \in DOMAIN E[c] : E[c][x] \in Node
  BY Leads
<1>2. Tree(K, F)
  <2>1. \A c \in Node : \A x \in DOMAIN F[c] : F[c][x][1] = c[1] /\ K[F[c][x]] # "free"
    BY DEF Tidy, Tree, IsPut
  <2>2. \A c \in Node : K[c] # "dir" => DOMAIN F[c] = {}
    BY DEF Tidy, Tree, IsPut
  <2>3. \A c \in Node : K[c] = "dir" => "." \in DOMAIN F[c] /\ F[c]["."] = c
    BY DEF Tidy, Tree, IsPut, Dots
  <2>4. QED BY <2>1, <2>2, <2>3 DEF Tree
<1>3. Upward(K, F, mv)
  BY <1>1 DEF Tidy, Upward, IsPut, Dots
<1>4. Once(K, F)
  BY NodeFacts DEF Tidy, Once, IsPut, Dots
<1>5. Downward(K, F)
  <2> SUFFICES ASSUME NEW c \in Node, c[1] = Disk, ".." \in DOMAIN F[c], F[c][".."] # c
               PROVE  \E x \in DOMAIN F[F[c][".."]] \ Dots : F[F[c][".."]][x] = c
    BY DEF Downward
  <2>1. ".." \in DOMAIN E[c] /\ E[c][".."] = F[c][".."]
    BY DEF IsPut, Dots
  <2>2. PICK x \in DOMAIN E[E[c][".."]] \ Dots : E[E[c][".."]][x] = c
    BY <2>1 DEF Tidy, Downward
  <2>3. E[c][".."] \in Node
    BY <1>1, <2>1
  <2>4. QED BY <2>1, <2>2, <2>3 DEF IsPut
<1>6. Covered(K, F, mv)
  <2>1. DOMAIN F[TmpDir] \subseteq Dots
    BY NodeFacts DEF Tidy, Covered, IsPut
  <2>2. \A c \in Node : \A x \in DOMAIN F[c] \ Dots : F[c][x] = RamRoot => RamRoot \in mv
    BY DEF Tidy, Covered, IsPut
  <2>3. QED BY <2>1, <2>2 DEF Tidy, Covered
<1>7. QED BY <1>2, <1>3, <1>4, <1>5, <1>6 DEF Tidy

\* A name for a directory that has no "..", and the "..".
LEMMA PutDirTidy ==
  ASSUME NEW K, NEW E \in [Node -> Entries], NEW F \in [Node -> Entries], NEW mv,
         Tidy(K, E, mv), mv \subseteq {Ram} \X Ino,
         NEW d \in Node, NEW m, NEW n \in Node,
         \A c \in Node : \A x :
           /\ x \in DOMAIN F[c] <=> x \in DOMAIN E[c] \/ (c = d /\ x = m) \/ (c = n /\ x = "..")
           /\ x \in DOMAIN F[c] => F[c][x] = IF c = d /\ x = m THEN n
                                             ELSE IF c = n /\ x = ".." THEN d ELSE E[c][x],
         K[d] = "dir", d # TmpDir, m \notin Dots, m \notin DOMAIN E[d],
         n[1] = d[1], K[n] = "dir", ".." \notin DOMAIN E[n], n = RamRoot => n \in mv
  PROVE  Tidy(K, F, mv)
<1>0. /\ \A c \in Node : \A x \in DOMAIN E[c] : E[c][x] \in Node
      /\ \A c \in Node : \A x \in DOMAIN F[c] : F[c][x] \in Node
  BY Leads
<1>a. Tree(K, E) /\ Upward(K, E, mv) /\ Once(K, E) /\ Downward(K, E) /\ Covered(K, E, mv)
  BY DEF Tidy
<1>b. /\ ".." \in DOMAIN F[n] /\ F[n][".."] = d
      /\ \A c \in Node \ {n} : ".." \in DOMAIN F[c] => ".." \in DOMAIN E[c] /\ F[c][".."] = E[c][".."]
      /\ \A c \in Node \ {n} : ".." \in DOMAIN E[c] => ".." \in DOMAIN F[c]
  BY DEF Dots
<1>c. \A c \in Node : \A x \in DOMAIN F[c] \ Dots :
         \/ c = d /\ x = m /\ F[c][x] = n
         \/ x \in DOMAIN E[c] \ Dots /\ F[c][x] = E[c][x]
  BY DEF Dots
<1>d. /\ \A c \in Node : \A x \in DOMAIN E[c] \ Dots : x \in DOMAIN F[c] /\ F[c][x] = E[c][x]
      /\ m \in DOMAIN F[d] \ Dots /\ F[d][m] = n
  BY DEF Dots
<1>1. Tree(K, F)
  <2>1. \A c \in Node : \A x \in DOMAIN F[c] : F[c][x][1] = c[1] /\ K[F[c][x]] # "free"
    BY <1>a DEF Tree
  <2>2. \A c \in Node : K[c] # "dir" => DOMAIN F[c] = {}
    BY <1>a DEF Tree
  <2>3. \A c \in Node : K[c] = "dir" => "." \in DOMAIN F[c] /\ F[c]["."] = c
    BY <1>a DEF Tree, Dots
  <2>4. QED BY <2>1, <2>2, <2>3 DEF Tree
<1>2. Upward(K, F, mv)
  <2> SUFFICES ASSUME NEW c \in Node, NEW x \in DOMAIN F[c] \ Dots,
                      K[F[c][x]] = "dir", F[c][x] \notin mv
               PROVE  ".." \in DOMAIN F[F[c][x]] /\ F[F[c][x]][".."] = c
    BY DEF Upward
  <2>1. CASE c = d /\ x = m /\ F[c][x] = n
    BY <2>1, <1>b
  <2>2. CASE x \in DOMAIN E[c] \ Dots /\ F[c][x] = E[c][x]
    <3>1. ".." \in DOMAIN E[F[c][x]] /\ E[F[c][x]][".."] = c
      BY <2>2, <1>a DEF Upward
    <3>2. F[c][x] \in Node \ {n}
      BY <3>1, <1>0
    <3>3. QED BY <3>1, <3>2, <1>b
  <2>3. QED BY <2>1, <2>2, <1>c
<1>n. \A c \in Node : \A x \in DOMAIN E[c] \ Dots : E[c][x] = n => n \in mv
  BY <1>a DEF Upward
<1>3. Once(K, F)
  <2> SUFFICES ASSUME NEW c \in Node, NEW x \in DOMAIN F[c] \ Dots, NEW y \in DOMAIN F[c] \ Dots,
                      c[1] = Disk, F[c][x] = F[c][y], K[F[c][x]] = "dir"
               PROVE  x = y
    BY DEF Once
  <2>1. CASE x \in DOMAIN E[c] \ Dots /\ y \in DOMAIN E[c] \ Dots
    BY <2>1, <1>a, <1>d DEF Once
  <2>2. ASSUME F[c][x] = n, c = d PROVE x = m /\ y = m
    <3>1. n \notin mv
      BY <2>2, NodeFacts
    <3>2. \A z \in DOMAIN F[d] \ Dots : F[d][z] = n => z = m
      <4> TAKE z \in DOMAIN F[d] \ Dots
      <4>1. z = m \/ (z \in DOMAIN E[d] \ Dots /\ F[d][z] = E[d][z])
        BY <1>c
      <4>2. z \in DOMAIN E[d] \ Dots => E[d][z] # n
        BY <3>1, <1>n
      <4>3. QED BY <4>1, <4>2
    <3>3. QED BY <3>2, <2>2
  <2>3. QED BY <2>1, <2>2, <1>c
<1>4. Downward(K, F)
  <2> SUFFICES ASSUME NEW c \in Node, c[1] = Disk, ".." \in DOMAIN F[c], F[c][".."] # c
               PROVE  \E x \in DOMAIN F[F[c][".."]] \ Dots : F[F[c][".."]][x] = c
    BY DEF Downward
  <2>1. CASE c = n
    BY <2>1, <1>b, <1>d
  <2>2. CASE c # n
    <3>1. ".." \in DOMAIN E[c] /\ E[c][".."] = F[c][".."]
      BY <2>2, <1>b
    <3>2. PICK x \in DOMAIN E[E[c][".."]] \ Dots : E[E[c][".."]][x] = c
      BY <3>1, <1>a DEF Downward
    <3>3. E[c][".."] \in Node
      BY <1>0, <3>1
    <3>4. QED BY <3>1, <3>2, <3>3, <1>d
  <2>3. QED BY <2>1, <2>2
<1>5. Covered(K, F, mv)
  <2>1. DOMAIN F[TmpDir] \subseteq Dots
    <3>1. \A x \in DOMAIN F[TmpDir] : x \in DOMAIN E[TmpDir] \/ x = ".."
      BY NodeFacts
    <3>2. QED BY <3>1, <1>a DEF Covered, Dots
  <2>2. \A c \in Node : \A x \in DOMAIN F[c] \ Dots : F[c][x] = RamRoot => RamRoot \in mv
    BY <1>a, <1>c DEF Covered
  <2>3. QED BY <1>a, <2>1, <2>2 DEF Covered
<1>6. QED BY <1>1, <1>2, <1>3, <1>4, <1>5 DEF Tidy

\* A name is taken from the RamFS, or that of a regular file from the ext2
\* volume: it may have been the last one.
LEMMA TakeFileTidy ==
  ASSUME NEW K, NEW K1, NEW E \in [Node -> Entries], NEW F \in [Node -> Entries], NEW mv,
         Tidy(K, E, mv), NEW d \in Node, NEW m \in DOMAIN E[d], IsTaken(E, F, d, m),
         m \notin Dots, d[1] = Ram \/ K[E[d][m]] = "reg",
         \A k \in Node : K1[k] # K[k] =>
            /\ K[k] = "reg" /\ K1[k] = "free"
            /\ \A c \in Node : \A x \in DOMAIN F[c] : F[c][x] # k
  PROVE  Tidy(K1, F, mv)
<1>0. /\ \A c \in Node : \A x \in DOMAIN E[c] : E[c][x] \in Node
      /\ \A c \in Node : \A x \in DOMAIN F[c] : F[c][x] \in Node
  BY Leads
<1>a. Tree(K, E) /\ Upward(K, E, mv) /\ Once(K, E) /\ Downward(K, E) /\ Covered(K, E, mv)
  BY DEF Tidy
<1>b. \A c \in Node : K1[c] = "dir" <=> K[c] = "dir"
  OBVIOUS
<1>c. \A c \in Node : \A x \in DOMAIN F[c] : /\ x \in DOMAIN E[c] /\ F[c][x] = E[c][x]
                                             /\ K1[F[c][x]] = K[F[c][x]]
  BY <1>0 DEF IsTaken
<1>d. \A c \in Node : \A x \in DOMAIN E[c] : x \in DOMAIN F[c] \/ (c = d /\ x = m)
  BY DEF IsTaken
<1>1. Tree(K1, F)
  <2>1. \A c \in Node : \A x \in DOMAIN F[c] : F[c][x][1] = c[1] /\ K1[F[c][x]] # "free"
    BY <1>a, <1>c DEF Tree
  <2>2. \A c \in Node : K1[c] # "dir" => DOMAIN F[c] = {}
    BY <1>a, <1>b, <1>c DEF Tree
  <2>3. \A c \in Node : K1[c] = "dir" => "." \in DOMAIN F[c] /\ F[c]["."] = c
    BY <1>a, <1>b, <1>c, <1>d DEF Tree, Dots
  <2>4. QED BY <2>1, <2>2, <2>3 DEF Tree
<1>2. Upward(K1, F, mv)
  <2> SUFFICES ASSUME NEW c \in Node, NEW x \in DOMAIN F[c] \ Dots,
                      K1[F[c][x]] = "dir", F[c][x] \notin mv
               PROVE  ".." \in DOMAIN F[F[c][x]] /\ F[F[c][x]][".."] = c
    BY DEF Upward
  <2>1. ".." \in DOMAIN E[F[c][x]] /\ E[F[c][x]][".."] = c
    BY <1>a, <1>c DEF Upward
  <2>2. ".." \in DOMAIN F[F[c][x]]
    BY <2>1, <1>0, <1>d DEF Dots
  <2>3. QED BY <2>1, <2>2, <1>0, <1>c
<1>3. Once(K1, F)
  BY <1>a, <1>c DEF Once
<1>4. Downward(K1, F)
  <2> SUFFICES ASSUME NEW c \in Node, c[1] = Disk, ".." \in DOMAIN F[c], F[c][".."] # c
               PROVE  \E x \in DOMAIN F[F[c][".."]] \ Dots : F[F[c][".."]][x] = c
    BY DEF Downward
  <2>1. ".." \in DOMAIN E[c] /\ E[c][".."] = F[c][".."]
    BY <1>c
  <2>2. PICK x \in DOMAIN E[E[c][".."]] \ Dots : E[E[c][".."]][x] = c
    BY <2>1, <1>a DEF Downward
  <2>3. E[c][".."] \in Node /\ E[c][".."][1] = Disk
    BY <2>1, <1>0, <1>a DEF Tree
  <2>4. K[c] = "dir"
    BY <2>1, <1>a DEF Tree
  <2>5. ~(E[c][".."] = d /\ x = m)
    BY <2>2, <2>3, <2>4, NodeFacts
  <2>6. QED BY <2>1, <2>2, <2>3, <2>5, <1>c, <1>d
<1>5. Covered(K1, F, mv)
  <2>1. DOMAIN F[TmpDir] \subseteq Dots /\ K1[RamRoot] = "dir"
    BY <1>a, <1>b, <1>c, NodeFacts DEF Covered
  <2>2. \A c \in Node : \A x \in DOMAIN F[c] \ Dots : F[c][x] = RamRoot => RamRoot \in mv
    BY <1>a, <1>c DEF Covered
  <2>3. QED BY <2>1, <2>2 DEF Covered
<1>6. QED BY <1>1, <1>2, <1>3, <1>4, <1>5 DEF Tidy

\* The name of a directory of the ext2 volume, which is its only one, and its "..".
LEMMA TakeDirTidy ==
  ASSUME NEW K, NEW E \in [Node -> Entries], NEW F \in [Node -> Entries], NEW mv,
         Tidy(K, E, mv), mv \subseteq {Ram} \X Ino,
         NEW d \in Node, d[1] = Disk, NEW m \in DOMAIN E[d], m \notin Dots, NEW n \in Node,
         E[d][m] = n, K[n] = "dir",
         \A c \in Node : \A x :
           /\ x \in DOMAIN F[c] <=> x \in DOMAIN E[c] /\ ~(c = d /\ x = m) /\ ~(c = n /\ x = "..")
           /\ x \in DOMAIN F[c] => F[c][x] = E[c][x]
  PROVE  Tidy(K, F, mv)
<1>0. /\ \A c \in Node : \A x \in DOMAIN E[c] : E[c][x] \in Node
      /\ \A c \in Node : \A x \in DOMAIN F[c] : F[c][x] \in Node
  BY Leads
<1>a. Tree(K, E) /\ Upward(K, E, mv) /\ Once(K, E) /\ Downward(K, E) /\ Covered(K, E, mv)
  BY DEF Tidy
<1>b. \A c \in Node : \A x \in DOMAIN F[c] : x \in DOMAIN E[c] /\ F[c][x] = E[c][x]
  OBVIOUS
<1>c. \A c \in Node : \A x \in DOMAIN E[c] : x \in DOMAIN F[c] \/ (c = d /\ x = m) \/ (c = n /\ x = "..")
  OBVIOUS
<1>d. m \notin DOMAIN F[d] /\ ".." \notin DOMAIN F[n]
  OBVIOUS
<1>1. Tree(K, F)
  <2>1. \A c \in Node : \A x \in DOMAIN F[c] : F[c][x][1] = c[1] /\ K[F[c][x]] # "free"
    BY <1>a, <1>b DEF Tree
  <2>2. \A c \in Node : K[c] # "dir" => DOMAIN F[c] = {}
    BY <1>a, <1>b DEF Tree
  <2>3. \A c \in Node : K[c] = "dir" => "." \in DOMAIN F[c] /\ F[c]["."] = c
    BY <1>a, <1>b, <1>c DEF Tree, Dots
  <2>4. QED BY <2>1, <2>2, <2>3 DEF Tree
<1>2. Upward(K, F, mv)
  <2> SUFFICES ASSUME NEW c \in Node, NEW x \in DOMAIN F[c] \ Dots,
                      K[F[c][x]] = "dir", F[c][x] \notin mv
               PROVE  ".." \in DOMAIN F[F[c][x]] /\ F[F[c][x]][".."] = c
    BY DEF Upward
  <2>1. ".." \in DOMAIN E[F[c][x]] /\ E[F[c][x]][".."] = c
    BY <1>a, <1>b DEF Upward
  <2>2. F[c][x] # n
    <3> SUFFICES ASSUME F[c][x] = n PROVE FALSE
      OBVIOUS
    <3>1. n \notin mv
      OBVIOUS
    <3>2. E[n][".."] = d
      BY <3>1, <1>a DEF Upward
    <3>3. c = d
      BY <3>2, <2>1
    <3>4. x = m
      BY <3>3, <1>a, <1>b DEF Once
    <3>5. QED BY <3>3, <3>4, <1>d
  <2>3. ".." \in DOMAIN F[F[c][x]]
    BY <2>1, <2>2, <1>0, <1>c DEF Dots
  <2>4. QED BY <2>1, <2>3, <1>0, <1>b
<1>3. Once(K, F)
  BY <1>a, <1>b DEF Once
<1>4. Downward(K, F)
  <2> SUFFICES ASSUME NEW c \in Node, c[1] = Disk, ".." \in DOMAIN F[c], F[c][".."] # c
               PROVE  \E x \in DOMAIN F[F[c][".."]] \ Dots : F[F[c][".."]][x] = c
    BY DEF Downward
  <2>1. ".." \in DOMAIN E[c] /\ E[c][".."] = F[c][".."] /\ c # n
    BY <1>b, <1>d
  <2>2. PICK x \in DOMAIN E[E[c][".."]] \ Dots : E[E[c][".."]][x] = c
    BY <2>1, <1>a DEF Downward
  <2>3. E[c][".."] \in Node
    BY <2>1, <1>0
  <2>4. ~(E[c][".."] = d /\ x = m) /\ x # ".."
    BY <2>1, <2>2 DEF Dots
  <2>5. QED BY <2>1, <2>2, <2>3, <2>4, <1>b, <1>c
<1>5. Covered(K, F, mv)
  <2>1. DOMAIN F[TmpDir] \subseteq Dots
    BY <1>a, <1>b, NodeFacts DEF Covered
  <2>2. \A c \in Node : \A x \in DOMAIN F[c] \ Dots : F[c][x] = RamRoot => RamRoot \in mv
    BY <1>a, <1>b DEF Covered
  <2>3. QED BY <1>a, <2>1, <2>2 DEF Covered
<1>6. QED BY <1>1, <1>2, <1>3, <1>4, <1>5 DEF Tidy

\* A directory of the ext2 volume that is left with "." is named nowhere else.
LEMMA LastEntry ==
  ASSUME NEW K, NEW E \in [Node -> Entries], NEW mv, Tidy(K, E, mv), mv \subseteq {Ram} \X Ino,
         NEW n \in Node, n[1] = Disk, K[n] = "dir", DOMAIN E[n] = {"."}
  PROVE  \A c \in Node : \A x \in DOMAIN E[c] : E[c][x] = n => c = n /\ x = "."
<1> TAKE c \in Node
<1> TAKE x \in DOMAIN E[c]
<1> HAVE E[c][x] = n
<1>a. Tree(K, E) /\ Upward(K, E, mv) /\ Once(K, E) /\ Downward(K, E) /\ Covered(K, E, mv)
  BY DEF Tidy
<1>b. n \notin mv
  BY NodeFacts
<1>c. K[c] = "dir" /\ c[1] = Disk
  BY <1>a DEF Tree
<1>1. x \in Dots
  BY <1>a, <1>b DEF Upward, Dots
<1>2. CASE x = "."
  BY <1>2, <1>a, <1>c DEF Tree
<1>3. CASE x = ".."
  <2>1. E[c][".."] = c \/ \E y \in DOMAIN E[n] \ Dots : E[n][y] = c
    BY <1>3, <1>a, <1>c DEF Downward
  <2>2. QED BY <2>1, <1>3 DEF Dots
<1>4. QED BY <1>1, <1>2, <1>3 DEF Dots

\* Such a directory is freed.
LEMMA DeleteTidy ==
  ASSUME NEW K \in [Node -> {"free", "reg", "dir"}], NEW E \in [Node -> Entries],
         NEW F \in [Node -> Entries], NEW mv, Tidy(K, E, mv), mv \subseteq {Ram} \X Ino,
         NEW n \in Node, n[1] = Disk, K[n] = "dir", DOMAIN E[n] = {"."},
         IsTaken(E, F, n, ".")
  PROVE  Tidy([K EXCEPT ![n] = "free"], F, mv)
<1> DEFINE K1 == [K EXCEPT ![n] = "free"]
<1>0. /\ \A c \in Node : \A x \in DOMAIN E[c] : E[c][x] \in Node
      /\ \A c \in Node : \A x \in DOMAIN F[c] : F[c][x] \in Node
  BY Leads
<1>a. Tree(K, E) /\ Upward(K, E, mv) /\ Once(K, E) /\ Downward(K, E) /\ Covered(K, E, mv)
  BY DEF Tidy
<1>k. K1[n] = "free" /\ \A c \in Node \ {n} : K1[c] = K[c]
  OBVIOUS
<1> HIDE DEF K1
<1>b. DOMAIN F[n] = {}
  BY DEF IsTaken
<1>c. \A c \in Node : \A x \in DOMAIN F[c] :
         x \in DOMAIN E[c] /\ F[c][x] = E[c][x] /\ c # n /\ F[c][x] \in Node \ {n}
  <2>1. \A c \in Node : \A x \in DOMAIN F[c] :
           x \in DOMAIN E[c] /\ F[c][x] = E[c][x] /\ ~(c = n /\ x = ".")
    BY DEF IsTaken
  <2>2. \A c \in Node : \A x \in DOMAIN E[c] : E[c][x] = n => c = n /\ x = "."
    BY LastEntry
  <2>3. QED BY <2>1, <2>2, <1>0, <1>b
<1>d. \A c \in Node \ {n} : \A x \in DOMAIN E[c] : x \in DOMAIN F[c] /\ F[c][x] = E[c][x]
  BY DEF IsTaken
<1>1. Tree(K1, F)
  <2>1. \A c \in Node : \A x \in DOMAIN F[c] : F[c][x][1] = c[1] /\ K1[F[c][x]] # "free"
    BY <1>a, <1>c, <1>k DEF Tree
  <2>2. \A c \in Node : K1[c] # "dir" => DOMAIN F[c] = {}
    BY <1>a, <1>b, <1>c, <1>k DEF Tree
  <2>3. \A c \in Node : K1[c] = "dir" => "." \in DOMAIN F[c] /\ F[c]["."] = c
    BY <1>a, <1>k, <1>d DEF Tree, Dots
  <2>4. QED BY <2>1, <2>2, <2>3 DEF Tree
<1>2. Upward(K1, F, mv)
  <2> SUFFICES ASSUME NEW c \in Node, NEW x \in DOMAIN F[c] \ Dots,
                      K1[F[c][x]] = "dir", F[c][x] \notin mv
               PROVE  ".." \in DOMAIN F[F[c][x]] /\ F[F[c][x]][".."] = c
    BY DEF Upward
  <2>1. ".." \in DOMAIN E[F[c][x]] /\ E[F[c][x]][".."] = c
    BY <1>a, <1>c, <1>k DEF Upward
  <2>2. QED BY <2>1, <1>c, <1>d
<1>3. Once(K1, F)
  BY <1>a, <1>c, <1>k DEF Once
<1>4. Downward(K1, F)
  <2> SUFFICES ASSUME NEW c \in Node, c[1] = Disk, ".." \in DOMAIN F[c], F[c][".."] # c
               PROVE  \E x \in DOMAIN F[F[c][".."]] \ Dots : F[F[c][".."]][x] = c
    BY DEF Downward
  <2>1. ".." \in DOMAIN E[c] /\ E[c][".."] = F[c][".."] /\ F[c][".."] \in Node \ {n}
    BY <1>c
  <2>2. PICK x \in DOMAIN E[E[c][".."]] \ Dots : E[E[c][".."]][x] = c
    BY <2>1, <1>a DEF Downward
  <2>3. QED BY <2>1, <2>2, <1>d
<1>5. Covered(K1, F, mv)
  <2>1. DOMAIN F[TmpDir] \subseteq Dots /\ K1[RamRoot] = "dir"
    BY <1>a, <1>c, <1>k, NodeFacts DEF Covered
  <2>2. \A c \in Node : \A x \in DOMAIN F[c] \ Dots : F[c][x] = RamRoot => RamRoot \in mv
    BY <1>a, <1>c DEF Covered
  <2>3. QED BY <2>1, <2>2 DEF Covered
<1>6. QED BY <1>1, <1>2, <1>3, <1>4, <1>5 DEF Tidy, K1

\* A free inode becomes a file without names, a directory with its ".".
LEMMA FreshTidy ==
  ASSUME NEW K \in [Node -> {"free", "reg", "dir"}], NEW E \in [Node -> Entries],
         NEW F \in [Node -> Entries], NEW mv, Tidy(K, E, mv),
         NEW n \in Node, K[n] = "free", NEW kind \in {"reg", "dir"},
         \A c \in Node \ {n} : F[c] = E[c],
         kind = "reg" => DOMAIN F[n] = {},
         kind = "dir" => DOMAIN F[n] = {"."} /\ F[n]["."] = n
  PROVE  Tidy([K EXCEPT ![n] = kind], F, mv)
<1> DEFINE K1 == [K EXCEPT ![n] = kind]
<1>0. \A c \in Node : \A x \in DOMAIN E[c] : E[c][x] \in Node
  BY Leads
<1>a. Tree(K, E) /\ Upward(K, E, mv) /\ Once(K, E) /\ Downward(K, E) /\ Covered(K, E, mv)
  BY DEF Tidy
<1>k. K1[n] = kind /\ \A c \in Node \ {n} : K1[c] = K[c]
  OBVIOUS
<1> HIDE DEF K1
<1>b. DOMAIN F[n] \subseteq {"."} /\ \A x \in DOMAIN F[n] : x = "." /\ kind = "dir" /\ F[n][x] = n
  OBVIOUS
<1>c. \A c \in Node : \A x \in DOMAIN E[c] : E[c][x] \in Node \ {n} /\ c # n
  BY <1>0, <1>a DEF Tree
<1>d. \A c \in Node : \A x \in DOMAIN F[c] \ Dots :
         x \in DOMAIN E[c] \ Dots /\ F[c][x] = E[c][x] /\ F[c][x] \in Node \ {n} /\ c # n
  BY <1>b, <1>c DEF Dots
<1>1. Tree(K1, F)
  <2>1. \A c \in Node : \A x \in DOMAIN F[c] : F[c][x][1] = c[1] /\ K1[F[c][x]] # "free"
    BY <1>a, <1>b, <1>c, <1>k DEF Tree
  <2>2. \A c \in Node : K1[c] # "dir" => DOMAIN F[c] = {}
    BY <1>a, <1>k DEF Tree
  <2>3. \A c \in Node : K1[c] = "dir" => "." \in DOMAIN F[c] /\ F[c]["."] = c
    BY <1>a, <1>k DEF Tree
  <2>4. QED BY <2>1, <2>2, <2>3 DEF Tree
<1>2. Upward(K1, F, mv)
  BY <1>a, <1>d, <1>k DEF Upward
<1>3. Once(K1, F)
  BY <1>a, <1>d, <1>k DEF Once
<1>4. Downward(K1, F)
  BY <1>a, <1>b, <1>c DEF Downward
<1>5. Covered(K1, F, mv)
  <2>1. DOMAIN F[TmpDir] \subseteq Dots /\ K1[RamRoot] = "dir"
    BY <1>a, <1>b, <1>k, NodeFacts DEF Covered, Dots
  <2>2. \A c \in Node : \A x \in DOMAIN F[c] \ Dots : F[c][x] = RamRoot => RamRoot \in mv
    BY <1>a, <1>d DEF Covered
  <2>3. QED BY <2>1, <2>2 DEF Covered
<1>6. QED BY <1>1, <1>2, <1>3, <1>4, <1>5 DEF Tidy, K1

-----------------------------------------------------------------------------
(* The operations of the file systems keep them sound.                       *)

LEMMA SoundIs ==
  ASSUME NEW v, NEW mv
  PROVE  Sound(v, mv) <=> TypedFs(v) /\ Tidy(v.kind, v.ents, mv) /\ Counted(v.ents, v.nlink)
BY DEF Sound, Tidy

\* What no entry leads to has no place.
LEMMA Unnamed ==
  ASSUME NEW E \in [Node -> Entries], NEW n,
         \A c \in Node : \A x \in DOMAIN E[c] : E[c][x] # n
  PROVE  Cardinality(Places(E, n)) = 0
<1>1. Places(E, n) = {}
  BY DEF Places
<1>2. QED BY <1>1, FS_EmptySet

\* What has a place is counted.
LEMMA Named ==
  ASSUME NEW E \in [Node -> Entries], NEW d \in Node, NEW m \in DOMAIN E[d]
  PROVE  Cardinality(Places(E, E[d][m])) >= 1
<1>1. m \in AllName
  BY Leads
<1>2. <<d, m>> \in Places(E, E[d][m])
  BY <1>1 DEF Places
<1>3. QED BY <1>2, PlacesFinite, FS_EmptySet

\* A free inode as the file systems initialise it.
Kinds == {"reg", "dir"}
Blank(v, n, kind) ==
  [v EXCEPT !.kind[n] = kind, !.nlink[n] = 0, !.size[n] = 0, !.ents[n] = <<>>]

LEMMA BlankIs ==
  ASSUME NEW v, TypedFs(v), NEW n \in Node, NEW kind \in Kinds, DOMAIN v.ents[n] = {}
  PROVE  /\ TypedFs(Blank(v, n, kind))
         /\ Blank(v, n, kind).kind = [v.kind EXCEPT ![n] = kind]
         /\ Blank(v, n, kind).ents = v.ents
         /\ Blank(v, n, kind).nlink = [v.nlink EXCEPT ![n] = 0]
         /\ Blank(v, n, kind).size = [v.size EXCEPT ![n] = 0]
<1> DEFINE w == Blank(v, n, kind)
<1>1. v.ents[n] = <<>> /\ [v.ents EXCEPT ![n] = <<>>] = v.ents
  BY FieldsTyped, EmptyEntries
<1>2. w = [v EXCEPT !.kind = [v.kind EXCEPT ![n] = kind], !.nlink = [v.nlink EXCEPT ![n] = 0],
                    !.size = [v.size EXCEPT ![n] = 0], !.ents = [v.ents EXCEPT ![n] = <<>>]]
  BY DEF TypedFs, Blank
<1> HIDE DEF w
<1>3. /\ w.kind = [v.kind EXCEPT ![n] = kind] /\ w.ents = v.ents
      /\ w.nlink = [v.nlink EXCEPT ![n] = 0] /\ w.size = [v.size EXCEPT ![n] = 0]
  BY <1>1, <1>2 DEF TypedFs
<1>4. /\ [v.kind EXCEPT ![n] = kind] \in [Node -> {"free", "reg", "dir"}]
      /\ [v.nlink EXCEPT ![n] = 0] \in [Node -> Nat]
      /\ [v.size EXCEPT ![n] = 0] \in [Node -> 0 .. MaxSize]
      /\ [v.ents EXCEPT ![n] = <<>>] \in [Node -> Entries]
  <2>1. 0 \in 0 .. MaxSize
    BY VfsAssumption
  <2>2. <<>> \in Entries
    BY EmptyEntries
  <2>3. QED BY <2>1, <2>2, FieldsTyped DEF Kinds
<1>5. TypedFs(w)
  BY <1>2, <1>4 DEF TypedFs
<1>6. QED BY <1>3, <1>5 DEF w

\* A new file or directory, before it is given its name.
Made(v, n, kind) ==
  IF kind = "dir" THEN WithEntry(Link(Blank(v, n, kind), n), n, ".", n) ELSE Blank(v, n, kind)

LEMMA FreshKeeps ==
  ASSUME NEW v, NEW mv, Sound(v, mv), NEW n \in Node, v.kind[n] = "free", NEW kind \in Kinds
  PROVE  LET w == Made(v, n, kind)
         IN  /\ Sound(w, mv)
             /\ w.kind = [v.kind EXCEPT ![n] = kind]
             /\ \A c \in Node \ {n} : w.ents[c] = v.ents[c]
             /\ DOMAIN w.ents[n] \subseteq {"."}
             /\ \A k \in Node \ {n} : w.size[k] = v.size[k]
<1> DEFINE made == Blank(v, n, kind)
           K1 == [v.kind EXCEPT ![n] = kind]
<1>1. TypedFs(v) /\ Tidy(v.kind, v.ents, mv) /\ Counted(v.ents, v.nlink)
  BY SoundIs
<1>2. /\ v.kind \in [Node -> {"free", "reg", "dir"}] /\ v.ents \in [Node -> Entries]
      /\ v.nlink \in [Node -> Nat] /\ v.size \in [Node -> 0 .. MaxSize]
  BY <1>1, FieldsTyped
<1>3. DOMAIN v.ents[n] = {} /\ \A c \in Node : \A x \in DOMAIN v.ents[c] : v.ents[c][x] # n
  BY <1>1 DEF Tidy, Tree
<1>4. Cardinality(Places(v.ents, n)) = 0
  BY <1>2, <1>3, Unnamed
<1>5. /\ TypedFs(made) /\ made.kind = K1 /\ made.ents = v.ents
      /\ made.nlink = [v.nlink EXCEPT ![n] = 0] /\ made.size = [v.size EXCEPT ![n] = 0]
  <2>1. TypedFs(v) /\ DOMAIN v.ents[n] = {}
    BY <1>1, <1>3
  <2> HIDE <1>1
  <2>2. QED BY <2>1, BlankIs
<1>m. Made(v, n, kind) = IF kind = "dir" THEN WithEntry(Link(made, n), n, ".", n) ELSE made
  BY DEF Made
<1> HIDE DEF made
<1>6. CASE kind = "reg"
  <2>1. Made(v, n, kind) = made
    BY <1>6, <1>m
  <2>2. Tidy(K1, v.ents, mv)
    BY <1>1, <1>2, <1>3, <1>6, FreshTidy DEF Kinds
  <2>3. Counted(v.ents, made.nlink)
    BY <1>1, <1>2, <1>4, <1>5 DEF Counted
  <2>4. Sound(made, mv)
    BY <1>5, <2>2, <2>3, SoundIs
  <2>5. QED BY <1>2, <1>3, <1>5, <2>1, <2>4
<1>7. CASE kind = "dir"
  <2> DEFINE w == WithEntry(Link(made, n), n, ".", n)
             F == Put(v.ents, n, ".", n)
  <2>1. Made(v, n, kind) = w
    BY <1>7, <1>m
  <2>a. TypedFs(made)
    BY <1>5
  <2>b. /\ TypedFs(Link(made, n)) /\ Link(made, n).kind = made.kind
        /\ Link(made, n).ents = made.ents /\ Link(made, n).size = made.size
        /\ \A k \in Node : Link(made, n).nlink[k] = made.nlink[k] + One(k, n)
    BY <2>a, LinkIs
  <2>2. /\ TypedFs(Link(made, n)) /\ Link(made, n).kind = K1 /\ Link(made, n).ents = v.ents
        /\ Link(made, n).size = made.size
        /\ \A k \in Node : Link(made, n).nlink[k] = made.nlink[k] + One(k, n)
    BY <1>5, <2>b
  <2>3. "." \in AllName
    BY DEF AllName
  <2>4. /\ TypedFs(w) /\ w.kind = K1 /\ w.ents = F /\ w.size = made.size
        /\ w.nlink = Link(made, n).nlink
    BY <2>2, <2>3, WithEntryIs
  <2>5. /\ F \in [Node -> Entries] /\ \A c \in Node \ {n} : F[c] = v.ents[c]
        /\ DOMAIN F[n] = DOMAIN v.ents[n] \cup {"."} /\ F[n]["."] = n
    <3>1. v.ents \in [Node -> Entries]
      BY <1>2
    <3>2. \A E \in [Node -> Entries] : \A m \in AllName :
            /\ Put(E, n, m, n) \in [Node -> Entries]
            /\ \A c \in Node \ {n} : Put(E, n, m, n)[c] = E[c]
            /\ DOMAIN Put(E, n, m, n)[n] = DOMAIN E[n] \cup {m}
            /\ Put(E, n, m, n)[n][m] = n
      BY PutIs
    <3>3. QED BY <2>3, <3>1, <3>2
  <2>6. \A k \in Node : Cardinality(Places(F, k)) = Cardinality(Places(v.ents, k)) + One(k, n)
    BY <1>2, <1>3, <2>3, PutCounts
  <2> HIDE DEF w, F, K1
  <2>7. Tidy(K1, F, mv)
    <3>1. DOMAIN F[n] = {"."}
      BY <2>5, <1>3
    <3>2. QED BY <1>1, <1>2, <1>7, <2>5, <3>1, FreshTidy DEF K1, Kinds
  <2>8. Counted(F, w.nlink)
    <3>1. \A k \in Node : w.nlink[k] = made.nlink[k] + One(k, n) /\ One(k, n) \in Nat
      BY <2>2, <2>4 DEF One
    <3>2. Counted(v.ents, made.nlink)
      BY <1>1, <1>2, <1>4, <1>5 DEF Counted
    <3>3. \A k \in Node : made.nlink[k] \in Nat /\ Cardinality(Places(v.ents, k)) \in Nat
      BY <1>5, FieldsTyped, PlacesFinite
    <3>4. QED BY <2>6, <3>1, <3>2, <3>3 DEF Counted
  <2>9. Sound(w, mv)
    BY <2>4, <2>7, <2>8, SoundIs
  <2>10. QED BY <1>2, <1>3, <1>5, <2>1, <2>4, <2>5, <2>9 DEF K1
<1>8. QED BY <1>6, <1>7 DEF Kinds

\* An entry that is put with its link.
Entered(v, d, m, n) == WithEntry(Link(v, n), d, m, n)

LEMMA EnteredIs ==
  ASSUME NEW v, TypedFs(v), NEW d \in Node, NEW m \in AllName, NEW n \in Node
  PROVE  /\ TypedFs(Entered(v, d, m, n))
         /\ Entered(v, d, m, n).kind = v.kind /\ Entered(v, d, m, n).size = v.size
         /\ Entered(v, d, m, n).ents = Put(v.ents, d, m, n)
         /\ \A k \in Node : Entered(v, d, m, n).nlink[k] = v.nlink[k] + One(k, n)
<1> DEFINE u == Link(v, n)
<1>1. /\ TypedFs(u) /\ u.kind = v.kind /\ u.ents = v.ents /\ u.size = v.size
      /\ \A k \in Node : u.nlink[k] = v.nlink[k] + One(k, n)
  BY LinkIs
<1> HIDE DEF u
<1>2. LET w == WithEntry(u, d, m, n)
      IN  /\ TypedFs(w) /\ w.kind = u.kind /\ w.nlink = u.nlink /\ w.size = u.size
          /\ w.ents = Put(u.ents, d, m, n)
  BY <1>1, WithEntryIs
<1>3. Entered(v, d, m, n) = WithEntry(u, d, m, n)
  BY DEF Entered, u
<1>4. QED BY <1>1, <1>2, <1>3

LEMMA OneIs == \A k, n : One(k, n) \in Nat /\ (k = n => One(k, n) = 1) /\ (k # n => One(k, n) = 0)
BY DEF One

\* Directory::addEntry.
Added(v, d, m, n, w) ==
  /\ w.kind = v.kind /\ w.size = v.size
  /\ m \in DOMAIN w.ents[d] /\ w.ents[d][m] = n
  /\ \A c \in Node : \A x \in DOMAIN v.ents[c] : x \in DOMAIN w.ents[c] /\ w.ents[c][x] = v.ents[c][x]

LEMMA AddFileKeeps ==
  ASSUME NEW v, NEW mv, Sound(v, mv), NEW d \in Node, v.kind[d] = "dir", d # TmpDir,
         NEW m \in Name, m \notin DOMAIN v.ents[d],
         NEW n \in Node, n[1] = d[1], v.kind[n] # "free",
         v.kind[n] = "dir" => n[1] = Ram /\ n \in mv
  PROVE  /\ Sound(Entered(v, d, m, n), mv) /\ Added(v, d, m, n, Entered(v, d, m, n))
         /\ \A x : x \in DOMAIN Entered(v, d, m, n).ents[n] <=>
                     x \in DOMAIN v.ents[n] \/ (n = d /\ x = m)
<1> DEFINE w == Entered(v, d, m, n)
           E == v.ents
           F == Put(E, d, m, n)
<1>1. TypedFs(v) /\ Tidy(v.kind, E, mv) /\ Counted(E, v.nlink)
  BY SoundIs
<1>2. E \in [Node -> Entries] /\ v.nlink \in [Node -> Nat]
  BY <1>1, FieldsTyped
<1>3. m \in AllName /\ m \notin Dots
  BY VfsAssumption DEF AllName, Dots
<1>4. /\ TypedFs(w) /\ w.kind = v.kind /\ w.size = v.size /\ w.ents = F
      /\ \A k \in Node : w.nlink[k] = v.nlink[k] + One(k, n)
  BY <1>1, <1>3, EnteredIs
<1>5. w.nlink \in [Node -> Nat]
  BY <1>4, FieldsTyped
<1>h. m \notin DOMAIN E[d]
  OBVIOUS
<1> HIDE DEF w, E
<1>6. IsPut(E, F, d, m, n)
  BY <1>2, <1>3, PutAt
<1>7. \A k \in Node : Cardinality(Places(F, k)) = Cardinality(Places(E, k)) + One(k, n)
  BY <1>2, <1>3, <1>h, PutCounts
<1> HIDE DEF F
<1>8. Tidy(v.kind, F, mv)
  BY <1>1, <1>2, <1>3, <1>6, <1>h, PutFileTidy
<1>9. Counted(F, w.nlink)
  <2>1. \A k \in Node : One(k, n) \in Nat /\ Cardinality(Places(E, k)) \in Nat
    BY OneIs, PlacesFinite
  <2>2. QED BY <1>1, <1>2, <1>4, <1>7, <2>1 DEF Counted
<1>10. Sound(w, mv)
  BY <1>4, <1>8, <1>9, SoundIs
<1>11. Added(v, d, m, n, w)
  <2>1. m \in DOMAIN F[d] /\ F[d][m] = n
    BY <1>6 DEF IsPut
  <2>2. \A c \in Node : \A x \in DOMAIN E[c] : x \in DOMAIN F[c] /\ F[c][x] = E[c][x]
    BY <1>6, <1>h DEF IsPut
  <2>3. QED BY <1>4, <2>1, <2>2 DEF Added, E
<1>12. \A x : x \in DOMAIN F[n] <=> x \in DOMAIN E[n] \/ (n = d /\ x = m)
  BY <1>6 DEF IsPut
<1>13. QED BY <1>4, <1>10, <1>11, <1>12 DEF w, E

\* The two orders in which a directory gets its name and its "..".
LEMMA EnteredTwice ==
  ASSUME NEW v, TypedFs(v), NEW c1 \in Node, NEW m1 \in AllName, NEW n1 \in Node,
         NEW c2 \in Node, NEW m2 \in AllName, NEW n2 \in Node,
         m1 \notin DOMAIN v.ents[c1], m2 \notin DOMAIN v.ents[c2], m1 # m2
  PROVE  LET w == Entered(Entered(v, c1, m1, n1), c2, m2, n2)
         IN  /\ TypedFs(w) /\ w.kind = v.kind /\ w.size = v.size
             /\ \A k \in Node : w.nlink[k] = v.nlink[k] + One(k, n1) + One(k, n2)
             /\ \A k \in Node : Cardinality(Places(w.ents, k))
                                   = Cardinality(Places(v.ents, k)) + One(k, n1) + One(k, n2)
             /\ \A c \in Node : \A x :
                  /\ x \in DOMAIN w.ents[c] <=>
                        x \in DOMAIN v.ents[c] \/ (c = c1 /\ x = m1) \/ (c = c2 /\ x = m2)
                  /\ x \in DOMAIN w.ents[c] =>
                        w.ents[c][x] = IF c = c1 /\ x = m1 THEN n1
                                       ELSE IF c = c2 /\ x = m2 THEN n2 ELSE v.ents[c][x]
<1> DEFINE u == Entered(v, c1, m1, n1)
           w == Entered(u, c2, m2, n2)
           E == v.ents
           F == Put(E, c1, m1, n1)
           G == Put(F, c2, m2, n2)
<1>1. /\ TypedFs(u) /\ u.kind = v.kind /\ u.size = v.size /\ u.ents = F
      /\ \A k \in Node : u.nlink[k] = v.nlink[k] + One(k, n1)
  BY EnteredIs
<1>2. E \in [Node -> Entries]
  BY FieldsTyped
<1>h. m1 \notin DOMAIN E[c1] /\ m2 \notin DOMAIN E[c2]
  OBVIOUS
<1> HIDE DEF u, E
<1>3. /\ TypedFs(w) /\ w.kind = u.kind /\ w.size = u.size /\ w.ents = Put(u.ents, c2, m2, n2)
      /\ \A k \in Node : w.nlink[k] = u.nlink[k] + One(k, n2)
  <2>1. TypedFs(u)
    BY <1>1
  <2> HIDE <1>1
  <2>2. QED BY <2>1, EnteredIs
<1>4. IsPut(E, F, c1, m1, n1) /\ F \in [Node -> Entries]
  BY <1>2, PutAt, PutIs
<1>5. m2 \notin DOMAIN F[c2]
  BY <1>4, <1>h DEF IsPut
<1>6. \A k \in Node : Cardinality(Places(F, k)) = Cardinality(Places(E, k)) + One(k, n1)
  BY <1>2, <1>h, PutCounts
<1> HIDE DEF F
<1>7. IsPut(F, G, c2, m2, n2)
  BY <1>4, PutAt
<1>8. \A k \in Node : Cardinality(Places(G, k)) = Cardinality(Places(F, k)) + One(k, n2)
  BY <1>4, <1>5, PutCounts
<1> HIDE DEF w
<1>9. w.ents = G
  BY <1>1, <1>3
<1> HIDE DEF G
<1>10. \A k \in Node : Cardinality(Places(G, k)) = Cardinality(Places(E, k)) + One(k, n1) + One(k, n2)
  BY <1>6, <1>8
<1>11. \A c \in Node : \A x :
         /\ x \in DOMAIN G[c] <=> x \in DOMAIN E[c] \/ (c = c1 /\ x = m1) \/ (c = c2 /\ x = m2)
         /\ x \in DOMAIN G[c] => G[c][x] = IF c = c1 /\ x = m1 THEN n1
                                           ELSE IF c = c2 /\ x = m2 THEN n2 ELSE E[c][x]
  BY <1>4, <1>7 DEF IsPut
<1>12. \A k \in Node : w.nlink[k] = v.nlink[k] + One(k, n1) + One(k, n2)
  BY <1>1, <1>3
<1>13. TypedFs(w) /\ w.kind = v.kind /\ w.size = v.size
  BY <1>1, <1>3
<1>14. QED BY <1>9, <1>10, <1>11, <1>12, <1>13 DEF w, u, E

NamedDir(v, d, m, n, w) ==
  /\ TypedFs(w) /\ w.kind = v.kind /\ w.size = v.size
  /\ \A k \in Node : w.nlink[k] = v.nlink[k] + One(k, n) + One(k, d)
  /\ \A k \in Node : Cardinality(Places(w.ents, k))
                        = Cardinality(Places(v.ents, k)) + One(k, n) + One(k, d)
  /\ \A c \in Node : \A x :
       /\ x \in DOMAIN w.ents[c] <=> x \in DOMAIN v.ents[c] \/ (c = d /\ x = m) \/ (c = n /\ x = "..")
       /\ x \in DOMAIN w.ents[c] => w.ents[c][x] = IF c = d /\ x = m THEN n
                                         ELSE IF c = n /\ x = ".." THEN d ELSE v.ents[c][x]

LEMMA AddDirKeeps ==
  ASSUME NEW v, NEW mv, Sound(v, mv), mv \subseteq {Ram} \X Ino,
         NEW d \in Node, v.kind[d] = "dir", d # TmpDir,
         NEW m \in Name, m \notin DOMAIN v.ents[d],
         NEW n \in Node, n[1] = d[1], v.kind[n] = "dir",
         ".." \notin DOMAIN v.ents[n], n = RamRoot => n \in mv,
         NEW w, \/ w = Entered(Entered(v, n, "..", d), d, m, n)
                \/ w = Entered(Entered(v, d, m, n), n, "..", d)
  PROVE  Sound(w, mv) /\ Added(v, d, m, n, w)
<1>1. TypedFs(v) /\ Tidy(v.kind, v.ents, mv) /\ Counted(v.ents, v.nlink)
  BY SoundIs
<1>3. m \in AllName /\ ".." \in AllName /\ m \notin Dots /\ m # ".."
  BY VfsAssumption DEF AllName, Dots
<1>t. TypedFs(v)
  BY <1>1
<1>2. \A k \in Node : /\ One(k, n) \in Nat /\ One(k, d) \in Nat /\ v.nlink[k] \in Nat
                      /\ Cardinality(Places(v.ents, k)) \in Nat
  BY <1>1, FieldsTyped, PlacesFinite, OneIs
<1>e. v.ents \in [Node -> Entries]
  BY <1>1, FieldsTyped
<1>4. ASSUME w = Entered(Entered(v, d, m, n), n, "..", d)
      PROVE  NamedDir(v, d, m, n, w)
  <2>1. LET u == Entered(Entered(v, d, m, n), n, "..", d)
        IN  /\ TypedFs(u) /\ u.kind = v.kind /\ u.size = v.size
            /\ \A k \in Node : u.nlink[k] = v.nlink[k] + One(k, n) + One(k, d)
            /\ \A k \in Node : Cardinality(Places(u.ents, k))
                                  = Cardinality(Places(v.ents, k)) + One(k, n) + One(k, d)
            /\ \A c \in Node : \A x :
                 /\ x \in DOMAIN u.ents[c] <=>
                       x \in DOMAIN v.ents[c] \/ (c = d /\ x = m) \/ (c = n /\ x = "..")
                 /\ x \in DOMAIN u.ents[c] =>
                       u.ents[c][x] = IF c = d /\ x = m THEN n
                                      ELSE IF c = n /\ x = ".." THEN d ELSE v.ents[c][x]
    BY <1>t, <1>3, EnteredTwice
  <2>2. QED BY <2>1, <1>4 DEF NamedDir
<1>5. ASSUME w = Entered(Entered(v, n, "..", d), d, m, n)
      PROVE  NamedDir(v, d, m, n, w)
  <2>1. LET u == Entered(Entered(v, n, "..", d), d, m, n)
        IN  /\ TypedFs(u) /\ u.kind = v.kind /\ u.size = v.size
            /\ \A k \in Node : u.nlink[k] = v.nlink[k] + One(k, d) + One(k, n)
            /\ \A k \in Node : Cardinality(Places(u.ents, k))
                                  = Cardinality(Places(v.ents, k)) + One(k, d) + One(k, n)
            /\ \A c \in Node : \A x :
                 /\ x \in DOMAIN u.ents[c] <=>
                       x \in DOMAIN v.ents[c] \/ (c = n /\ x = "..") \/ (c = d /\ x = m)
                 /\ x \in DOMAIN u.ents[c] =>
                       u.ents[c][x] = IF c = n /\ x = ".." THEN d
                                      ELSE IF c = d /\ x = m THEN n ELSE v.ents[c][x]
    BY <1>t, <1>3, EnteredTwice
  <2>2. QED BY <2>1, <1>2, <1>3, <1>5 DEF NamedDir
<1>6. NamedDir(v, d, m, n, w)
  BY <1>4, <1>5
<1>7. w.ents \in [Node -> Entries]
  BY <1>6, FieldsTyped DEF NamedDir
<1>8. Tidy(v.kind, w.ents, mv)
  <2> DEFINE K == v.kind
             E == v.ents
             F == w.ents
  <2>1. \A c \in Node : \A x :
           /\ x \in DOMAIN F[c] <=> x \in DOMAIN E[c] \/ (c = d /\ x = m) \/ (c = n /\ x = "..")
           /\ x \in DOMAIN F[c] => F[c][x] = IF c = d /\ x = m THEN n
                                             ELSE IF c = n /\ x = ".." THEN d ELSE E[c][x]
    BY <1>6 DEF NamedDir
  <2>2. Tidy(K, E, mv) /\ E \in [Node -> Entries] /\ F \in [Node -> Entries]
    BY <1>1, <1>e, <1>7
  <2>3. K[d] = "dir" /\ K[n] = "dir" /\ m \notin DOMAIN E[d] /\ ".." \notin DOMAIN E[n]
    OBVIOUS
  <2> HIDE DEF K, E, F
  <2>4. Tidy(K, F, mv)
    BY <1>3, <2>1, <2>2, <2>3, PutDirTidy
  <2>5. QED BY <2>4 DEF K, F
<1>9. Counted(w.ents, w.nlink)
  BY <1>1, <1>2, <1>6 DEF Counted, NamedDir
<1>10. Sound(w, mv)
  BY <1>6, <1>8, <1>9, SoundIs DEF NamedDir
<1>11. Added(v, d, m, n, w)
  BY <1>3, <1>6 DEF NamedDir, Added
<1>12. QED BY <1>10, <1>11

\* A link without an entry, as the RamFS makes one.
LEMMA LinkKeeps ==
  ASSUME NEW v, NEW mv, Sound(v, mv), NEW d \in Node, d[1] = Ram
  PROVE  /\ Sound(Link(v, d), mv) /\ Link(v, d).kind = v.kind /\ Link(v, d).ents = v.ents
         /\ Link(v, d).size = v.size
<1>1. TypedFs(v) /\ Tidy(v.kind, v.ents, mv) /\ Counted(v.ents, v.nlink)
  BY SoundIs
<1>2. /\ TypedFs(Link(v, d))
      /\ Link(v, d).kind = v.kind /\ Link(v, d).ents = v.ents /\ Link(v, d).size = v.size
      /\ \A k \in Node : Link(v, d).nlink[k] = v.nlink[k] + One(k, d)
  BY <1>1, LinkIs
<1>3. Counted(v.ents, Link(v, d).nlink)
  <2>1. \A k \in Node : /\ One(k, d) \in Nat /\ v.nlink[k] \in Nat
                        /\ Cardinality(Places(v.ents, k)) \in Nat
    BY <1>1, FieldsTyped, OneIs, PlacesFinite
  <2>2. \A k \in Node : k[1] = Disk => One(k, d) = 0
    BY OneIs, NodeFacts
  <2>3. QED BY <1>1, <1>2, <2>1, <2>2 DEF Counted
<1>4. QED BY <1>1, <1>2, <1>3, SoundIs

LEMMA AddKeeps ==
  ASSUME NEW v, NEW mv, Sound(v, mv), mv \subseteq {Ram} \X Ino,
         NEW d \in Node, v.kind[d] = "dir", d # TmpDir,
         NEW m \in Name, m \notin DOMAIN v.ents[d],
         NEW n \in Node, n[1] = d[1], v.kind[n] # "free",
         v.kind[n] = "dir" => \/ ".." \notin DOMAIN v.ents[n] /\ (n = RamRoot => n \in mv)
                              \/ n \in mv
  PROVE  Sound(addEntry(v, d, m, n), mv) /\ Added(v, d, m, n, addEntry(v, d, m, n))
<1> DEFINE w == addEntry(v, d, m, n)
           p == Entered(v, d, m, n)
<1>1. TypedFs(v)
  BY SoundIs
<1>2. m \in AllName /\ ".." \in AllName /\ m # ".."
  BY VfsAssumption DEF AllName
<1>3. Link(v, n).ents = v.ents /\ Link(v, n).kind = v.kind
  BY <1>1, LinkIs
<1>4. Insert(Link(v, n), d, m, n) = p
  BY <1>3 DEF Insert, Entered
<1>5. n \in mv => n[1] = Ram
  BY NodeFacts
<1>6. w = IF d[1] = Ram
          THEN IF v.kind[n] = "dir" THEN Insert(Link(p, d), n, "..", d) ELSE p
          ELSE IF v.kind[n] = "dir" THEN Entered(Entered(v, n, "..", d), d, m, n) ELSE p
  <2>1. p = WithEntry(Link(v, n), d, m, n)
    BY DEF Entered
  <2>2. Entered(Entered(v, n, "..", d), d, m, n)
           = WithEntry(Link(WithEntry(Link(v, d), n, "..", d), n), d, m, n)
    BY DEF Entered
  <2> HIDE DEF p
  <2>3. CASE d[1] = Ram
    BY <1>4, <2>3 DEF addEntry
  <2>4. CASE d[1] # Ram
    BY <2>1, <2>2, <2>4 DEF addEntry
  <2>5. QED BY <2>3, <2>4
<1> HIDE DEF w
<1>7. CASE v.kind[n] # "dir"
  <2>1. w = p
    BY <1>6, <1>7
  <2>2. Sound(p, mv) /\ Added(v, d, m, n, p)
    BY <1>7, AddFileKeeps
  <2>3. QED BY <2>1, <2>2 DEF w
<1>8. CASE v.kind[n] = "dir" /\ d[1] # Ram
  <2>1. w = Entered(Entered(v, n, "..", d), d, m, n)
    BY <1>6, <1>8
  <2>2. ".." \notin DOMAIN v.ents[n] /\ (n = RamRoot => n \in mv)
    BY <1>5, <1>8
  <2>3. Sound(w, mv) /\ Added(v, d, m, n, w)
    BY <1>8, <2>1, <2>2, AddDirKeeps
  <2>4. QED BY <2>3 DEF w
<1>9. CASE v.kind[n] = "dir" /\ d[1] = Ram
  <2>1. w = Insert(Link(p, d), n, "..", d)
    BY <1>6, <1>9
  <2>2. TypedFs(p) /\ p.ents = Put(v.ents, d, m, n)
    BY <1>1, <1>2, EnteredIs
  <2> HIDE DEF p
  <2>3. Link(p, d).ents = p.ents
    BY <2>2, LinkIs
  <2>4. ".." \in DOMAIN p.ents[n] <=> ".." \in DOMAIN v.ents[n]
    <3>1. v.ents \in [Node -> Entries]
      BY <1>1, FieldsTyped
    <3>2. IsPut(v.ents, Put(v.ents, d, m, n), d, m, n)
      BY <1>2, <3>1, PutAt
    <3>3. QED BY <1>2, <2>2, <3>2 DEF IsPut
  <2>5. CASE ".." \in DOMAIN v.ents[n]
    <3>1. w = Link(p, d)
      BY <2>1, <2>3, <2>4, <2>5 DEF Insert
    <3>2. n \in mv /\ n[1] = Ram
      BY <1>5, <1>9, <2>5
    <3>3. Sound(p, mv) /\ Added(v, d, m, n, p)
      BY <1>9, <3>2, AddFileKeeps DEF p
    <3>4. Sound(w, mv) /\ w.kind = p.kind /\ w.ents = p.ents /\ w.size = p.size
      BY <1>9, <3>1, <3>3, LinkKeeps
    <3>5. Added(v, d, m, n, w)
      BY <3>3, <3>4 DEF Added
    <3>6. QED BY <3>4, <3>5 DEF w
  <2>6. CASE ".." \notin DOMAIN v.ents[n]
    <3>1. w = Entered(p, n, "..", d)
      BY <2>1, <2>3, <2>4, <2>6 DEF Insert, Entered
    <3>2. w = Entered(Entered(v, d, m, n), n, "..", d)
      BY <3>1 DEF p
    <3>3. n = RamRoot => n \in mv
      BY <1>9
    <3>4. Sound(w, mv) /\ Added(v, d, m, n, w)
      BY <1>9, <2>6, <3>2, <3>3, AddDirKeeps
    <3>5. QED BY <3>4 DEF w
  <2>7. QED BY <2>5, <2>6
<1>10. QED BY <1>7, <1>8, <1>9

\* Directory::removeEntry.
Removed(v, d, m, w) ==
  /\ \A k \in Node : /\ w.kind[k] # v.kind[k]
                          => v.kind[k] = "reg" /\ w.kind[k] = "free" /\ k[1] = Disk
                     /\ w.kind[k] # "free" => w.size[k] = v.size[k]
  /\ \A c \in Node : \A x \in DOMAIN w.ents[c] : x \in DOMAIN v.ents[c] /\ w.ents[c][x] = v.ents[c][x]
  /\ m \notin DOMAIN w.ents[d]

\* The RamFS unlinks nothing.
LEMMA RemoveRam ==
  ASSUME NEW v, NEW mv, Sound(v, mv), NEW d \in Node, d[1] = Ram,
         NEW m \in DOMAIN v.ents[d], m \notin Dots
  PROVE  LET w == WithoutEntry(v, d, m) IN Sound(w, mv) /\ Removed(v, d, m, w)
<1> DEFINE w == WithoutEntry(v, d, m)
           K == v.kind
           E == v.ents
           F == Taken(E, d, m)
           n == E[d][m]
<1>1. TypedFs(v) /\ Tidy(K, E, mv) /\ Counted(E, v.nlink)
  BY SoundIs
<1>2. TypedFs(w) /\ w.kind = K /\ w.nlink = v.nlink /\ w.size = v.size /\ w.ents = F
  BY <1>1, WithoutEntryIs
<1>3. E \in [Node -> Entries] /\ v.nlink \in [Node -> Nat] /\ m \in DOMAIN E[d]
  BY <1>1, FieldsTyped
<1> HIDE DEF w, K, E
<1>4. IsTaken(E, F, d, m) /\ F \in [Node -> Entries]
  BY <1>3, TakenAt, TakenIs
<1>5. \A k \in Node : Cardinality(Places(F, k)) = Cardinality(Places(E, k)) - One(k, n)
  BY <1>3, TakenCounts
<1>6. n \in Node /\ n[1] = Ram
  BY <1>1, <1>3, Leads DEF Tidy, Tree
<1> HIDE DEF F, n
<1>7. Tidy(K, F, mv)
  BY <1>1, <1>3, <1>4, TakeFileTidy
<1>8. Counted(F, v.nlink)
  <2>1. \A k \in Node : One(k, n) \in Nat /\ Cardinality(Places(E, k)) \in Nat
    BY OneIs, PlacesFinite
  <2>2. \A k \in Node : k[1] = Disk => One(k, n) = 0
    BY <1>6, OneIs, NodeFacts
  <2>3. QED BY <1>1, <1>3, <1>5, <2>1, <2>2 DEF Counted
<1>9. Sound(w, mv)
  BY <1>2, <1>7, <1>8, SoundIs
<1>10. Removed(v, d, m, w)
  BY <1>2, <1>4 DEF Removed, IsTaken, K, E
<1>11. QED BY <1>9, <1>10 DEF w

\* A name of a regular file of the ext2 volume, which may be the last one.
LEMMA RemoveFile ==
  ASSUME NEW v, NEW mv, Sound(v, mv), NEW d \in Node, d[1] = Disk,
         NEW m \in DOMAIN v.ents[d], m \notin Dots, v.kind[v.ents[d][m]] = "reg"
  PROVE  LET w == Unlink(WithoutEntry(v, d, m), v.ents[d][m])
         IN  Sound(w, mv) /\ Removed(v, d, m, w)
<1> DEFINE K == v.kind
           E == v.ents
           F == Taken(E, d, m)
           n == E[d][m]
           u == WithoutEntry(v, d, m)
           w == Unlink(u, n)
<1>1. TypedFs(v) /\ Tidy(K, E, mv) /\ Counted(E, v.nlink)
  BY SoundIs
<1>2. TypedFs(u) /\ u.kind = K /\ u.nlink = v.nlink /\ u.size = v.size /\ u.ents = F
  BY <1>1, WithoutEntryIs
<1>3. /\ K \in [Node -> {"free", "reg", "dir"}] /\ E \in [Node -> Entries]
      /\ v.nlink \in [Node -> Nat] /\ m \in DOMAIN E[d]
  BY <1>1, FieldsTyped
<1>k. K[n] = "reg"
  OBVIOUS
<1> HIDE DEF u, w, K, E
<1>4. IsTaken(E, F, d, m) /\ F \in [Node -> Entries]
  BY <1>3, TakenAt, TakenIs
<1>5. \A k \in Node : Cardinality(Places(F, k)) = Cardinality(Places(E, k)) - One(k, n)
  BY <1>3, TakenCounts
<1>6. n \in Node /\ n[1] = Disk
  BY <1>1, <1>3, Leads DEF Tidy, Tree
<1>7. Cardinality(Places(E, n)) >= 1
  BY <1>3, Named
<1>e. E[d][m] = n
  OBVIOUS
<1> HIDE DEF F, n
<1>8. \A k \in Node : /\ One(k, n) \in Nat /\ Cardinality(Places(E, k)) \in Nat
                      /\ v.nlink[k] \in Nat
  BY <1>3, OneIs, PlacesFinite
<1>9. u.nlink[n] = Cardinality(Places(E, n))
  BY <1>1, <1>2, <1>6 DEF Counted
<1>10. ASSUME NEW x, TypedFs(x), x.ents = F, \A k \in Node : x.nlink[k] = u.nlink[k] - One(k, n)
       PROVE  Counted(F, x.nlink)
  BY <1>1, <1>2, <1>5, <1>8, <1>10 DEF Counted
<1>11. CASE u.nlink[n] > 1
  <2>1. /\ TypedFs(w) /\ w.kind = u.kind /\ w.ents = u.ents /\ w.size = u.size
        /\ \A k \in Node : w.nlink[k] = u.nlink[k] - One(k, n)
    BY <1>2, <1>6, <1>11, UnlinkIs DEF w
  <2>2. Tidy(K, F, mv)
    BY <1>1, <1>3, <1>4, <1>e, <1>k, TakeFileTidy
  <2>3. Counted(F, w.nlink)
    BY <1>2, <1>10, <2>1
  <2>4. Sound(w, mv)
    BY <1>2, <2>1, <2>2, <2>3, SoundIs
  <2>5. Removed(v, d, m, w)
    BY <1>2, <1>4, <2>1 DEF Removed, IsTaken, K, E
  <2>6. QED BY <2>4, <2>5 DEF w, u, n, E
<1>12. CASE u.nlink[n] = 1
  <2>0. DOMAIN u.ents[n] = {}
    BY <1>1, <1>2, <1>4, <1>6, <1>k DEF Tidy, Tree, IsTaken
  <2>1. /\ TypedFs(w) /\ w.ents = u.ents
        /\ \A k \in Node : /\ w.kind[k] = IF k = n THEN "free" ELSE u.kind[k]
                           /\ k # n => w.size[k] = u.size[k]
                           /\ w.nlink[k] = u.nlink[k] - One(k, n)
    <3>1. TypedFs(u)
      BY <1>2
    <3>2. QED BY <1>6, <1>12, <2>0, <3>1, FreedIs DEF w
  <2>2. \A c \in Node : \A x \in DOMAIN F[c] : F[c][x] # n
    <3> SUFFICES ASSUME NEW c \in Node, NEW x \in DOMAIN F[c], F[c][x] = n PROVE FALSE
      OBVIOUS
    <3>1. Cardinality(Places(F, n)) >= 1
      BY <1>4, Named
    <3>2. Cardinality(Places(F, n)) = 1 - One(n, n)
      BY <1>5, <1>6, <1>9, <1>12
    <3>3. QED BY <3>1, <3>2, OneIs
  <2>3. \A k \in Node : w.kind[k] = IF k = n THEN "free" ELSE K[k]
    BY <1>2, <1>3, <2>1
  <2>4. Tidy(w.kind, F, mv)
    <3>1. \A k \in Node : w.kind[k] # K[k] => 
            /\ K[k] = "reg" /\ w.kind[k] = "free"
            /\ \A c \in Node : \A x \in DOMAIN F[c] : F[c][x] # k
      BY <1>k, <2>2, <2>3
    <3> DEFINE K1 == w.kind
    <3>2. \A k \in Node : K1[k] # K[k] => 
            /\ K[k] = "reg" /\ K1[k] = "free"
            /\ \A c \in Node : \A x \in DOMAIN F[c] : F[c][x] # k
      BY <3>1
    <3> HIDE DEF K1
    <3>3. Tidy(K1, F, mv)
      BY <1>1, <1>3, <1>4, <1>e, <1>k, <3>2, TakeFileTidy
    <3>4. QED BY <3>3 DEF K1
  <2>5. Counted(F, w.nlink)
    BY <1>2, <1>10, <2>1
  <2>6. Sound(w, mv)
    BY <1>2, <2>1, <2>4, <2>5, SoundIs
  <2>7. Removed(v, d, m, w)
    <3>1. \A k \in Node : /\ w.kind[k] # K[k]
                               => K[k] = "reg" /\ w.kind[k] = "free" /\ k[1] = Disk
                          /\ w.kind[k] # "free" => w.size[k] = v.size[k]
      BY <1>2, <1>6, <1>k, <2>1, <2>3
    <3>2. /\ \A c \in Node : \A x \in DOMAIN F[c] : x \in DOMAIN E[c] /\ F[c][x] = E[c][x]
          /\ m \notin DOMAIN F[d]
      BY <1>4 DEF IsTaken
    <3>3. QED BY <1>2, <2>1, <3>1, <3>2 DEF Removed, K, E
  <2>8. QED BY <2>6, <2>7 DEF w, u, n, E
<1>13. QED BY <1>7, <1>8, <1>9, <1>6, <1>11, <1>12

\* The name of a directory of the ext2 volume: its ".." leads to the directory
\* of the name and goes too; both have "." left.
LEMMA RemoveDir ==
  ASSUME NEW v, NEW mv, Sound(v, mv), mv \subseteq {Ram} \X Ino,
         NEW d \in Node, d[1] = Disk,
         NEW m \in DOMAIN v.ents[d], m \notin Dots, v.kind[v.ents[d][m]] = "dir"
  PROVE  LET n == v.ents[d][m]
             w == Unlink(Unlink(WithoutEntry(WithoutEntry(v, d, m), n, ".."), v.ents[n][".."]), n)
         IN  /\ ".." \in DOMAIN v.ents[n]
             /\ Sound(w, mv) /\ Removed(v, d, m, w) /\ ".." \notin DOMAIN w.ents[n]
             /\ w.kind = v.kind
<1> DEFINE K == v.kind
           E == v.ents
           n == E[d][m]
           F == Taken(E, d, m)
           G == Taken(F, n, "..")
           u == WithoutEntry(v, d, m)
           t == WithoutEntry(u, n, "..")
           s == Unlink(t, d)
           w == Unlink(s, n)
<1>1. TypedFs(v) /\ Tidy(K, E, mv) /\ Counted(E, v.nlink)
  BY SoundIs
<1>2. TypedFs(u) /\ u.kind = K /\ u.nlink = v.nlink /\ u.size = v.size /\ u.ents = F
  BY <1>1, WithoutEntryIs
<1>3. /\ E \in [Node -> Entries] /\ v.nlink \in [Node -> Nat] /\ m \in DOMAIN E[d]
      /\ K[n] = "dir"
  BY <1>1, FieldsTyped
<1> HIDE DEF u, K, E
<1>4. IsTaken(E, F, d, m) /\ F \in [Node -> Entries]
  BY <1>3, TakenAt, TakenIs
<1>5. \A k \in Node : Cardinality(Places(F, k)) = Cardinality(Places(E, k)) - One(k, n)
  BY <1>3, TakenCounts
<1>6. n \in Node /\ n[1] = Disk
  BY <1>1, <1>3, Leads DEF Tidy, Tree
<1>7. E[d][m] = n
  OBVIOUS
<1> HIDE DEF F, n
<1>8. ".." \in DOMAIN E[n] /\ E[n][".."] = d
  <2>1. n \notin mv
    BY <1>6, NodeFacts
  <2>2. QED BY <1>1, <1>3, <1>7, <2>1 DEF Tidy, Upward
<1>9. ".." \in DOMAIN F[n] /\ F[n][".."] = d
  BY <1>4, <1>6, <1>8 DEF IsTaken, Dots
<1>10. IsTaken(F, G, n, "..") /\ G \in [Node -> Entries]
  BY <1>4, <1>6, TakenAt, TakenIs
<1>11. \A k \in Node : Cardinality(Places(G, k)) = Cardinality(Places(F, k)) - One(k, d)
  BY <1>4, <1>6, <1>9, TakenCounts
<1>12. TypedFs(t) /\ t.kind = u.kind /\ t.nlink = u.nlink /\ t.size = u.size /\ t.ents = Taken(u.ents, n, "..")
  <2>1. TypedFs(u)
    BY <1>2
  <2>2. QED BY <1>6, <2>1, WithoutEntryIs
<1>g. t.ents = G
  BY <1>2, <1>12
<1> HIDE DEF G, t
<1>13. \A c \in Node : \A x :
         /\ x \in DOMAIN G[c] <=> x \in DOMAIN E[c] /\ ~(c = d /\ x = m) /\ ~(c = n /\ x = "..")
         /\ x \in DOMAIN G[c] => G[c][x] = E[c][x]
  BY <1>4, <1>10 DEF IsTaken
<1>14. Tidy(K, G, mv)
  <2>1. Tidy(K, E, mv) /\ E \in [Node -> Entries] /\ G \in [Node -> Entries]
    BY <1>1, <1>3, <1>10
  <2>2. m \in DOMAIN E[d] /\ K[n] = "dir" /\ n \in Node
    BY <1>3, <1>6
  <2>3. QED BY <1>7, <1>13, <2>1, <2>2, TakeDirTidy
<1>15. \A k \in Node : K[k] = "dir" => Cardinality(Places(G, k)) >= 1
  <2> TAKE k \in Node
  <2> HAVE K[k] = "dir"
  <2>1. "." \in DOMAIN G[k] /\ G[k]["."] = k
    BY <1>14 DEF Tidy, Tree
  <2>2. QED BY <1>10, <2>1, Named
<1>16. K[d] = "dir"
  BY <1>1, <1>3 DEF Tidy, Tree
<1>17. \A k \in Node : /\ One(k, n) \in Nat /\ One(k, d) \in Nat
                       /\ Cardinality(Places(E, k)) \in Nat /\ Cardinality(Places(G, k)) \in Nat
                       /\ v.nlink[k] \in Nat
                       /\ Cardinality(Places(G, k)) = Cardinality(Places(E, k)) - One(k, n) - One(k, d)
  BY <1>3, <1>5, <1>11, OneIs, PlacesFinite
<1>18. t.nlink[d] > 1
  <2>1. t.nlink[d] = Cardinality(Places(E, d))
    BY <1>1, <1>2, <1>12 DEF Counted
  <2>2. Cardinality(Places(G, d)) >= 1 /\ One(d, d) = 1
    BY <1>15, <1>16, OneIs
  <2>3. QED BY <1>17, <2>1, <2>2
<1>19. /\ TypedFs(s) /\ s.kind = t.kind /\ s.ents = t.ents /\ s.size = t.size
       /\ \A k \in Node : s.nlink[k] = t.nlink[k] - One(k, d)
  BY <1>12, <1>18, UnlinkIs
<1> HIDE DEF s
<1>20. s.nlink[n] > 1
  <2>1. s.nlink[n] = Cardinality(Places(E, n)) - One(n, d)
    BY <1>1, <1>2, <1>6, <1>12, <1>19 DEF Counted
  <2>2. Cardinality(Places(G, n)) >= 1 /\ One(n, n) = 1
    BY <1>3, <1>6, <1>15, OneIs
  <2>3. QED BY <1>6, <1>17, <2>1, <2>2
<1>21. /\ TypedFs(w) /\ w.kind = s.kind /\ w.ents = s.ents /\ w.size = s.size
       /\ \A k \in Node : w.nlink[k] = s.nlink[k] - One(k, n)
  BY <1>6, <1>19, <1>20, UnlinkIs
<1> HIDE DEF w
<1>22. w.kind = K /\ w.ents = G /\ w.size = v.size
  BY <1>2, <1>12, <1>g, <1>19, <1>21
<1>23. Counted(G, w.nlink)
  <2>1. \A k \in Node : w.nlink[k] = v.nlink[k] - One(k, d) - One(k, n)
    BY <1>2, <1>12, <1>19, <1>21
  <2>2. QED BY <1>1, <1>17, <2>1 DEF Counted
<1>24. Sound(w, mv)
  BY <1>14, <1>21, <1>22, <1>23, SoundIs
<1>25. Removed(v, d, m, w)
  BY <1>13, <1>22 DEF Removed, K, E
<1>26. ".." \notin DOMAIN w.ents[n]
  BY <1>6, <1>13, <1>22
<1>27. w = Unlink(Unlink(WithoutEntry(WithoutEntry(v, d, m), n, ".."), E[n][".."]), n)
  BY <1>8 DEF w, s, t, u
<1>28. QED BY <1>8, <1>22, <1>24, <1>25, <1>26, <1>27 DEF E, K, n

LEMMA RemoveKeeps ==
  ASSUME NEW v, NEW mv, Sound(v, mv), mv \subseteq {Ram} \X Ino,
         NEW d \in Node, NEW m \in DOMAIN v.ents[d], m \notin Dots
  PROVE  LET w == removeEntry(v, d, m)
         IN  /\ Sound(w, mv) /\ Removed(v, d, m, w)
             /\ d[1] = Disk /\ v.kind[v.ents[d][m]] = "dir" =>
                   ".." \notin DOMAIN w.ents[v.ents[d][m]] /\ w.kind = v.kind
<1> DEFINE n == v.ents[d][m]
<1>1. d[1] \in {Disk, Ram} /\ Disk # Ram
  BY NodeFacts
<1>2. v.kind[n] \in {"reg", "dir"}
  <2>1. v.ents \in [Node -> Entries] /\ v.kind \in [Node -> {"free", "reg", "dir"}]
    BY FieldsTyped, SoundIs
  <2>2. n \in Node
    BY <2>1, Leads
  <2>3. v.kind[n] # "free"
    BY DEF Sound, Tree
  <2>4. QED BY <2>1, <2>2, <2>3
<1>3. CASE d[1] = Ram
  BY <1>1, <1>3, RemoveRam DEF removeEntry
<1>4. CASE d[1] = Disk /\ v.kind[n] = "reg"
  BY <1>1, <1>4, RemoveFile DEF removeEntry
<1>5. CASE d[1] = Disk /\ v.kind[n] = "dir"
  BY <1>1, <1>5, RemoveDir DEF removeEntry
<1>6. QED BY <1>1, <1>2, <1>3, <1>4, <1>5

\* What may become free, and the sizes that stay.
Freed(v, w) ==
  \A k \in Node : /\ w.kind[k] # v.kind[k] => w.kind[k] = "free" /\ k[1] = Disk
                  /\ w.kind[k] # "free" => w.size[k] = v.size[k]

\* The "." of a directory that has nothing else, and the directory.
LEMMA DeleteKeeps ==
  ASSUME NEW v, NEW mv, Sound(v, mv), mv \subseteq {Ram} \X Ino,
         NEW n \in Node, n[1] = Disk, v.kind[n] = "dir", DOMAIN v.ents[n] = {"."}
  PROVE  LET w == Unlink(WithoutEntry(v, n, "."), n)
         IN  Sound(w, mv) /\ Freed(v, w)
<1> DEFINE K == v.kind
           E == v.ents
           F == Taken(E, n, ".")
           u == WithoutEntry(v, n, ".")
           w == Unlink(u, n)
<1>1. TypedFs(v) /\ Tidy(K, E, mv) /\ Counted(E, v.nlink)
  BY SoundIs
<1>2. TypedFs(u) /\ u.kind = K /\ u.nlink = v.nlink /\ u.size = v.size /\ u.ents = F
  BY <1>1, WithoutEntryIs
<1>3. /\ K \in [Node -> {"free", "reg", "dir"}] /\ E \in [Node -> Entries]
      /\ v.nlink \in [Node -> Nat] /\ DOMAIN E[n] = {"."} /\ K[n] = "dir"
  BY <1>1, FieldsTyped
<1> HIDE DEF u, K, E
<1>4. "." \in DOMAIN E[n] /\ E[n]["."] = n
  BY <1>1, <1>3 DEF Tidy, Tree
<1>5. IsTaken(E, F, n, ".") /\ F \in [Node -> Entries]
  BY <1>3, TakenAt, TakenIs
<1>6. \A k \in Node : Cardinality(Places(F, k)) = Cardinality(Places(E, k)) - One(k, n)
  BY <1>3, <1>4, TakenCounts
<1> HIDE DEF F
<1>7. \A c \in Node : \A x \in DOMAIN E[c] : E[c][x] = n => c = n /\ x = "."
  <2>1. Tidy(K, E, mv)
    BY <1>1
  <2>2. QED BY <1>3, <2>1, LastEntry
<1>8. \A c \in Node : \A x \in DOMAIN F[c] : F[c][x] # n
  BY <1>5, <1>7 DEF IsTaken
<1>9. Cardinality(Places(F, n)) = 0
  BY <1>5, <1>8, Unnamed
<1>10. \A k \in Node : /\ One(k, n) \in Nat /\ Cardinality(Places(E, k)) \in Nat
                       /\ v.nlink[k] \in Nat
  BY <1>3, OneIs, PlacesFinite
<1>11. u.nlink[n] = 1
  <2>1. u.nlink[n] = Cardinality(Places(E, n))
    BY <1>1, <1>2 DEF Counted
  <2>2. One(n, n) = 1
    BY OneIs
  <2>3. QED BY <1>6, <1>9, <1>10, <2>1, <2>2
<1>12. DOMAIN u.ents[n] = {}
  BY <1>2, <1>3, <1>5 DEF IsTaken
<1>13. /\ TypedFs(w) /\ w.ents = u.ents
       /\ \A k \in Node : /\ w.kind[k] = IF k = n THEN "free" ELSE u.kind[k]
                          /\ k # n => w.size[k] = u.size[k]
                          /\ w.nlink[k] = u.nlink[k] - One(k, n)
  <2>1. TypedFs(u)
    BY <1>2
  <2>2. QED BY <1>11, <1>12, <2>1, FreedIs
<1> HIDE DEF w
<1>14. w.kind = [K EXCEPT ![n] = "free"]
  <2>1. w.kind \in [Node -> {"free", "reg", "dir"}]
    BY <1>13, FieldsTyped
  <2>2. \A k \in Node : w.kind[k] = IF k = n THEN "free" ELSE K[k]
    BY <1>2, <1>13
  <2>3. QED BY <1>3, <2>1, <2>2
<1>15. Tidy(w.kind, F, mv)
  <2>1. Tidy(K, E, mv)
    BY <1>1
  <2>2. Tidy([K EXCEPT ![n] = "free"], F, mv)
    BY <1>3, <1>5, <2>1, DeleteTidy
  <2>3. QED BY <2>2, <1>14
<1>16. Counted(F, w.nlink)
  BY <1>1, <1>2, <1>6, <1>10, <1>13 DEF Counted
<1>17. Sound(w, mv)
  BY <1>2, <1>13, <1>15, <1>16, SoundIs
<1>18. Freed(v, w)
  BY <1>2, <1>13 DEF Freed, K
<1>19. QED BY <1>17, <1>18 DEF w, u

LEMMA RemoveDirectoryKeeps ==
  ASSUME NEW v, NEW mv, Sound(v, mv), mv \subseteq {Ram} \X Ino,
         NEW d \in Node, NEW m \in DOMAIN v.ents[d], m \notin Dots,
         v.kind[v.ents[d][m]] = "dir", DOMAIN v.ents[v.ents[d][m]] \subseteq Dots
  PROVE  LET w == removeDirectory(v, d, m) IN Sound(w, mv) /\ Freed(v, w)
<1> DEFINE n == v.ents[d][m]
           out == removeEntry(v, d, m)
<1>1. d[1] \in {Disk, Ram} /\ Disk # Ram
  BY NodeFacts
<1>2. n \in Node /\ n[1] = d[1]
  <2>1. v.ents \in [Node -> Entries]
    BY FieldsTyped, SoundIs
  <2>2. QED BY <2>1, Leads DEF Sound, Tree
<1>3. /\ Sound(out, mv) /\ Removed(v, d, m, out)
      /\ d[1] = Disk => ".." \notin DOMAIN out.ents[n] /\ out.kind = v.kind
  BY RemoveKeeps
<1>n. removeDirectory(v, d, m) = IF d[1] = Ram \/ out.kind[n] = "free" THEN out
                                 ELSE Unlink(WithoutEntry(out, n, "."), n)
  BY DEF removeDirectory
<1>h. v.kind[n] = "dir" /\ DOMAIN v.ents[n] \subseteq Dots
  OBVIOUS
<1> HIDE DEF out, n
<1>4. Freed(v, out)
  BY <1>3 DEF Removed, Freed
<1>5. CASE d[1] = Ram
  BY <1>3, <1>4, <1>5, <1>n
<1>6. CASE d[1] = Disk
  <2> DEFINE w == Unlink(WithoutEntry(out, n, "."), n)
  <2>1. out.kind[n] = "dir" /\ ".." \notin DOMAIN out.ents[n]
    BY <1>3, <1>6, <1>h
  <2>2. DOMAIN out.ents[n] = {"."}
    <3>1. "." \in DOMAIN out.ents[n]
      BY <1>2, <1>3, <2>1 DEF Sound, Tree
    <3>2. \A x \in DOMAIN out.ents[n] : x \in DOMAIN v.ents[n]
      BY <1>2, <1>3 DEF Removed
    <3>3. QED BY <1>h, <2>1, <3>1, <3>2 DEF Dots
  <2>3. Sound(w, mv) /\ Freed(out, w)
    BY <1>2, <1>3, <1>6, <2>1, <2>2, DeleteKeeps
  <2>4. removeDirectory(v, d, m) = w
    BY <1>1, <1>6, <1>n, <2>1
  <2> HIDE DEF w
  <2>5. Freed(v, w)
    BY <1>4, <2>3 DEF Freed
  <2>6. QED BY <2>3, <2>4, <2>5
<1>7. QED BY <1>1, <1>5, <1>6

\* A set of naturals has a least element.
LEMMA Least ==
  ASSUME NEW T \in SUBSET Nat, T # {}
  PROVE  \E n \in T : \A m \in T : n <= m
<1> DEFINE Upto(n) == 0 .. n
           C == {Upto(n) : n \in T}
<1>1. IsWellFoundedOn(StrictSubsetOrdering(Nat), FiniteSubsetsOf(Nat))
  BY FS_StrictSubsetOrderingWellFounded
<1>2. \A n \in T : Upto(n) \in FiniteSubsetsOf(Nat)
  <2> TAKE n \in T
  <2>1. IsFiniteSet(0 .. n)
    BY FS_Interval
  <2>2. QED BY <2>1 DEF FiniteSubsetsOf
<1>3. \A n \in T, m \in T : m < n => <<Upto(m), Upto(n)>> \in StrictSubsetOrdering(Nat)
  <2> TAKE n \in T, m \in T
  <2>1. m < n => /\ Upto(m) \in SUBSET Nat /\ Upto(n) \in SUBSET Nat
                 /\ Upto(m) \subseteq Upto(n) /\ n \in Upto(n) /\ n \notin Upto(m)
    OBVIOUS
  <2> HIDE DEF Upto
  <2>2. QED BY <2>1 DEF StrictSubsetOrdering
<1> HIDE DEF Upto
<1>4. C # {} /\ C \subseteq FiniteSubsetsOf(Nat)
  BY <1>2
<1> HIDE DEF C
<1>5. \E x \in C : \A y \in C : ~(<<y, x>> \in StrictSubsetOrdering(Nat))
  BY <1>1, <1>4, WFMin
<1>6. PICK n \in T : \A m \in T : ~(<<Upto(m), Upto(n)>> \in StrictSubsetOrdering(Nat))
  BY <1>5 DEF C
<1>7. \A m \in T : ~(m < n)
  BY <1>3, <1>6
<1>8. QED BY <1>7

\* FreeInos: the inode that is taken.
LEMMA MinFree ==
  ASSUME NEW v, NEW dev \in {Disk, Ram}, FreeInos(v, dev) # {}
  PROVE  <<dev, Min(FreeInos(v, dev))>> \in Node /\ v.kind[<<dev, Min(FreeInos(v, dev))>>] = "free"
<1> DEFINE S == FreeInos(v, dev)
<1>1. S \in SUBSET Nat /\ S \subseteq Ino
  BY VfsAssumption DEF FreeInos, Ino
<1>2. \E x \in S : \A y \in S : x <= y
  <2> HIDE DEF S
  <2>1. S # {}
    BY DEF S
  <2>2. QED BY <1>1, <2>1, Least
<1>3. Min(S) \in S
  BY <1>2 DEF Min
<1>4. Min(S) \in Ino /\ v.kind[<<dev, Min(S)>>] = "free"
  BY <1>3 DEF FreeInos
<1>5. QED BY <1>4 DEF Node

LEMMA CreateKeeps ==
  ASSUME NEW v, NEW mv, Sound(v, mv), mv \subseteq {Ram} \X Ino,
         NEW d \in Node, v.kind[d] = "dir", d # TmpDir,
         NEW m \in Name, m \notin DOMAIN v.ents[d], FreeInos(v, d[1]) # {}, NEW kind \in Kinds
  PROVE  LET w == Create(v, d, m, kind)
         IN  /\ Sound(w, mv)
             /\ \E n \in Node : /\ v.kind[n] = "free"
                                /\ \A k \in Node : /\ w.kind[k] = IF k = n THEN kind ELSE v.kind[k]
                                                   /\ k # n => w.size[k] = v.size[k]
                                /\ m \in DOMAIN w.ents[d] /\ w.ents[d][m] = n
<1> DEFINE n == <<d[1], Min(FreeInos(v, d[1]))>>
           u == Made(v, n, kind)
           w == addEntry(u, d, m, n)
<1>1. n \in Node /\ v.kind[n] = "free" /\ n[1] = d[1]
  <2>1. d[1] \in {Disk, Ram}
    BY NodeFacts
  <2>2. QED BY <2>1, MinFree
<1>2. Create(v, d, m, kind) = w
  BY DEF Create, Made, Blank
<1> HIDE DEF n
<1>3. /\ Sound(u, mv) /\ u.kind = [v.kind EXCEPT ![n] = kind]
      /\ \A c \in Node \ {n} : u.ents[c] = v.ents[c]
      /\ DOMAIN u.ents[n] \subseteq {"."}
      /\ \A k \in Node \ {n} : u.size[k] = v.size[k]
  BY <1>1, FreshKeeps
<1>4. \A k \in Node : u.kind[k] = IF k = n THEN kind ELSE v.kind[k]
  BY <1>1, <1>3, FieldsTyped, SoundIs
<1> HIDE DEF u
<1>5. d # n /\ u.kind[d] = "dir" /\ m \notin DOMAIN u.ents[d]
  BY <1>1, <1>3, <1>4
<1>6. u.kind[n] # "free" /\ ".." \notin DOMAIN u.ents[n] /\ n # RamRoot
  <2>1. v.kind[RamRoot] = "dir"
    BY DEF Sound, Covered
  <2>2. u.kind[n] = kind
    BY <1>1, <1>4
  <2>3. QED BY <1>1, <1>3, <2>1, <2>2 DEF Kinds
<1>7. Sound(w, mv) /\ Added(u, d, m, n, w)
  BY <1>1, <1>3, <1>5, <1>6, AddKeeps
<1> HIDE DEF w
<1>8. QED BY <1>1, <1>2, <1>3, <1>4, <1>7 DEF Added

\* A RamFS that has the name keeps it, and has the new file without a name.
LEMMA CreateAgain ==
  ASSUME NEW v, NEW mv, Sound(v, mv), NEW d \in Node, d[1] = Ram,
         NEW m \in DOMAIN v.ents[d], FreeInos(v, Ram) # {}
  PROVE  LET w == Create(v, d, m, "reg")
         IN  /\ Sound(w, mv)
             /\ \E n \in Node : /\ v.kind[n] = "free"
                                /\ \A k \in Node : /\ w.kind[k] = IF k = n THEN "reg" ELSE v.kind[k]
                                                   /\ k # n => w.size[k] = v.size[k]
                                /\ m \in DOMAIN w.ents[d]
<1> DEFINE n == <<d[1], Min(FreeInos(v, d[1]))>>
           u == Made(v, n, "reg")
<1>1. n \in Node /\ v.kind[n] = "free" /\ n[1] = Ram
  <2>1. d[1] \in {Disk, Ram}
    BY NodeFacts
  <2>2. QED BY <2>1, MinFree
<1>2. Create(v, d, m, "reg") = addEntry(u, d, m, n)
  BY DEF Create, Made, Blank
<1> HIDE DEF n
<1>3. "reg" \in Kinds
  BY DEF Kinds
<1>4. /\ Sound(u, mv) /\ u.kind = [v.kind EXCEPT ![n] = "reg"]
      /\ \A c \in Node \ {n} : u.ents[c] = v.ents[c]
      /\ \A k \in Node \ {n} : u.size[k] = v.size[k]
  BY <1>1, <1>3, FreshKeeps
<1>5. \A k \in Node : u.kind[k] = IF k = n THEN "reg" ELSE v.kind[k]
  BY <1>1, <1>4, FieldsTyped, SoundIs
<1> HIDE DEF u
<1>6. d # n
  BY <1>1 DEF Sound, Tree
<1>7. m \in DOMAIN u.ents[d]
  BY <1>4, <1>6
<1>8. /\ Sound(Link(u, n), mv) /\ Link(u, n).kind = u.kind /\ Link(u, n).ents = u.ents
      /\ Link(u, n).size = u.size
  BY <1>1, <1>4, LinkKeeps
<1>9. addEntry(u, d, m, n) = Link(u, n)
  <2>1. Insert(Link(u, n), d, m, n) = Link(u, n)
    BY <1>7, <1>8 DEF Insert
  <2>2. u.kind[n] # "dir"
    BY <1>1, <1>5
  <2>3. d[1] = Ram
    OBVIOUS
  <2>4. QED BY <2>1, <2>2, <2>3, Zenon DEF addEntry
<1> DEFINE w == Link(u, n)
<1>10. Create(v, d, m, "reg") = w
  BY <1>2, <1>9
<1>11. Sound(w, mv) /\ w.kind = u.kind /\ w.ents = u.ents /\ w.size = u.size
  BY <1>8
<1> HIDE DEF w
<1>12. /\ Sound(w, mv)
       /\ \E x \in Node : /\ v.kind[x] = "free"
                          /\ \A k \in Node : /\ w.kind[k] = IF k = x THEN "reg" ELSE v.kind[k]
                                             /\ k # x => w.size[k] = v.size[k]
                          /\ m \in DOMAIN w.ents[d]
  BY <1>1, <1>4, <1>5, <1>7, <1>11
<1>13. QED BY <1>10, <1>12


-----------------------------------------------------------------------------
(* The calls.                                                                *)

LEMMA MovedKeeps ==
  ASSUME NEW v, NEW mv, NEW mv2, mv \subseteq mv2, Sound(v, mv)
  PROVE  Sound(v, mv2)
BY DEF Sound, Upward, Covered

\* The kernel stops, for another reason than readaddr.
LEMMA StopKeeps ==
  ASSUME IInv, NEW why, why # "readaddr", Stop(why),
         moved \subseteq moved', moved' \subseteq {Ram} \X Ino
  PROVE  IInv'
<1>1. fs' = fs /\ fds' = fds /\ wd' = wd /\ lost' = lost /\ halted' # "readaddr"
  BY DEF Stop
<1>2. Sound(fs, moved')
  BY MovedKeeps DEF IInv
<1>3. Sound(fs, moved)'
  BY <1>1, <1>2 DEF Sound, TypedFs, Tree, Upward, Once, Downward, Covered, Counted, Places
<1>4. FilesOpen'
  BY <1>1 DEF IInv, FilesOpen
<1>5. QED BY <1>1, <1>3, <1>4 DEF IInv

LEMMA Reasons ==
  /\ "working directory gone" # "readaddr" /\ "name twice" # "readaddr"
  /\ "open in a directory that is not there" # "readaddr"
  /\ "destroyed directory" # "readaddr" /\ "directory written over" # "readaddr"
  /\ "null stream" # "readaddr" /\ "removeDirectory of a file" # "readaddr"
  /\ "rename of a name that is not there" # "readaddr"
OBVIOUS

\* The kernel stops and no directory was renamed.
LEMMA HaltKeeps ==
  ASSUME IInv, NEW why, why # "readaddr", Stop(why), moved' = moved
  PROVE  IInv'
<1>1. moved \subseteq moved' /\ moved' \subseteq {Ram} \X Ino
  BY DEF IInv
<1>2. QED BY <1>1, StopKeeps, Zenon

\* The sizes of what stays a regular file stay; those of the RamFS all do.
Sizes(v, w) ==
  \A k \in Node : v.kind[k] = "reg" =>
     /\ w.kind[k] = "reg" => w.size[k] = v.size[k]
     /\ k[1] = Ram => w.kind[k] = "reg"

LEMMA SoundPrime ==
  ASSUME NEW v, fs' = v, Sound(v, moved')
  PROVE  Sound(fs, moved)'
BY DEF Sound, TypedFs, Tree, Upward, Once, Downward, Covered, Counted, Places

\* A descriptor is lost when its file, which then is of the ext2 volume, is freed.
LEMMA ChangeKeeps ==
  ASSUME IInv, NEW v, Sound(v, moved'), Sizes(fs, v), Change(v),
         moved \subseteq moved', moved' \subseteq {Ram} \X Ino
  PROVE  IInv'
<1> DEFINE Gone == {k \in Fd : fds[k].type = "file" /\ v.kind[fds[k].node] # "reg"}
<1>1. fs' = v /\ fds' = fds /\ wd' = wd /\ halted' = halted /\ lost' = lost \cup Gone
  BY DEF Change
<1>2. Sound(fs, moved)'
  BY <1>1, SoundPrime
<1>3. \A k \in Fd \ lost : fds[k].type = "file" =>
         /\ fds[k].node \in Node /\ fs.kind[fds[k].node] = "reg"
         /\ fds[k].addr <= fs.size[fds[k].node]
  BY DEF IInv, FilesOpen
<1>4. \A k \in Fd \ lost' : fds[k].type = "file" =>
         v.kind[fds[k].node] = "reg" /\ fds[k].addr <= v.size[fds[k].node]
  BY <1>1, <1>3 DEF Sizes
<1>5. \A k \in lost' : fds[k].type = "file" /\ fds[k].node[1] = Disk
  <2>1. \A k \in Gone \ lost : fds[k].node[1] # Ram
    BY <1>3 DEF Sizes
  <2>2. \A k \in Gone \ lost : fds[k].node[1] \in {Disk, Ram}
    BY <1>3, NodeFacts
  <2>3. \A k \in lost : fds[k].type = "file" /\ fds[k].node[1] = Disk
    BY DEF IInv, FilesOpen
  <2>4. QED BY <1>1, <2>1, <2>2, <2>3
<1>6. lost' \subseteq Fd
  BY <1>1 DEF IInv, FilesOpen
<1> HIDE DEF Gone
<1>7. FilesOpen'
  BY <1>1, <1>4, <1>5, <1>6 DEF IInv, FilesOpen
<1>8. QED BY <1>1, <1>2, <1>7 DEF IInv

\* The directory of a call, and what a name leads to.
LEMMA Where ==
  ASSUME IInv, NEW d \in Parents
  PROVE  d \in Node \ {TmpDir} /\ fs.kind[d] = "dir"
BY ParentLeads DEF IInv, FilesOpen, Parents, IsDir

LEMMA What ==
  ASSUME IInv, NEW d \in Node, NEW name \in Name, Lookup(fs, d, name) # Null
  PROVE  /\ name \in DOMAIN fs.ents[d] /\ name \notin Dots
         /\ fs.ents[d][name] \in Node /\ fs.ents[d][name][1] = d[1]
         /\ fs.kind[fs.ents[d][name]] # "free"
         /\ Lookup(fs, d, name) = IF fs.ents[d][name] = TmpDir THEN RamRoot ELSE fs.ents[d][name]
         /\ Lookup(fs, d, name) \in Node \ {TmpDir} /\ fs.kind[Lookup(fs, d, name)] # "free"
<1>1. Sound(fs, moved)
  BY DEF IInv
<1>2. name \notin Dots
  BY VfsAssumption DEF Dots
<1>3. /\ name \in DOMAIN fs.ents[d] /\ fs.ents[d][name] \in Node
      /\ Lookup(fs, d, name) = IF fs.ents[d][name] = TmpDir THEN RamRoot ELSE fs.ents[d][name]
  BY <1>1, LookupNamed
<1>4. fs.ents[d][name][1] = d[1] /\ fs.kind[fs.ents[d][name]] # "free"
  BY <1>1, <1>3 DEF Sound, Tree
<1>5. Lookup(fs, d, name) \in Node \ {TmpDir} /\ fs.kind[Lookup(fs, d, name)] # "free"
  BY <1>1, LookupLeads
<1>6. QED BY <1>2, <1>3, <1>4, <1>5

LEMMA Missing ==
  ASSUME IInv, NEW d \in Node, NEW name \in Name, Lookup(fs, d, name) = Null
  PROVE  name \notin DOMAIN fs.ents[d]
BY LookupNamed DEF IInv

LEMMA Now == IInv => /\ Sound(fs, moved) /\ moved \subseteq {Ram} \X Ino
                     /\ fs.kind \in [Node -> {"free", "reg", "dir"}]
                     /\ fs.size \in [Node -> 0 .. MaxSize]
BY FieldsTyped, SoundIs DEF IInv

LEMMA MkdirKeeps ==
  ASSUME IInv, NEW d \in Parents, NEW name \in Name, sysmkdir(d, name)
  PROVE  IInv'
<1>1. d \in Node \ {TmpDir} /\ fs.kind[d] = "dir"
  BY Where
<1>2. name \notin DOMAIN fs.ents[d] /\ FreeInos(fs, d[1]) # {}
  BY <1>1, Missing DEF sysmkdir
<1> DEFINE v == Create(fs, d, name, "dir")
<1>3. Change(v) /\ moved' = moved
  BY <1>1 DEF sysmkdir
<1>4. "dir" \in Kinds
  BY DEF Kinds
<1>5. /\ Sound(v, moved)
      /\ \E n \in Node : /\ fs.kind[n] = "free"
                         /\ \A k \in Node : /\ v.kind[k] = IF k = n THEN "dir" ELSE fs.kind[k]
                                            /\ k # n => v.size[k] = fs.size[k]
                         /\ name \in DOMAIN v.ents[d] /\ v.ents[d][name] = n
  BY <1>1, <1>2, <1>4, Now, CreateKeeps
<1> HIDE DEF v
<1>6. Sizes(fs, v)
  BY <1>5 DEF Sizes
<1>7. QED BY <1>3, <1>5, <1>6, Now, ChangeKeeps

LEMMA RmdirKeeps ==
  ASSUME IInv, NEW d \in Parents, NEW name \in Name, sysrmdir(d, name)
  PROVE  IInv'
<1>c. /\ IsDir(fs, Lookup(fs, d, name)) /\ isEmpty(fs, Lookup(fs, d, name))
      /\ moved' = moved
  BY Zenon DEF sysrmdir
<1>1. d \in Node \ {TmpDir} /\ fs.kind[d] = "dir"
  BY Where
<1>2. Lookup(fs, d, name) # Null /\ isEmpty(fs, Lookup(fs, d, name)) /\ moved' = moved
  BY <1>1, <1>c DEF IsDir
<1> DEFINE n == fs.ents[d][name]
<1>3. /\ name \in DOMAIN fs.ents[d] /\ name \notin Dots /\ n \in Node
      /\ Lookup(fs, d, name) = IF n = TmpDir THEN RamRoot ELSE n
  BY <1>1, <1>2, What
<1>4. Child(fs, d, name) = n
  BY <1>3 DEF Child
<1>5. CASE ~IsDir(fs, Child(fs, d, name))
  <2>1. Stop("removeDirectory of a file")
    BY <1>1, <1>5, Zenon DEF sysrmdir
  <2>2. QED BY <1>2, <2>1, HaltKeeps, Reasons, Zenon
<1>6. CASE IsDir(fs, Child(fs, d, name))
  <2> DEFINE v == removeDirectory(fs, d, name)
  <2>1. Change(v)
    BY <1>1, <1>6, Zenon DEF sysrmdir
  <2>2. fs.kind[n] = "dir"
    BY <1>4, <1>6 DEF IsDir
  <2>3. DOMAIN fs.ents[n] \subseteq Dots
    <3>1. CASE n = TmpDir
      BY <3>1, Now DEF Sound, Covered
    <3>2. CASE n # TmpDir
      BY <1>2, <1>3, <3>2 DEF isEmpty, Dots
    <3>3. QED BY <3>1, <3>2
  <2>4. Sound(v, moved) /\ Freed(fs, v)
    BY <1>1, <1>3, <2>2, <2>3, Now, RemoveDirectoryKeeps
  <2> HIDE DEF v
  <2>5. Sizes(fs, v)
    BY <2>4, NodeFacts DEF Freed, Sizes
  <2>6. QED BY <1>2, <2>1, <2>4, <2>5, Now, ChangeKeeps
<1>7. QED BY <1>5, <1>6

LEMMA LinkCallKeeps ==
  ASSUME IInv, NEW p \in Path, NEW name1 \in Name, NEW d \in Parents, NEW name \in Name,
         syslink(Whole(p, name1), d, name)
  PROVE  IInv'
<1> DEFINE n == Whole(p, name1)
<1>1. d \in Node \ {TmpDir} /\ fs.kind[d] = "dir"
  BY Where
<1>2. name \notin DOMAIN fs.ents[d] /\ moved' = moved
  BY <1>1, Missing DEF syslink
<1>6. n # Null /\ fs.kind[n] = "reg" /\ n[1] = d[1] /\ Change(addEntry(fs, d, name, n))
  BY DEF syslink, IsReg, SameDevice
<1>7. n \in Node
  BY <1>6, WholeLeads DEF IInv, FilesOpen
<1> HIDE DEF n
<1> DEFINE v == addEntry(fs, d, name, n)
<1>8. Sound(v, moved) /\ Added(fs, d, name, n, v)
  BY <1>1, <1>2, <1>6, <1>7, Now, AddKeeps
<1> HIDE DEF v
<1>9. Sizes(fs, v)
  BY <1>8 DEF Added, Sizes
<1>10. QED BY <1>2, <1>6, <1>8, <1>9, Now, ChangeKeeps DEF v

LEMMA UnlinkCallKeeps ==
  ASSUME IInv, NEW d \in Parents, NEW name \in Name, sysunlink(d, name)
  PROVE  IInv'
<1>1. d \in Node \ {TmpDir} /\ fs.kind[d] = "dir"
  BY Where
<1> DEFINE v == removeEntry(fs, d, name)
<1>2. Lookup(fs, d, name) # Null /\ Change(v) /\ moved' = moved
  BY <1>1 DEF sysunlink, IsReg
<1>3. name \in DOMAIN fs.ents[d] /\ name \notin Dots
  BY <1>1, <1>2, What
<1>4. Sound(v, moved) /\ Removed(fs, d, name, v)
  BY <1>1, <1>3, Now, RemoveKeeps
<1> HIDE DEF v
<1>5. Sizes(fs, v)
  BY <1>4, NodeFacts DEF Removed, Sizes
<1>6. QED BY <1>2, <1>4, <1>5, Now, ChangeKeeps

LEMMA RenameKeeps ==
  ASSUME IInv, NEW c \in Parents, NEW d \in Parents, NEW name \in Name, NEW name1 \in Name,
         sysrename(c, name1, d, name)
  PROVE  IInv'
<1>c. Lookup(fs, d, name) = Null
  BY Zenon DEF sysrename
<1>1. c \in Node \ {TmpDir} /\ fs.kind[c] = "dir"
  BY Where
<1>2. d \in Node \ {TmpDir} /\ fs.kind[d] = "dir"
  BY Where
<1>3. PICK n : n = Lookup(fs, c, name1)
  OBVIOUS
<1>4. \/ Stop("rename of a name that is not there") /\ moved' = moved
      \/ /\ n # Null /\ SameDevice(n, d)
         /\ Change(IF IsDir(fs, n)
                   THEN addEntry(removeEntry(fs, c, name1), d, name, n)
                   ELSE removeEntry(addEntry(fs, d, name, n), c, name1))
         /\ moved' = IF n[1] = Ram THEN moved \cup {n} ELSE moved
  BY <1>1, <1>2, <1>3, Zenon DEF sysrename
<1>5. CASE Stop("rename of a name that is not there") /\ moved' = moved
  BY <1>5, HaltKeeps, Reasons, Zenon
<1>6. CASE /\ n # Null /\ SameDevice(n, d)
           /\ Change(IF IsDir(fs, n)
                     THEN addEntry(removeEntry(fs, c, name1), d, name, n)
                     ELSE removeEntry(addEntry(fs, d, name, n), c, name1))
           /\ moved' = IF n[1] = Ram THEN moved \cup {n} ELSE moved
  <2>1. name \notin DOMAIN fs.ents[d]
    BY <1>2, <1>c, Missing
  <2>2. /\ name1 \in DOMAIN fs.ents[c] /\ name1 \notin Dots
        /\ fs.ents[c][name1] \in Node /\ fs.ents[c][name1][1] = c[1]
        /\ n = IF fs.ents[c][name1] = TmpDir THEN RamRoot ELSE fs.ents[c][name1]
        /\ n \in Node \ {TmpDir} /\ fs.kind[n] # "free"
    BY <1>1, <1>3, <1>6, What
  <2>3. n[1] = d[1] /\ n[1] \in {Disk, Ram} /\ n = <<n[1], n[2]>> /\ n[2] \in Ino
    BY <1>6, <2>2, NodeFacts DEF SameDevice
  <2>4. moved \subseteq moved' /\ moved' \subseteq {Ram} \X Ino /\ (n[1] = Ram => n \in moved')
    BY <1>6, <2>3, Now
  <2>5. Sound(fs, moved')
    BY <2>4, Now, MovedKeeps
  <2>6. CASE fs.kind[n] = "dir"
    <3> DEFINE u == removeEntry(fs, c, name1)
               v == addEntry(u, d, name, n)
    <3>1. /\ Sound(u, moved') /\ Removed(fs, c, name1, u)
          /\ c[1] = Disk /\ fs.kind[fs.ents[c][name1]] = "dir" =>
                ".." \notin DOMAIN u.ents[fs.ents[c][name1]] /\ u.kind = fs.kind
      BY <1>1, <2>2, <2>4, <2>5, RemoveKeeps
    <3>v. Change(v)
      BY <1>6, <2>2, <2>6 DEF IsDir
    <3> HIDE DEF u
    <3>2. u.kind[d] = "dir" /\ u.kind[n] = "dir" /\ name \notin DOMAIN u.ents[d]
      BY <1>2, <2>1, <2>2, <2>6, <3>1 DEF Removed
    <3>3. n \in moved' \/ (".." \notin DOMAIN u.ents[n] /\ n # RamRoot)
      <4>1. CASE n[1] = Ram
        BY <2>4, <4>1
      <4>2. CASE n[1] = Disk
        <5>1. n = fs.ents[c][name1] /\ n # RamRoot /\ c[1] = Disk
          BY <2>2, <4>2, NodeFacts
        <5>2. QED BY <2>6, <3>1, <5>1
      <4>3. QED BY <2>3, <4>1, <4>2
    <3>4. Sound(v, moved') /\ Added(u, d, name, n, v)
      BY <1>2, <2>2, <2>3, <2>4, <3>1, <3>2, <3>3, AddKeeps
    <3> HIDE DEF v
    <3>5. Sizes(fs, v)
      BY <3>1, <3>4, NodeFacts DEF Added, Removed, Sizes
    <3>6. QED BY <2>4, <3>4, <3>5, <3>v, ChangeKeeps
  <2>7. CASE fs.kind[n] # "dir"
    <3> DEFINE u == addEntry(fs, d, name, n)
               v == removeEntry(u, c, name1)
    <3>1. Sound(u, moved') /\ Added(fs, d, name, n, u)
      BY <1>2, <2>1, <2>2, <2>3, <2>4, <2>5, <2>7, AddKeeps
    <3>v. Change(v)
      BY <1>6, <2>7 DEF IsDir
    <3> HIDE DEF u
    <3>2. name1 \in DOMAIN u.ents[c]
      BY <1>1, <2>2, <3>1 DEF Added
    <3>3. Sound(v, moved') /\ Removed(u, c, name1, v)
      BY <1>1, <2>2, <2>4, <3>1, <3>2, RemoveKeeps
    <3> HIDE DEF v
    <3>4. Sizes(fs, v)
      BY <3>1, <3>3, NodeFacts DEF Added, Removed, Sizes
    <3>5. QED BY <2>4, <3>3, <3>4, <3>v, ChangeKeeps
  <2>8. QED BY <2>6, <2>7
<1>7. QED BY <1>4, <1>5, <1>6, Zenon

\* A new descriptor of n, which is not free in v, while what is open stays.
LEMMA OpenNode ==
  ASSUME IInv, NEW fd \in Fd, fds[fd] = Closed, NEW v, Sound(v, moved),
         \A k \in Node : fs.kind[k] # "free" => v.kind[k] = fs.kind[k] /\ v.size[k] = fs.size[k],
         NEW n \in Node, v.kind[n] # "free",
         fs' = v, fds' = [fds EXCEPT ![fd] = Opened(v, n)], UNCHANGED <<wd, halted, moved, lost>>
  PROVE  IInv'
<1>1. v.kind \in [Node -> {"free", "reg", "dir"}] /\ v.size \in [Node -> 0 .. MaxSize]
  BY FieldsTyped, SoundIs
<1>2. /\ Opened(v, n) \in [type : {"file", "null"}, node : Node, addr : 0 .. 2 * MaxSize]
      /\ Opened(v, n).node = n /\ Opened(v, n).addr = 0
      /\ Opened(v, n).type = "file" => v.kind[n] = "reg"
  BY <1>1, NodeFacts, VfsAssumption DEF Opened, IsDir
<1>3. fd \notin lost
  BY DEF IInv, FilesOpen, Closed
<1>4. v.size[n] >= 0
  BY <1>1, VfsAssumption
<1>5. \A k \in Fd \ lost : fds[k].type = "file" =>
         v.kind[fds[k].node] = "reg" /\ fds[k].addr <= v.size[fds[k].node]
  BY DEF IInv, FilesOpen
<1>6. FilesOpen'
  BY <1>2, <1>3, <1>4, <1>5 DEF IInv, FilesOpen
<1>7. Sound(fs, moved)'
  BY SoundPrime
<1>8. QED BY <1>6, <1>7 DEF IInv

LEMMA OpenKeeps ==
  ASSUME IInv, NEW fd \in Fd, NEW p \in Path, NEW name \in Name, NEW creat \in BOOLEAN,
         sysopen(fd, p, name, creat)
  PROVE  IInv'
<1> DEFINE n == Whole(p, name)
           d == Parent(p)
           v == Create(fs, d, name, "reg")
           Known == /\ n # Null
                    /\ fds' = [fds EXCEPT ![fd] = Opened(fs, n)]
                    /\ UNCHANGED <<fs, wd, halted, lost>>
           New == /\ IsDir(fs, d) /\ FreeInos(fs, d[1]) # {}
                  /\ d[1] = Disk => name \notin DOMAIN fs.ents[d]
                  /\ fs' = v /\ fds' = [fds EXCEPT ![fd] = Opened(v, Lookup(v, d, name))]
                  /\ UNCHANGED <<wd, halted, lost>>
<1>1. moved' = moved /\ fds[fd] = Closed
  BY Zenon DEF sysopen
<1>2. Known \/ New \/ Stop("open in a directory that is not there") \/ Stop("name twice")
  BY Zenon DEF sysopen
<1>3. CASE Stop("open in a directory that is not there") \/ Stop("name twice")
  BY <1>1, <1>3, HaltKeeps, Reasons, Zenon
<1>4. CASE Known
  <2>1. n \in Node /\ fs.kind[n] # "free"
    BY <1>4, WholeLeads DEF IInv, FilesOpen
  <2> HIDE DEF n
  <2>2. QED BY <1>1, <1>4, <2>1, Now, OpenNode
<1>5. CASE New
  <2>1. d \in Node \ {TmpDir} /\ fs.kind[d] = "dir" /\ d[1] \in {Disk, Ram}
    BY <1>5, ParentLeads, NodeFacts DEF IInv, FilesOpen, IsDir
  <2> HIDE DEF d
  <2>2. /\ Sound(v, moved)
        /\ \E x \in Node : /\ fs.kind[x] = "free"
                           /\ \A k \in Node : /\ v.kind[k] = IF k = x THEN "reg" ELSE fs.kind[k]
                                              /\ k # x => v.size[k] = fs.size[k]
                           /\ name \in DOMAIN v.ents[d]
    <3>1. CASE name \notin DOMAIN fs.ents[d]
      <4>1. "reg" \in Kinds
        BY DEF Kinds
      <4>2. FreeInos(fs, d[1]) # {}
        BY <1>5
      <4>3. QED BY <2>1, <3>1, <4>1, <4>2, Now, CreateKeeps
    <3>2. CASE name \in DOMAIN fs.ents[d]
      <4>1. d[1] = Ram /\ FreeInos(fs, Ram) # {}
        BY <1>5, <2>1, <3>2
      <4>2. QED BY <2>1, <3>2, <4>1, Now, CreateAgain
    <3>3. QED BY <3>1, <3>2
  <2> DEFINE y == Lookup(v, d, name)
  <2>3. fs' = v /\ fds' = [fds EXCEPT ![fd] = Opened(v, y)] /\ UNCHANGED <<wd, halted, lost>>
    BY <1>5
  <2> HIDE DEF v
  <2>4. y \in Node /\ v.kind[y] # "free"
    <3>1. y # Null
      BY <2>1, <2>2, LookupNamed
    <3>2. QED BY <2>1, <2>2, <3>1, LookupLeads
  <2> HIDE DEF y
  <2>5. \A k \in Node : fs.kind[k] # "free" => v.kind[k] = fs.kind[k] /\ v.size[k] = fs.size[k]
    BY <2>2
  <2>6. QED BY <1>1, <2>2, <2>3, <2>4, <2>5, OpenNode
<1>6. QED BY <1>2, <1>3, <1>4, <1>5, Zenon

LEMMA BadWdKeeps ==
  ASSUME IInv, badWd
  PROVE  IInv'
<1>1. Stop("working directory gone") /\ moved' = moved
  BY Zenon DEF badWd
<1>2. QED BY <1>1, HaltKeeps, Reasons, Zenon

\* A descriptor gets a value that is no file.
LEMMA NoFileKeeps ==
  ASSUME IInv, NEW fd \in Fd, NEW t \in {"empty", "null"},
         fds' = [fds EXCEPT ![fd] = [Closed EXCEPT !.type = t]], lost' = lost \ {fd},
         UNCHANGED <<fs, wd, halted, moved>>
  PROVE  IInv'
<1>1. /\ [Closed EXCEPT !.type = t] \in [type : {"empty", "null"}, node : {Null}, addr : 0 .. 2 * MaxSize]
      /\ [Closed EXCEPT !.type = t].type # "file"
  BY VfsAssumption DEF Closed
<1>2. FilesOpen'
  BY <1>1 DEF IInv, FilesOpen
<1>3. Sound(fs, moved)'
  BY Now, SoundPrime
<1>4. QED BY <1>2, <1>3 DEF IInv

LEMMA OpenDirKeeps ==
  ASSUME IInv, NEW fd \in Fd, NEW abs \in BOOLEAN, sysopenDir(fd, abs)
  PROVE  IInv'
<1>1. moved' = moved /\ fds[fd] = Closed
  BY Zenon DEF sysopenDir
<1>2. CASE Stop("destroyed directory")
  BY <1>1, <1>2, HaltKeeps, Reasons, Zenon
<1>3. CASE /\ fds' = [fds EXCEPT ![fd] = [Closed EXCEPT !.type = "null"]]
           /\ UNCHANGED <<fs, wd, halted, lost>>
  <2>1. lost' = lost \ {fd}
    BY <1>1, <1>3 DEF IInv, FilesOpen, Closed
  <2>2. QED BY <1>1, <1>3, <2>1, NoFileKeeps
<1>4. QED BY <1>2, <1>3, Zenon DEF sysopenDir

LEMMA CloseKeeps ==
  ASSUME IInv, NEW fd \in Fd, sysclose(fd)
  PROVE  IInv'
<1>1. Closed = [Closed EXCEPT !.type = "empty"]
  BY DEF Closed
<1>2. QED BY <1>1, NoFileKeeps DEF sysclose

LEMMA NullKeeps ==
  ASSUME IInv, NEW fd \in Fd, UseNullStream(fd)
  PROVE  IInv'
<1>1. Stop("null stream") /\ moved' = moved
  BY Zenon DEF UseNullStream
<1>2. QED BY <1>1, HaltKeeps, Reasons, Zenon

\* An open file, which may be behind its end if it is lost.
LEMMA OpenFile ==
  ASSUME IInv, NEW fd \in Fd, fds[fd].type = "file"
  PROVE  /\ fds[fd].node \in Node /\ fs.size[fds[fd].node] \in 0 .. MaxSize
         /\ fds[fd].addr \in 0 .. 2 * MaxSize /\ Length(fds[fd].node) \in 0 .. 2 * MaxSize
         /\ fd \notin lost => /\ Length(fds[fd].node) = fs.size[fds[fd].node]
                              /\ fds[fd].addr <= fs.size[fds[fd].node]
         /\ fd \in lost => fds[fd].node[1] # Ram
<1>1. fds[fd].node \in Node /\ fds[fd].addr \in 0 .. 2 * MaxSize
  BY DEF IInv, FilesOpen
<1>2. fs.size[fds[fd].node] \in 0 .. MaxSize
  BY <1>1, Now
<1>3. Length(fds[fd].node) \in 0 .. 2 * MaxSize
  BY <1>2, VfsAssumption DEF Length
<1>4. fd \notin lost => /\ fs.kind[fds[fd].node] = "reg"
                        /\ fds[fd].addr <= fs.size[fds[fd].node]
  BY DEF IInv, FilesOpen
<1>5. fd \in lost => fds[fd].node[1] # Ram
  BY NodeFacts DEF IInv, FilesOpen
<1>6. QED BY <1>1, <1>2, <1>3, <1>4, <1>5 DEF Length

\* The position of one descriptor moves, inside its file unless that is lost.
LEMMA SeekKeeps ==
  ASSUME IInv, NEW fd \in Fd, fds[fd].type = "file", NEW a \in 0 .. 2 * MaxSize,
         fd \notin lost => a <= fs.size[fds[fd].node],
         fds' = [fds EXCEPT ![fd].addr = a], UNCHANGED <<fs, wd, halted, moved, lost>>
  PROVE  IInv'
<1>1. /\ fds' \in [Fd -> [type : {"empty", "file", "null"}, node : Node \cup {Null},
                          addr : 0 .. 2 * MaxSize]]
      /\ fds'[fd].addr = a
      /\ \A k \in Fd : /\ fds'[k].type = fds[k].type /\ fds'[k].node = fds[k].node
                       /\ k # fd => fds'[k].addr = fds[k].addr
  BY DEF IInv, FilesOpen
<1>2. FilesOpen'
  BY <1>1 DEF IInv, FilesOpen
<1>3. Sound(fs, moved)'
  BY Now, SoundPrime
<1>4. QED BY <1>2, <1>3 DEF IInv

LEMMA ReadKeeps ==
  ASSUME IInv, NEW fd \in Fd, NEW count \in 1 .. MaxSize, sysread(fd, count)
  PROVE  IInv'
<1> DEFINE f == fds[fd].node
           addr == fds[fd].addr
           left == Length(f) - addr
           m == IF left < 0 THEN count ELSE Min({count, left})
<1>1. fds[fd].type = "file" /\ moved' = moved
  BY Zenon DEF sysread
<1>2. /\ addr \in Nat /\ Length(f) \in Nat /\ count \in Nat
      /\ fd \notin lost => Length(f) = fs.size[f] /\ addr <= fs.size[f]
      /\ fd \in lost => f[1] # Ram
  BY <1>1, OpenFile, VfsAssumption
<1>3. ~(left < 0 /\ f[1] = Ram)
  <2> HIDE DEF f, addr
  <2>1. QED BY <1>2
<1>4. /\ addr + m <= 2 * MaxSize /\ fds' = [fds EXCEPT ![fd].addr = @ + m]
      /\ UNCHANGED <<fs, wd, halted, lost>>
  BY <1>3 DEF sysread
<1>5. fds' = [fds EXCEPT ![fd].addr = addr + m]
  BY <1>4
<1>6. m \in Nat /\ (left >= 0 => m <= left)
  <2> HIDE DEF f, addr
  <2>1. CASE left < 0
    BY <1>2, <2>1
  <2>2. CASE left >= 0
    <3>1. left \in Nat
      BY <1>2, <2>2
    <3> HIDE DEF left
    <3>2. Min({count, left}) \in {count, left} /\ Min({count, left}) <= left
      BY <1>2, <3>1 DEF Min
    <3>3. QED BY <1>2, <2>2, <3>1, <3>2
  <2>3. QED BY <1>2, <2>1, <2>2
<1>7. /\ addr + m \in 0 .. 2 * MaxSize
      /\ fd \notin lost => addr + m <= fs.size[f]
  <2> HIDE DEF f, addr, m
  <2>1. QED BY <1>2, <1>4, <1>6, VfsAssumption
<1> HIDE DEF m, addr
<1>8. QED BY <1>1, <1>4, <1>5, <1>7, SeekKeeps

LEMMA SeekCallKeeps ==
  ASSUME IInv, NEW fd \in Fd, NEW offset \in -1 .. 1, NEW whence \in {"set", "cur", "end"},
         sysseek(fd, offset, whence)
  PROVE  IInv'
<1> DEFINE size == Length(fds[fd].node)
           addr == fds[fd].addr
           pos == offset + CASE whence = "set" -> 0 [] whence = "cur" -> addr [] whence = "end" -> size
<1>1. /\ fds[fd].type = "file" /\ pos >= 0 /\ UNCHANGED <<fs, wd, halted, moved, lost>>
      /\ fds' = [fds EXCEPT ![fd].addr = seek(@, size, pos)]
  BY DEF sysseek
<1>2. /\ size \in 0 .. 2 * MaxSize /\ addr \in 0 .. 2 * MaxSize
      /\ fd \notin lost => size = fs.size[fds[fd].node] /\ addr <= size
  BY <1>1, OpenFile
<1>3. pos \in Int
  <2> HIDE DEF size, addr
  <2>1. (CASE whence = "set" -> 0 [] whence = "cur" -> addr [] whence = "end" -> size) \in Int
    BY <1>2, VfsAssumption
  <2>2. QED BY <2>1
<1> HIDE DEF pos
<1>4. fds' = [fds EXCEPT ![fd].addr = seek(addr, size, pos)]
  BY <1>1
<1>5. /\ seek(addr, size, pos) \in 0 .. 2 * MaxSize
      /\ fd \notin lost => seek(addr, size, pos) <= size
  <2> HIDE DEF size, addr
  <2>1. QED BY <1>1, <1>2, <1>3, VfsAssumption DEF seek
<1>6. QED BY <1>1, <1>2, <1>4, <1>5, SeekKeeps

LEMMA GrowKeeps ==
  ASSUME IInv, NEW fd \in Fd, NEW count \in 1 .. MaxSize, syswrite(fd, count),
         fs.kind[fds[fd].node] # "dir"
  PROVE  IInv'
<1> DEFINE f == fds[fd].node
           size == fs.size[f]
           end == fds[fd].addr + count
           top == Max({size, end})
<1>1. /\ fds[fd].type = "file" /\ end <= MaxSize /\ UNCHANGED <<wd, halted, moved, lost>>
      /\ fs' = [fs EXCEPT !.size[f] = top] /\ fds' = [fds EXCEPT ![fd].addr = end]
  BY DEF syswrite
<1>2. /\ f \in Node /\ size \in 0 .. MaxSize /\ end \in 0 .. MaxSize
  BY <1>1, OpenFile, VfsAssumption
<1>3. top \in 0 .. MaxSize /\ size <= top /\ end <= top
  <2> HIDE DEF size, end
  <2>1. top \in {size, end} /\ size <= top /\ end <= top
    BY <1>2, VfsAssumption DEF Max
  <2>2. QED BY <1>2, <2>1
<1> HIDE DEF end, top
<1>4. TypedFs(fs) /\ Tidy(fs.kind, fs.ents, moved) /\ Counted(fs.ents, fs.nlink)
  BY Now, SoundIs
<1> DEFINE v == [fs EXCEPT !.size[f] = top]
<1>5. /\ TypedFs(v) /\ v.kind = fs.kind /\ v.ents = fs.ents /\ v.nlink = fs.nlink
      /\ v.size[f] = top /\ \A k \in Node \ {f} : v.size[k] = fs.size[k]
  BY <1>2, <1>3, <1>4 DEF TypedFs
<1>6. fs' = v
  BY <1>1
<1> HIDE DEF v, f
<1>7. Sound(v, moved)
  BY <1>4, <1>5, SoundIs
<1>8. Sound(fs, moved)'
  BY <1>1, <1>6, <1>7, SoundPrime
<1>a. end \in 0 .. 2 * MaxSize
  BY <1>2, VfsAssumption
<1>9. /\ fds' \in [Fd -> [type : {"empty", "file", "null"}, node : Node \cup {Null},
                          addr : 0 .. 2 * MaxSize]]
      /\ fds'[fd].addr = end
      /\ \A k \in Fd : /\ fds'[k].type = fds[k].type /\ fds'[k].node = fds[k].node
                       /\ k # fd => fds'[k].addr = fds[k].addr
  BY <1>1, <1>a DEF IInv, FilesOpen
<1>10. \A k \in Fd \ lost : fds[k].type = "file" => 
          /\ fds[k].node \in Node /\ fs.kind[fds[k].node] = "reg"
          /\ fds[k].addr \in Nat /\ fds[k].addr <= fs.size[fds[k].node]
          /\ v.size[fds[k].node] \in Nat /\ fs.size[fds[k].node] \in Nat
  <2>1. v.size \in [Node -> 0 .. MaxSize]
    BY <1>5, FieldsTyped
  <2>2. \A k \in Fd \ lost : fds[k].type = "file" => fs.kind[fds[k].node] = "reg"
    BY DEF IInv, FilesOpen
  <2>3. QED BY <2>1, <2>2, OpenFile, VfsAssumption
<1>11. FilesOpen'
  <2>1. \A k \in Fd \ lost : fds[k].type = "file" /\ k # fd => fds[k].addr <= v.size[fds[k].node]
    BY <1>2, <1>3, <1>5, <1>10 DEF f
  <2>2. end <= v.size[fds[fd].node]
    BY <1>3, <1>5 DEF f
  <2>3. \A k \in Fd \ lost : fds'[k].type = "file" =>
           fs'.kind[fds'[k].node] = "reg" /\ fds'[k].addr <= fs'.size[fds'[k].node]
    <3> TAKE k \in Fd \ lost
    <3> HAVE fds'[k].type = "file"
    <3>1. fds[k].type = "file" /\ fds'[k].node = fds[k].node
      BY <1>9
    <3>2. fs.kind[fds[k].node] = "reg"
      BY <1>10, <3>1
    <3>3. CASE k = fd
      BY <1>5, <1>6, <1>9, <2>2, <3>1, <3>2, <3>3
    <3>4. CASE k # fd
      BY <1>5, <1>6, <1>9, <2>1, <3>1, <3>2, <3>4
    <3>5. QED BY <3>3, <3>4
  <2>4. QED BY <1>1, <1>9, <2>3 DEF IInv, FilesOpen
<1>12. QED BY <1>1, <1>8, <1>11, Now DEF IInv

LEMMA WriteKeeps ==
  ASSUME IInv, NEW fd \in Fd, NEW count \in 1 .. MaxSize, syswrite(fd, count)
  PROVE  IInv'
<1>1. CASE fs.kind[fds[fd].node] = "dir"
  <2>1. Stop("directory written over") /\ moved' = moved
    BY <1>1, Zenon DEF syswrite
  <2>2. QED BY <2>1, HaltKeeps, Reasons, Zenon
<1>2. CASE fs.kind[fds[fd].node] # "dir"
  BY <1>2, GrowKeeps
<1>3. QED BY <1>1, <1>2

LEMMA ChdirKeeps ==
  ASSUME IInv, NEW p \in Path, syschdir(p)
  PROVE  IInv'
<1>1. moved' = moved
  BY Zenon DEF syschdir
<1>2. CASE Stop("destroyed directory")
  BY <1>1, <1>2, HaltKeeps, Reasons, Zenon
<1>3. CASE wd' \in {Null, Resolve(p)} /\ UNCHANGED <<fs, fds, halted, lost>>
  <2>1. wd' \in (Node \ {TmpDir}) \cup {Null}
    BY <1>3, ResolveLeads DEF IInv, FilesOpen
  <2>2. FilesOpen'
    BY <1>3, <2>1 DEF IInv, FilesOpen
  <2>3. Sound(fs, moved)'
    BY <1>1, <1>3, Now, SoundPrime
  <2>4. QED BY <1>1, <1>3, <2>2, <2>3 DEF IInv
<1>4. QED BY <1>2, <1>3, Zenon DEF syschdir


-----------------------------------------------------------------------------
(* The invariant, and the properties that follow.                            *)

LEMMA StepKeeps == IInv /\ [Next]_vars => IInv'
<1> SUFFICES ASSUME IInv, [Next]_vars PROVE IInv'
  OBVIOUS
<1>1. CASE Next
  <2>1. ASSUME NEW fd \in Fd, NEW p \in Path, NEW name \in Name, NEW creat \in BOOLEAN,
               sysopen(fd, p, name, creat)
        PROVE  IInv'
    BY <2>1, OpenKeeps
  <2>o. ASSUME NEW fd \in Fd, NEW abs \in BOOLEAN, sysopenDir(fd, abs) PROVE IInv'
    BY <2>o, OpenDirKeeps
  <2>2. ASSUME NEW fd \in Fd, sysclose(fd) \/ UseNullStream(fd) PROVE IInv'
    BY <2>2, CloseKeeps, NullKeeps
  <2>3. ASSUME NEW fd \in Fd, NEW count \in 1 .. MaxSize, sysread(fd, count) \/ syswrite(fd, count)
        PROVE  IInv'
    BY <2>3, ReadKeeps, WriteKeeps
  <2>4. ASSUME NEW fd \in Fd, NEW offset \in -1 .. 1, NEW whence \in {"set", "cur", "end"},
               sysseek(fd, offset, whence)
        PROVE  IInv'
    BY <2>4, SeekCallKeeps
  <2>5. ASSUME NEW p \in Path, syschdir(p) PROVE IInv'
    BY <2>5, ChdirKeeps
  <2>6. ASSUME NEW d \in Parents, NEW name \in Name,
               sysmkdir(d, name) \/ sysrmdir(d, name) \/ sysunlink(d, name)
        PROVE  IInv'
    BY <2>6, MkdirKeeps, RmdirKeeps, UnlinkCallKeeps
  <2>7. ASSUME NEW d \in Parents, NEW name \in Name,
               NEW n \in {Whole(p, m) : p \in Path, m \in Name}, syslink(n, d, name)
        PROVE  IInv'
    <3>1. PICK p \in Path, m \in Name : n = Whole(p, m)
      OBVIOUS
    <3>2. QED BY <2>7, <3>1, LinkCallKeeps
  <2>8. ASSUME NEW d \in Parents, NEW name \in Name, NEW c \in Parents, NEW name1 \in Name,
               sysrename(c, name1, d, name)
        PROVE  IInv'
    BY <2>8, RenameKeeps
  <2>9. CASE badWd
    BY <2>9, BadWdKeeps
  <2>10. QED BY <1>1, <2>1, <2>o, <2>2, <2>3, <2>4, <2>5, <2>6, <2>7, <2>8, <2>9 DEF Next
<1>2. CASE UNCHANGED vars
  <2>1. fs' = fs /\ fds' = fds /\ wd' = wd /\ halted' = halted /\ moved' = moved /\ lost' = lost
    BY <1>2 DEF vars
  <2>2. FilesOpen'
    BY <2>1 DEF IInv, FilesOpen
  <2>3. Sound(fs, moved)'
    BY <2>1, Now, SoundPrime
  <2>4. QED BY <2>1, <2>2, <2>3 DEF IInv
<1>3. QED BY <1>1, <1>2

\* The entries after the boot.
BootEnts(n) ==
  IF n = DiskRoot THEN [m \in {".", "..", "tmp"} |-> IF m = "tmp" THEN TmpDir ELSE n]
  ELSE IF n = TmpDir THEN [m \in {".", ".."} |-> IF m = "." THEN n ELSE DiskRoot]
  ELSE IF n = RamRoot THEN [m \in {".", "..", "hello"} |-> IF m = "hello" THEN <<Ram, 1>> ELSE n]
  ELSE <<>>


Hello == <<Ram, 1>>

LEMMA BootFacts ==
  /\ Hello \in Node /\ Hello # RamRoot /\ Hello # DiskRoot /\ Hello # TmpDir
  /\ Hello[1] = Ram
  /\ \A n \in Node : BootEnts(n) \in Entries
  /\ DOMAIN BootEnts(DiskRoot) = {".", "..", "tmp"} /\ DOMAIN BootEnts(TmpDir) = {".", ".."}
  /\ DOMAIN BootEnts(RamRoot) = {".", "..", "hello"}
  /\ BootEnts(DiskRoot)["."] = DiskRoot /\ BootEnts(DiskRoot)[".."] = DiskRoot
  /\ BootEnts(DiskRoot)["tmp"] = TmpDir
  /\ BootEnts(TmpDir)["."] = TmpDir /\ BootEnts(TmpDir)[".."] = DiskRoot
  /\ BootEnts(RamRoot)["."] = RamRoot /\ BootEnts(RamRoot)[".."] = RamRoot
  /\ BootEnts(RamRoot)["hello"] = Hello
  /\ \A n \in Node \ {DiskRoot, TmpDir, RamRoot} : DOMAIN BootEnts(n) = {}
<1>1. 1 \in Ino
  BY VfsAssumption DEF Ino
<1>2. /\ Hello \in Node /\ Hello # RamRoot /\ Hello # DiskRoot /\ Hello # TmpDir
      /\ Hello[1] = Ram
  BY <1>1 DEF Hello, Node, RamRoot, DiskRoot, TmpDir, Ram, Disk
<1> DEFINE R == [m \in {".", "..", "tmp"} |-> IF m = "tmp" THEN TmpDir ELSE DiskRoot]
           T == [m \in {".", ".."} |-> IF m = "." THEN TmpDir ELSE DiskRoot]
           M == [m \in {".", "..", "hello"} |-> IF m = "hello" THEN Hello ELSE RamRoot]
<1>3. BootEnts(DiskRoot) = R /\ BootEnts(TmpDir) = T /\ BootEnts(RamRoot) = M
  BY NodeFacts, Zenon DEF BootEnts, Hello
<1>4. \A n \in Node \ {DiskRoot, TmpDir, RamRoot} : BootEnts(n) = <<>>
  BY DEF BootEnts
<1>5. /\ {".", "..", "tmp"} \in SUBSET AllName /\ {".", ".."} \in SUBSET AllName
      /\ {".", "..", "hello"} \in SUBSET AllName
  BY VfsAssumption DEF AllName
<1>6. R \in [{".", "..", "tmp"} -> Node] /\ T \in [{".", ".."} -> Node] /\ M \in [{".", "..", "hello"} -> Node]
  BY <1>2, NodeFacts
<1>7. R \in Entries /\ T \in Entries /\ M \in Entries /\ <<>> \in Entries /\ DOMAIN <<>> = {}
  <2> HIDE DEF R, T, M
  <2>1. <<>> \in Entries /\ DOMAIN <<>> = {}
    BY EmptyEntries
  <2>2. QED BY <1>5, <1>6, <2>1 DEF Entries
<1>8. /\ DOMAIN R = {".", "..", "tmp"} /\ R["."] = DiskRoot /\ R[".."] = DiskRoot /\ R["tmp"] = TmpDir
      /\ DOMAIN T = {".", ".."} /\ T["."] = TmpDir /\ T[".."] = DiskRoot
      /\ DOMAIN M = {".", "..", "hello"} /\ M["."] = RamRoot /\ M[".."] = RamRoot /\ M["hello"] = Hello
  OBVIOUS
<1> HIDE DEF R, T, M
<1>9. \A n \in Node : BootEnts(n) \in Entries
  BY <1>3, <1>4, <1>7
<1>10. \A n \in Node \ {DiskRoot, TmpDir, RamRoot} : DOMAIN BootEnts(n) = {}
  BY <1>4, <1>7
<1>11. QED BY <1>2, <1>3, <1>8, <1>9, <1>10

LEMMA ThreePlaces ==
  ASSUME NEW a, NEW b, NEW c, a # b, a # c, b # c
  PROVE  Cardinality({a, b, c}) = 3
<1>1. IsFiniteSet({a}) /\ Cardinality({a}) = 1
  BY FS_Singleton
<1>2. IsFiniteSet({a} \cup {b}) /\ Cardinality({a} \cup {b}) = 2
  BY <1>1, FS_AddElement
<1>3. Cardinality(({a} \cup {b}) \cup {c}) = 3
  BY <1>2, FS_AddElement
<1>4. {a} \cup {b} = {a, b} /\ ({a} \cup {b}) \cup {c} = {a, b, c}
  OBVIOUS
<1>5. QED BY <1>1, <1>2, <1>3, <1>4

LEMMA InitSound == Init => IInv
<1> SUFFICES ASSUME Init PROVE IInv
  OBVIOUS
<1> DEFINE E == fs.ents
           K == fs.kind
<1>1. /\ K = [n \in Node |-> IF n \in {DiskRoot, TmpDir, RamRoot} THEN "dir"
                              ELSE IF n = Hello THEN "reg" ELSE "free"]
      /\ E = [n \in Node |-> BootEnts(n)]
      /\ fs.nlink = [n \in Node |-> CASE n = DiskRoot -> 3 [] n = TmpDir -> 2
                                      [] n = RamRoot -> 2 [] n = Hello -> 1 [] OTHER -> 0]
      /\ fs.size = [n \in Node |-> IF n = Hello THEN 1 ELSE 0]
      /\ fs = [kind |-> K, ents |-> E, nlink |-> fs.nlink, size |-> fs.size]
  BY DEF Init, BootEnts, Hello
<1>2. /\ wd = DiskRoot /\ halted = "no" /\ moved = {} /\ lost = {} /\ fds = [k \in Fd |-> Closed]
  BY DEF Init
<1> HIDE DEF E, K
<1>3. E \in [Node -> Entries]
  BY <1>1, BootFacts
<1>4. /\ K \in [Node -> {"free", "reg", "dir"}] /\ fs.nlink \in [Node -> Nat]
      /\ fs.size \in [Node -> 0 .. MaxSize]
  BY <1>1, VfsAssumption
<1>5. TypedFs(fs)
  BY <1>1, <1>3, <1>4 DEF TypedFs
<1>6. /\ K[DiskRoot] = "dir" /\ K[TmpDir] = "dir" /\ K[RamRoot] = "dir" /\ K[Hello] = "reg"
      /\ \A n \in Node : K[n] = "dir" => n \in {DiskRoot, TmpDir, RamRoot}
  BY <1>1, NodeFacts, BootFacts
<1>7. /\ DOMAIN E[DiskRoot] = {".", "..", "tmp"} /\ DOMAIN E[TmpDir] = {".", ".."}
      /\ DOMAIN E[RamRoot] = {".", "..", "hello"}
      /\ E[DiskRoot]["."] = DiskRoot /\ E[DiskRoot][".."] = DiskRoot
      /\ E[DiskRoot]["tmp"] = TmpDir
      /\ E[TmpDir]["."] = TmpDir /\ E[TmpDir][".."] = DiskRoot
      /\ E[RamRoot]["."] = RamRoot /\ E[RamRoot][".."] = RamRoot /\ E[RamRoot]["hello"] = Hello
      /\ \A n \in Node \ {DiskRoot, TmpDir, RamRoot} : DOMAIN E[n] = {}
  BY <1>1, NodeFacts, BootFacts
<1>8. Tree(K, E)
  <2>1. \A n \in Node : K[n] # "dir" => DOMAIN E[n] = {}
    BY <1>6, <1>7
  <2>2. \A n \in Node : K[n] = "dir" => "." \in DOMAIN E[n] /\ E[n]["."] = n
    BY <1>6, <1>7
  <2>3. \A n \in Node : \A m \in DOMAIN E[n] : E[n][m][1] = n[1] /\ K[E[n][m]] # "free"
    <3> TAKE n \in Node
    <3> TAKE m \in DOMAIN E[n]
    <3>1. CASE n = DiskRoot
      BY <1>6, <1>7, <3>1, NodeFacts
    <3>2. CASE n = TmpDir
      BY <1>6, <1>7, <3>2, NodeFacts
    <3>3. CASE n = RamRoot
      BY <1>6, <1>7, <3>3, NodeFacts, BootFacts
    <3>4. QED BY <1>7, <3>1, <3>2, <3>3
  <2>4. QED BY <2>1, <2>2, <2>3 DEF Tree
<1>9. \A n \in Node : \A m \in DOMAIN E[n] \ Dots :
         \/ n = DiskRoot /\ m = "tmp" /\ E[n][m] = TmpDir
         \/ n = RamRoot /\ m = "hello" /\ E[n][m] = Hello
  <2> TAKE n \in Node
  <2>1. CASE n = DiskRoot
    <3>1. DOMAIN E[n] \ Dots = {"tmp"} /\ E[n]["tmp"] = TmpDir
      <4>1. {".", "..", "tmp"} \ {".", ".."} = {"tmp"}
        OBVIOUS
      <4>2. QED BY <1>7, <2>1, <4>1 DEF Dots
    <3>2. \A m \in DOMAIN E[n] \ Dots : m = "tmp" /\ E[n][m] = TmpDir
      BY <3>1
    <3>3. QED BY <2>1, <3>2
  <2>2. CASE n = TmpDir
    BY <1>7, <2>2 DEF Dots
  <2>3. CASE n = RamRoot
    BY <1>7, <2>3 DEF Dots
  <2>4. QED BY <1>7, <2>1, <2>2, <2>3
<1>10. Upward(K, E, moved)
  <2> SUFFICES ASSUME NEW n \in Node, NEW m \in DOMAIN E[n] \ Dots, K[E[n][m]] = "dir"
               PROVE  ".." \in DOMAIN E[E[n][m]] /\ E[E[n][m]][".."] = n
    BY DEF Upward
  <2>1. n = DiskRoot /\ E[n][m] = TmpDir
    BY <1>6, <1>9
  <2>2. QED BY <2>1, <1>7
<1>11. Once(K, E)
  <2> SUFFICES ASSUME NEW n \in Node, NEW x \in DOMAIN E[n] \ Dots, NEW y \in DOMAIN E[n] \ Dots
               PROVE  x = y
    BY DEF Once
  <2>1. QED BY <1>9, NodeFacts
<1>12. Downward(K, E)
  <2> SUFFICES ASSUME NEW n \in Node, n[1] = Disk, ".." \in DOMAIN E[n]
               PROVE  E[n][".."] = n \/ \E m \in DOMAIN E[E[n][".."]] \ Dots : E[E[n][".."]][m] = n
    BY DEF Downward
  <2>1. n = DiskRoot \/ n = TmpDir
    BY <1>7, NodeFacts
  <2>2. CASE n = DiskRoot
    BY <2>2, <1>7
  <2>3. CASE n = TmpDir
    <3>1. E[n][".."] = DiskRoot /\ "tmp" \in DOMAIN E[DiskRoot] /\ "tmp" \notin Dots
      BY <2>3, <1>7 DEF Dots
    <3>2. QED BY <3>1, <2>3, <1>7
  <2>4. QED BY <2>1, <2>2, <2>3
<1>13. Covered(K, E, moved)
  <2>1. DOMAIN E[TmpDir] \subseteq Dots
    BY <1>7 DEF Dots
  <2>2. \A n \in Node : \A m \in DOMAIN E[n] \ Dots : E[n][m] # RamRoot
    BY <1>9, NodeFacts, BootFacts
  <2>3. QED BY <1>6, <2>1, <2>2 DEF Covered
<1>14. /\ Places(E, DiskRoot) = {<<DiskRoot, ".">>, <<DiskRoot, "..">>, <<TmpDir, "..">>}
       /\ Places(E, TmpDir) = {<<DiskRoot, "tmp">>, <<TmpDir, ".">>}
       /\ Places(E, RamRoot) = {<<RamRoot, ".">>, <<RamRoot, "..">>}
       /\ Places(E, Hello) = {<<RamRoot, "hello">>}
       /\ \A n \in Node \ {DiskRoot, TmpDir, RamRoot, Hello} : Places(E, n) = {}
  <2>1. \A x \in Node \X AllName :
           x[2] \in DOMAIN E[x[1]] =>
             \/ x = <<DiskRoot, ".">> \/ x = <<DiskRoot, "..">> \/ x = <<DiskRoot, "tmp">>
             \/ x = <<TmpDir, ".">> \/ x = <<TmpDir, "..">>
             \/ x = <<RamRoot, ".">> \/ x = <<RamRoot, "..">> \/ x = <<RamRoot, "hello">>
    <3> TAKE x \in Node \X AllName
    <3> HAVE x[2] \in DOMAIN E[x[1]]
    <3>0. x = <<x[1], x[2]>> /\ x[1] \in Node
      OBVIOUS
    <3>1. CASE x[1] = DiskRoot
      BY <1>7, <3>0, <3>1
    <3>2. CASE x[1] = TmpDir
      BY <1>7, <3>0, <3>2
    <3>3. CASE x[1] = RamRoot
      BY <1>7, <3>0, <3>3
    <3>4. QED BY <1>7, <3>0, <3>1, <3>2, <3>3
  <2>2. {".", "..", "tmp", "hello"} \subseteq AllName
    BY VfsAssumption DEF AllName
  <2>3. QED BY <1>7, <2>1, <2>2, NodeFacts, BootFacts DEF Places
<1>15. /\ Cardinality(Places(E, DiskRoot)) = 3 /\ Cardinality(Places(E, TmpDir)) = 2
       /\ Cardinality(Places(E, RamRoot)) = 2 /\ Cardinality(Places(E, Hello)) = 1
       /\ \A n \in Node \ {DiskRoot, TmpDir, RamRoot, Hello} : Cardinality(Places(E, n)) = 0
  <2>1. /\ <<DiskRoot, ".">> # <<DiskRoot, "..">> /\ <<DiskRoot, ".">> # <<TmpDir, "..">>
        /\ <<DiskRoot, "..">> # <<TmpDir, "..">> /\ <<DiskRoot, "tmp">> # <<TmpDir, ".">>
        /\ <<RamRoot, ".">> # <<RamRoot, "..">>
    BY NodeFacts
  <2>2. Cardinality({<<DiskRoot, ".">>, <<DiskRoot, "..">>, <<TmpDir, "..">>}) = 3
    BY <2>1, ThreePlaces
  <2>3. \A a, b : a # b => Cardinality({a, b}) = 2
    <3> TAKE a, b
    <3>1. {a} \cup {b} = {a, b}
      OBVIOUS
    <3>2. IsFiniteSet({a}) /\ Cardinality({a}) = 1
      BY FS_Singleton
    <3>3. Cardinality({a} \cup {b}) = IF b \in {a} THEN 1 ELSE 1 + 1
      BY <3>2, FS_AddElement
    <3>4. b \notin {a} <=> a # b
      OBVIOUS
    <3>5. QED BY <3>1, <3>3, <3>4
  <2>4. /\ Cardinality({<<DiskRoot, "tmp">>, <<TmpDir, ".">>}) = 2
        /\ Cardinality({<<RamRoot, ".">>, <<RamRoot, "..">>}) = 2
        /\ Cardinality({<<RamRoot, "hello">>}) = 1
    BY <2>1, <2>3, FS_Singleton
  <2>5. QED BY <1>14, <2>2, <2>4, FS_EmptySet
<1>16. Counted(E, fs.nlink)
  BY <1>1, <1>15, NodeFacts, BootFacts DEF Counted
<1>17. Sound(fs, moved)
  BY <1>5, <1>8, <1>10, <1>11, <1>12, <1>13, <1>16 DEF Sound, E, K
<1>18. FilesOpen
  <2>1. Closed \in [type : {"empty", "file", "null"}, node : Node \cup {Null}, addr : 0 .. 2 * MaxSize]
    BY VfsAssumption DEF Closed
  <2>2. Closed.type # "file"
    BY DEF Closed
  <2>3. wd \in Node \ {TmpDir}
    BY <1>2, NodeFacts
  <2>4. QED BY <1>2, <2>1, <2>2, <2>3 DEF FilesOpen
<1>19. QED BY <1>2, <1>17, <1>18 DEF IInv


\* Every name in a directory is that of a file of the same device that has not
\* been freed, and st_nlink counts the names, whatever is made, linked, renamed
\* and removed across the mount point (addEntry, removeEntry, sysrename).
THEOREM EntriesStaySound == Spec => []EntriesSound
<1>1. IInv => EntriesSound
  <2> SUFFICES ASSUME IInv PROVE EntriesSound
    OBVIOUS
  <2>1. TypedFs(fs) /\ Tree(fs.kind, fs.ents) /\ Counted(fs.ents, fs.nlink)
    BY DEF IInv, Sound
  <2>2. TypeOK
    BY <2>1, FieldsTyped DEF TypeOK, IInv, FilesOpen
  <2>3. \A n \in Node : NamesOf(n) = Places(fs.ents, n)
    <3> TAKE n \in Node
    <3>1. \A d \in Node : DOMAIN fs.ents[d] # {} => fs.kind[d] = "dir"
      BY <2>1 DEF Tree
    <3>2. \A x \in Node \X AllName : x[1] \in Node
      OBVIOUS
    <3>3. QED BY <3>1, <3>2 DEF NamesOf, Places, AllName
  <2>4. QED BY <2>1, <2>2, <2>3 DEF EntriesSound, Tree, Counted
<1>2. QED BY <1>1, InitSound, StepKeeps, PTL DEF Spec

\* The lookups of VFS::Directory agree across the mount point: ".." leads back
\* to the directory a name was found in, and a listing shows the inode that the
\* name leads to, for every directory that was not renamed in the RamFS.
THEOREM PathsStayTrue == Spec => []PathsAgree
<1>1. IInv => PathsAgree
  <2> SUFFICES ASSUME IInv, fs.kind[TmpDir] = "dir", NEW d \in Node, fs.kind[d] = "dir",
                      NEW name \in DOMAIN fs.ents[d]
               PROVE  LET n == Lookup(fs, d, name) IN
                      /\ name \notin {".", ".."} /\ IsDir(fs, n) /\ n \notin moved
                            => Lookup(fs, n, "..") = d
                      /\ n # Null => ReadIno(fs, d, name) = n[2]
    BY DEF PathsAgree
  <2>0. Sound(fs, moved)
    BY DEF IInv
  <2>1. /\ Tree(fs.kind, fs.ents) /\ Upward(fs.kind, fs.ents, moved)
        /\ Covered(fs.kind, fs.ents, moved) /\ fs.ents \in [Node -> Entries]
    BY <2>0, FieldsTyped DEF Sound
  <2>2. fs.ents[d][name] \in Node
    BY <2>1, EntriesFacts
  <2> DEFINE c == fs.ents[d][name]
             n == Lookup(fs, d, name)
  <2>3. ASSUME name \notin {".", ".."}, IsDir(fs, n), n \notin moved
        PROVE  Lookup(fs, n, "..") = d
    <3>1. n = IF c = TmpDir THEN RamRoot ELSE c
      BY <2>2, <2>3, MountFacts DEF Lookup, Child
    <3>2. d # TmpDir /\ name \in DOMAIN fs.ents[d] \ Dots
      BY <2>1, <2>3 DEF Covered, Dots
    <3>3. CASE c = TmpDir
      <4>1. TmpDir \notin moved
        BY NodeFacts DEF IInv
      <4>2. ".." \in DOMAIN fs.ents[TmpDir] /\ fs.ents[TmpDir][".."] = d
        BY <2>1, <3>2, <3>3, <4>1 DEF Upward
      <4>3. Lookup(fs, RamRoot, "..") = toMounted(Child(fs, TmpDir, ".."))
        BY NodeFacts, MountFacts DEF Lookup
      <4>4. QED BY <3>1, <3>2, <3>3, <4>2, <4>3, MountFacts DEF Child
    <3>4. CASE c # TmpDir
      <4>1. n = c /\ fs.kind[c] = "dir"
        BY <2>3, <3>1, <3>4 DEF IsDir
      <4>2. c # RamRoot
        BY <2>1, <2>3, <3>2, <4>1 DEF Covered
      <4>3. ".." \in DOMAIN fs.ents[c] /\ fs.ents[c][".."] = d
        BY <2>1, <2>3, <3>2, <4>1 DEF Upward
      <4>4. Lookup(fs, n, "..") = toMounted(Child(fs, c, ".."))
        BY <2>2, <4>1, <4>2, MountFacts DEF Lookup
      <4>5. QED BY <3>2, <4>3, <4>4, MountFacts DEF Child
    <3>5. QED BY <3>3, <3>4
  <2>4. ASSUME n # Null PROVE ReadIno(fs, d, name) = n[2]
    <3>1. CASE name = ".." /\ fromMounted(d) # d
      <4>1. d = RamRoot /\ fromMounted(d) = TmpDir /\ fromMounted(TmpDir) = TmpDir
        BY <3>1, NodeFacts, MountFacts
      <4>2. n = toMounted(Child(fs, TmpDir, ".."))
        BY <3>1, <4>1 DEF Lookup
      <4>3. Lookup(fs, fromMounted(d), "..") = toMounted(Child(fs, TmpDir, ".."))
        BY <4>1 DEF Lookup
      <4>4. QED BY <3>1, <4>2, <4>3 DEF ReadIno
    <3>2. CASE ~(name = ".." /\ fromMounted(d) # d)
      <4>1. n = toMounted(c)
        BY <3>2 DEF Lookup, Child
      <4>2. QED BY <3>2, <4>1 DEF ReadIno
    <3>3. QED BY <3>1, <3>2
  <2>5. QED BY <2>3, <2>4
<1>2. QED BY <1>1, InitSound, StepKeeps, PTL DEF Spec

\* No descriptor of a file that was not freed stands behind its end, so that the
\* unsigned length of BytesStream::read does not wrap, and readaddr of a RamFS
\* does not stop the kernel: only files of the ext2 volume are freed while open.
THEOREM OffsetsStayInside == Spec => []OffsetsInside
<1>1. IInv => OffsetsInside
  BY DEF IInv, FilesOpen, OffsetsInside
<1>2. QED BY <1>1, InitSound, StepKeeps, PTL DEF Spec
=============================================================================
