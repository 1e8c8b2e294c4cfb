--------------------------------- MODULE Vfs ---------------------------------
(***************************************************************************)
(* The virtual file system (src/src/HDD/VFS.cpp) over the ext2 volume      *)
(* (device 0, the root) and a RamFS mounted on /tmp (device 1), under the  *)
(* file system calls of one process (src/src/User/Syscalls.cpp).           *)
(* A file is a pair <<device, inode>>, as in the keys of the mount tables. *)
(* The ext2 volume is here the tree of names that Ext2Dirs refines.        *)
(***************************************************************************)
EXTENDS Integers, FiniteSets, Sequences, FiniteSetsExt, SequencesExt

CONSTANTS Name,      \* names of files, "tmp" among them
          MaxIno,    \* bound: inodes of a device
          Fd,        \* bound: the descriptors open at a time
          MaxSize,   \* bound: size of a regular file; positions go to twice that
          MaxLinks   \* bound: st_nlink, which a RamFS never decreases

\* The calls whose last name is "." or ".." are left out, and paths with a "/"
\* at the end or two in a row.
ASSUME VfsAssumption ==
    /\ IsFiniteSet(Name) /\ "tmp" \in Name /\ Name \cap {".", ".."} = {}
    /\ {MaxIno, MaxSize, MaxLinks} \subseteq Nat \ {0}

Disk == 0
Ram  == 1
Ino  == 0..MaxIno
Node == {Disk, Ram} \X Ino
Null == <<>>                    \* the null pointer

DiskRoot == <<Disk, 0>>
RamRoot  == <<Ram, 0>>
TmpDir   == <<Disk, 1>>         \* the directory /tmp of the ext2 volume

\* _mountedDirs and _reverseMountedDirs after the boot (FS::mount).
mountedDirs        == [n \in {TmpDir} |-> RamRoot]
reverseMountedDirs == [n \in {RamRoot} |-> TmpDir]

VARIABLES
    fs,      \* the two file systems: kind, ents, nlink and size of each node
    fds,     \* _fds: what each descriptor stands for
    wd,      \* _wd: the directory the process works in, Null if its object is destroyed
    halted,  \* why the kernel stopped, or "no"
    moved,   \* directories of the RamFS that were renamed (ghost)
    lost     \* descriptors whose file was freed since they were opened (ghost)
vars == <<fs, fds, wd, halted, moved, lost>>

IsDir(v, n) == n # Null /\ v.kind[n] = "dir"
IsReg(v, n) == n # Null /\ v.kind[n] = "reg"

-----------------------------------------------------------------------------
\* Directory::operator[] of a file system: Null when there is no such name.
Child(v, d, name) == IF name \in DOMAIN v.ents[d] THEN v.ents[d][name] ELSE Null

\* FS::toMounted and FS::fromMounted.
\* Mutant of toMounted: the device is not part of the key.
toMountedAnyDevice(n) == IF n # Null /\ n[2] = TmpDir[2] THEN RamRoot ELSE n
toMounted(n)   == IF n \in DOMAIN mountedDirs THEN mountedDirs[n] ELSE n
fromMounted(n) == IF n \in DOMAIN reverseMountedDirs THEN reverseMountedDirs[n] ELSE n

\* VFS::Directory::operator[]: ".." of a mounted root is that of the directory
\* it covers; a covered directory is replaced by the root mounted there.
Lookup(v, d, name) ==
    toMounted(Child(v, IF name = ".." THEN fromMounted(d) ELSE d, name))

\* The inode that VFS::Directory::read gives for a name of the directory.
ReadIno(v, d, name) ==
    IF name = ".." /\ fromMounted(d) # d THEN Lookup(v, fromMounted(d), "..")[2]
    ELSE toMounted(v.ents[d][name])[2]

\* Directory::resolvePath: through anything but a directory there is no path.
Walk(v, d, names) ==
    FoldLeft(LAMBDA cur, name : IF IsDir(v, cur) THEN Lookup(v, cur, name) ELSE Null,
             d, names)

\* What stands in front of the last name of a path, and what resolvePath makes of
\* a path: with a name it is there from the root or the working directory on.
Path == [abs : {TRUE}, dirs : {<<>>} \cup {<<n>> : n \in Name}] \cup
        [abs : {FALSE}, dirs : {<<>>, <<"..">>}]
Resolve(p) == Walk(fs, IF p.abs THEN DiskRoot ELSE wd, p.dirs)
Whole(p, name) == IF IsDir(fs, Resolve(p)) THEN Lookup(fs, Resolve(p), name) ELSE Null

\* The directory that the calls take for that of the last name: splitFileName
\* makes "" of what stands before it in "/name", which resolvePath takes for the
\* working directory.
Parent(p) == IF p.dirs = <<>> THEN wd ELSE Resolve(p)
Parents   == {d \in {Parent(p) : p \in Path} : IsDir(fs, d)}

\* Directory::isEmpty: at most two entries, "." and "..".
isEmpty(v, d) == DOMAIN v.ents[d] \subseteq {".", ".."}

-----------------------------------------------------------------------------
(***************************************************************************)
(* What the two file systems do.                                           *)
(***************************************************************************)
Link(v, n)   == [v EXCEPT !.nlink[n] = @ + 1]
\* Inode::unlink of the ext2 volume frees what has no link left.
Unlink(v, n) ==
    IF v.nlink[n] > 1 THEN [v EXCEPT !.nlink[n] = @ - 1]
    ELSE [v EXCEPT !.nlink[n] = 0, !.kind[n] = "free", !.size[n] = 0, !.ents[n] = <<>>]
WithEntry(v, d, name, n) ==
    [v EXCEPT !.ents[d] = [m \in DOMAIN @ \cup {name} |-> IF m = name THEN n ELSE @[m]]]
WithoutEntry(v, d, name) == [v EXCEPT !.ents[d] = [m \in DOMAIN @ \ {name} |-> @[m]]]
\* std::map::insert does not replace an entry that is already there.
Insert(v, d, name, n) == IF name \in DOMAIN v.ents[d] THEN v ELSE WithEntry(v, d, name, n)

\* Directory::addEntry(name, file): a directory gets its "..", in a RamFS only
\* if it had none, and the parent is linked in any case.
addEntry(v, d, name, n) ==
    IF d[1] = Ram
    THEN LET put == Insert(Link(v, n), d, name, n)
         IN  IF v.kind[n] = "dir" THEN Insert(Link(put, d), n, "..", d) ELSE put
    ELSE LET up == IF v.kind[n] = "dir"
                   THEN WithEntry(Link(v, d), n, "..", d) ELSE v
         IN  WithEntry(Link(up, n), d, name, n)

\* The first free inode of ext2; _nextInode of a RamFS, which frees none.
FreeInos(v, dev) == {i \in Ino : v.kind[<<dev, i>>] = "free"}
\* Directory::addEntry(name, uid, gid, mode): a new file or directory.
Create(v, d, name, kind) ==
    LET n    == <<d[1], Min(FreeInos(v, d[1]))>>
        made == [v EXCEPT !.kind[n] = kind, !.nlink[n] = 0, !.size[n] = 0, !.ents[n] = <<>>]
    IN  addEntry(IF kind = "dir" THEN WithEntry(Link(made, n), n, ".", n) ELSE made,
                 d, name, n)

\* Directory::removeEntry: the RamFS unlinks nothing; ext2 unlinks the file,
\* and the parent of a directory, whose ".." goes with it.
removeEntry(v, d, name) ==
    LET n    == v.ents[d][name]
        gone == WithoutEntry(v, d, name)
    IN  IF d[1] = Ram THEN gone
        ELSE IF v.kind[n] = "dir" /\ ".." \in DOMAIN v.ents[n]
             THEN Unlink(Unlink(WithoutEntry(gone, n, ".."), v.ents[n][".."]), n)
             ELSE Unlink(gone, n)
\* Directory::removeDirectory: ext2 also removes "." (deleteDir).
removeDirectory(v, d, name) ==
    LET n == v.ents[d][name]
        out == removeEntry(v, d, name)
    IN  IF d[1] = Ram \/ out.kind[n] = "free" THEN out
        ELSE Unlink(WithoutEntry(out, n, "."), n)

-----------------------------------------------------------------------------
Closed == [type |-> "empty", node |-> Null, addr |-> 0]
Init ==
    /\ fs = [kind  |-> [n \in Node |-> IF n \in {DiskRoot, TmpDir, RamRoot} THEN "dir"
                                       ELSE IF n = <<Ram, 1>> THEN "reg" ELSE "free"],
             ents  |-> [n \in Node |->
                          IF n = DiskRoot
                          THEN [m \in {".", "..", "tmp"} |-> IF m = "tmp" THEN TmpDir ELSE n]
                          ELSE IF n = TmpDir
                          THEN [m \in {".", ".."} |-> IF m = "." THEN n ELSE DiskRoot]
                          ELSE IF n = RamRoot
                          THEN [m \in {".", "..", "hello"} |->
                                    IF m = "hello" THEN <<Ram, 1>> ELSE n]
                          ELSE <<>>],
             nlink |-> [n \in Node |-> CASE n = DiskRoot -> 3 [] n = TmpDir -> 2
                                         [] n = RamRoot -> 2 [] n = <<Ram, 1>> -> 1
                                         [] OTHER -> 0],
             size  |-> [n \in Node |-> IF n = <<Ram, 1>> THEN 1 ELSE 0]]
    /\ fds = [fd \in Fd |-> Closed]
    /\ wd = DiskRoot
    /\ halted = "no"
    /\ moved = {}
    /\ lost = {}

Stop(why) == halted' = why /\ UNCHANGED <<fs, fds, wd, lost>>

\* A descriptor and the working directory keep the inode number of what they
\* stand for, also when that is freed.
Change(v) ==
    /\ \A n \in Node : v.nlink[n] <= MaxLinks
    /\ fs' = v
    /\ lost' = lost \cup {k \in Fd : fds[k].type = "file" /\ v.kind[fds[k].node] # "reg"}
    /\ UNCHANGED <<fds, wd, halted>>

\* A call through a working directory whose object is destroyed, or whose inode
\* is a file by now, and an entry made in one that was removed, which addEntry
\* finds impossible: the model ends there.  (Nothing is found in it otherwise.)
badWd ==
    /\ ~IsDir(fs, wd)
    /\ Stop("working directory gone")
    /\ UNCHANGED moved

-----------------------------------------------------------------------------
(***************************************************************************)
(* Descriptors of regular files: sysopen, sysclose, nbread, swrite and     *)
(* sysseek over a BytesStream.                                             *)
(***************************************************************************)
\* The stream of a directory is a null pointer (file2Stream).
\* Opened with O_RDWR: a descriptor with less only refuses more.
Opened(v, n) == [type |-> IF IsDir(v, n) THEN "null" ELSE "file", node |-> n, addr |-> 0]

\* The whole path is looked up, but a file that is not there is made in Parent:
\* if that has the name, a RamFS keeps the old entry and ext2 has the name twice,
\* where the model ends.
sysopen(fd, p, name, creat) ==
    /\ fds[fd] = Closed
    /\ LET n   == Whole(p, name)
           dir == Parent(p)
       IN  \/ /\ n # Null
              /\ fds' = [fds EXCEPT ![fd] = Opened(fs, n)]
              /\ UNCHANGED <<fs, wd, halted, lost>>
           \/ /\ n = Null /\ creat
              /\ \/ /\ dir = Null
                    /\ Stop("open in a directory that is not there")
                 \/ /\ IsDir(fs, dir) /\ dir[1] = Disk /\ name \in DOMAIN fs.ents[dir]
                    /\ Stop("name twice")
                 \/ /\ IsDir(fs, dir) /\ FreeInos(fs, dir[1]) # {}
                    /\ dir[1] = Disk => name \notin DOMAIN fs.ents[dir]
                    /\ \E v \in {Create(fs, dir, name, "reg")} :
                          /\ fs' = v
                          /\ fds' = [fds EXCEPT ![fd] = Opened(v, Lookup(v, dir, name))]
                    /\ UNCHANGED <<wd, halted, lost>>
    /\ UNCHANGED moved

\* A path without a name, "" or "/": the object that resolvePath gives for "/" is
\* the temporary root, which is destroyed when resolvePath returns.
sysopenDir(fd, abs) ==
    /\ fds[fd] = Closed
    /\ \/ abs /\ Stop("destroyed directory")
       \/ /\ abs \/ IsDir(fs, wd)
          /\ fds' = [fds EXCEPT ![fd] = [Closed EXCEPT !.type = "null"]]
          /\ UNCHANGED <<fs, wd, halted, lost>>
    /\ UNCHANGED moved

sysclose(fd) ==
    /\ fds[fd] # Closed
    /\ fds' = [fds EXCEPT ![fd] = Closed]
    /\ lost' = lost \ {fd}
    /\ UNCHANGED <<fs, wd, halted, moved>>

\* The first use of a descriptor without a stream follows the null pointer.
UseNullStream(fd) == fds[fd].type = "null" /\ Stop("null stream") /\ UNCHANGED moved

\* The size that a stream sees.  The inode of a lost descriptor may be a directory
\* by now, whose block is longer than the positions here.
Length(n) == IF fs.kind[n] = "dir" THEN 2 * MaxSize ELSE fs.size[n]

\* BytesStream::read: the length is unsigned, and a descriptor behind the end
\* reads all it is asked for.  readaddr of a RamFS then stops the kernel; that of
\* ext2 reads what the blocks of the inode, or block 0, hold.
sysread(fd, count) ==
    /\ fds[fd].type = "file"
    /\ LET left   == Length(fds[fd].node) - fds[fd].addr
           toRead == IF left < 0 THEN count ELSE Min({count, left})
       IN  IF left < 0 /\ fds[fd].node[1] = Ram THEN Stop("readaddr")
           ELSE /\ fds[fd].addr + toRead <= 2 * MaxSize
                /\ fds' = [fds EXCEPT ![fd].addr = @ + toRead]
                /\ UNCHANGED <<fs, wd, halted, lost>>
    /\ UNCHANGED moved

\* BytesStream::write: a regular file grows, also one that was freed, or that has
\* the inode now.  (What becomes of a directory that has it is not followed.)
syswrite(fd, count) ==
    /\ fds[fd].type = "file"
    /\ IF fs.kind[fds[fd].node] = "dir" THEN Stop("directory written over")
       ELSE \E end \in {fds[fd].addr + count} :
              /\ end <= MaxSize
              /\ fs' = [fs EXCEPT !.size[fds[fd].node] = Max({@, end})]
              /\ fds' = [fds EXCEPT ![fd].addr = end]
              /\ UNCHANGED <<wd, halted, lost>>
    /\ UNCHANGED moved

\* Mutant of seek: a position behind the end is taken.
seekAnywhere(addr, size, pos) == pos
\* BytesStream::seek leaves the position alone when pos is behind the end;
\* sysseek returns pos all the same.
seek(addr, size, pos) == IF pos > size THEN addr ELSE pos
sysseek(fd, offset, whence) ==
    /\ fds[fd].type = "file"
    /\ LET size == Length(fds[fd].node)
           pos  == offset + CASE whence = "set" -> 0 [] whence = "cur" -> fds[fd].addr
                              [] whence = "end" -> size
       IN  /\ pos >= 0
           /\ fds' = [fds EXCEPT ![fd].addr = seek(@, size, pos)]
    /\ UNCHANGED <<fs, wd, halted, moved, lost>>

-----------------------------------------------------------------------------
(***************************************************************************)
(* Names: syschdir, sysmkdir, sysrmdir, syslink, sysunlink and sysrename.  *)
(***************************************************************************)
\* "/" and "" give an object that is destroyed, by the time of the test of its
\* type or when it takes the place of itself: _wd then names no object.
syschdir(p) ==
    /\ \/ /\ p.dirs # <<>> /\ IsDir(fs, Resolve(p))
          /\ wd' = Resolve(p)
          /\ UNCHANGED <<fs, fds, halted, lost>>
       \/ p.dirs = <<>> /\ p.abs /\ Stop("destroyed directory")
       \/ /\ p.dirs = <<>>
          /\ wd' = Null
          /\ UNCHANGED <<fs, fds, halted, lost>>
    /\ UNCHANGED moved

\* Each d and c is the parent that a path gives.
sysmkdir(d, name) ==
    /\ Lookup(fs, d, name) = Null /\ FreeInos(fs, d[1]) # {}
    /\ \E v \in {Create(fs, d, name, "dir")} : Change(v)
    /\ UNCHANGED moved

\* What is looked at is what is mounted, what is removed is what is covered.
sysrmdir(d, name) ==
    /\ LET n == Lookup(fs, d, name) IN IsDir(fs, n) /\ isEmpty(fs, n)
    /\ IF IsDir(fs, Child(fs, d, name))
       THEN \E v \in {removeDirectory(fs, d, name)} : Change(v)
       ELSE Stop("removeDirectory of a file")
    /\ UNCHANGED moved

\* -EXDEV: the file is not on the device of the directory it shall be put in.
\* Mutant of SameDevice: any two devices are the same.
AnyDevice(n, d)  == TRUE
SameDevice(n, d) == n[1] = d[1]
\* The file n is that of a whole path.
syslink(n, d, name) ==
    /\ IsReg(fs, n) /\ SameDevice(n, d) /\ Lookup(fs, d, name) = Null
    /\ \E v \in {addEntry(fs, d, name, n)} : Change(v)
    /\ UNCHANGED moved

sysunlink(d, name) ==
    /\ IsReg(fs, Lookup(fs, d, name))
    /\ \E v \in {removeEntry(fs, d, name)} : Change(v)
    /\ UNCHANGED moved

sysrename(c, name1, d, name) ==
    /\ Lookup(fs, d, name) = Null
    /\ LET n == Lookup(fs, c, name1)
       IN  \/ n = Null /\ Stop("rename of a name that is not there") /\ UNCHANGED moved
           \/ /\ n # Null /\ SameDevice(n, d)
              /\ \E v \in {IF IsDir(fs, n)
                           THEN addEntry(removeEntry(fs, c, name1), d, name, n)
                           ELSE removeEntry(addEntry(fs, d, name, n), c, name1)} :
                    Change(v)
              /\ moved' = IF n[1] = Ram THEN moved \cup {n} ELSE moved

-----------------------------------------------------------------------------
Next ==
    /\ halted = "no"
    /\ \/ \E fd \in Fd, p \in Path, name \in Name, creat \in BOOLEAN :
              sysopen(fd, p, name, creat)
       \/ badWd
       \/ \E fd \in Fd :
             \/ \E abs \in BOOLEAN : sysopenDir(fd, abs)
             \/ sysclose(fd)
             \/ UseNullStream(fd)
             \/ \E count \in 1..MaxSize : sysread(fd, count) \/ syswrite(fd, count)
             \/ \E offset \in -1..1, whence \in {"set", "cur", "end"} :
                    sysseek(fd, offset, whence)
       \/ \E p \in Path : syschdir(p)
       \/ \E d \in Parents, name \in Name :
             \/ sysmkdir(d, name) \/ sysrmdir(d, name) \/ sysunlink(d, name)
             \/ \E n \in {Whole(p, m) : p \in Path, m \in Name} : syslink(n, d, name)
             \/ \E c \in Parents, name1 \in Name : sysrename(c, name1, d, name)
Spec == Init /\ [][Next]_vars

-----------------------------------------------------------------------------
TypeOK ==
    /\ fs.kind \in [Node -> {"free", "reg", "dir"}]
    /\ fs.size \in [Node -> 0..MaxSize]
    /\ \A n \in Node : fs.nlink[n] \in Nat
    /\ fds \in [Fd -> [type : {"empty", "file", "null"}, node : Node \cup {Null},
                     addr : 0..2 * MaxSize]]
    /\ wd \in Node \cup {Null} /\ lost \subseteq Fd

\* Every name in a directory is that of a file of the same device that has not
\* been freed, and its link count is at least the number of its names: exactly
\* that on the ext2 volume.  The -EXDEV test of sysrename looks at the file and
\* the directory it goes to; sysunlink and sysrmdir remove by name.
NamesOf(n) == {x \in Node \X (Name \cup {".", "..", "hello"}) :
                  /\ fs.kind[x[1]] = "dir" /\ x[2] \in DOMAIN fs.ents[x[1]]
                  /\ fs.ents[x[1]][x[2]] = n}
EntriesSound ==
    /\ TypeOK
    /\ \A d \in Node : fs.kind[d] = "dir" =>
          \A name \in DOMAIN fs.ents[d] :
             LET n == fs.ents[d][name] IN n[1] = d[1] /\ fs.kind[n] # "free"
    /\ \A n \in Node : fs.kind[n] # "free" =>
          /\ fs.nlink[n] >= Cardinality(NamesOf(n))
          /\ n[1] = Disk => fs.nlink[n] = Cardinality(NamesOf(n))

\* Going down to a directory and up again by ".." leads back, across the mount
\* point too, and a listing shows the inode that the name leads to: the lookups
\* of VFS::Directory are keyed by device and inode.  A RamFS keeps the old ".."
\* of a directory that is renamed (moved), and /tmp may be removed while the
\* RamFS on it is empty.
PathsAgree ==
    fs.kind[TmpDir] = "dir" =>
    \A d \in Node : fs.kind[d] = "dir" =>
       \A name \in DOMAIN fs.ents[d] : LET n == Lookup(fs, d, name) IN
          /\ name \notin {".", ".."} /\ IsDir(fs, n) /\ n \notin moved => Lookup(fs, n, "..") = d
          /\ n # Null => ReadIno(fs, d, name) = n[2]

\* No descriptor of a file that was not freed stands behind its end, so that the
\* unsigned length of BytesStream::read does not wrap: several descriptors read,
\* write and seek in the same file, under several names of it, while others are
\* removed and their inodes used again.
OffsetsInside ==
    /\ halted # "readaddr"
    /\ \A k \in Fd \ lost :
          fds[k].type = "file" => fds[k].addr <= fs.size[fds[k].node]
==============================================================================
