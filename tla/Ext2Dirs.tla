------------------------------ MODULE Ext2Dirs ------------------------------
(***************************************************************************)
(* The directories of the ext2 driver (src/src/HDD/Ext2.cpp) under the     *)
(* system calls that change them (src/src/User/Syscalls.cpp).  A directory *)
(* is a chain of records packed in blocks; a record has a header of 8      *)
(* bytes and a name, and its rec_len leads to the next one.  Positions are *)
(* bytes, as in the code.  That the bytes of an inode are kept is the      *)
(* subject of Ext2; here a directory is a function from the positions      *)
(* where a header was written to the record there.                         *)
(***************************************************************************)
EXTENDS Integers, FiniteSets, Sequences, FiniteSetsExt, SequencesExt

CONSTANTS BlockSize,   \* _fs->_blockSize
          Name,        \* the names system calls use, "." and ".." excepted
          NameLen,     \* NameLen[n]: the length of a name, "." and ".." included
          NInodes,     \* inodes of the volume
          NDirect,     \* data blocks of an inode before the first indirect one
          MaxBlocks    \* bound: blocks of a directory, inside its first indirect one

Root   == 1
Inode  == 1..NInodes
Header == 8            \* sizeof(DirectoryEntry)
AlignUp(n, k) == ((n + k - 1) \div k) * k

VARIABLES
    mode,    \* mode[i]: "free", "reg" or "dir"
    links,   \* links[i]: links_count
    blocks,  \* blocks[i]: blocks of a directory, the indirect one included
    recs,    \* recs[i]: position -> record of a directory
    dirCount,\* the sum of used_dirs_count
    panic,   \* why the kernel stopped: "no", "impossible" or "past the end"
             \* (addEntry), "endless" (read)
    names,   \* names[i]: what the names of a directory stand for (ghost)
    exposed, \* a record placed last ends before the last block (ghost)
    doubled  \* a name was added to a directory that had it (ghost)
vars == <<mode, links, blocks, recs, dirCount, panic, names, exposed, doubled>>

NoRecs == <<>>
Vol == [mode |-> mode, links |-> links, blocks |-> blocks, recs |-> recs,
        dirCount |-> dirCount, stop |-> "no", exposed |-> FALSE]

-----------------------------------------------------------------------------
\* The code takes _data.blocks*512 for the length of a directory, but _data.blocks
\* counts the indirect block too, which exists from NDirect + 1 data blocks on.
AllBlocks(data)  == IF data > NDirect THEN data + 1 ELSE data
DataBlocks(v, d) == IF v.blocks[d] > NDirect THEN v.blocks[d] - 1 ELSE v.blocks[d]
Length(v, d)     == v.blocks[d] * BlockSize

\* Reading a chain: the positions of the records from p on.
RECURSIVE Chain(_, _, _)
Chain(v, d, p) ==
    IF p \notin DOMAIN v.recs[d] \/ p >= Length(v, d) THEN <<>>
    ELSE <<p>> \o Chain(v, d, p + v.recs[d][p].rec_len)

\* Behind the data, but inside the length, read finds block 0 of the volume, the
\* boot block of zeros: an entry of inode 0, which it skips, with a rec_len of 0.
\* A walk through the whole chain does not return then.
Endless(v, d) ==
    LET last == Last(Chain(v, d, 0)) IN last + v.recs[d][last].rec_len < Length(v, d)

\* Directory::operator[] : the last record with the name; 0 when there is none.
Lookup(v, d, name) ==
    LET found == SelectSeq(Chain(v, d, 0), LAMBDA p : v.recs[d][p].name = name)
    IN  IF found = <<>> THEN 0 ELSE v.recs[d][Last(found)].ino

\* Writing a header and a name at p: what was there before is overwritten.
Extent(r) == Header + NameLen[r.name]
PutRecord(v, d, p, r) ==
    LET kept == {q \in DOMAIN v.recs[d] :
                    q + Extent(v.recs[d][q]) <= p \/ p + Extent(r) <= q}
    IN  [v EXCEPT !.recs[d] = [q \in kept \cup {p} |-> IF q = p THEN r ELSE @[q]],
                  !.blocks[d] = Max({@, AllBlocks(AlignUp(p + Extent(r), BlockSize) \div BlockSize)})]
\* Writing back only a header whose rec_len changed.
SetRecLen(v, d, p, n) == [v EXCEPT !.recs[d][p].rec_len = n]

-----------------------------------------------------------------------------
link(v, i) == [v EXCEPT !.links[i] = @ + 1]

\* Inode::unlink: the last link frees the blocks and the inode.
unlink(v, i) ==
    IF v.links[i] # 1 THEN [v EXCEPT !.links[i] = @ - 1]
    ELSE [v EXCEPT !.links[i] = 0, !.mode[i] = "free", !.blocks[i] = 0,
                   !.recs[i] = NoRecs,
                   !.dirCount = IF v.mode[i] = "dir" THEN @ - 1 ELSE @]

\* Where addEntry puts a record of `needed` bytes: the first record of the
\* chain with room behind it, or the last one, which may be extended to a new
\* block.  A header and its name never lie on two blocks.  The record placed
\* behind the last one ends with its own block: when removeEntry had merged
\* later blocks into the last record, what those blocks held is in the chain
\* again (exposed).
CurSize(r)     == AlignUp(Extent(r), 4)
AtEnd(v, d, p) == p + v.recs[d][p].rec_len >= Length(v, d)
\* Mutant of TargetPos: a header and its name may lie on two blocks.
TargetAnywhere(v, d, p, needed) == p + CurSize(v.recs[d][p])
TargetPos(v, d, p, needed) ==
    LET free == p + CurSize(v.recs[d][p])
    IN  IF free \div BlockSize = (free + needed) \div BlockSize
        THEN free ELSE AlignUp(free, BlockSize)
HasRoom(v, d, p, needed) ==
    LET r == v.recs[d][p] IN
    \/ AtEnd(v, d, p)
    \/ /\ needed < r.rec_len - CurSize(r)
       /\ \/ TargetPos(v, d, p, needed) = p + CurSize(r)
          \/ TargetPos(v, d, p, needed) + needed < p + r.rec_len

\* (Without room in an endless directory, the size of what is free behind the data
\* wraps and something is written there: the model ends.)
PlaceRecord(v, d, name, i) ==
    LET needed == Header + NameLen[name]
        room   == SelectSeq(Chain(v, d, 0), LAMBDA p : HasRoom(v, d, p, needed))
    IN  IF room = <<>>
        THEN [v EXCEPT !.stop = IF Endless(v, d) THEN "past the end" ELSE "impossible"]
        ELSE LET cur    == Head(room)
                 next   == cur + v.recs[d][cur].rec_len
                 target == TargetPos(v, d, cur, needed)
                 len    == IF AtEnd(v, d, cur)
                           THEN AlignUp(target + needed, BlockSize) - target
                           ELSE next - target
                 put    == PutRecord(v, d, target, [ino |-> i, rec_len |-> len,
                                     name |-> name, type |-> v.mode[i]])
             IN  [SetRecLen(put, d, cur, target - cur) EXCEPT
                     !.exposed = @ \/ (AtEnd(v, d, cur) /\
                                       target + len < DataBlocks(put, d) * BlockSize)]

\* Directory::addEntry(name, file): a directory first gets its "..", which
\* links the parent; then the file is linked and recorded.
addEntry(v, d, name, i) ==
    LET up == IF v.mode[i] = "dir"
              THEN PlaceRecord(link(v, d), i, "..", d) ELSE v
    IN  PlaceRecord(link(up, i), d, name, i)

\* The removal of the first record with a name: its space goes to the record
\* before it.
FirstNamed(v, d, name) ==
    LET chain == Chain(v, d, 0)
    IN  Min({k \in DOMAIN chain : v.recs[d][chain[k]].name = name})
DropRecord(v, d, name) ==
    LET chain == Chain(v, d, 0)
        k     == FirstNamed(v, d, name)
        prev  == chain[k - 1]
    IN  SetRecLen(v, d, prev, v.recs[d][prev].rec_len + v.recs[d][chain[k]].rec_len)

\* Mutants of removeEntry: a directory keeps its ".."; the parent keeps the
\* link of the "..".
removeEntryOnly(v, d, name) ==
    DropRecord(unlink(v, v.recs[d][Chain(v, d, 0)[FirstNamed(v, d, name)]].ino), d, name)
removeEntryNoUnlink(v, d, name) ==
    LET i    == v.recs[d][Chain(v, d, 0)[FirstNamed(v, d, name)]].ino
        gone == unlink(v, i)
        up   == IF v.mode[i] = "dir" THEN DropRecord(gone, i, "..") ELSE gone
    IN  DropRecord(up, d, name)

\* Directory::removeEntry: unlink the file; a directory loses its "..", which
\* unlinks the parent; then the record goes.
removeEntry(v, d, name) ==
    LET i    == v.recs[d][Chain(v, d, 0)[FirstNamed(v, d, name)]].ino
        gone == unlink(v, i)
        up   == IF v.mode[i] = "dir"
                THEN DropRecord(unlink(gone, d), i, "..") ELSE gone
    IN  DropRecord(up, d, name)

\* Directory::deleteDir: every remaining entry is unlinked, until "." takes the
\* directory itself away.
RECURSIVE unlinkAll(_, _, _)
unlinkAll(v, i, inos) ==
    IF inos = <<>> \/ v.blocks[i] = 0 THEN v
    ELSE unlinkAll(unlink(v, Head(inos)), i, Tail(inos))
deleteDir(v, i) ==
    LET chain == Chain(v, i, 0)
    IN  unlinkAll(v, i, [k \in DOMAIN chain |-> v.recs[i][chain[k]].ino])

\* FS::getNewFile and FS::getNewDirectory with Directory::init: the lowest
\* free inode; a directory starts with one block that holds ".".
getNewInode(v, m) ==
    LET i == Min({j \in Inode : v.mode[j] = "free"})
    IN  [ino |-> i,
         vol |-> IF m = "reg" THEN [v EXCEPT !.mode[i] = m]
                 ELSE [v EXCEPT !.mode[i] = m, !.dirCount = @ + 1,
                          !.links[i] = 1, !.blocks[i] = 1,
                          !.recs[i] = 0 :> [ino |-> i, rec_len |-> BlockSize,
                                            name |-> ".", type |-> "dir"]]]

\* Directory::isEmpty: the names "." and ".." only.
isEmpty(v, i) ==
    LET chain == Chain(v, i, 0)
    IN  /\ Len(chain) <= 2
        /\ \A k \in 1..Len(chain) : v.recs[i][chain[k]].name \in {".", ".."}

-----------------------------------------------------------------------------
\* A fresh volume: a root directory with "." and "..", both itself.
Init ==
    /\ mode = [i \in Inode |-> IF i = Root THEN "dir" ELSE "free"]
    /\ links = [i \in Inode |-> IF i = Root THEN 2 ELSE 0]
    /\ blocks = [i \in Inode |-> IF i = Root THEN 1 ELSE 0]
    /\ recs = [i \in Inode |-> IF i # Root THEN NoRecs ELSE
           (0  :> [ino |-> Root, rec_len |-> 12, name |-> ".", type |-> "dir"]) @@
           (12 :> [ino |-> Root, rec_len |-> BlockSize - 12, name |-> "..", type |-> "dir"])]
    /\ dirCount = 1 /\ panic = "no"
    /\ names = [i \in Inode |-> <<>>] /\ exposed = FALSE /\ doubled = FALSE

Dir == {i \in Inode : mode[i] = "dir"}
\* The model ends with the first exposed block: the directory then holds
\* entries nobody added (see the finding in the README).  It ends also when a name
\* is there twice: operator[] then finds the last, removeEntry the first of the two.
Running == panic = "no" /\ ~exposed /\ ~doubled
\* A directory that can be searched.
Found(d) == d \in Dir /\ ~Endless(Vol, d)
\* Any call that searches or lists the other ones.
Search(d) ==
    /\ Running /\ d \in Dir /\ Endless(Vol, d)
    /\ panic' = "endless"
    /\ UNCHANGED <<mode, links, blocks, recs, dirCount, names, exposed, doubled>>

\* The volume an operation leaves and what its names stand for then; the volume of
\* a kernel that stops is not looked at.
Store(v, nm) ==
    /\ \A i \in Inode : v.blocks[i] <= MaxBlocks
    /\ panic' = v.stop
    /\ IF v.stop = "no"
       THEN /\ mode' = v.mode /\ links' = v.links /\ blocks' = v.blocks
            /\ recs' = v.recs /\ dirCount' = v.dirCount
            /\ names' = nm /\ exposed' = v.exposed
       ELSE UNCHANGED <<mode, links, blocks, recs, dirCount, names, exposed>>
Bind(nm, d, n, i) == [nm EXCEPT ![d] = [m \in DOMAIN @ \cup {n} |-> IF m = n THEN i ELSE @[m]]]
Unbind(nm, d, n)  == [nm EXCEPT ![d] = [m \in DOMAIN @ \ {n} |-> @[m]]]

\* sysopen with O_CREAT (m = "reg") and sysmkdir (m = "dir"), of a name that does
\* not exist in e.  open of "/n" searches the root, but makes n in the working
\* directory d, which may have the name; what it made it looks up again.
Create(e, d, n, m) ==
    /\ Running /\ Found(e) /\ d \in Dir /\ (e = d \/ (e = Root /\ m = "reg"))
    /\ Lookup(Vol, e, n) = 0
    /\ \E i \in Inode : mode[i] = "free"
    /\ \E new \in {getNewInode(Vol, m)} :
        \E v \in {addEntry(new.vol, d, n, new.ino)} :
            Store(IF v.stop = "no" /\ m = "reg" /\ Endless(v, d)
                  THEN [v EXCEPT !.stop = "endless"] ELSE v,
                  [Bind(names, d, n, new.ino) EXCEPT ![new.ino] = <<>>])
    /\ doubled' = (panic' = "no" /\ Lookup(Vol, d, n) # 0)

\* syslink: a second name for a regular file.
Link(d1, n1, d2, n2) ==
    /\ Running /\ Found(d1) /\ Found(d2)
    /\ Lookup(Vol, d2, n2) = 0
    /\ \E i \in {Lookup(Vol, d1, n1)} :
        /\ i # 0 /\ mode[i] = "reg"
        /\ \E v \in {addEntry(Vol, d2, n2, i)} :
              Store(v, Bind(names, d2, n2, i))
    /\ UNCHANGED doubled

\* sysunlink: of a regular file.
Unlink(d, n) ==
    /\ Running /\ Found(d)
    /\ \E i \in {Lookup(Vol, d, n)} :
        /\ i # 0 /\ mode[i] = "reg"
        /\ \E v \in {removeEntry(Vol, d, n)} :
              Store(v, Unbind(names, d, n))
    /\ UNCHANGED doubled

\* sysrmdir, which is removeDirectory: of an empty directory.
Rmdir(d, n) ==
    /\ Running /\ Found(d)
    /\ \E i \in {Lookup(Vol, d, n)} :
        /\ i # 0 /\ mode[i] = "dir" /\ Found(i) /\ isEmpty(Vol, i)
        /\ \E v \in {deleteDir(removeEntry(Vol, d, n), i)} :
              Store(v, Unbind(names, d, n))
    /\ UNCHANGED doubled

\* sysrename: a directory is removed before it is added, so that its ".." is
\* the new one; any other file is added first, so that its link count does not
\* drop to zero.  (A source that does not exist is the subject of Vfs.)
Rename(d1, n1, d2, n2) ==
    /\ Running /\ Found(d1) /\ Found(d2)
    /\ Lookup(Vol, d2, n2) = 0
    /\ \E i \in {Lookup(Vol, d1, n1)} :
        /\ i # 0
        /\ \E v \in {IF mode[i] = "dir"
                     THEN addEntry(removeEntry(Vol, d1, n1), d2, n2, i)
                     ELSE removeEntry(addEntry(Vol, d2, n2, i), d1, n1)} :
              Store(v, Bind(Unbind(names, d1, n1), d2, n2, i))
    /\ UNCHANGED doubled

Stopped == ~Running /\ UNCHANGED vars

Next ==
    \/ \E d \in Inode : Search(d)
    \/ \E d \in Inode, n \in Name : \/ \E e \in {d, Root}, m \in {"reg", "dir"} : Create(e, d, n, m)
                                    \/ Unlink(d, n)
                                    \/ Rmdir(d, n)
    \/ \E d1, d2 \in Inode, n1, n2 \in Name : \/ Link(d1, n1, d2, n2)
                                              \/ Rename(d1, n1, d2, n2)
    \/ Stopped

Spec == Init /\ [][Next]_vars

-----------------------------------------------------------------------------
\* The records of a directory, in order.
Records(d) ==
    LET chain == Chain(Vol, d, 0) IN [k \in DOMAIN chain |-> recs[d][chain[k]]]

TypeOK ==
    /\ mode \in [Inode -> {"free", "reg", "dir"}] /\ links \in [Inode -> Nat]
    /\ blocks \in [Inode -> Nat] /\ dirCount \in Nat
    /\ panic \in {"no", "impossible", "past the end", "endless"}
    /\ \A i \in Inode : \A p \in DOMAIN recs[i] : p \in Nat /\ p % 4 = 0

\* addEntry finds a place in every directory ("It should be impossible to get
\* here" is impossible), and the chain of a directory covers its blocks of data
\* exactly, beyond the direct ones too: it starts with ".", each rec_len leads to
\* a record that was written and not overwritten, each record has room for its
\* name, no header and name lie on two blocks, the last record ends with the last
\* block.  Entries of any length may come and go in any order: addEntry splits
\* what removeEntry merged, over block borders too.
ChainTiles ==
    TypeOK /\ panic # "impossible" /\ (exposed \/ \A d \in Dir :
        LET chain == Chain(Vol, d, 0) IN
        /\ chain # <<>> /\ recs[d][0].name = "."
        /\ LET last == Last(chain)
           IN  last + recs[d][last].rec_len = DataBlocks(Vol, d) * BlockSize
        /\ \A k \in DOMAIN chain :
            LET r == recs[d][chain[k]] IN
            /\ Extent(r) <= r.rec_len
            /\ chain[k] \div BlockSize = (chain[k] + Extent(r) - 1) \div BlockSize)

\* links_count is the number of records that name an inode, in all directories,
\* "." and ".." included; an inode nobody names is free and a record never
\* names a free inode or has another type than its inode; used_dirs_count
\* counts the directories.  Each operation links and unlinks parent, child and
\* file on its own, in an order of its own.
LinksExact ==
    exposed \/
    LET named == [d \in Dir |-> Records(d)]
        Count(i) == MapThenSumSet(
            LAMBDA d : Cardinality({k \in DOMAIN named[d] : named[d][k].ino = i}), Dir)
    IN  /\ \A i \in Inode : links[i] = Count(i) /\ (mode[i] = "free") = (links[i] = 0)
        /\ \A d \in Dir : \A k \in DOMAIN named[d] :
            named[d][k].type = mode[named[d][k].ino]
        /\ dirCount = Cardinality(Dir)

\* removeEntry is the reciprocal of addEntry: as long as no name was added twice, a
\* directory holds the names that were added and not removed, each once and for
\* its own file.
NamesExact ==
    doubled \/ \A d \in Dir :
        LET own == SelectSeq(Records(d), LAMBDA r : r.name \in Name)
        IN  /\ {<<own[k].name, own[k].ino>> : k \in DOMAIN own}
                 = {<<n, names[d][n]>> : n \in DOMAIN names[d]}
            /\ Len(own) = Cardinality(DOMAIN names[d])

\* A directory other than the root has one ".." entry, and it names the one
\* directory that has an entry for it: rename moves both together.
DotDotNamesParent ==
    doubled \/ \A d \in Dir \ {Root} :
        LET up == SelectSeq(Records(d), LAMBDA r : r.name = "..")
            parents == {e \in Dir : \E n \in DOMAIN names[e] : names[e][n] = d}
        IN  Len(up) = 1 /\ parents = {up[1].ino}

\* As long as no record was placed short of the last block and no name was added
\* twice, no sequence of additions, removals and renames makes a name disappear,
\* come back, or stand for another file, and the ".." of a directory follows it.
TreeKept == exposed \/ (NamesExact /\ DotDotNamesParent)
=============================================================================
